CONSTANTS N = 4
SPECIFICATION FairSpec
INVARIANTS VerdictsSound NoPanic ReportedUpToConfirmed
PROPERTY DrainEnds
