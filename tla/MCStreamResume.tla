--------------------------- MODULE MCStreamResume ---------------------------
EXTENDS StreamResume
=============================================================================
