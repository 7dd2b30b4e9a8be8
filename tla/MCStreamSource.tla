--------------------------- MODULE MCStreamSource ---------------------------
EXTENDS StreamSource

\* A block of one transaction, one of two and one without any.
Counts == <<1, 2, 0>>
=============================================================================
