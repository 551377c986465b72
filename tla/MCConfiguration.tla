--------------------------- MODULE MCConfiguration ---------------------------
EXTENDS Configuration

CONSTANTS t1, t2

TwoThreads == {t1, t2}
=============================================================================
