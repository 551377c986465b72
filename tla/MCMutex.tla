------------------------------ MODULE MCMutex -------------------------------
EXTENDS Mutex

CONSTANTS t1, t2, t3

ThreeThreads == {t1, t2, t3}
=============================================================================
