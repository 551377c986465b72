---------------------------- MODULE MCFrameSocket ----------------------------
EXTENDS FrameSocket

CONSTANTS t1, t2, u1, c1

Threads == {t1, t2, u1}
OneConsumer == {c1}
=============================================================================
