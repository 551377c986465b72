----------------------------- MODULE MCEventBus ------------------------------
EXTENDS EventBus, TLC

CONSTANTS t1, t2, e1, h1, h2, o1, o2

TwoThreads == {t1, t2}
OneEvent == {e1}
TwoHandlers == {h1, h2}
TwoObservers == {o1, o2}
=============================================================================
