----------------------------- MODULE ThreadProofs -----------------------------
(***************************************************************************)
(* Theorems about Thread, for any number of runs and of signals. IInv is   *)
(* inductive: its conjuncts other than TypeOK need each other.             *)
(***************************************************************************)
EXTENDS Thread, TLAPS

LEMMA InitIInv == Init => IInv
<1> SUFFICES ASSUME Init PROVE IInv
  OBVIOUS
<1>1. TypeOK
  BY DEF Init, TypeOK, Sigs
<1>2. ObjectMatchesRun /\ ObservesWhileStarted
  BY DEF Init, ObjectMatchesRun, ObservesWhileStarted
<1>3. RequestStands /\ ControlInv /\ Exact
  BY DEF Init, RequestStands, ControlInv, Exact
<1> QED
  BY <1>1, <1>2, <1>3 DEF IInv

\* The actions of the controlling thread and of the signals.
LEMMA ControlStep == IInv /\ (Control \/ Signal) => IInv'
<1> SUFFICES ASSUME IInv, Control \/ Signal PROVE IInv'
  OBVIOUS
<1> USE ThreadAssumption DEF ThreadAssumption, IInv, TypeOK, ObjectMatchesRun, ObservesWhileStarted,
    RequestStands, ControlInv, Exact, Sigs, Quitting, control
<1>1. CASE Start
  BY <1>1 DEF Start
<1>2. CASE StartObserve
  BY <1>2 DEF StartObserve
<1>3. CASE StartCreate
  BY <1>3 DEF StartCreate
<1>4. CASE Stop
  BY <1>4 DEF Stop
<1>5. CASE JoinOnly
  BY <1>5 DEF JoinOnly
<1>6. CASE Join
  BY <1>6 DEF Join
<1>7. CASE Unobserve
  BY <1>7 DEF Unobserve
<1>8. CASE Signal
  BY <1>8 DEF Signal
<1> QED
  BY <1>1, <1>2, <1>3, <1>4, <1>5, <1>6, <1>7, <1>8 DEF Control

\* The actions of the function's thread.
LEMMA RunStep == IInv /\ Run => IInv'
<1> SUFFICES ASSUME IInv, Run PROVE IInv'
  OBVIOUS
<1> USE ThreadAssumption DEF ThreadAssumption, IInv, TypeOK, ObjectMatchesRun, ObservesWhileStarted,
    RequestStands, ControlInv, Exact, Sigs, Quitting, control, TakeOne
<1>1. CASE Begin
  BY <1>1 DEF Begin
<1>2. CASE Check
  BY <1>2 DEF Check
<1>3. CASE Body
  BY <1>3 DEF Body
<1>4. CASE Poll
  BY <1>4 DEF Poll, Readable
<1>5. CASE Handle
  BY <1>5 DEF Handle
<1>6. CASE End
  BY <1>6 DEF End
<1> QED
  BY <1>1, <1>2, <1>3, <1>4, <1>5, <1>6 DEF Run

LEMMA StutterStep == IInv /\ UNCHANGED vars => IInv'
  BY DEF vars, IInv, TypeOK, ObjectMatchesRun, ObservesWhileStarted,
     RequestStands, ControlInv, Exact, Quitting

LEMMA NextStep == IInv /\ [Next]_vars => IInv'
  BY ControlStep, RunStep, StutterStep DEF Next

\* IInv holds at every step of Thread.
THEOREM Invariance == Spec => []IInv
  BY InitIInv, NextStep, PTL DEF Spec

\* A stopped Thread is not registered for signals any more.
THEOREM Observation == Spec => []ObservesWhileStarted
<1>1. IInv => ObservesWhileStarted
  BY DEF IInv
<1> QED
  BY <1>1, Invariance, PTL

\* No request to exit is lost, however Start, Stop, Run and signals interleave.
THEOREM NoRequestLost == Spec => []RequestStands
<1>1. IInv => RequestStands
  BY DEF IInv
<1> QED
  BY <1>1, Invariance, PTL

\* As long as no signal arrives and no function returns unasked, no run ends
\* because of a request that was made to another one.
THEOREM Restartable == Spec => RunNotCutShort
<1>1. IInv /\ [Next]_vars => [exit' < exit => asked > 0 \/ disturbed]_vars
  <2> SUFFICES ASSUME IInv, [Next]_vars, exit' < exit, ~disturbed PROVE asked > 0
    OBVIOUS
  <2>1. exit \in Nat /\ exit' \in Nat
    <3>1. IInv'
      BY NextStep
    <3> QED
      BY <3>1 DEF IInv, TypeOK
  <2> QED
    BY <2>1 DEF IInv, Exact
<1> QED
  BY <1>1, Invariance, PTL DEF Spec, RunNotCutShort
=============================================================================
