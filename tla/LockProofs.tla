------------------------------ MODULE LockProofs ------------------------------
(***************************************************************************)
(* Theorems about what is made of locks: zSem::Mutex, and a Configuration, *)
(* which has three of them.                                                *)
(***************************************************************************)
EXTENDS Mutex, Configuration, SequenceTheorems, TLAPS

(***************************************************************************)
(* Mutex keeps its promise for any set of threads and any nesting, as long *)
(* as no signal arrives at the two points where a handler breaks it.       *)
(***************************************************************************)
USE MutexAssumption DEF Frames

\* The mutex of Mutex::Mutex(UNLOCKED) satisfies the invariant.
LEMMA InitIInv == Init => IInv
BY DEF Init, IInv, TypeOK, ThreadInv, FrameInv, Points, Works, Owns, Working,
       Inside, Held

\* A step that only moves a frame between points where it holds nothing of the
\* timed_mutex, or that follows the test of the owner.
LEMMA MoveIInv ==
  ASSUME IInv, AsyncPoints \subseteq TakenPoints,
         NEW t \in Threads, NEW f \in Frames,
         \/ LockCheck(t, f) \/ TimedLock(t, f)
         \/ TimedFail(t, f) \/ UnlockCheck(t, f)
  PROVE  IInv'
<1> USE DEF IInv, TypeOK, ThreadInv, FrameInv, Points, TakenPoints, WaitPoints, Works,
           Owns, Working, Inside, Held, At, Goto, Move, Running
<1>1. CASE LockCheck(t, f)
  <2>1. CASE f = "main"
    BY <1>1, <2>1, SMTT(30) DEF LockCheck, Mine
  <2>2. CASE f = "sig"
    BY <1>1, <2>2, SMTT(30) DEF LockCheck, Mine
  <2> QED
    BY <2>1, <2>2
<1>2. CASE TimedLock(t, f)
  <2>1. CASE f = "main"
    BY <1>2, <2>1, SMTT(30) DEF TimedLock
  <2>2. CASE f = "sig"
    BY <1>2, <2>2, SMTT(30) DEF TimedLock
  <2> QED
    BY <2>1, <2>2
<1>3. CASE TimedFail(t, f)
  <2>1. CASE f = "main"
    BY <1>3, <2>1, SMTT(30) DEF TimedFail
  <2>2. CASE f = "sig"
    BY <1>3, <2>2, SMTT(30) DEF TimedFail
  <2> QED
    BY <2>1, <2>2
<1>4. CASE UnlockCheck(t, f)
  <2>1. CASE f = "main"
    BY <1>4, <2>1, SMTT(30) DEF UnlockCheck
  <2>2. CASE f = "sig"
    BY <1>4, <2>2, SMTT(30) DEF UnlockCheck
  <2> QED
    BY <2>1, <2>2
<1> QED
  BY <1>1, <1>2, <1>3, <1>4

\* The timed_mutex is taken: its taker is the only thread at work on the mutex.
LEMMA TakeIInv ==
  ASSUME IInv, NEW t \in Threads, NEW f \in Frames,
         LockAcquire(t, f) \/ TimedAcquire(t, f)
  PROVE  IInv'
BY DEF IInv, TypeOK, ThreadInv, FrameInv, Points, TakenPoints, WaitPoints, Works, Owns,
       Working, Inside, Held, At, Goto, Running, TakeInner,
       LockAcquire, TimedAcquire

LEMMA OwnIInv ==
  ASSUME IInv, NEW t \in Threads, NEW f \in Frames, LockOwn(t, f)
  PROVE  IInv'
BY DEF IInv, TypeOK, ThreadInv, FrameInv, Points, TakenPoints, WaitPoints, Works, Owns,
       Working, Inside, Held, At, Goto, Running, LockOwn

LEMMA CountIInv ==
  ASSUME IInv, NEW t \in Threads, NEW f \in Frames, LockCount(t, f)
  PROVE  IInv'
BY DEF IInv, TypeOK, ThreadInv, FrameInv, Points, TakenPoints, WaitPoints, Works, Owns,
       Working, Inside, Held, At, Goto, Running, LockCount

LEMMA DecIInv ==
  ASSUME IInv, NEW t \in Threads, NEW f \in Frames, UnlockDec(t, f)
  PROVE  IInv'
BY DEF IInv, TypeOK, ThreadInv, FrameInv, Points, TakenPoints, WaitPoints, Works, Owns,
       Working, Inside, Held, At, Goto, Running, LastUnlock, UnlockDec

LEMMA ClearIInv ==
  ASSUME IInv, NEW t \in Threads, NEW f \in Frames,
         UnlockClear(t, f) \/ UnlockRelease(t, f)
  PROVE  IInv'
BY DEF IInv, TypeOK, ThreadInv, FrameInv, Points, TakenPoints, WaitPoints, Works, Owns,
       Working, Inside, Held, At, Goto, Running, UnlockClear, UnlockRelease

LEMMA SignalIInv ==
  ASSUME IInv, AsyncPoints \subseteq TakenPoints, NEW t \in Threads,
         Signal(t) \/ SignalReturn(t)
  PROVE  IInv'
<1>1. CASE Signal(t)
  BY <1>1 DEF IInv, TypeOK, ThreadInv, FrameInv, Points, TakenPoints, WaitPoints, Works, Owns,
       Working, Inside, Held, Signal
<1>2. CASE SignalReturn(t)
  BY <1>2 DEF IInv, TypeOK, ThreadInv, FrameInv, Points, TakenPoints, WaitPoints, Works, Owns,
       Working, Inside, Held, SignalReturn
<1> QED
  BY <1>1, <1>2

\* The invariant holds in every state of every behaviour.
THEOREM Invariance ==
  ASSUME AsyncPoints \subseteq TakenPoints
  PROVE  Spec => []IInv
<1>1. Init => IInv
  BY InitIInv
<1>2. IInv /\ [Next]_vars => IInv'
  <2> SUFFICES ASSUME IInv, [Next]_vars PROVE IInv'
    OBVIOUS
  <2>1. CASE UNCHANGED vars
    BY <2>1 DEF vars, IInv, TypeOK, ThreadInv, FrameInv, Works, Owns, Working,
                Inside, Held
  <2>2. ASSUME NEW t \in Threads, NEW f \in Frames, Lock(t, f)
        PROVE  IInv'
    BY <2>2, MoveIInv, TakeIInv, OwnIInv, CountIInv DEF Lock
  <2>3. ASSUME NEW t \in Threads, NEW f \in Frames, Timed(t, f)
        PROVE  IInv'
    BY <2>3, MoveIInv, TakeIInv DEF Timed
  <2>4. ASSUME NEW t \in Threads, NEW f \in Frames, Unlock(t, f)
        PROVE  IInv'
    BY <2>4, MoveIInv, DecIInv, ClearIInv DEF Unlock
  <2>5. ASSUME NEW t \in Threads, Signal(t) \/ SignalReturn(t)
        PROVE  IInv'
    BY <2>5, SignalIInv
  <2> QED
    BY <2>1, <2>2, <2>3, <2>4, <2>5 DEF Next
<1> QED
  BY <1>1, <1>2, PTL DEF Spec

-----------------------------------------------------------------------------
\* What the invariant says of the callers, state by state.
LEMMA IInvHolderOwns == IInv => HolderOwns
BY DEF IInv, TypeOK, ThreadInv, HolderOwns, Works, Inside, Held, Owns

LEMMA IInvMutualExclusion == IInv => MutualExclusion
BY IInvHolderOwns DEF HolderOwns, MutualExclusion

LEMMA IInvWaits == IInv => WaitsForItselfInHandler
<1> SUFFICES ASSUME IInv, NEW t \in Threads, NEW f \in Frames, At(t, f, "acquire"), inner = t
             PROVE  f = "sig" /\ pc[t]["main"] \in WaitPoints
  BY DEF WaitsForItselfInHandler
<1>1. ~Inside(t)
  <2>1. CASE f = "sig"
    BY <2>1 DEF IInv, ThreadInv, At
  <2>2. CASE f = "main"
    BY <2>2 DEF IInv, ThreadInv, FrameInv, TypeOK, At, Running, Inside, Held
  <2> QED
    BY <2>1, <2>2
<1>2. PICK g \in Frames : Working(t, g)
  BY <1>1 DEF IInv, ThreadInv, Works
<1>3. g = "main" /\ f = "sig"
  BY <1>2 DEF Working, At, Running
<1> QED
  BY <1>1, <1>2, <1>3 DEF IInv, TypeOK, ThreadInv, FrameInv, At, Working, Inside, Held, TakenPoints, WaitPoints

LEMMA IInvFree == IInv => FreeWhenUnmatched
<1> SUFFICES ASSUME IInv, \A t \in Threads : Quiet(t) /\ ~Inside(t)
             PROVE  inner = NoThread /\ owner = NoThread /\ refcnt = 0
  BY DEF FreeWhenUnmatched
<1>1. \A t \in Threads : ~Works(t) /\ ~Owns(t)
  BY DEF Quiet, Works, Owns, Working
<1> QED
  BY <1>1 DEF IInv, TypeOK, ThreadInv

\* No two threads are inside at once, for any number of threads.
THEOREM MutexSafety ==
  ASSUME AsyncPoints \subseteq TakenPoints
  PROVE  Spec => []MutualExclusion
BY Invariance, IInvMutualExclusion, PTL

\* The thread inside is the owner, with the count of its unmatched Locks, so
\* none of its Unlocks is refused and the last one frees the mutex.
THEOREM OwnerAgreement ==
  ASSUME AsyncPoints \subseteq TakenPoints
  PROVE  Spec => []HolderOwns
BY Invariance, IInvHolderOwns, PTL

\* When all calls are matched the mutex is free: no release is lost.
THEOREM NoLostRelease ==
  ASSUME AsyncPoints \subseteq TakenPoints
  PROVE  Spec => []FreeWhenUnmatched
BY Invariance, IInvFree, PTL

\* Lock blocks on a mutex of its own thread nowhere but in a handler that came
\* while the timed_mutex was held without an owner.
THEOREM SelfWait ==
  ASSUME AsyncPoints \subseteq TakenPoints
  PROVE  Spec => []WaitsForItselfInHandler
BY Invariance, IInvWaits, PTL

-----------------------------------------------------------------------------
\* Every step of the fields is a step of the promised lock, or none at all:
\* the count goes from 0 to 1 only in the hands of a new owner.
LEMMA StepRefines ==
  ASSUME IInv, IInv', [Next]_vars
  PROVE  [Promise!AbsNext]_(Promise!absVars)
<1> USE DEF Promise!absVars
<1>1. CASE UNCHANGED <<owner, refcnt>>
  BY <1>1
<1>2. ASSUME NEW t \in Threads, NEW f \in Frames, LockOwn(t, f)
      PROVE  UNCHANGED Promise!absVars
  BY <1>2 DEF IInv, TypeOK, ThreadInv, FrameInv, LockOwn, At, Works, Working,
              Inside, Held
<1>3. ASSUME NEW t \in Threads, NEW f \in Frames, LockCount(t, f)
      PROVE  Promise!Acquire(t)
  BY <1>3 DEF IInv, TypeOK, ThreadInv, LockCount, At, Owns, Promise!Acquire
<1>4. ASSUME NEW t \in Threads, NEW f \in Frames, UnlockDec(t, f)
      PROVE  Promise!Release(t)
  BY <1>4 DEF IInv, TypeOK, ThreadInv, FrameInv, UnlockDec, At, Works, Working,
              Owns, Inside, Held, Promise!Release
<1>5. ASSUME NEW t \in Threads, NEW f \in Frames, UnlockClear(t, f)
      PROVE  UNCHANGED Promise!absVars
  BY <1>5 DEF IInv, TypeOK, ThreadInv, FrameInv, UnlockClear, At, Works, Working,
              Inside, Held
<1> QED
  BY <1>1, <1>2, <1>3, <1>4, <1>5
     DEF Next, vars, Lock, Timed, Unlock, LockCheck, LockAcquire, TimedLock,
         TimedAcquire, TimedFail, TakeInner, Move, UnlockCheck, UnlockRelease,
         Signal, SignalReturn, Promise!AbsNext

\* The three fields of zSem::Mutex implement the recursive lock of its
\* interface, for any number of threads.
THEOREM Refinement ==
  ASSUME AsyncPoints \subseteq TakenPoints
  PROVE  Spec => ImplementsRecursiveLock
<1>1. Init => Promise!AbsInit
  BY DEF Init, Promise!AbsInit
<1>2. IInv /\ IInv' /\ [Next]_vars => [Promise!AbsNext]_(Promise!absVars)
  BY StepRefines
<1> QED
  BY <1>1, <1>2, Invariance, PTL DEF Spec, ImplementsRecursiveLock, Promise!AbsSpec

HIDE MutexAssumption DEF Frames

(***************************************************************************)
(* A Configuration tells whether it was modified, and its file has what    *)
(* was committed, for any set of users, of members and length of trees.    *)
(* First lists of steps; then where in a call a user is after each step;   *)
(* that every call begins at such a place; and the invariant.              *)
(***************************************************************************)
USE ConfigurationAssumption

-----------------------------------------------------------------------------
(* Lists of steps *)

\* The steps of q have the properties of those of S.
LEMMA SeqIs ==
  ASSUME NEW S, NEW q \in Seq(S)
  PROVE  Len(q) \in Nat /\ DOMAIN q = 1..Len(q) /\ \A k \in DOMAIN q : q[k] \in S
OBVIOUS

LEMMA SeqIn ==
  ASSUME NEW S, NEW T, NEW q \in Seq(S), \A k \in DOMAIN q : q[k] \in T
  PROVE  q \in Seq(T)
OBVIOUS

LEMMA ConcatIn ==
  ASSUME NEW S, NEW q \in Seq(S), NEW r \in Seq(S)
  PROVE  /\ q \o r \in Seq(S) /\ Len(q \o r) = Len(q) + Len(r)
         /\ \A k \in 1..Len(q) : (q \o r)[k] = q[k]
         /\ \A k \in 1..Len(r) : (q \o r)[Len(q) + k] = r[k]
OBVIOUS

LEMMA TailIs ==
  ASSUME NEW S, NEW q \in Seq(S), q # << >>
  PROVE  /\ Tail(q) \in Seq(S) /\ Len(q) \in Nat /\ Len(q) > 0 /\ Len(Tail(q)) = Len(q) - 1
         /\ Head(q) = q[1] /\ Head(q) \in S
         /\ \A k \in 1..(Len(q) - 1) : Tail(q)[k] = q[k + 1]
<1>1. Len(q) \in Nat /\ Len(q) > 0 /\ DOMAIN q = 1..Len(q)
  OBVIOUS
<1>2. Tail(q) \in Seq(S) /\ Len(Tail(q)) = Len(q) - 1
  OBVIOUS
<1>3. \A k \in 1..(Len(q) - 1) : Tail(q)[k] = q[k + 1]
  BY <1>1
<1>4. Head(q) = q[1] /\ Head(q) \in S
  BY <1>1
<1> QED
  BY <1>1, <1>2, <1>3, <1>4

\* A step in the lock m: what comes first, then, and last.
LEMMA LockedIs ==
  ASSUME NEW S, NEW m, NEW q \in Seq(S),
         [do |-> "lock", on |-> m] \in S, [do |-> "unlock", on |-> m] \in S
  PROVE  LET r == Locked(m, q)  l == Tail(r) IN
         /\ r \in Seq(S) /\ r # << >> /\ r[1] = [do |-> "lock", on |-> m]
         /\ l \in Seq(S) /\ Len(l) = Len(q) + 1 /\ l[Len(l)] = [do |-> "unlock", on |-> m]
         /\ \A k \in 1..Len(q) : l[k] = q[k]
<1> DEFINE a == [do |-> "lock", on |-> m]  b == [do |-> "unlock", on |-> m]
           l == q \o <<b>>
<1>1. <<a>> \in Seq(S) /\ <<b>> \in Seq(S) /\ Len(<<b>>) = 1 /\ <<b>>[1] = b
      /\ Len(<<a>>) = 1 /\ <<a>>[1] = a
  OBVIOUS
<1>2. Locked(m, q) = <<a>> \o l
  <2>1. Locked(m, q) = <<a>> \o q \o <<b>>
    BY DEF Locked, LockOf, UnlockOf
  <2> QED
    BY <2>1, <1>1, ConcatAssociative
<1> HIDE DEF a, b
<1>3. /\ l \in Seq(S) /\ Len(l) = Len(q) + 1 /\ l[Len(l)] = b
      /\ \A k \in 1..Len(q) : l[k] = q[k]
  BY <1>1
<1> HIDE DEF l
<1>4. Tail(<<a>> \o l) = l /\ (<<a>> \o l)[1] = a /\ <<a>> \o l # << >> /\ <<a>> \o l \in Seq(S)
  <2>1. <<a>> \o l \in Seq(S) /\ Len(<<a>> \o l) = Len(l) + 1 /\ (<<a>> \o l)[1] = a
    BY <1>1, <1>3
  <2>2. \A k \in 1..Len(l) : (<<a>> \o l)[k + 1] = l[k]
    BY <1>1, <1>3
  <2>3. <<a>> \o l # << >>
    BY <2>1
  <2>4. /\ Tail(<<a>> \o l) \in Seq(S) /\ Len(Tail(<<a>> \o l)) = Len(l)
        /\ \A k \in 1..Len(l) : Tail(<<a>> \o l)[k] = l[k]
    BY <2>1, <2>2, <2>3, <1>3, TailIs
  <2> QED
    BY <2>1, <2>3, <2>4, <1>3, SeqEqual
<1> QED
  BY <1>2, <1>3, <1>4 DEF a, b

\* The same by the places of r.
LEMMA LockedAt ==
  ASSUME NEW S, NEW m, NEW q \in Seq(S),
         [do |-> "lock", on |-> m] \in S, [do |-> "unlock", on |-> m] \in S
  PROVE  LET r == Locked(m, q) IN
         /\ r \in Seq(S) /\ Len(r) = Len(q) + 2 /\ r[1] = [do |-> "lock", on |-> m]
         /\ r[Len(q) + 2] = [do |-> "unlock", on |-> m]
         /\ \A k \in 1..Len(q) : r[k + 1] = q[k]
<1> DEFINE r == Locked(m, q)
<1>1. /\ r \in Seq(S) /\ r # << >> /\ r[1] = [do |-> "lock", on |-> m]
      /\ Len(Tail(r)) = Len(q) + 1 /\ Tail(r)[Len(q) + 1] = [do |-> "unlock", on |-> m]
      /\ \A k \in 1..Len(q) : Tail(r)[k] = q[k]
  BY LockedIs
<1> HIDE DEF r
<1>2. /\ Len(r) \in Nat /\ Len(Tail(r)) = Len(r) - 1 /\ Len(q) \in Nat
      /\ \A k \in 1..(Len(r) - 1) : Tail(r)[k] = r[k + 1]
  BY <1>1, TailIs
<1>3. Len(r) = Len(q) + 2 /\ (Len(q) + 1) + 1 = Len(q) + 2
  BY <1>1, <1>2
<1>4. r[Len(q) + 2] = [do |-> "unlock", on |-> m]
  <2>1. Len(q) + 1 \in 1..(Len(r) - 1)
    BY <1>2, <1>3
  <2>2. Tail(r)[Len(q) + 1] = r[(Len(q) + 1) + 1]
    BY <2>1, <1>2
  <2> QED
    BY <2>2, <1>1, <1>3
<1>5. \A k \in 1..Len(q) : r[k + 1] = q[k]
  BY <1>1, <1>2, <1>3
<1> QED
  BY <1>1, <1>3, <1>4, <1>5 DEF r

-----------------------------------------------------------------------------
(* Where a thread is after a step of its call *)

LEMMA StepFields ==
  /\ \A s \in LockSteps : s.do \in {"lock", "unlock"} /\ s.on \in Trees
  /\ \A d \in Trees : \A s \in ChangeSteps(d) :
       /\ s.do \in {"copy", "append", "put", "del"} /\ s.to = d
       /\ s.do \in {"copy", "append"} => s.from \in Trees
       /\ s.do = "put" => s.value \in Vals
  /\ \A s \in QuietSteps : s \in LockSteps \/ s.do = "ask" \/ s \in ChangeSteps("child")
  /\ \A s \in CopySteps :
       \/ s \in LockSteps
       \/ s.do = "compare"
       \/ s.do = "copy" /\ s.to = "staging" /\ s.from = "working"
       \/ s.do = "copy" /\ s.to = "working" /\ s.from = "staging"
  /\ \A s \in LoadSteps :
       \/ s \in LockSteps
       \/ s.do = "read"
       \/ s.do = "parse" /\ s.to = "staging"
  /\ LockConfig.do = "lock" /\ LockConfig.on = "config"
  /\ UnlockConfig.do = "unlock" /\ UnlockConfig.on = "config"
<1>1. \A s \in LockSteps : s.do \in {"lock", "unlock"} /\ s.on \in Trees
  BY DEF LockSteps
<1>2. \A d \in Trees : \A s \in ChangeSteps(d) :
        /\ s.do \in {"copy", "append", "put", "del"} /\ s.to = d
        /\ s.do \in {"copy", "append"} => s.from \in Trees
        /\ s.do = "put" => s.value \in Vals
  BY DEF ChangeSteps
<1>3. \A s \in QuietSteps : s \in LockSteps \/ s.do = "ask" \/ s \in ChangeSteps("child")
  BY DEF QuietSteps
<1>4. \A s \in CopySteps :
        \/ s \in LockSteps
        \/ s.do = "compare"
        \/ s.do = "copy" /\ s.to = "staging" /\ s.from = "working"
        \/ s.do = "copy" /\ s.to = "working" /\ s.from = "staging"
  BY DEF CopySteps
<1>5. \A s \in LoadSteps :
        \/ s \in LockSteps
        \/ s.do = "read"
        \/ s.do = "parse" /\ s.to = "staging"
  BY DEF LoadSteps
<1>6. /\ LockConfig.do = "lock" /\ LockConfig.on = "config"
      /\ UnlockConfig.do = "unlock" /\ UnlockConfig.on = "config"
  BY DEF LockConfig, UnlockConfig
<1> QED
  BY <1>1, <1>2, <1>3, <1>4, <1>5, <1>6

LEMMA EndingStep ==
  ASSUME NEW q \in Seq(Steps), NEW S, NEW x, Ending(q, S, x)
  PROVE  \/ q[1] \in S /\ Ending(Tail(q), S, x)
         \/ q[1] = [do |-> x] /\ Leaving(Tail(q))
<1>1. q # << >>
  BY DEF Ending
<1> DEFINE l == Tail(q)
<1>2. /\ l \in Seq(Steps) /\ Len(q) \in Nat /\ Len(q) > 1 /\ Len(l) = Len(q) - 1
      /\ \A k \in 1..(Len(q) - 1) : l[k] = q[k + 1]
  BY <1>1, TailIs DEF Ending
<1> HIDE DEF l
<1>3. q[Len(q)] = UnlockConfig /\ q[Len(q) - 1] = [do |-> x] /\ \A k \in 1..(Len(q) - 2) : q[k] \in S
  BY DEF Ending
<1>4. l[Len(l)] = UnlockConfig
  BY <1>2, <1>3
<1>5. CASE Len(q) = 2
  <2>1. q[1] = [do |-> x] /\ Len(l) = 1
    BY <1>2, <1>3, <1>5
  <2>2. \A k \in 1..(Len(l) - 1) : l[k] \in QuietSteps
    BY <2>1
  <2> QED
    BY <2>1, <2>2, <1>4 DEF Leaving, l
<1>6. CASE Len(q) > 2
  <2>1. l[Len(l) - 1] = [do |-> x] /\ Len(l) > 1 /\ q[1] \in S
    BY <1>2, <1>3, <1>6
  <2>2. ASSUME NEW k \in 1..(Len(l) - 2) PROVE l[k] \in S
    <3>1. k \in 1..(Len(q) - 1) /\ k + 1 \in 1..(Len(q) - 2)
      BY <1>2
    <3> QED
      BY <3>1, <1>2, <1>3
  <2>3. Ending(l, S, x)
    BY <2>1, <2>2, <1>4 DEF Ending
  <2> QED
    BY <2>1, <2>3 DEF l
<1> QED
  BY <1>2, <1>5, <1>6

LEMMA LeavingStep ==
  ASSUME NEW q \in Seq(Steps), Leaving(q)
  PROVE  \/ q[1] \in QuietSteps /\ Leaving(Tail(q))
         \/ q[1] = UnlockConfig /\ Tail(q) = << >>
<1>1. q # << >>
  BY DEF Leaving
<1> DEFINE l == Tail(q)
<1>2. /\ l \in Seq(Steps) /\ Len(q) \in Nat /\ Len(q) > 0 /\ Len(l) = Len(q) - 1
      /\ \A k \in 1..(Len(q) - 1) : l[k] = q[k + 1]
  BY <1>1, TailIs
<1> HIDE DEF l
<1>3. CASE Len(q) = 1
  <2>1. l = << >>
    BY <1>2, <1>3
  <2> QED
    BY <2>1, <1>3 DEF Leaving, l
<1>4. CASE Len(q) > 1
  BY <1>2, <1>4 DEF Leaving, l
<1> QED
  BY <1>2, <1>3, <1>4

LEMMA CopyingStep ==
  ASSUME NEW q \in Seq(Steps), Copying(q)
  PROVE  \/ q[1] \in CopySteps /\ Copying(Tail(q)) /\ (q[1].do = "compare" => Settling(Tail(q)))
         \/ q[1] = [do |-> "settle"] /\ Leaving(Tail(q))
<1> DEFINE l == Tail(q)
<1>1. Ending(q, CopySteps, "settle") /\ q # << >>
  BY DEF Copying, Ending
<1>2. /\ l \in Seq(Steps) /\ Len(q) \in Nat /\ Len(l) = Len(q) - 1 /\ Len(q) > 1
      /\ \A k \in 1..(Len(q) - 1) : l[k] = q[k + 1]
  BY <1>1, TailIs DEF Ending
<1>3. CASE q[1] \in CopySteps /\ Ending(l, CopySteps, "settle")
  <2>1. \A j, k \in 1..(Len(q) - 2) : j < k /\ q[j].do = "compare" => q[k] \in LockSteps
    BY DEF Copying
  <2> HIDE DEF l
  <2>2. \A j, k \in 1..(Len(l) - 2) : j < k /\ l[j].do = "compare" => l[k] \in LockSteps
    <3> SUFFICES ASSUME NEW j \in 1..(Len(l) - 2), NEW k \in 1..(Len(l) - 2), j < k, l[j].do = "compare"
                 PROVE  l[k] \in LockSteps
      OBVIOUS
    <3>1. j + 1 \in 1..(Len(q) - 2) /\ k + 1 \in 1..(Len(q) - 2) /\ j + 1 < k + 1
      BY <1>2
    <3>2. l[j] = q[j + 1] /\ l[k] = q[k + 1]
      BY <1>2
    <3> QED
      BY <3>1, <3>2, <2>1
  <2>3. q[1].do = "compare" => Settling(l)
    <3> SUFFICES ASSUME q[1].do = "compare" PROVE Settling(l)
      OBVIOUS
    <3>1. \A k \in 1..(Len(l) - 2) : l[k] \in LockSteps
      <4> SUFFICES ASSUME NEW k \in 1..(Len(l) - 2) PROVE l[k] \in LockSteps
        OBVIOUS
      <4>1. k + 1 \in 1..(Len(q) - 2) /\ 1 \in 1..(Len(q) - 2) /\ 1 < k + 1 /\ l[k] = q[k + 1]
        BY <1>2
      <4> QED
        BY <4>1, <2>1
    <3> QED
      BY <3>1, <1>3 DEF Settling, Ending
  <2> QED
    BY <2>2, <2>3, <1>3 DEF Copying, l
<1>4. CASE q[1] = [do |-> "settle"] /\ Leaving(l)
  BY <1>4
<1> QED
  BY <1>1, <1>3, <1>4, EndingStep

LEMMA QuietStep ==
  ASSUME NEW q \in Seq(Steps), q # << >>
  PROVE  /\ QuietCall(q) => q[1] \in QuietSteps /\ QuietCall(Tail(q))
         /\ Loading(q) => q[1] \in LoadSteps /\ Loading(Tail(q))
<1>1. /\ Tail(q) \in Seq(Steps) /\ Len(q) \in Nat /\ Len(Tail(q)) = Len(q) - 1 /\ Len(q) > 0
      /\ \A k \in 1..(Len(q) - 1) : Tail(q)[k] = q[k + 1]
  BY TailIs
<1>2. DOMAIN q = 1..Len(q) /\ DOMAIN Tail(q) = 1..(Len(q) - 1)
  BY <1>1
<1> QED
  BY <1>1, <1>2 DEF QuietCall, Loading

Writes == {"copy", "append", "put", "del"}
OnConfig(h) == h.do \in {"lock", "unlock"} /\ h.on = "config"

\* The place of a thread with the lock, by the step to come.
LEMMA PlaceWithLock ==
  ASSUME NEW q \in Seq(Steps), WithLock(q)
  PROVE  LET h == q[1]  l == Tail(q) IN
         /\ q # << >> /\ h.do \notin {"read", "open", "write", "parse"}
         /\ \/ h = UnlockConfig /\ l = << >>
            \/ WithLock(l) /\ ~OnConfig(h)
         /\ h.do \in Writes =>
              \/ h.to = "child"
              \/ h.to = "staging" /\ Changing(q) /\ Changing(l)
              \/ h.do = "copy" /\ {h.to, h.from} = {"staging", "working"}
         /\ h.do = "compare" => Settling(l)
<1>1. "config" \notin Trees /\ "child" \in Trees /\ "staging" \in Trees
  BY DEF Trees
<1>2. CASE Leaving(q)
  <2>1. q # << >>
    BY <1>2 DEF Leaving
  <2>2. CASE q[1] = UnlockConfig /\ Tail(q) = << >>
    BY <2>1, <2>2, StepFields DEF Writes
  <2>3. CASE q[1] \in QuietSteps /\ Leaving(Tail(q))
    BY <2>1, <2>3, <1>1, StepFields DEF WithLock, OnConfig, Writes
  <2> QED
    BY <2>2, <2>3, <1>2, LeavingStep
<1>3. CASE Changing(q)
  <2>1. q # << >>
    BY <1>3 DEF Changing, Ending
  <2>2. CASE q[1] \in LockSteps \cup ChangeSteps("staging") /\ Ending(Tail(q), LockSteps \cup ChangeSteps("staging"), "modify")
    <3>1. Changing(Tail(q))
      BY <2>2 DEF Changing
    <3> QED
      BY <2>1, <2>2, <3>1, <1>1, <1>3, StepFields DEF WithLock, OnConfig, Writes
  <2>3. CASE q[1] = [do |-> "modify"] /\ Leaving(Tail(q))
    BY <2>1, <2>3 DEF WithLock, OnConfig, Writes
  <2> QED
    BY <2>2, <2>3, <1>3, EndingStep DEF Changing
<1>4. CASE Copying(q)
  <2>1. q # << >>
    BY <1>4 DEF Copying, Ending
  <2>2. CASE q[1] \in CopySteps /\ Copying(Tail(q)) /\ (q[1].do = "compare" => Settling(Tail(q)))
    BY <2>1, <2>2, <1>1, StepFields DEF WithLock, OnConfig, Writes
  <2>3. CASE q[1] = [do |-> "settle"] /\ Leaving(Tail(q))
    BY <2>1, <2>3 DEF WithLock, OnConfig, Writes
  <2> QED
    BY <2>2, <2>3, <1>4, CopyingStep
<1> QED
  BY <1>2, <1>3, <1>4 DEF WithLock

\* The same without the lock.
LEMMA PlaceWithout ==
  ASSUME NEW q \in Seq(Steps), q # << >>, Without(q)
  PROVE  LET h == q[1]  l == Tail(q) IN
         /\ h.do \notin {"modify", "compare", "settle"}
         /\ \/ h = LockConfig /\ WithLock(l)
            \/ Without(l) /\ ~OnConfig(h)
         /\ h.do \in Writes => h.to = "child"
         /\ h.do = "parse" => h.to = "staging"
         /\ h.do = "write" => h.from = "working"
<1>1. "config" \notin Trees /\ "child" \in Trees /\ "staging" \in Trees
  BY DEF Trees
<1>2. Tail(q) \in Seq(Steps)
  BY TailIs
<1>3. CASE QuietCall(q)
  <2>1. q[1] \in QuietSteps /\ QuietCall(Tail(q))
    BY <1>3, QuietStep
  <2> QED
    BY <2>1, <1>1, StepFields DEF Without, OnConfig, Writes
<1>4. CASE Waiting(q)
  <2>1. q[1] = LockConfig /\ WithLock(Tail(q))
    BY <1>4 DEF Waiting
  <2> QED
    BY <2>1, StepFields DEF Writes
<1>5. CASE Loading(q)
  <2>1. q[1] \in LoadSteps /\ Loading(Tail(q))
    BY <1>5, QuietStep
  <2> QED
    BY <2>1, <1>1, StepFields DEF Without, OnConfig, Writes
<1>6. CASE Opening(q)
  BY <1>6 DEF Opening, Without, OnConfig, Writes
<1>7. CASE Writing(q)
  <2>1. Len(q) = 1 /\ q[1] = [do |-> "write", to |-> "file", from |-> "working"]
    BY <1>7 DEF Writing
  <2>2. Tail(q) = << >>
    <3>1. Len(Tail(q)) = 0
      BY <2>1, TailIs
    <3> QED
      BY <3>1, <1>2, EmptySeq
  <2>3. QuietCall(<< >>)
    BY DEF QuietCall
  <2>4. q[1].do = "write" /\ q[1].from = "working"
    BY <2>1
  <2>5. Without(Tail(q))
    BY <2>2, <2>3 DEF Without
  <2> QED
    BY <2>4, <2>5 DEF OnConfig, Writes
<1> QED
  BY <1>3, <1>4, <1>5, <1>6, <1>7 DEF Without

\* What a thread that is to modify, or to settle, does before.
LEMMA PlaceBefore ==
  ASSUME NEW q \in Seq(Steps), q # << >>
  PROVE  LET h == q[1]  l == Tail(q) IN
         /\ Changing(q) =>
              \/ h.do \in {"lock", "unlock"} /\ h.on # "config" /\ Changing(l)
              \/ h.do \in Writes /\ h.to = "staging" /\ Changing(l)
              \/ h.do = "modify"
         /\ Settling(q) =>
              \/ h.do \in {"lock", "unlock"} /\ h.on # "config" /\ Settling(l)
              \/ h.do = "settle"
<1>1. "config" \notin Trees /\ "staging" \in Trees
  BY DEF Trees
<1>2. ASSUME Changing(q)
      PROVE  \/ q[1] \in LockSteps \cup ChangeSteps("staging") /\ Changing(Tail(q))
             \/ q[1] = [do |-> "modify"]
  BY <1>2, EndingStep DEF Changing
<1>3. ASSUME Settling(q)
      PROVE  \/ q[1] \in LockSteps /\ Settling(Tail(q))
             \/ q[1] = [do |-> "settle"]
  BY <1>3, EndingStep DEF Settling
<1> QED
  BY <1>1, <1>2, <1>3, StepFields DEF Writes

-----------------------------------------------------------------------------
(* The calls *)

\* The steps of an operation of a Data are among S, and so are its locks.
LEMMA DataIn ==
  ASSUME NEW S, LockSteps \subseteq S, NEW m \in Trees, NEW q \in Seq(S)
  PROVE  Locked(m, q) \in Seq(S)
<1>1. [do |-> "lock", on |-> m] \in S /\ [do |-> "unlock", on |-> m] \in S
  BY DEF LockSteps
<1> QED
  BY <1>1, LockedIs

\* A call with the lock of the Configuration waits for it, and then is at q.
LEMMA ConfigLocked ==
  ASSUME NEW q \in Seq(Steps)
  PROVE  LET r == Locked("config", q)  l == Tail(r) IN
         /\ r \in Seq(Steps) /\ r # << >> /\ r[1] = LockConfig
         /\ l \in Seq(Steps) /\ Len(l) = Len(q) + 1 /\ l[Len(l)] = UnlockConfig
         /\ \A k \in 1..Len(q) : l[k] = q[k]
<1>1. /\ [do |-> "lock", on |-> "config"] \in Steps /\ [do |-> "unlock", on |-> "config"] \in Steps
  BY DEF Steps, LockConfig, UnlockConfig
<1> QED
  BY <1>1, LockedIs DEF LockConfig, UnlockConfig

LEMMA QuietFits ==
  ASSUME NEW q \in Seq(QuietSteps)
  PROVE  Locked("config", q) \in Seq(Steps) /\ Waiting(Locked("config", q))
<1>1. q \in Seq(Steps) /\ \A k \in 1..Len(q) : q[k] \in QuietSteps
  BY SeqMonotonic DEF Steps
<1>2. Leaving(Tail(Locked("config", q)))
  <2> DEFINE l == Tail(Locked("config", q))
  <2>1. /\ Len(l) = Len(q) + 1 /\ l[Len(l)] = UnlockConfig /\ Len(q) \in Nat
        /\ \A k \in 1..Len(q) : l[k] = q[k]
    BY <1>1, ConfigLocked
  <2> HIDE DEF l
  <2>2. Len(l) > 0 /\ Len(l) - 1 = Len(q)
    BY <2>1
  <2>3. Leaving(l)
    BY <2>1, <2>2, <1>1 DEF Leaving
  <2> QED
    BY <2>3 DEF l
<1> QED
  BY <1>1, <1>2, ConfigLocked DEF Waiting, WithLock

\* x and the end of the call come after q.
LEMMA EndingFits ==
  ASSUME NEW S, S \subseteq Steps, NEW q \in Seq(S), NEW x \in {"modify", "settle"}
  PROVE  LET r == Locked("config", q \o Do(x)) IN
         /\ r \in Seq(Steps) /\ r # << >> /\ r[1] = LockConfig
         /\ Ending(Tail(r), S, x) /\ Len(Tail(r)) = Len(q) + 2
         /\ \A k \in 1..Len(q) : Tail(r)[k] = q[k]
<1> DEFINE p == q \o Do(x)  r == Locked("config", p)
<1>1. q \in Seq(Steps) /\ Len(q) \in Nat /\ \A k \in 1..Len(q) : q[k] \in S
  BY SeqMonotonic
<1>2. [do |-> x] \in Steps
  BY DEF Steps
<1>3. /\ p \in Seq(Steps) /\ Len(p) = Len(q) + 1 /\ p[Len(p)] = [do |-> x]
      /\ \A k \in 1..Len(q) : p[k] = q[k]
  <2> DEFINE d == Do(x)
  <2>1. d \in Seq(Steps) /\ Len(d) = 1 /\ d[1] = [do |-> x]
    BY <1>2 DEF Do
  <2> HIDE DEF d
  <2>2. /\ q \o d \in Seq(Steps) /\ Len(q \o d) = Len(q) + Len(d)
        /\ \A k \in 1..Len(q) : (q \o d)[k] = q[k]
        /\ \A k \in 1..Len(d) : (q \o d)[Len(q) + k] = d[k]
    BY <1>1, <2>1, ConcatIn
  <2>3. (q \o d)[Len(q) + 1] = d[1]
    BY <2>1, <2>2
  <2> QED
    BY <2>1, <2>2, <2>3 DEF d
<1> HIDE DEF p
<1>4. /\ r \in Seq(Steps) /\ r # << >> /\ r[1] = LockConfig
      /\ Tail(r) \in Seq(Steps) /\ Len(Tail(r)) = Len(p) + 1 /\ Tail(r)[Len(Tail(r))] = UnlockConfig
      /\ \A k \in 1..Len(p) : Tail(r)[k] = p[k]
  BY <1>3, ConfigLocked
<1> HIDE DEF r
<1>5. Len(Tail(r)) = Len(q) + 2 /\ \A k \in 1..Len(q) : Tail(r)[k] = q[k]
  BY <1>1, <1>3, <1>4
<1>6. Tail(r)[Len(Tail(r)) - 1] = [do |-> x]
  BY <1>1, <1>3, <1>4
<1>7. Ending(Tail(r), S, x)
  <2>1. Len(Tail(r)) > 1 /\ Len(Tail(r)) - 2 = Len(q)
    BY <1>1, <1>5
  <2>2. \A k \in 1..(Len(Tail(r)) - 2) : Tail(r)[k] \in S
    BY <2>1, <1>1, <1>5
  <2> QED
    BY <2>1, <2>2, <1>4, <1>6 DEF Ending
<1> QED
  BY <1>4, <1>5, <1>7 DEF r, p

LEMMA ChangeFits ==
  ASSUME NEW q \in Seq(LockSteps \cup ChangeSteps("staging"))
  PROVE  Change(q) \in Seq(Steps) /\ Waiting(Change(q))
<1>1. LockSteps \cup ChangeSteps("staging") \subseteq Steps
  BY DEF Steps, QuietSteps
<1> QED
  BY <1>1, EndingFits DEF Change, Waiting, WithLock, Changing

LEMMA TwiceLocked ==
  ASSUME NEW S, LockSteps \subseteq S, NEW c \in Seq(S), Len(c) = 1, NEW a \in Trees, NEW b \in Trees
  PROVE  LET r == Locked(b, Locked(a, c)) IN
         /\ r \in Seq(S) /\ Len(r) = 5
         /\ \A k \in {1, 2, 4, 5} : r[k] \in LockSteps
<1>1. \A m \in Trees :
        /\ [do |-> "lock", on |-> m] \in LockSteps /\ [do |-> "unlock", on |-> m] \in LockSteps
        /\ [do |-> "lock", on |-> m] \in S /\ [do |-> "unlock", on |-> m] \in S
  BY DEF LockSteps
<1>2. ASSUME NEW m \in Trees, NEW q \in Seq(S)
      PROVE  /\ Locked(m, q) \in Seq(S) /\ Len(Locked(m, q)) = Len(q) + 2
             /\ Locked(m, q)[1] \in LockSteps /\ Locked(m, q)[Len(q) + 2] \in LockSteps
             /\ \A k \in 1..Len(q) : Locked(m, q)[k + 1] = q[k]
  <2>1. [do |-> "lock", on |-> m] \in S /\ [do |-> "unlock", on |-> m] \in S
    BY <1>1
  <2>2. /\ Locked(m, q) \in Seq(S) /\ Len(Locked(m, q)) = Len(q) + 2
        /\ Locked(m, q)[1] = [do |-> "lock", on |-> m]
        /\ Locked(m, q)[Len(q) + 2] = [do |-> "unlock", on |-> m]
        /\ \A k \in 1..Len(q) : Locked(m, q)[k + 1] = q[k]
    BY <2>1, LockedAt
  <2> QED
    BY <2>2, <1>1
<1> DEFINE p == Locked(a, c)  r == Locked(b, p)
<1>3. p \in Seq(S) /\ Len(p) = 3 /\ p[1] \in LockSteps /\ p[3] \in LockSteps
  <2>1. /\ p \in Seq(S) /\ Len(p) = Len(c) + 2 /\ p[1] \in LockSteps /\ p[Len(c) + 2] \in LockSteps
    BY <1>2
  <2> HIDE DEF p
  <2>2. Len(c) + 2 = 3
    OBVIOUS
  <2> QED
    BY <2>1, <2>2
<1> HIDE DEF p
<1>4. /\ r \in Seq(S) /\ Len(r) = 5 /\ r[1] \in LockSteps /\ r[5] \in LockSteps
      /\ \A k \in 1..3 : r[k + 1] = p[k]
  <2>1. /\ r \in Seq(S) /\ Len(r) = Len(p) + 2 /\ r[1] \in LockSteps /\ r[Len(p) + 2] \in LockSteps
        /\ \A k \in 1..Len(p) : r[k + 1] = p[k]
    BY <1>2, <1>3
  <2> HIDE DEF r
  <2>2. Len(p) + 2 = 5
    BY <1>3
  <2> QED
    BY <2>1, <2>2, <1>3
<1> HIDE DEF r
<1>5. r[1 + 1] = p[1] /\ r[3 + 1] = p[3]
  BY <1>4
<1> QED
  BY <1>3, <1>4, <1>5 DEF r, p

LEMMA EqualIs ==
  ASSUME NEW a \in Trees, NEW b \in Trees
  PROVE  LET r == Equal(a, b) IN
         /\ r \in Seq(LockSteps \cup [do : {"compare"}]) /\ Len(r) = 5
         /\ \A k \in {1, 2, 4, 5} : r[k] \in LockSteps
<1>1. Do("compare") \in Seq(LockSteps \cup [do : {"compare"}]) /\ Len(Do("compare")) = 1
  BY DEF Do
<1> QED
  BY <1>1, TwiceLocked DEF Equal

LEMMA CopyFits ==
  ASSUME NEW c \in CopySteps, c.do = "copy", NEW a \in Trees, NEW b \in Trees
  PROVE  LET r == Locked("config", Locked(a, Locked(b, <<c>>)) \o Equal("working", "staging") \o Do("settle")) IN
         r \in Seq(Steps) /\ Waiting(r)
<1> DEFINE S == LockSteps \cup {c}  A == Locked(a, Locked(b, <<c>>))
           E == Equal("working", "staging")  q == A \o E
           r == Locked("config", q \o Do("settle"))  l == Tail(r)
<1>1. A \in Seq(S)
  <2>1. <<c>> \in Seq(S)
    OBVIOUS
  <2> QED
    BY <2>1, DataIn
<1>2. E \in Seq(LockSteps \cup [do : {"compare"}]) /\ Len(E) = 5 /\ \A k \in {1, 2, 4, 5} : E[k] \in LockSteps
  BY EqualIs DEF Trees
<1> HIDE DEF A, E
<1>3. S \subseteq CopySteps /\ LockSteps \cup [do : {"compare"}] \subseteq CopySteps
  BY DEF CopySteps
<1>4. CopySteps \subseteq Steps
  BY DEF Steps
<1>5. A \in Seq(CopySteps) /\ E \in Seq(CopySteps)
  BY <1>1, <1>2, <1>3, SeqMonotonic
<1>6. /\ q \in Seq(CopySteps) /\ Len(q) = Len(A) + 5 /\ Len(A) \in Nat
      /\ \A k \in 1..Len(A) : q[k] = A[k]
      /\ \A k \in 1..5 : q[Len(A) + k] = E[k]
  <2>1. /\ A \o E \in Seq(CopySteps) /\ Len(A \o E) = Len(A) + Len(E)
        /\ \A k \in 1..Len(A) : (A \o E)[k] = A[k]
        /\ \A k \in 1..Len(E) : (A \o E)[Len(A) + k] = E[k]
    BY <1>5, ConcatIn
  <2>2. Len(A) \in Nat
    BY <1>5
  <2> QED
    BY <2>1, <2>2, <1>2
<1> HIDE DEF q
<1>7. /\ r \in Seq(Steps) /\ r # << >> /\ r[1] = LockConfig
      /\ Ending(l, CopySteps, "settle") /\ Len(l) = Len(q) + 2
      /\ \A k \in 1..Len(q) : l[k] = q[k]
  BY <1>4, <1>6, EndingFits
<1> HIDE DEF l, r
<1>8. \A k \in 1..Len(A) : A[k].do # "compare"
  <2>1. \A s \in S : s.do # "compare"
    BY StepFields
  <2> HIDE DEF S
  <2> QED
    BY <2>1, <1>1
<1>9. \A k \in {1, 2, 4, 5} : E[k].do # "compare"
  BY <1>2, StepFields
<1>10. \A j, k \in 1..Len(q) : j < k /\ q[j].do = "compare" => q[k] \in LockSteps
  <2> SUFFICES ASSUME NEW j \in 1..Len(q), NEW k \in 1..Len(q), j < k, q[j].do = "compare"
               PROVE  q[k] \in LockSteps
    OBVIOUS
  <2>1. j \notin 1..Len(A)
    BY <1>6, <1>8
  <2>2. j - Len(A) \in 1..5 /\ k - Len(A) \in 1..5 /\ j - Len(A) < k - Len(A)
    BY <2>1, <1>6
  <2>3. q[j] = E[j - Len(A)] /\ q[k] = E[k - Len(A)]
    <3>1. Len(A) + (j - Len(A)) = j /\ Len(A) + (k - Len(A)) = k
      BY <1>6
    <3>2. \A i \in 1..5 : q[Len(A) + i] = E[i]
      BY <1>6
    <3>3. /\ q[Len(A) + (j - Len(A))] = E[j - Len(A)]
          /\ q[Len(A) + (k - Len(A))] = E[k - Len(A)]
      BY <3>2, <2>2
    <3> QED
      BY <3>1, <3>3
  <2>4. j - Len(A) \notin {1, 2, 4, 5}
    BY <2>3, <1>9
  <2>5. k - Len(A) \in {4, 5}
    BY <2>2, <2>4
  <2> QED
    BY <2>3, <2>5, <1>2
<1>11. Copying(l)
  <2>1. Len(l) - 2 = Len(q)
    BY <1>6, <1>7
  <2> QED
    BY <2>1, <1>7, <1>10 DEF Copying
<1>12. Waiting(r)
  BY <1>7, <1>11 DEF Waiting, WithLock, l
<1> QED
  BY <1>7, <1>12 DEF r, q, A, E

LEMMA LoadFits == Load \in Seq(Steps) /\ Loading(Load)
<1>1. Act("parse", "staging", "buffer") \in Seq(LoadSteps) /\ Do("read") \in Seq(LoadSteps)
  BY DEF Act, Do, LoadSteps
<1>2. SetJson("staging") \in Seq(LoadSteps)
  BY <1>1, DataIn DEF SetJson, LoadSteps, Trees
<1>3. Load \in Seq(LoadSteps)
  BY <1>1, <1>2, ConcatIn DEF Load
<1> QED
  BY <1>3, SeqMonotonic DEF Loading, Steps

LEMMA StoreFits == Store \in Seq(Steps) /\ Opening(Store)
<1> DEFINE a == [do |-> "open"]  b == [do |-> "write", to |-> "file", from |-> "working"]
<1>1. a \in Steps /\ b \in Steps
  BY DEF Steps
<1>2. Store = <<a>> \o <<b>>
  BY DEF Store, Do, Act
<1> HIDE DEF a, b
<1>3. /\ Store \in Seq(Steps) /\ Len(Store) = 2 /\ Store[1] = a /\ Store[2] = b
  BY <1>1, <1>2
<1>4. Store # << >>
  BY <1>3
<1>5. Len(Tail(Store)) = 1 /\ Tail(Store)[1] = b
  BY <1>3, <1>4, TailIs
<1> QED
  BY <1>3, <1>4, <1>5 DEF Opening, Writing, a, b

\* Every call begins without the lock.
LEMMA CallsFit ==
  ASSUME NEW c \in Calls
  PROVE  c \in Seq(Steps) /\ Without(c)
<1>1. "child" \in Trees /\ "staging" \in Trees /\ "working" \in Trees
  BY DEF Trees
<1>2. LockSteps \subseteq QuietSteps /\ QuietSteps \subseteq Steps
  BY DEF QuietSteps, Steps
<1>3. ASSUME NEW q \in Seq(QuietSteps)
      PROVE  q \in Seq(Steps) /\ Without(q)
  <2>1. q \in Seq(Steps) /\ QuietCall(q)
    BY <1>2, SeqMonotonic DEF QuietCall
  <2> QED
    BY <2>1 DEF Without
<1>4. ASSUME NEW q \in Seq(Steps), Waiting(q)
      PROVE  Without(q)
  BY <1>4 DEF Without
<1>5. CASE c = Get
  <2>1. Act("copy", "child", "working") \in Seq(QuietSteps)
    BY DEF Act, QuietSteps, ChangeSteps, Trees
  <2>2. GetChild("working", "child") \in Seq(QuietSteps)
    BY <2>1, <1>1, <1>2, DataIn DEF GetChild
  <2> QED
    BY <2>2, <1>4, <1>5, QuietFits DEF Get
<1>6. CASE c = GetOne
  <2>1. Do("ask") \in Seq(QuietSteps)
    BY DEF Do, QuietSteps
  <2>2. GetValue("working") \in Seq(QuietSteps)
    BY <2>1, <1>1, <1>2, DataIn DEF GetValue
  <2> QED
    BY <2>2, <1>4, <1>6, QuietFits DEF GetOne
<1>7. CASE c = IsModified
  <2>1. Do("ask") \in Seq(QuietSteps)
    BY DEF Do, QuietSteps
  <2> QED
    BY <2>1, <1>4, <1>7, QuietFits DEF IsModified
<1> DEFINE S == LockSteps \cup ChangeSteps("staging")
<1>8. CASE c \in {Put, Add}
  <2>1. Act("copy", "staging", "child") \in Seq(S) /\ Act("append", "staging", "child") \in Seq(S)
    BY DEF Act, ChangeSteps, Trees
  <2>2. PutChild("staging", "child") \in Seq(S) /\ AddChild("staging", "child") \in Seq(S)
    BY <2>1, <1>1, DataIn DEF PutChild, AddChild
  <2> QED
    BY <2>2, <1>4, <1>8, ChangeFits DEF Put, Add
<1>9. CASE c \in {PutOne(v) : v \in Vals}
  <2>1. PICK v \in Vals : c = PutOne(v)
    BY <1>9
  <2>2. <<[do |-> "put", to |-> "staging", value |-> v]>> \in Seq(S)
    BY DEF ChangeSteps
  <2>3. PutValue("staging", v) \in Seq(S)
    BY <2>2, <1>1, DataIn DEF PutValue
  <2> QED
    BY <2>1, <2>3, <1>4, ChangeFits DEF PutOne
<1>10. CASE c = Del("child") \/ c \in {PutValue("child", v) : v \in Vals}
  <2>1. /\ <<[do |-> "del", to |-> "child"]>> \in Seq(QuietSteps)
        /\ \A v \in Vals : <<[do |-> "put", to |-> "child", value |-> v]>> \in Seq(QuietSteps)
    BY DEF QuietSteps, ChangeSteps
  <2>2. Del("child") \in Seq(QuietSteps) /\ \A v \in Vals : PutValue("child", v) \in Seq(QuietSteps)
    BY <2>1, <1>1, <1>2, DataIn DEF Del, PutValue
  <2> QED
    BY <2>2, <1>3, <1>10
<1>11. CASE c = Restore
  <2> DEFINE x == [do |-> "copy", to |-> "staging", from |-> "working"]
  <2>1. x \in CopySteps /\ x.do = "copy"
    BY DEF CopySteps
  <2>2. Restore = Locked("config", Locked("working", Locked("staging", <<x>>))
                                     \o Equal("working", "staging") \o Do("settle"))
    BY DEF Restore, Assign, Act
  <2> HIDE DEF x
  <2> QED
    BY <2>1, <2>2, <1>1, <1>4, <1>11, CopyFits
<1>12. CASE c = Commit
  <2> DEFINE x == [do |-> "copy", to |-> "working", from |-> "staging"]
  <2>1. x \in CopySteps /\ x.do = "copy"
    BY <1>12 DEF CopySteps
  <2>2. Commit = Locked("config", Locked("staging", Locked("working", <<x>>))
                                    \o Equal("working", "staging") \o Do("settle"))
    BY DEF Commit, Assign, Act
  <2> HIDE DEF x
  <2> QED
    BY <2>1, <2>2, <1>1, <1>4, <1>12, CopyFits
<1>13. CASE c = Load
  BY <1>13, LoadFits DEF Without
<1>14. CASE c = Store
  BY <1>14, StoreFits DEF Without
<1> QED
  BY <1>5, <1>6, <1>7, <1>8, <1>9, <1>10, <1>11, <1>12, <1>13, <1>14 DEF Calls

-----------------------------------------------------------------------------
(* The invariant *)

LEMMA StepsTyped ==
  \A s \in Steps :
    /\ s.do \in {"lock", "unlock"} => s.on \in Mutexes
    /\ s.do \in Writes \cup {"parse"} => s.to \in Trees
    /\ s.do \in {"copy", "append"} => s.from \in Trees
    /\ s.do = "put" => s.value \in Vals
<1>1. \A s \in LockSteps : s.on \in Mutexes /\ s.do \in {"lock", "unlock"}
  BY DEF LockSteps, Mutexes
<1>2. "child" \in Trees /\ "staging" \in Trees /\ "working" \in Trees /\ "config" \in Mutexes
  BY DEF Trees, Mutexes
<1> QED
  BY <1>1, <1>2, StepFields DEF Steps, Writes

LEMMA ConfigInitIInv == ConfigInit => ConfigIInv
<1> SUFFICES ASSUME ConfigInit PROVE ConfigIInv
  OBVIOUS
<1>1. \A S : << >> \in Seq(S)
  OBVIOUS
<1>2. "config" \in Mutexes /\ "working" \in Trees /\ "staging" \in Trees
  BY DEF Mutexes, Trees
<1>3. Typed
  BY <1>1 DEF ConfigInit, Typed, Files, Unreadable
<1>4. InCalls
  <2>1. QuietCall(<< >>)
    BY DEF QuietCall
  <2>2. \A t \in Users : todo[t] = << >> /\ holder["config"] # t
    BY <1>2 DEF ConfigInit
  <2> QED
    BY <2>1, <2>2 DEF InCalls, Without
<1>5. Tells /\ SameIsSeen
  BY <1>2 DEF ConfigInit, Tells, Alike, SameIsSeen
<1>6. Known
  BY <1>2 DEF ConfigInit, Known, LoadsCommitted, Unreadable
<1> QED
  BY <1>3, <1>4, <1>5, <1>6 DEF ConfigIInv

\* What a thread with steps to do has.
LEMMA Acting ==
  ASSUME ConfigIInv, NEW t \in Users, todo[t] # << >>
  PROVE  LET q == todo[t] IN
         /\ q \in Seq(Steps) /\ Tail(q) \in Seq(Steps) /\ q[1] \in Steps /\ Next1(t) = q[1]
         /\ IF holder["config"] = t THEN WithLock(q) ELSE Without(q)
<1>1. todo[t] \in Seq(Steps)
  BY DEF ConfigIInv, Typed
<1> QED
  BY <1>1, TailIs DEF ConfigIInv, InCalls, Next1

\* The calls of the others are as they were.
LEMMA OthersIn ==
  ASSUME ConfigIInv, NEW t \in Users, NEW l \in Seq(Steps), todo' = [todo EXCEPT ![t] = l],
         \A u \in Users \ {t} : holder'["config"] = u <=> holder["config"] = u,
         IF holder'["config"] = t THEN WithLock(l) ELSE Without(l)
  PROVE  todo' \in [Users -> Seq(Steps)] /\ InCalls'
<1>1. todo \in [Users -> Seq(Steps)]
  BY DEF ConfigIInv, Typed
<1>2. todo'[t] = l /\ \A u \in Users \ {t} : todo'[u] = todo[u]
  BY <1>1
<1>3. \A u \in Users : IF holder'["config"] = u THEN WithLock(todo'[u]) ELSE Without(todo'[u])
  BY <1>2 DEF ConfigIInv, InCalls
<1> QED
  BY <1>1, <1>3 DEF InCalls

\* So is where the thread with the lock is, unless it is t.
LEMMA StillSomebody ==
  ASSUME ConfigIInv, NEW t \in Users, NEW l, todo' = [todo EXCEPT ![t] = l],
         \A u \in Users : holder["config"] = u => holder'["config"] = u
  PROVE  /\ (Changing(todo[t]) => Changing(l)) /\ Somebody(Changing) => Somebody(Changing)'
         /\ (Settling(todo[t]) => Settling(l)) /\ Somebody(Settling) => Somebody(Settling)'
<1>1. todo \in [Users -> Seq(Steps)]
  BY DEF ConfigIInv, Typed
<1>2. todo'[t] = l /\ \A u \in Users \ {t} : todo'[u] = todo[u]
  BY <1>1
<1> QED
  BY <1>2 DEF Somebody

\* A step that is neither of a lock nor the last of the call.
LEMMA PlainStep ==
  ASSUME ConfigIInv, NEW t \in Users, todo[t] # << >>, NEW l,
         todo[t][1].do \notin {"lock", "unlock"},
         l = Tail(todo[t]) \/ (l = << >> /\ todo[t][1].do \in {"read", "open"}),
         todo' = [todo EXCEPT ![t] = l], holder' = holder
  PROVE  /\ todo' \in [Users -> Seq(Steps)] /\ InCalls'
         /\ todo[t][1].do # "modify" /\ Somebody(Changing) => Somebody(Changing)'
         /\ todo[t][1].do # "settle" /\ Somebody(Settling) => Somebody(Settling)'
<1> DEFINE q == todo[t]  h == q[1]
<1>1. /\ q \in Seq(Steps) /\ Tail(q) \in Seq(Steps) /\ Next1(t) = h
      /\ IF holder["config"] = t THEN WithLock(q) ELSE Without(q)
  BY Acting
<1>2. << >> \in Seq(Steps) /\ QuietCall(<< >>)
  BY DEF QuietCall
<1>3. l \in Seq(Steps)
  BY <1>1, <1>2
<1>4. h # UnlockConfig /\ h # LockConfig
  BY StepFields
<1>5. IF holder["config"] = t THEN WithLock(l) ELSE Without(l)
  <2>1. CASE holder["config"] = t
    <3>1. WithLock(q)
      BY <2>1, <1>1
    <3>2. q[1].do \notin {"read", "open"} /\ (WithLock(Tail(q)) \/ q[1] = UnlockConfig)
      BY <3>1, <1>1, PlaceWithLock
    <3> QED
      BY <3>2, <2>1, <1>4
  <2>2. CASE holder["config"] # t /\ l = Tail(q)
    BY <2>2, <1>1, <1>4, PlaceWithout
  <2>3. CASE holder["config"] # t /\ l = << >>
    BY <2>3, <1>2 DEF Without
  <2> QED
    BY <2>1, <2>2, <2>3
<1>8. /\ h.do # "modify" /\ Changing(q) => h.do \in Writes /\ Changing(Tail(q))
      /\ h.do # "settle" => ~Settling(q)
  BY <1>1, PlaceBefore
<1>9. /\ h.do # "modify" /\ Changing(q) => Changing(l)
      /\ h.do # "settle" /\ Settling(q) => Settling(l)
  BY <1>8 DEF Writes
<1>10. /\ h.do # "modify" /\ Somebody(Changing) => Somebody(Changing)'
       /\ h.do # "settle" /\ Somebody(Settling) => Somebody(Settling)'
  <2>1. \A u \in Users : holder["config"] = u => holder'["config"] = u
    OBVIOUS
  <2> QED
    BY <2>1, <1>9, StillSomebody
<1>11. todo' \in [Users -> Seq(Steps)] /\ InCalls'
  BY <1>3, <1>5, OthersIn
<1> QED
  BY <1>10, <1>11

\* A lock is taken or given back.
LEMMA LockStep ==
  ASSUME ConfigIInv, NEW t \in Users, TakeLock(t) \/ GiveLock(t)
  PROVE  ConfigIInv'
<1> DEFINE q == todo[t]  h == q[1]  l == Tail(q)
<1>1. /\ q \in Seq(Steps) /\ l \in Seq(Steps) /\ h \in Steps /\ Next1(t) = h /\ q # << >>
      /\ IF holder["config"] = t THEN WithLock(q) ELSE Without(q)
  BY Acting DEF TakeLock, GiveLock, Due
<1>2. /\ h.do \in {"lock", "unlock"} /\ todo' = [todo EXCEPT ![t] = l]
      /\ holder' = [holder EXCEPT ![h.on] = IF h.do = "lock" THEN t ELSE None]
      /\ h.do = "lock" => holder[h.on] = None
      /\ UNCHANGED <<memory, file, committed>>
  BY <1>1 DEF TakeLock, GiveLock, Due, Advance
<1> HIDE DEF l
<1>3. /\ holder \in [Mutexes -> Users \cup {None}] /\ todo \in [Users -> Seq(Steps)]
      /\ "config" \in Mutexes /\ h.on \in Mutexes
  BY <1>1, <1>2, StepsTyped DEF ConfigIInv, Typed, Mutexes
<1>4. holder' \in [Mutexes -> Users \cup {None}]
  BY <1>2, <1>3
<1>5. ~OnConfig(h) => holder'["config"] = holder["config"]
  BY <1>2, <1>3 DEF OnConfig
<1>6. OnConfig(h) /\ h.do = "lock" =>
        holder["config"] = None /\ holder'["config"] = t /\ WithLock(l)
  <2> SUFFICES ASSUME OnConfig(h), h.do = "lock"
               PROVE  holder["config"] = None /\ holder'["config"] = t /\ WithLock(l)
    OBVIOUS
  <2>1. holder["config"] = None /\ holder'["config"] = t
    BY <1>2, <1>3 DEF OnConfig
  <2>2. Without(q)
    BY <2>1, <1>1
  <2> QED
    BY <2>1, <2>2, <1>1, PlaceWithout DEF l
<1>7. OnConfig(h) /\ h.do = "unlock" =>
        holder["config"] = t /\ holder'["config"] = None /\ l = << >>
  <2> SUFFICES ASSUME OnConfig(h), h.do = "unlock"
               PROVE  holder["config"] = t /\ holder'["config"] = None /\ l = << >>
    OBVIOUS
  <2>1. holder'["config"] = None
    BY <1>2, <1>3 DEF OnConfig
  <2>2. h # LockConfig
    BY StepFields
  <2>3. ~Without(q)
    BY <2>2, <1>1, PlaceWithout
  <2>4. WithLock(q) /\ holder["config"] = t
    BY <2>3, <1>1
  <2> QED
    BY <2>1, <2>4, <1>1, PlaceWithLock DEF l
<1>8. OnConfig(h) \/ (IF holder["config"] = t THEN WithLock(l) ELSE Without(l))
  <2>1. h = UnlockConfig \/ h = LockConfig => OnConfig(h)
    BY StepFields DEF OnConfig
  <2> QED
    BY <2>1, <1>1, PlaceWithLock, PlaceWithout DEF l
<1>9. IF holder'["config"] = t THEN WithLock(l) ELSE Without(l)
  <2>1. Without(<< >>)
    BY DEF Without, QuietCall
  <2> QED
    BY <2>1, <1>2, <1>5, <1>6, <1>7, <1>8
<1>10. \A u \in Users \ {t} : holder'["config"] = u <=> holder["config"] = u
  BY <1>2, <1>5, <1>6, <1>7
<1>11. todo' \in [Users -> Seq(Steps)] /\ InCalls'
  BY <1>1, <1>2, <1>9, <1>10, OthersIn
<1>12. Typed'
  BY <1>2, <1>4, <1>11 DEF ConfigIInv, Typed, memory
<1>13. (Somebody(Changing) => Somebody(Changing)') /\ (Somebody(Settling) => Somebody(Settling)')
  <2>1. CASE OnConfig(h) /\ h.do = "lock"
    BY <2>1, <1>6 DEF Somebody
  <2>2. CASE OnConfig(h) /\ h.do = "unlock"
    <3>1. ~Changing(q) /\ ~Settling(q)
      BY <2>2, <1>1, PlaceBefore DEF OnConfig, Writes
    <3> QED
      BY <3>1, <2>2, <1>7 DEF Somebody
  <2>3. CASE ~OnConfig(h)
    <3>1. (Changing(q) => Changing(l)) /\ (Settling(q) => Settling(l))
      BY <1>1, <1>2, PlaceBefore DEF Writes, l
    <3>2. \A u \in Users : holder["config"] = u => holder'["config"] = u
      BY <2>3, <1>5
    <3> QED
      BY <3>1, <3>2, <1>2, StillSomebody
  <2> QED
    BY <2>1, <2>2, <2>3, <1>2
<1>14. Tells' /\ SameIsSeen'
  BY <1>2, <1>13 DEF ConfigIInv, Tells, SameIsSeen, Alike, memory
<1>15. Known'
  BY <1>2 DEF ConfigIInv, Known, LoadsCommitted, memory
<1> QED
  BY <1>11, <1>12, <1>14, <1>15 DEF ConfigIInv

\* What a step writes is a tree.
LEMMA MovedIs ==
  ASSUME Typed, NEW t \in Users, NEW s \in Steps, s.do \in Writes \cup {"parse"}
  PROVE  Moved(t, s) \in Seq(Vals)
<1>1. tree \in [Trees -> Seq(Vals)] /\ buffer[t].members \in Seq(Vals)
  BY DEF Typed, Files
<1>2. CASE s.do = "copy"
  BY <1>1, <1>2, StepsTyped DEF Moved
<1>3. CASE s.do = "append"
  <2>1. tree[s.to] \in Seq(Vals) /\ tree[s.from] \in Seq(Vals)
    BY <1>1, <1>3, StepsTyped DEF Writes
  <2>2. tree[s.to] \o tree[s.from] \in Seq(Vals)
    BY <2>1
  <2> QED
    BY <2>1, <2>2, <1>3 DEF Moved
<1>4. CASE s.do = "parse"
  BY <1>1, <1>4 DEF Moved
<1>5. CASE s.do = "put"
  <2>1. s.value \in Vals /\ Moved(t, s) = <<s.value>>
    BY <1>5, StepsTyped DEF Moved
  <2> QED
    BY <2>1
<1>6. CASE s.do = "del"
  BY <1>6 DEF Moved
<1> QED
  BY <1>2, <1>3, <1>4, <1>5, <1>6 DEF Writes

\* A tree is written: staging by a thread that is going to say so or that makes
\* it like the working one, or by Load; working only by Commit.
LEMMA WriteStep ==
  ASSUME ConfigIInv, NEW t \in Users, Write(t)
  PROVE  ConfigIInv'
<1> DEFINE q == todo[t]  h == q[1]  l == Tail(q)
<1>1. /\ q \in Seq(Steps) /\ l \in Seq(Steps) /\ h \in Steps /\ Next1(t) = h /\ q # << >>
      /\ IF holder["config"] = t THEN WithLock(q) ELSE Without(q)
  BY Acting DEF Write, Due
<1>2. /\ h.do \in Writes \cup {"parse"} /\ todo' = [todo EXCEPT ![t] = l]
      /\ tree' = [tree EXCEPT ![h.to] = Moved(t, h)]
      /\ loaded' = CASE h.do = "parse" -> TRUE
                     [] h.do = "copy" /\ Between(h) -> FALSE
                     [] OTHER -> loaded
      /\ buffer' = IF h.do = "parse" THEN [buffer EXCEPT ![t] = Unreadable] ELSE buffer
      /\ committed' = committed \cup {tree'["working"]}
      /\ UNCHANGED <<modified, same, file, holder>>
  BY <1>1 DEF Write, Due, Advance, Writes
<1>3. /\ todo' \in [Users -> Seq(Steps)] /\ InCalls'
      /\ Somebody(Changing) => Somebody(Changing)'
      /\ Somebody(Settling) => Somebody(Settling)'
  BY <1>1, <1>2, PlainStep DEF Writes
<1> HIDE DEF l
<1>4. Typed /\ tree \in [Trees -> Seq(Vals)]
  BY DEF ConfigIInv, Typed
<1>5. Moved(t, h) \in Seq(Vals) /\ h.to \in Trees
  BY <1>1, <1>2, <1>4, MovedIs, StepsTyped
<1>6. Typed'
  <2>1. tree' \in [Trees -> Seq(Vals)]
    BY <1>2, <1>4, <1>5
  <2>2. buffer' \in [Users -> Files]
    <3>1. Unreadable \in Files
      BY DEF Unreadable, Files
    <3> QED
      BY <3>1, <1>2, <1>4 DEF Typed
  <2>3. loaded' \in BOOLEAN
    BY <1>2, <1>4 DEF Typed
  <2> QED
    BY <2>1, <2>2, <2>3, <1>2, <1>3, <1>4 DEF Typed
<1>7. \/ h.to = "child" /\ h.do # "parse"
      \/ h.do = "parse" /\ h.to = "staging"
      \/ h.do # "parse" /\ h.to = "staging" /\ holder["config"] = t /\ Changing(l)
      \/ h.do = "copy" /\ {h.to, h.from} = {"staging", "working"} /\ holder["config"] = t
  <2>1. CASE WithLock(q) /\ holder["config"] = t
    BY <2>1, <1>1, <1>2, PlaceWithLock DEF l, Writes
  <2>2. CASE Without(q)
    BY <2>2, <1>1, <1>2, PlaceWithout DEF l, Writes
  <2> QED
    BY <2>1, <2>2, <1>1
<1>8. holder["config"] = t => ~same
  <2> SUFFICES ASSUME holder["config"] = t, same PROVE FALSE
    OBVIOUS
  <2>1. Settling(q)
    BY DEF ConfigIInv, SameIsSeen, Somebody
  <2> QED
    BY <2>1, <1>1, <1>2, PlaceBefore DEF Writes
<1>9. "staging" \in Trees /\ "working" \in Trees
  BY DEF Trees
<1>10. Tells' /\ SameIsSeen'
  <2>1. CASE h.to = "child" /\ h.do # "parse"
    <3>1. tree'["working"] = tree["working"] /\ tree'["staging"] = tree["staging"]
      BY <2>1, <1>2, <1>4
    <3>2. loaded' = loaded
      BY <2>1, <1>2 DEF Between
    <3> QED
      BY <3>1, <3>2, <1>2, <1>3 DEF ConfigIInv, Tells, SameIsSeen, Alike
  <2>2. CASE h.do = "parse"
    BY <2>2, <1>2, <1>3 DEF ConfigIInv, Tells, SameIsSeen, Alike
  <2>3. CASE h.do # "parse" /\ h.to = "staging" /\ holder["config"] = t /\ Changing(l)
    <3>1. todo'[t] = l /\ holder'["config"] = t
      BY <2>3, <1>2, <1>4 DEF Typed
    <3>2. Somebody(Changing)'
      BY <3>1, <2>3 DEF Somebody
    <3> QED
      BY <3>2, <2>3, <1>2, <1>8 DEF Tells, SameIsSeen
  <2>4. CASE h.do = "copy" /\ {h.to, h.from} = {"staging", "working"} /\ holder["config"] = t
    <3>1. h.from \in {"staging", "working"} /\ h.to \in {"staging", "working"} /\ h.from # h.to
      BY <2>4
    <3>2. Moved(t, h) = tree[h.from]
      BY <2>4 DEF Moved
    <3>3. tree'["working"] = tree'["staging"]
      BY <3>1, <3>2, <1>2, <1>4, <1>9
    <3> QED
      BY <3>3, <2>4, <1>2, <1>8 DEF Tells, SameIsSeen, Alike
  <2> QED
    BY <2>1, <2>2, <2>3, <2>4, <1>7
<1>11. Known'
  <2>1. \A u \in Users : buffer'[u] \in {buffer[u], Unreadable}
    BY <1>2, <1>4 DEF Typed
  <2>2. LoadsCommitted'
    BY <2>1, <1>2 DEF ConfigIInv, Known, LoadsCommitted, Unreadable
  <2>3. << >> \in committed /\ committed' = committed \cup {tree'["working"]}
    BY <1>2 DEF ConfigIInv, Known
  <2> QED
    BY <2>2, <2>3 DEF Known
<1> QED
  BY <1>3, <1>6, <1>10, <1>11 DEF ConfigIInv

\* The flag is set after staging was written, and reset if the two were seen to
\* be the same, since when nobody could change staging but Load.
LEMMA FlagStep ==
  ASSUME ConfigIInv, NEW t \in Users, Flag(t)
  PROVE  ConfigIInv'
<1> DEFINE q == todo[t]  h == q[1]  l == Tail(q)
<1>1. /\ q \in Seq(Steps) /\ l \in Seq(Steps) /\ Next1(t) = h /\ q # << >>
      /\ IF holder["config"] = t THEN WithLock(q) ELSE Without(q)
  BY Acting DEF Flag, Due
<1>2. /\ h.do \in {"modify", "compare", "settle", "ask"} /\ todo' = [todo EXCEPT ![t] = l]
      /\ UNCHANGED <<tree, buffer, loaded, file, committed, holder>>
      /\ h.do = "modify" => modified' = TRUE /\ same' = same
      /\ h.do = "compare" => same' = (tree["working"] = tree["staging"]) /\ modified' = modified
      /\ h.do = "settle" => modified' = (modified /\ ~same) /\ same' = FALSE
      /\ h.do = "ask" => modified' = modified /\ same' = same
  BY <1>1 DEF Flag, Due, Advance
<1>3. /\ todo' \in [Users -> Seq(Steps)] /\ InCalls'
      /\ h.do # "modify" /\ Somebody(Changing) => Somebody(Changing)'
      /\ h.do # "settle" /\ Somebody(Settling) => Somebody(Settling)'
  BY <1>1, <1>2, PlainStep
<1> HIDE DEF l
<1>4. Typed
  BY DEF ConfigIInv
<1>5. Typed'
  BY <1>2, <1>3, <1>4 DEF Typed
<1>6. Alike' = Alike
  BY <1>2 DEF Alike
<1>7. Known'
  BY <1>2 DEF ConfigIInv, Known, LoadsCommitted
<1>8. CASE h.do \in {"modify", "ask"}
  BY <1>2, <1>3, <1>5, <1>6, <1>7, <1>8 DEF ConfigIInv, Tells, SameIsSeen
<1>9. CASE h.do = "compare"
  <2>1. WithLock(q) /\ holder["config"] = t
    BY <1>1, <1>9, PlaceWithout
  <2>2. Settling(l)
    BY <2>1, <1>1, <1>9, PlaceWithLock DEF l
  <2>3. todo'[t] = l /\ holder'["config"] = t
    BY <2>1, <1>2, <1>4 DEF Typed
  <2>4. Somebody(Settling)'
    BY <2>2, <2>3 DEF Somebody
  <2>5. same' => Alike
    BY <1>2, <1>9 DEF Alike
  <2> QED
    BY <2>4, <2>5, <1>2, <1>3, <1>5, <1>6, <1>7, <1>9 DEF ConfigIInv, Tells, SameIsSeen
<1>10. CASE h.do = "settle"
  BY <1>2, <1>3, <1>5, <1>6, <1>7, <1>10 DEF ConfigIInv, Tells, SameIsSeen
<1> QED
  BY <1>2, <1>8, <1>9, <1>10

\* A small tree is a tree.
LEMMA SmallIs == SmallTrees \subseteq Seq(Vals)
<1>1. \A n \in 0..MaxMembers : n \in Nat
  BY ConfigurationAssumption
<1>2. \A n \in Nat : [1..n -> Vals] \subseteq Seq(Vals)
  OBVIOUS
<1> QED
  BY <1>1, <1>2 DEF SmallTrees

\* The file gets the working tree, or nothing that can be read, unless a Commit
\* is assigning it; a Load gets what the file has.
LEMMA FileStep ==
  ASSUME ConfigIInv, NEW t \in Users, ReadFile(t) \/ OpenFile(t) \/ WriteFile(t)
  PROVE  ConfigIInv'
<1> DEFINE q == todo[t]  h == q[1]  l == Tail(q)
<1>1. /\ q \in Seq(Steps) /\ l \in Seq(Steps) /\ Next1(t) = h /\ q # << >>
      /\ IF holder["config"] = t THEN WithLock(q) ELSE Without(q)
  BY Acting DEF ReadFile, OpenFile, WriteFile, Due
<1>2. /\ h.do \in {"read", "open", "write"} /\ UNCHANGED <<tree, modified, same, loaded, committed, holder>>
      /\ todo' = [todo EXCEPT ![t] = l] \/ (todo' = [todo EXCEPT ![t] = << >>] /\ h.do # "write")
  BY <1>1 DEF ReadFile, OpenFile, WriteFile, Due, Advance, memory
<1>3. /\ todo' \in [Users -> Seq(Steps)] /\ InCalls'
      /\ Somebody(Changing) => Somebody(Changing)'
      /\ Somebody(Settling) => Somebody(Settling)'
  <2>1. PICK k : /\ todo' = [todo EXCEPT ![t] = k]
                 /\ k = l \/ (k = << >> /\ h.do \in {"read", "open"})
    BY <1>2
  <2> QED
    BY <2>1, <1>1, <1>2, PlainStep
<1>4. Typed
  BY DEF ConfigIInv
<1>5. Without(q)
  BY <1>1, <1>2, PlaceWithLock
<1>6. Alike' = Alike
  BY <1>2 DEF Alike
<1>7. Tells' /\ SameIsSeen'
  BY <1>2, <1>3, <1>6 DEF ConfigIInv, Tells, SameIsSeen
<1>8. Unreadable \in Files /\ ~Unreadable.whole
  BY DEF Unreadable, Files
<1>9. /\ file' \in Files
      /\ file' = file \/ (file'.whole /\ ~file'.torn => file'.members \in committed)
  <2>1. CASE ReadFile(t)
    BY <2>1, <1>4 DEF ReadFile, Typed
  <2>2. CASE OpenFile(t)
    BY <2>2, <1>4, <1>8 DEF OpenFile, Typed
  <2>3. CASE WriteFile(t)
    <3>1. h.from = "working"
      BY <2>3, <1>1, <1>5, PlaceWithout DEF WriteFile, Due
    <3>2. tree["working"] \in Seq(Vals) /\ tree["working"] \in committed
      BY <1>4 DEF Typed, Trees, ConfigIInv, Known
    <3>3. CASE file' = [whole |-> TRUE, members |-> tree["working"], torn |-> FALSE]
      BY <3>2, <3>3 DEF Files
    <3>4. ASSUME NEW r \in SmallTrees, file' = [whole |-> TRUE, members |-> r, torn |-> TRUE]
          PROVE  file' \in Files /\ file'.torn
      BY <3>4, SmallIs DEF Files
    <3>5. CASE file' = Unreadable
      BY <3>5, <1>8
    <3> QED
      BY <2>3, <3>1, <3>3, <3>4, <3>5, <1>1 DEF WriteFile
  <2> QED
    BY <2>1, <2>2, <2>3
<1>10. buffer' \in [Users -> Files] /\ \A u \in Users : buffer'[u] \in {buffer[u], file}
  <2>1. CASE ReadFile(t)
    BY <2>1, <1>4 DEF ReadFile, Typed
  <2>2. CASE OpenFile(t) \/ WriteFile(t)
    BY <2>2, <1>4 DEF OpenFile, WriteFile, memory, Typed
  <2> QED
    BY <2>1, <2>2
<1>11. Typed'
  BY <1>2, <1>3, <1>4, <1>9, <1>10 DEF Typed
<1>12. Known'
  <2>1. \A f \in {file} \cup {buffer[u] : u \in Users} : f.whole /\ ~f.torn => f.members \in committed
    BY DEF ConfigIInv, Known, LoadsCommitted
  <2>2. LoadsCommitted'
    BY <2>1, <1>2, <1>9, <1>10 DEF LoadsCommitted
  <2> QED
    BY <2>2, <1>2 DEF ConfigIInv, Known
<1> QED
  BY <1>3, <1>7, <1>11, <1>12 DEF ConfigIInv

\* A call begins without the lock.
LEMMA BeginStep ==
  ASSUME ConfigIInv, NEW t \in Users, Begin(t)
  PROVE  ConfigIInv'
<1>1. PICK c \in Calls : /\ todo[t] = << >> /\ todo' = [todo EXCEPT ![t] = c]
                          /\ UNCHANGED <<memory, file, committed, holder>>
  BY DEF Begin
<1>2. c \in Seq(Steps) /\ Without(c)
  BY CallsFit
<1>3. Typed /\ todo[t] \in Seq(Steps)
  BY DEF ConfigIInv, Typed
<1>4. holder["config"] # t
  <2>1. ~WithLock(todo[t])
    BY <1>1, <1>3, PlaceWithLock
  <2> QED
    BY <2>1 DEF ConfigIInv, InCalls
<1>5. todo' \in [Users -> Seq(Steps)] /\ InCalls'
  BY <1>1, <1>2, <1>4, OthersIn
<1>6. Typed'
  BY <1>1, <1>3, <1>5 DEF Typed, memory
<1>7. (Somebody(Changing) => Somebody(Changing)') /\ (Somebody(Settling) => Somebody(Settling)')
  <2>1. \A u \in Users \ {t} : todo'[u] = todo[u]
    BY <1>1, <1>3 DEF Typed
  <2> QED
    BY <2>1, <1>1, <1>4 DEF Somebody
<1>8. Tells' /\ SameIsSeen'
  BY <1>1, <1>7 DEF ConfigIInv, Tells, SameIsSeen, Alike, memory
<1>9. Known'
  BY <1>1 DEF ConfigIInv, Known, LoadsCommitted, memory
<1> QED
  BY <1>5, <1>6, <1>8, <1>9 DEF ConfigIInv

LEMMA CrashStep ==
  ASSUME ConfigIInv, Crash
  PROVE  ConfigIInv'
<1>1. "config" \in Mutexes /\ "working" \in Trees /\ "staging" \in Trees /\ << >> \in Seq(Steps)
      /\ << >> \in Seq(Vals)
  BY DEF Mutexes, Trees
<1>2. /\ \A u \in Users : todo'[u] = << >> /\ holder'["config"] # u
      /\ tree'["working"] = tree'["staging"] /\ ~same'
  BY <1>1 DEF Crash
<1>3. Typed'
  BY <1>1 DEF ConfigIInv, Typed, Crash, Files, Unreadable
<1>4. InCalls'
  <2>1. QuietCall(<< >>)
    BY DEF QuietCall
  <2> QED
    BY <2>1, <1>2 DEF InCalls, Without
<1>5. Tells' /\ SameIsSeen'
  BY <1>2 DEF Tells, Alike, SameIsSeen
<1>6. Known'
  <2>1. \A d \in Trees : tree'[d] = << >>
    BY DEF Crash
  <2>2. << >> \in committed
    BY DEF ConfigIInv, Known
  <2>3. LoadsCommitted'
    BY DEF ConfigIInv, Known, LoadsCommitted, Crash, Unreadable
  <2> QED
    BY <2>1, <2>2, <2>3, <1>1 DEF Known, Crash
<1> QED
  BY <1>3, <1>4, <1>5, <1>6 DEF ConfigIInv

\* The invariant holds in every state of every behaviour.
THEOREM ConfigInvariance == ConfigSpec => []ConfigIInv
<1>1. ConfigInit => ConfigIInv
  BY ConfigInitIInv
<1>2. ConfigIInv /\ [ConfigNext]_cvars => ConfigIInv'
  <2> SUFFICES ASSUME ConfigIInv, [ConfigNext]_cvars PROVE ConfigIInv'
    OBVIOUS
  <2>1. CASE UNCHANGED cvars
    BY <2>1 DEF cvars, memory, ConfigIInv, Typed, InCalls, Tells, Alike, SameIsSeen, Somebody, Known,
                LoadsCommitted
  <2>2. CASE Crash
    BY <2>2, CrashStep
  <2>3. ASSUME NEW t \in Users, Begin(t)
        PROVE  ConfigIInv'
    BY <2>3, BeginStep
  <2>4. ASSUME NEW t \in Users, Step(t)
        PROVE  ConfigIInv'
    BY <2>4, LockStep, WriteStep, FlagStep, FileStep DEF Step
  <2> QED
    BY <2>1, <2>2, <2>3, <2>4 DEF ConfigNext
<1> QED
  BY <1>1, <1>2, PTL DEF ConfigSpec

\* When nobody is in a call with the lock, a staging configuration that differs
\* from the working one, and was not loaded, says that it was modified.
THEOREM Modification == ConfigSpec => []ModifiedTells
<1>1. ConfigIInv => ModifiedTells
  BY DEF ConfigIInv, Tells, Alike, Somebody, ModifiedTells
<1> QED
  BY <1>1, ConfigInvariance, PTL

\* What a Load finds in the file was the working configuration as a whole,
\* whatever the other threads do, whatever writes fail and wherever the process
\* crashes, unless a Commit assigned it while a Store read it.
THEOREM OnlyCommitted == ConfigSpec => []LoadsCommitted
<1>1. ConfigIInv => LoadsCommitted
  BY DEF ConfigIInv, Known
<1> QED
  BY <1>1, ConfigInvariance, PTL
=============================================================================
