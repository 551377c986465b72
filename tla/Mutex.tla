------------------------------- MODULE Mutex --------------------------------
(***************************************************************************)
(* zSem::Mutex (lib/zSem/Mutex.cpp): a recursive mutex made of a           *)
(* std::timed_mutex, the id of the owning thread and a reference count.    *)
(* Only the timed_mutex is atomic; the owner and the count are plain       *)
(* fields, so every access to them is a step of its own here.              *)
(*                                                                         *)
(* A thread runs its "main" frame and may be interrupted by a signal whose *)
(* handler, run on the same thread, takes and gives back the same mutex:   *)
(* zSignal::Signal::Notify calls Event::notifyHandlers in signal context   *)
(* (lib/zSignal/Signal.cpp), which locks the event that RegisterObserver   *)
(* locks outside it. Nothing keeps a signal from arriving anywhere; what   *)
(* is said of the mutex is said for the points in AsyncPoints.             *)
(***************************************************************************)
EXTENDS Integers

CONSTANTS
  Threads,     \* the threads that share the mutex
  NoThread,    \* std::thread::id(0)
  MaxDepth,    \* bound on the nesting of Lock calls of one frame
  AsyncPoints  \* the points of Lock and Unlock at which a signal may arrive

Frames == {"main", "sig"}
Points == {"idle", "acquire", "timed", "own", "count", "dec", "clear", "release"}

\* Where a handler that locks waits for the thread it interrupted: the
\* timed_mutex is held and has no owner (Mutex.cpp:52-53, 92-93).
WaitPoints == {"own", "release"}

\* Where exclusion survives a handler. At "count" and "clear" it does not: there
\* the owner is set and the count is 0, so that the handler's Lock is a second
\* one, its Unlock the last, and the timed_mutex is free under its owner.
TakenPoints == {"idle", "acquire", "timed", "dec"} \cup WaitPoints

ASSUME MutexAssumption ==
  /\ NoThread \notin Threads
  /\ MaxDepth \in Nat \ {0}
  /\ AsyncPoints \subseteq Points

VARIABLES
  inner,   \* the thread that holds _mutex_lock, or NoThread
  owner,   \* _mutex_owner
  refcnt,  \* _refcnt
  pc,      \* where each frame of each thread is in Lock, TimedLock or Unlock
  hold     \* Lock calls of each frame that returned and are not yet unlocked

vars == <<inner, owner, refcnt, pc, hold>>

Init ==
  /\ inner = NoThread
  /\ owner = NoThread
  /\ refcnt = 0
  /\ pc = [t \in Threads |-> [f \in Frames |-> IF f = "main" THEN "idle" ELSE "off"]]
  /\ hold = [t \in Threads |-> [f \in Frames |-> 0]]

\* The frame of t that executes: a signal handler runs to its end first.
Running(t) == IF pc[t]["sig"] = "off" THEN "main" ELSE "sig"

At(t, f, p) == f = Running(t) /\ pc[t][f] = p
Goto(t, f, p) == pc' = [pc EXCEPT ![t][f] = p]

\* A step that only moves on.
Move(t, f, p, q) ==
  /\ At(t, f, p)
  /\ Goto(t, f, q)
  /\ UNCHANGED <<inner, owner, refcnt, hold>>

(***************************************************************************)
(* Faults: what a slip in the code would do instead of the definition that *)
(* follows with the same parameters. Spec uses none of them; each shows    *)
(* that a property can tell it from the code.                              *)
(***************************************************************************)
MineIfLocked(t) == owner # NoThread            \* any owner is taken for oneself
MineNever(t) == FALSE                          \* not recursive

-----------------------------------------------------------------------------
(* Mutex::Lock *)

Mine(t) == owner = t

LockCheck(t, f) ==
  /\ hold[t][f] < MaxDepth
  /\ Move(t, f, "idle", IF Mine(t) THEN "count" ELSE "acquire")

\* _mutex_lock.lock(), or a try_lock of it, succeeds.
TakeInner(t, f, p) ==
  /\ At(t, f, p)
  /\ inner = NoThread
  /\ inner' = t
  /\ Goto(t, f, "own")
  /\ UNCHANGED <<owner, refcnt, hold>>

LockAcquire(t, f) == TakeInner(t, f, "acquire")

LockOwn(t, f) ==
  /\ At(t, f, "own")
  /\ owner' = t
  /\ Goto(t, f, "count")
  /\ UNCHANGED <<inner, refcnt, hold>>

LockCount(t, f) ==
  /\ At(t, f, "count")
  /\ refcnt' = refcnt + 1
  /\ hold' = [hold EXCEPT ![t][f] = @ + 1]
  /\ Goto(t, f, "idle")
  /\ UNCHANGED <<inner, owner>>

(* Mutex::TryLock and Mutex::TimedLock: straight to the timed_mutex, also  *)
(* when the caller already owns it, and give up.                           *)

TimedLock(t, f) == hold[t][f] < MaxDepth /\ Move(t, f, "idle", "timed")
TimedAcquire(t, f) == TakeInner(t, f, "timed")
TimedFail(t, f) == Move(t, f, "timed", "idle")

(* Mutex::Unlock. A caller that does not own the mutex gets false and      *)
(* changes nothing; a handler unlocks only what it locked.                 *)

UnlockCheck(t, f) ==
  /\ owner = t
  /\ f = "sig" => hold[t][f] > 0
  /\ Move(t, f, "idle", "dec")

LastUnlock == refcnt = 1

UnlockDec(t, f) ==
  /\ At(t, f, "dec")
  /\ refcnt' = refcnt - 1
  /\ hold' = [hold EXCEPT ![t][f] = @ - 1]
  /\ Goto(t, f, IF LastUnlock THEN "clear" ELSE "idle")
  /\ UNCHANGED <<inner, owner>>

UnlockClear(t, f) ==
  /\ At(t, f, "clear")
  /\ owner' = NoThread
  /\ Goto(t, f, "release")
  /\ UNCHANGED <<inner, refcnt, hold>>

UnlockRelease(t, f) ==
  /\ At(t, f, "release")
  /\ inner' = NoThread
  /\ Goto(t, f, "idle")
  /\ UNCHANGED <<owner, refcnt, hold>>

-----------------------------------------------------------------------------
(* A signal is delivered to t and its handler later returns. *)

Signal(t) ==
  /\ pc[t]["sig"] = "off"
  /\ pc[t]["main"] \in AsyncPoints
  /\ pc' = [pc EXCEPT ![t]["sig"] = "idle"]
  /\ UNCHANGED <<inner, owner, refcnt, hold>>

SignalReturn(t) ==
  /\ pc[t]["sig"] = "idle"
  /\ hold[t]["sig"] = 0
  /\ pc' = [pc EXCEPT ![t]["sig"] = "off"]
  /\ UNCHANGED <<inner, owner, refcnt, hold>>

Lock(t, f) == LockCheck(t, f) \/ LockAcquire(t, f) \/ LockOwn(t, f) \/ LockCount(t, f)
Timed(t, f) == TimedLock(t, f) \/ TimedAcquire(t, f) \/ TimedFail(t, f)
Unlock(t, f) == UnlockCheck(t, f) \/ UnlockDec(t, f) \/ UnlockClear(t, f) \/ UnlockRelease(t, f)

Next ==
  \E t \in Threads :
    \/ \E f \in Frames : Lock(t, f) \/ Timed(t, f) \/ Unlock(t, f)
    \/ Signal(t)
    \/ SignalReturn(t)

Spec == Init /\ [][Next]_vars

-----------------------------------------------------------------------------
TypeOK ==
  /\ inner \in Threads \cup {NoThread}
  /\ owner \in Threads \cup {NoThread}
  /\ refcnt \in Nat
  /\ pc \in [Threads -> [Frames -> Points \cup {"off"}]]
  /\ hold \in [Threads -> [Frames -> Nat]]

\* What t holds, over both frames: it is between a Lock and its Unlock.
Held(t) == hold[t]["main"] + hold[t]["sig"]
Inside(t) == Held(t) > 0

\* Two threads are never both between a successful Lock (Mutex.cpp:47-81)
\* and the Unlock that matches it.
MutualExclusion == \A t, u \in Threads : Inside(t) /\ Inside(u) => t = u

\* As long as a thread holds the mutex the three fields agree on it, whatever
\* the others do meanwhile: its Unlock is not refused and, after as many
\* Unlocks as Locks and no fewer, it releases the timed_mutex (lines 83-98).
HolderOwns ==
  \A t \in Threads :
    Inside(t) => inner = t /\ owner = t /\ refcnt = Held(t)

\* No release is lost: when every call made so far is matched and none is
\* half done, the timed_mutex is free, nobody owns it and State() is UNLOCKED.
Quiet(t) == /\ pc[t]["main"] \in {"idle", "acquire", "timed"}
            /\ pc[t]["sig"] \in {"off", "idle", "acquire", "timed"}

FreeWhenUnmatched ==
  (\A t \in Threads : Quiet(t) /\ ~Inside(t))
     => inner = NoThread /\ owner = NoThread /\ refcnt = 0

\* Lock waits for a timed_mutex that its own thread holds nowhere but in a
\* handler that came between the lock of the timed_mutex and the line that sets
\* the owner, or between the line that clears it and the unlock: otherwise line
\* 50 sees the owner (the test of the double lock, test/zSem/Mutex.cpp:38-40).
WaitsForItselfInHandler ==
  \A t \in Threads, f \in Frames :
    At(t, f, "acquire") /\ inner = t => f = "sig" /\ pc[t]["main"] \in WaitPoints

\* The inductive invariant behind the four above. A thread works on the mutex
\* while a frame of it is past the timed_mutex or it holds something.
Working(t, f) == pc[t][f] \in {"own", "count", "dec", "clear", "release"}
Works(t) == Inside(t) \/ \E f \in Frames : Working(t, f)
Owns(t) == Inside(t) \/ \E f \in Frames : pc[t][f] \in {"count", "clear"}

FrameInv(t, f) ==
  /\ pc[t][f] \in {"own", "clear", "release"} => ~Inside(t)
  /\ pc[t][f] = "acquire" => hold[t][f] = 0
  /\ pc[t][f] = "dec" => hold[t][f] > 0

ThreadInv(t) ==
  /\ pc[t]["main"] # "off"
  /\ pc[t]["sig"] # "off" => pc[t]["main"] \in TakenPoints
  /\ pc[t]["sig"] # "off" /\ pc[t]["main"] \in WaitPoints =>
       pc[t]["sig"] \in {"idle", "acquire", "timed"}
  /\ pc[t]["sig"] = "off" => hold[t]["sig"] = 0
  /\ pc[t]["sig"] = "acquire" => ~Inside(t)
  /\ inner = t <=> Works(t)
  /\ owner = t <=> Owns(t)
  /\ inner = t => refcnt = Held(t)

IInv ==
  /\ TypeOK
  /\ inner = NoThread => refcnt = 0
  /\ \A t \in Threads : ThreadInv(t) /\ \A f \in Frames : FrameInv(t, f)

\* The fields implement the promise of zSem::Mutex, read off from the count:
\* the mutex is taken by the increment of line 55, 66 or 79 and given back by
\* the decrement of line 90.
Promise == INSTANCE RecursiveLock
             WITH holder <- IF refcnt = 0 THEN NoThread ELSE owner,
                  depth <- refcnt

ImplementsRecursiveLock == Promise!AbsSpec
=============================================================================
