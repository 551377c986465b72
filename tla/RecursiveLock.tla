---------------------------- MODULE RecursiveLock ----------------------------
(***************************************************************************)
(* What zSem::Mutex promises its callers (inc/zutils/zSem.h, class Mutex): *)
(* a lock with at most one holding thread, which that thread may take      *)
(* again, and which is free once every Lock has been matched by an Unlock. *)
(***************************************************************************)
EXTENDS Naturals

CONSTANTS Threads, NoThread

VARIABLES holder,  \* the thread that holds the lock, or NoThread
          depth    \* how many of its acquisitions are not yet released

absVars == <<holder, depth>>

AbsInit == holder = NoThread /\ depth = 0

Acquire(t) ==
  /\ holder \in {NoThread, t}
  /\ holder' = t
  /\ depth' = depth + 1

Release(t) ==
  /\ holder = t
  /\ depth' = depth - 1
  /\ holder' = IF depth = 1 THEN NoThread ELSE t

AbsNext == \E t \in Threads : Acquire(t) \/ Release(t)

AbsSpec == AbsInit /\ [][AbsNext]_absVars
=============================================================================
