-------------------------------- MODULE Queue --------------------------------
(***************************************************************************)
(* zQueue::Queue (inc/zutils/zQueue.h): a std::queue with a mutex, derived *)
(* from a zSem::Semaphore (lib/zSem/Semaphore.cpp) that counts its items.  *)
(* Consumers wait for the semaphore, then call Front, then Pop: three      *)
(* calls, as in zSocket::Socket::Recv or zLog::Manager::Run. The semaphore *)
(* is an eventfd, waited for with a poll and then a read.                  *)
(*                                                                         *)
(* The mutex is the lock of RecursiveLock, which zSem::Mutex implements; a *)
(* method that touches the items once, under the mutex, is a single step.  *)
(***************************************************************************)
EXTENDS Naturals, Sequences, FiniteSets

CONSTANTS
  Producers, Consumers,  \* the threads that push and those that wait and pop
  Clearers,              \* those that may call Clear
  NoThread,
  MaxItems               \* bound on the items pushed in a behaviour

Procs == Producers \cup Consumers

ASSUME QueueAssumption ==
  /\ Producers \cap Consumers = {}
  /\ IsFiniteSet(Consumers)
  /\ Clearers \subseteq Procs
  /\ NoThread \notin Procs
  /\ MaxItems \in Nat

Garbage == 0           \* what front() of an empty std::queue yields
Items == 1..MaxItems

VARIABLES
  items,   \* the std::queue
  count,   \* the counter of the eventfd
  lock,    \* the thread that holds _lock
  pc,      \* the call each thread is in
  got,     \* what Front returned to each consumer
  next,    \* the next item to be pushed: items are numbered
  out      \* the items consumed so far, in the order of the Pops

vars == <<items, count, lock, pc, got, next, out>>

Init ==
  /\ items = << >>
  /\ count = 0
  /\ lock = NoThread
  /\ pc = [p \in Procs |-> "idle"]
  /\ got = [c \in Consumers |-> Garbage]
  /\ next = 1
  /\ out = << >>

Goto(p, from, to) == pc[p] = from /\ pc' = [pc EXCEPT ![p] = to]

(* Faults, see Mutex. *)
PushItemFront == <<next>> \o items           \* a stack
PushPostNone(p) ==                           \* no Post
  /\ Goto(p, "post", "idle")
  /\ lock' = NoThread
  /\ UNCHANGED <<items, count, got, next, out>>
ClearDrainAny(p) ==                          \* one read more than posts
  /\ pc[p] = "drain"
  /\ count' = count - 1
  /\ UNCHANGED <<items, lock, pc, got, next, out>>
ClearItemsAny(p) ==                          \* the semaphore is not drained
  /\ Goto(p, "drain", "idle")
  /\ items' = << >>
  /\ lock' = NoThread
  /\ UNCHANGED <<count, got, next, out>>
WaitReadAll(c) ==                            \* no EFD_SEMAPHORE: read clears
  /\ Goto(c, "read", IF count > 0 THEN "front" ELSE "idle")
  /\ count' = 0
  /\ UNCHANGED <<items, lock, got, next, out>>

-----------------------------------------------------------------------------
(* Push: the item is appended and the semaphore posted under the mutex. *)

PushItem == Append(items, next)

Push(p) ==
  /\ next <= MaxItems
  /\ lock = NoThread
  /\ lock' = p
  /\ items' = PushItem
  /\ next' = next + 1
  /\ Goto(p, "idle", "post")
  /\ UNCHANGED <<count, got, out>>

PushPost(p) ==
  /\ Goto(p, "post", "idle")
  /\ count' = count + 1
  /\ lock' = NoThread
  /\ UNCHANGED <<items, got, next, out>>

(* Semaphore::TimedWait: poll says that the counter is not zero (a wait    *)
(* that times out changes nothing), then the non-blocking read takes 1, or *)
(* fails when another consumer was faster.                                 *)

WaitPoll(c) ==
  /\ count > 0
  /\ Goto(c, "idle", "read")
  /\ UNCHANGED <<items, count, lock, got, next, out>>

WaitRead(c) ==
  /\ Goto(c, "read", IF count > 0 THEN "front" ELSE "idle")
  /\ count' = IF count > 0 THEN count - 1 ELSE 0
  /\ UNCHANGED <<items, lock, got, next, out>>

(* Front and Pop. Pop of an empty std::queue is undefined; here it leaves  *)
(* the queue empty, and NoEmptyFront says that it is never met.            *)

Front(c) ==
  /\ lock = NoThread
  /\ Goto(c, "front", "pop")
  /\ got' = [got EXCEPT ![c] = IF items = << >> THEN Garbage ELSE Head(items)]
  /\ UNCHANGED <<items, count, lock, next, out>>

Pop(c) ==
  /\ lock = NoThread
  /\ Goto(c, "pop", "idle")
  /\ items' = IF items = << >> THEN << >> ELSE Tail(items)
  /\ out' = Append(out, got[c])
  /\ UNCHANGED <<count, lock, got, next>>

(* Clear: under the mutex, TryWait until it fails, then empty the queue. *)

Clear(p) ==
  /\ lock = NoThread
  /\ lock' = p
  /\ Goto(p, "idle", "drain")
  /\ UNCHANGED <<items, count, got, next, out>>

ClearDrain(p) ==
  /\ pc[p] = "drain"
  /\ count > 0
  /\ count' = count - 1
  /\ UNCHANGED <<items, lock, pc, got, next, out>>

ClearItems(p) ==
  /\ count = 0
  /\ Goto(p, "drain", "idle")
  /\ items' = << >>
  /\ lock' = NoThread
  /\ UNCHANGED <<count, got, next, out>>

Next ==
  \/ \E p \in Producers : Push(p) \/ PushPost(p)
  \/ \E c \in Consumers : WaitPoll(c) \/ WaitRead(c) \/ Front(c) \/ Pop(c)
  \/ \E p \in Clearers : Clear(p) \/ ClearDrain(p) \/ ClearItems(p)

Spec == Init /\ [][Next]_vars

\* Threads run; whoever is in Push or Clear returns, and consumers keep waiting
\* and consuming. Nobody has to push or to clear.
Fairness ==
  /\ \A p \in Producers : WF_vars(PushPost(p))
  /\ \A p \in Clearers : WF_vars(ClearDrain(p) \/ ClearItems(p))
  /\ \A c \in Consumers : WF_vars(WaitPoll(c) \/ WaitRead(c)) /\ SF_vars(Front(c) \/ Pop(c))

FairSpec == Spec /\ Fairness

-----------------------------------------------------------------------------
TypeOK ==
  /\ items \in Seq(Items)
  /\ count \in Nat
  /\ lock \in Procs \cup {NoThread}
  /\ pc \in [Procs -> {"idle", "post", "read", "front", "pop", "drain"}]
  /\ got \in [Consumers -> Nat]
  /\ next \in 1..(MaxItems + 1)
  /\ out \in Seq(Items)

\* The consumers that took a token of the semaphore and have not popped.
Served == {c \in Consumers : pc[c] \in {"front", "pop"}}
Posting == \E p \in Procs : pc[p] = "post"
Draining == \E p \in Procs : pc[p] = "drain"

\* The semaphore and the queue agree, except in the middle of Clear: there is
\* an item for every token not yet taken, one for every consumer that took a
\* token and one for the push that is not yet posted.
TokensMatchItems ==
  ~Draining =>
    Len(items) = count + Cardinality(Served) + (IF Posting THEN 1 ELSE 0)

\* A consumer whose wait succeeded never finds the queue empty, neither in
\* Front nor in Pop, where that would be undefined (zQueue.h:54 and 91).
NoEmptyFront == Served # {} => items # << >>

\* The inductive invariant behind them. While Clear drains the semaphore the
\* items are the more; nobody but a lone consumer may clear (OwnClear).
OwnClear == \A p \in Clearers : Consumers = {p}

InCalls(p) ==
  /\ p \notin Producers => pc[p] # "post"
  /\ p \notin Consumers => pc[p] \notin {"read", "front", "pop"}
  /\ p \notin Clearers => pc[p] # "drain"
  /\ pc[p] \in {"post", "drain"} <=> lock = p

IInv ==
  /\ TypeOK
  /\ \A p \in Procs : InCalls(p)
  /\ TokensMatchItems
  /\ Draining => Len(items) >= count
  /\ \A c \in Consumers : pc[c] = "pop" => got[c] \in Items

\* The consumer gets every item once, in the order of the Pushes: the three
\* calls of Wait, Front and Pop act as one (with a single consumer).
Promise == INSTANCE Fifo WITH queue <- items

ImplementsFifo == Promise!FifoSpec

\* What is pushed does not stay in the queue: it is consumed or cleared.
Gone(i) == i \notin {items[k] : k \in DOMAIN items}

EveryItemServed ==
  \A i \in 1..MaxItems : i < next ~> Gone(i)
=============================================================================
