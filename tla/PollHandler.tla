----------------------------- MODULE PollHandler ------------------------------
(***************************************************************************)
(* zSocket::Handler (lib/zSocket/SocketHandler.cpp) and zTimer::Handler    *)
(* (lib/zTimer/TimerHandler.cpp): a map of event sources under a mutex and *)
(* a thread that polls their descriptors and notifies of those readable.   *)
(* They are Thread and EventBus put together: the sources are events, the  *)
(* handler itself is their handler, and there are two threads, the caller  *)
(* of the handler and its own. The thread reads the map once, so each call *)
(* stops it and starts it again: the socket handler before it changes the  *)
(* map, the timer handler after that.                                      *)
(***************************************************************************)
EXTENDS Naturals, Sequences, FiniteSets

CONSTANTS
  Kinds,     \* which of the two handlers, "socket" or "timer"
  Sources,   \* the sockets or timers
  Observer, Self, Caller, Worker, NoThread, NoSource,
  MaxFds,    \* NTIMER_MAX or NSOCK_MAX
  MaxRuns    \* bound on the starts of the thread

ASSUME HandlerAssumption ==
  /\ Kinds \subseteq {"socket", "timer"}
  /\ Caller # Worker
  /\ NoSource \notin Sources
  /\ MaxFds \in Nat /\ MaxRuns \in Nat

VARIABLES
  kind,      \* which handler this is, which never changes
  shape, exit, reload, thread, observed, ctl, pc, ready, asked, runs, disturbed,   \* Thread
  handlers, events, observers, elock, hlock, calls, due, got,              \* EventBus
  list,      \* _smap or _timer_list
  lock,      \* who holds _lock
  hctl,      \* where the caller is in its call
  op,        \* what it calls for which source
  fds,       \* the descriptors that the thread polls
  hit        \* the source that it found in the map for a readable descriptor

T == INSTANCE Thread WITH
       Shapes <- {"check"}, Signals <- FALSE, SelfEnd <- FALSE, MaxAsked <- 0
B == INSTANCE EventBus WITH
       Threads <- {Caller, Worker}, Events <- Sources, Handlers <- {Self}, Observers <- {Observer},
       call <- calls

tvars == <<shape, exit, reload, thread, observed, ctl, pc, ready, asked, runs, disturbed>>
bvars == <<handlers, events, observers, elock, hlock, calls, due, got>>
hvars == <<kind, list, lock, hctl, op, fds, hit>>
pvars == <<tvars, bvars, hvars>>

NoOp == [do |-> "none", src |-> NoSource]

HandlerInit ==
  /\ T!Init
  /\ B!Init
  /\ kind \in Kinds
  /\ list = {}
  /\ lock = NoThread
  /\ hctl = "idle"
  /\ op = NoOp
  /\ fds = {}
  /\ hit = NoSource

(* Faults, see Mutex. *)
FirstLock == "lock"                          \* the timer's order for both
AfterUpdateStart == "start"                  \* the thread is not stopped
RoomForOneMore == kind = "timer" => Cardinality(list) <= MaxFds

First == IF kind = "socket" THEN "stop" ELSE "lock"
AfterUpdate == IF kind = "socket" THEN "start" ELSE "stop"
AfterStop ==
  IF kind = "socket" THEN "lock" ELSE IF op.do = "full" THEN "idle" ELSE "start"

-----------------------------------------------------------------------------
(* RegisterSocket, UnregisterSocket, RegisterTimer and UnregisterTimer. A  *)
(* caller registers once, and unregisters what it registered.              *)

Begin(do, s) ==
  /\ hctl = "idle"
  /\ runs < MaxRuns
  /\ do = "register" <=> s \notin list
  /\ op' = [do |-> do, src |-> s]
  /\ hctl' = First
  /\ UNCHANGED <<tvars, bvars, kind, list, lock, fds, hit>>

\* _thread.Stop(), which has nothing to do without a thread.
StopThread ==
  /\ hctl = "stop"
  /\ T!Stop
  /\ UNCHANGED <<bvars, hvars>>

Stopped ==
  /\ hctl = "stop"
  /\ ~thread /\ ctl = "idle"
  /\ hctl' = AfterStop
  /\ UNCHANGED <<tvars, bvars, kind, list, lock, op, fds, hit>>

\* The timer handler takes MaxFds timers and with one more forgets to start its
\* thread again (ntimer stays 0); the socket handler takes any number.
Room == kind = "timer" => Cardinality(list) < MaxFds

TakeLock ==
  /\ hctl = "lock"
  /\ lock = NoThread
  /\ IF op.do = "unregister" \/ Room
       THEN lock' = Caller /\ hctl' = "event" /\ op' = op
       ELSE lock' = lock /\ hctl' = "stop" /\ op' = [op EXCEPT !.do = "full"]
  /\ UNCHANGED <<tvars, bvars, kind, list, fds, hit>>

ChangeEvent ==
  /\ hctl = "event"
  /\ \/ op.do = "register" /\ B!RegisterEvent(Caller, Self, op.src)
     \/ op.do = "unregister" /\ B!UnregisterEvent(Caller, Self, op.src)
  /\ hctl' = "update"
  /\ UNCHANGED <<tvars, kind, list, lock, op, fds, hit>>

Update ==
  /\ hctl = "update"
  /\ B!Finish(Caller)
  /\ hctl' = "write"
  /\ UNCHANGED <<tvars, kind, list, lock, op, fds, hit>>

Written == IF op.do = "register" THEN list \cup {op.src} ELSE list \ {op.src}

Write ==
  /\ hctl = "write"
  /\ list' = Written
  /\ lock' = NoThread
  /\ hctl' = AfterUpdate
  /\ UNCHANGED <<tvars, bvars, kind, op, fds, hit>>

Restart(l) == l # {}

StartThread ==
  /\ hctl = "start"
  /\ Restart(list)
  /\ T!Start
  /\ UNCHANGED <<bvars, hvars>>

Return ==
  /\ hctl = "start"
  /\ ctl = "idle"
  /\ thread <=> Restart(list)
  /\ hctl' = "idle"
  /\ UNCHANGED <<tvars, bvars, kind, list, lock, op, fds, hit>>

\* The inside of Thread::Start, Stop and Join.
ThreadCall ==
  /\ T!StartObserve \/ T!StartCreate \/ T!Join \/ T!Unobserve
  /\ UNCHANGED <<bvars, hvars>>

Observers ==
  /\ hctl = "idle"
  /\ B!RegisterObserver(Caller, Self, Observer) \/ B!UnregisterObserver(Caller, Self, Observer)
  /\ UNCHANGED <<tvars, hvars>>

-----------------------------------------------------------------------------
(* Handler::Run *)

\* The descriptors go into an array of MaxFds. Those that the socket handler has
\* beyond that are written past its end: if the process survives, what is polled
\* is anything.
Snapshots == IF Cardinality(list) <= MaxFds THEN {list} ELSE SUBSET Sources

RunBegin ==
  /\ lock = NoThread
  /\ T!Begin
  /\ fds' \in Snapshots
  /\ UNCHANGED <<bvars, kind, list, lock, hctl, op, hit>>

RunCheck == T!Check /\ UNCHANGED <<bvars, hvars>>

\* A descriptor is readable: its source is looked up without the lock, then
\* notifies. Descriptors that are not in the map (any more) are skipped.
Found(s) == s \in list

Lookup ==
  /\ pc = "body"
  /\ hit = NoSource
  /\ calls[Worker].op = "idle"
  /\ \E s \in fds : Found(s) /\ hit' = s
  /\ UNCHANGED <<tvars, bvars, kind, list, lock, hctl, op, fds>>

NotifyHit ==
  /\ hit # NoSource
  /\ B!Notify(Worker, hit)
  /\ hit' = NoSource
  /\ UNCHANGED <<tvars, kind, list, lock, hctl, op, fds>>

Deliver == B!Deliver(Worker) /\ UNCHANGED <<tvars, hvars>>

RunBody ==
  /\ hit = NoSource
  /\ calls[Worker].op = "idle"
  /\ T!Body
  /\ UNCHANGED <<bvars, hvars>>

Register == \E s \in Sources : Begin("register", s) \/ Begin("unregister", s)
Call == StopThread \/ Stopped \/ TakeLock \/ ChangeEvent \/ Update
          \/ Write \/ StartThread \/ Return \/ ThreadCall
Run == RunBegin \/ RunCheck \/ Lookup \/ NotifyHit \/ Deliver \/ RunBody

HandlerNext == Register \/ Observers \/ Call \/ Run

HandlerSpec == HandlerInit /\ [][HandlerNext]_pvars

(***************************************************************************)
(* Both threads are scheduled; the body of the loop waits 100 ms at most   *)
(* and handles each descriptor once, so it ends although a source may be   *)
(* readable again; and who waits for a mutex that is free again and again  *)
(* gets it. Nobody has to call the handler.                                *)
(***************************************************************************)
FairSpec ==
  /\ HandlerSpec
  /\ SF_pvars(Call)
  /\ SF_pvars(RunBegin \/ RunCheck \/ NotifyHit \/ Deliver)
  /\ SF_pvars(RunBody)

-----------------------------------------------------------------------------
HandlerTypeOK ==
  /\ T!TypeOK
  /\ B!TypeOK
  /\ list \in SUBSET Sources
  /\ lock \in {Caller, NoThread}
  /\ hctl \in {"idle", "stop", "lock", "event", "update", "write", "start"}
  /\ fds \in SUBSET Sources
  /\ hit \in Sources \cup {NoSource}

\* There are more sockets than the array has room for.
Overrun == kind = "socket" /\ Cardinality(list) > MaxFds

\* The last call was that of a timer too many.
Refused == op.do = "full"

\* When a call returned, the thread polls the descriptors of exactly the
\* sources that are registered, or is about to read them, and goes on until it
\* is stopped ("so the timer fd gets added to the poll list",
\* TimerHandler.cpp:63-64, SocketHandler.cpp:68-69). The refusal of a timer, at
\* the limit and no earlier, leaves the handler without a thread up to the next
\* call, and no timer is polled any more; of sockets that overran the array
\* nothing is said.
RegisteredIsPolled ==
  hctl = "idle" /\ ~Overrun =>
    IF Refused THEN ~thread /\ Cardinality(list) = MaxFds
    ELSE IF list = {} THEN ~thread
    ELSE thread /\ ~T!Quitting /\ (pc = "begin" \/ fds = list)

\* A socket or timer that was unregistered may be destroyed: when no call is
\* going on, what the thread has in hand is registered.
InHandIsRegistered ==
  hctl = "idle" =>
    /\ hit # NoSource => hit \in list
    /\ calls[Worker].op # "idle" => calls[Worker].e \in list

\* The socket handler changes its map only while its thread, which reads the
\* map without the lock, does not run; the timer handler does not care.
MapNotRaced ==
  kind = "socket" /\ hctl \in {"lock", "event", "update", "write"} => pc \in {"none", "done"}

\* The caller, with the handler's event lock, never waits for the source that
\* its thread notifies of while the thread waits for the handler.
TimerLocksOrdered == kind = "timer" => B!NoCrossWait

\* Every call of the socket handler returns.
SocketCallReturns == (kind = "socket" /\ hctl # "idle") ~> hctl = "idle"

(***************************************************************************)
(* The inductive invariant behind the state properties. In the call of the *)
(* timer handler the map differs from what the thread has read once it is  *)
(* written and until the thread is stopped, see Outdated. A timer that is  *)
(* refused leaves the handler without a thread.                            *)
(***************************************************************************)
Outdated == kind = "timer" /\ hctl = "stop"
Changing == kind = "socket" /\ hctl \in {"lock", "event", "update", "write"}
StateInv ==
  /\ kind \in Kinds
  /\ DOMAIN op = {"do", "src"}
  /\ list \subseteq Sources
  /\ hctl # "idle" => op.src \in Sources /\ op.do \in {"register", "unregister", "full"}
  /\ ~disturbed

CallerInv ==
  /\ ctl \in {"joining", "leaving"} => hctl = "stop"
  /\ ctl = "starting" => hctl = "start"
  /\ hctl = "idle" /\ ~Refused => (thread <=> list # {})
  /\ Refused => kind = "timer" /\ hctl \in {"stop", "idle"} /\ (hctl = "idle" => ~thread)
  /\ Changing => ~thread
  /\ kind = "timer" /\ hctl = "lock" /\ op.do = "register" => op.src \notin list

LimitInv ==
  /\ IsFiniteSet(list)
  /\ kind = "timer" => Cardinality(list) <= MaxFds
  /\ kind = "timer" /\ op.do = "register" /\ hctl \in {"event", "update", "write"} =>
       Cardinality(list) < MaxFds
  /\ Refused => Cardinality(list) = MaxFds

PolledInv == thread /\ ~Outdated => pc = "begin" \/ fds = list \/ Overrun

WorkerInv ==
  /\ DOMAIN calls = {Caller, Worker}
  /\ calls[Worker].op \in {"idle", "notify", "observe"}
  /\ B!Is(Worker, "observe") => DOMAIN calls[Worker] = {"op", "e", "todo", "cbs"}
  /\ hit # NoSource \/ ~B!Is(Worker, "idle") => pc = "body"

HandInv ==
  ~Outdated =>
    /\ hit # NoSource => hit \in list
    /\ ~B!Is(Worker, "idle") => calls[Worker].e \in list

HandlerIInv == T!IInv /\ StateInv /\ CallerInv /\ LimitInv /\ PolledInv /\ WorkerInv /\ HandInv
=============================================================================
