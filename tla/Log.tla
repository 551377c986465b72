--------------------------------- MODULE Log ----------------------------------
(***************************************************************************)
(* zLog::Manager and zLog::Log (lib/zLog/Manager.cpp, Log.cpp): threads    *)
(* create messages, unless nobody would hear them, and push them to a      *)
(* queue; the manager's own thread pops them and calls the connector of    *)
(* their level. Registering the first connector starts that thread and     *)
(* unregistering the last one stops it, both inside the manager's lock,    *)
(* which the thread takes for every message with a timeout.                *)
(*                                                                         *)
(* The thread is Thread's; the queue is the channel of Fifo, which Queue   *)
(* implements for a single consumer. One module logs, with several Logs.   *)
(***************************************************************************)
EXTENDS Naturals, Sequences

CONSTANTS
  Loggers,            \* threads that log
  Connectors, NoConn,
  Levels,             \* 0..n, LEVEL_CRIT to LEVEL_DEBUG3
  LevelDef,           \* LEVEL_DEF
  All,                \* LEVEL_ALL
  NoThread, Caller, Worker,
  MaxLogs, MaxMsgs, MaxRuns   \* bounds: Logs, messages of a logger, starts

ASSUME LogAssumption ==
  /\ LevelDef \in Levels
  /\ Levels \subseteq Nat
  /\ All \notin Levels
  /\ NoConn \notin Connectors
  /\ Caller # Worker
  /\ NoThread \notin {Caller, Worker}

NoMsg == [from |-> "nobody"]
Msgs == [from : Loggers, id : 1..MaxMsgs, level : Levels]

VARIABLES
  shape, exit, reload, thread, observed, ctl, pc, ready, asked, runs, disturbed,   \* Thread
  msgs,      \* _msg_queue
  conn,      \* _conn, NoConn where a level has no entry
  refcnt,    \* _mod_refcnt of the module
  max,       \* _max_level of the module, All where it has no entry
  lock,      \* who holds _log_lock
  lctl,      \* where the caller of (Un)RegisterConnector is
  held,      \* the message that each logger has created and not pushed
  taken,     \* the message that Run has popped
  target,    \* the connector that Run is about to call
  sent,      \* history: messages created by each logger
  heard      \* history: what each connector was given

T == INSTANCE Thread WITH
       Shapes <- {"check"}, Signals <- FALSE, SelfEnd <- FALSE, MaxAsked <- 0

tvars == <<shape, exit, reload, thread, observed, ctl, pc, ready, asked, runs, disturbed>>
setup == <<conn, refcnt, max, lctl>>
logs == <<held, sent>>
work == <<taken, target, heard>>
vars == <<tvars, setup, logs, work, msgs, lock>>

Init ==
  /\ T!Init
  /\ msgs = << >>
  /\ conn = [v \in Levels |-> NoConn]
  /\ refcnt = 0
  /\ max = All
  /\ lock = NoThread
  /\ lctl = "idle"
  /\ held = [l \in Loggers |-> NoMsg]
  /\ taken = NoMsg
  /\ target = NoConn
  /\ sent = [l \in Loggers |-> 0]
  /\ heard = [c \in Connectors |-> << >>]

Known == refcnt > 0
Connected == {v \in Levels : conn[v] # NoConn}
Chosen(v) == IF v = All THEN Levels ELSE {v}

(* Faults, see Mutex. *)
TimedLockFailsNever == FALSE                  \* Lock instead of TimedLock
EnqueueFront(m) == <<m>> \o msgs
ChooseUnlock ==                               \* unlock, then call the connector
  /\ lock = Worker /\ target = NoConn
  /\ conn[taken.level] # NoConn
  /\ target' = conn[taken.level]
  /\ lock' = NoThread
  /\ UNCHANGED <<tvars, setup, logs, msgs, taken, heard>>

-----------------------------------------------------------------------------
(* Log::Log and ~Log, with (Un)RegisterModule; SetMaxLevel takes no lock. *)

Reset(m) == LevelDef

RegisterModule ==
  /\ refcnt < MaxLogs
  /\ lock = NoThread
  /\ refcnt' = refcnt + 1
  /\ max' = Reset(max)
  /\ UNCHANGED <<tvars, conn, lctl, logs, work, msgs, lock>>

UnregisterModule ==
  /\ refcnt > 0
  /\ lock = NoThread
  /\ refcnt' = refcnt - 1
  /\ max' = IF refcnt = 1 THEN All ELSE max
  /\ UNCHANGED <<tvars, conn, lctl, logs, work, msgs, lock>>

SetMaxLevel ==
  /\ Known
  /\ \E v \in Levels : max' = v
  /\ UNCHANGED <<tvars, conn, refcnt, lctl, logs, work, msgs, lock>>

\* Log::CreateMessage makes a message if some connector is registered at or
\* above the level of the message, up to the module's level (GetMaxLevel).
AtMaxLevel(v) == Known /\ \E u \in Connected : v <= u /\ u <= max

CreateMessage(l, v) ==
  /\ held[l] = NoMsg
  /\ sent[l] < MaxMsgs
  /\ lock = NoThread
  /\ AtMaxLevel(v)
  /\ held' = [held EXCEPT ![l] = [from |-> l, id |-> sent[l] + 1, level |-> v]]
  /\ sent' = [sent EXCEPT ![l] = @ + 1]
  /\ UNCHANGED <<tvars, setup, work, msgs, lock>>

Enqueue(m) == Append(msgs, m)

LogMessage(l) ==
  /\ held[l] # NoMsg
  /\ msgs' = Enqueue(held[l])
  /\ held' = [held EXCEPT ![l] = NoMsg]
  /\ UNCHANGED <<tvars, setup, work, lock, sent>>

-----------------------------------------------------------------------------
(* RegisterConnector and UnregisterConnector *)

RegisterConnector(c, v) ==
  /\ lctl = "idle"
  /\ runs < MaxRuns \/ thread
  /\ lock = NoThread
  /\ lock' = Caller
  /\ conn' = [u \in Levels |-> IF u \in Chosen(v) THEN c ELSE conn[u]]
  /\ lctl' = "start"
  /\ UNCHANGED <<tvars, refcnt, max, logs, work, msgs>>

StartThread ==
  /\ lctl = "start"
  /\ T!Start
  /\ UNCHANGED <<setup, logs, work, msgs, lock>>

UnregisterConnector(v) ==
  /\ lctl = "idle"
  /\ lock = NoThread
  /\ lock' = Caller
  /\ conn' = [u \in Levels |-> IF u \in Chosen(v) THEN NoConn ELSE conn[u]]
  /\ lctl' = "stop"
  /\ UNCHANGED <<tvars, refcnt, max, logs, work, msgs>>

MustStop == thread /\ Connected = {}

StopThread ==
  /\ lctl = "stop"
  /\ MustStop
  /\ T!Stop
  /\ UNCHANGED <<setup, logs, work, msgs, lock>>

\* The inside of Thread::Start, Stop and Join.
ThreadCall ==
  /\ T!StartObserve \/ T!StartCreate \/ T!Join \/ T!Unobserve
  /\ UNCHANGED <<setup, logs, work, msgs, lock>>

Return ==
  /\ ctl = "idle"
  /\ (lctl = "start" /\ thread) \/ (lctl = "stop" /\ ~MustStop)
  /\ lctl' = "idle"
  /\ lock' = NoThread
  /\ UNCHANGED <<tvars, conn, refcnt, max, logs, work, msgs>>

-----------------------------------------------------------------------------
(* Manager::Run *)

RunLoop ==
  /\ taken = NoMsg
  /\ T!Begin \/ T!Check \/ T!Body
  /\ UNCHANGED <<setup, logs, work, msgs, lock>>

\* TimedWait, Front and Pop.
Take ==
  /\ pc = "body" /\ taken = NoMsg
  /\ msgs # << >>
  /\ taken' = Head(msgs)
  /\ msgs' = Tail(msgs)
  /\ UNCHANGED <<tvars, setup, logs, target, heard, lock>>

TimedLock ==
  /\ taken # NoMsg
  /\ lock = NoThread
  /\ lock' = Worker
  /\ UNCHANGED <<tvars, setup, logs, work, msgs>>

\* 100 ms are long for every holder of the lock but the one that waits for
\* this thread to end; the message is dropped.
TimedLockFails == lctl = "stop" /\ ctl = "joining"

Drop ==
  /\ taken # NoMsg
  /\ lock = Caller
  /\ TimedLockFails
  /\ taken' = NoMsg
  /\ UNCHANGED <<tvars, setup, logs, msgs, target, heard, lock>>

Choose ==
  /\ lock = Worker /\ target = NoConn
  /\ Known /\ taken.level <= max
  /\ conn[taken.level] # NoConn
  /\ target' = conn[taken.level]
  /\ UNCHANGED <<tvars, setup, logs, msgs, taken, heard, lock>>

\* Connector::Logger, then the lock is released.
CallLogger ==
  /\ target # NoConn
  /\ heard' = [heard EXCEPT ![target] = Append(@, taken)]
  /\ target' = NoConn
  /\ taken' = NoMsg
  /\ lock' = NoThread
  /\ UNCHANGED <<tvars, setup, logs, msgs>>

Ignore ==
  /\ lock = Worker /\ target = NoConn
  /\ (Known /\ taken.level <= max) => conn[taken.level] = NoConn
  /\ taken' = NoMsg
  /\ lock' = NoThread
  /\ UNCHANGED <<tvars, setup, logs, msgs, target, heard>>

Log ==
  \/ RegisterModule \/ UnregisterModule \/ SetMaxLevel
  \/ \E l \in Loggers : LogMessage(l) \/ \E v \in Levels : CreateMessage(l, v)
Setup ==
  \E v \in Levels \cup {All} :
    UnregisterConnector(v) \/ \E c \in Connectors : RegisterConnector(c, v)
Call == StartThread \/ StopThread \/ ThreadCall \/ Return
Run == RunLoop \/ Take \/ TimedLock \/ Drop \/ Choose \/ CallLogger \/ Ignore

Next == Log \/ Setup \/ Call \/ Run

Spec == Init /\ [][Next]_vars

\* Both the caller, once in a call, and the manager's thread are scheduled, and
\* the thread gets the lock if it is free again and again.
FairSpec == Spec /\ WF_vars(Call) /\ SF_vars(Run)

-----------------------------------------------------------------------------
TypeOK ==
  /\ T!TypeOK
  /\ msgs \in Seq(Msgs)
  /\ conn \in [Levels -> Connectors \cup {NoConn}]
  /\ refcnt \in 0..MaxLogs
  /\ max \in Levels \cup {All}
  /\ lock \in {NoThread, Caller, Worker}
  /\ lctl \in {"idle", "start", "stop"}
  /\ held \in [Loggers -> Msgs \cup {NoMsg}]
  /\ taken \in Msgs \cup {NoMsg}
  /\ target \in Connectors \cup {NoConn}

\* A connector is called only while it is registered, so it may be destroyed
\* when UnregisterConnector has returned.
CalledOnlyRegistered ==
  target # NoConn => \E v \in Levels : conn[v] = target

\* A connector hears the messages of each thread in the order they were logged.
HeardInOrder ==
  \A c \in Connectors : \A i, j \in DOMAIN heard[c] :
    i < j /\ heard[c][i].from = heard[c][j].from => heard[c][i].id < heard[c][j].id

\* What a connector and its owner may rely on, whatever is logged meanwhile.
ConnectorsServed == CalledOnlyRegistered /\ HeardInOrder

\* UnregisterConnector returns, although it joins the thread with the lock in
\* hand that the thread may be waiting for.
CallsReturn == lctl # "idle" ~> lctl = "idle"

(***************************************************************************)
(* The inductive invariant behind ConnectorsServed: who holds the lock, and *)
(* the numbers of the messages on their way from a logger to a connector.  *)
(***************************************************************************)
Numbered == [from : Loggers, id : Nat, level : Levels]

Typed ==
  /\ msgs \in Seq(Numbered)
  /\ taken \in Numbered \cup {NoMsg}
  /\ heard \in [Connectors -> Seq(Numbered)]
  /\ held \in [Loggers -> Numbered \cup {NoMsg}] /\ sent \in [Loggers -> Nat]
  /\ target \in Connectors \cup {NoConn}
  /\ conn \in [Levels -> Connectors \cup {NoConn}]

\* The connectors change, and a connector is called, with the lock in hand.
Locked ==
  /\ lctl = "idle" <=> lock # Caller
  /\ lock = Worker => taken # NoMsg
  /\ target # NoConn => lock = Worker /\ conn[taken.level] = target

\* m was created before what its logger has in hand, and before n.
Pushed(m) == m.id <= sent[m.from] /\ (held[m.from] # NoMsg => m.id < sent[m.from])
Before(m, n) == m.from = n.from => m.id < n.id

HeldIsLast == \A l \in Loggers : held[l] # NoMsg => held[l].from = l /\ held[l].id = sent[l]
QueueInOrder ==
  \A j \in DOMAIN msgs :
    Pushed(msgs[j]) /\ \A k \in DOMAIN msgs : j < k => Before(msgs[j], msgs[k])
TakenIsFirst ==
  taken # NoMsg => Pushed(taken) /\ \A k \in DOMAIN msgs : Before(taken, msgs[k])
HeardIsPast ==
  \A c \in Connectors : \A i \in DOMAIN heard[c] :
    /\ Pushed(heard[c][i])
    /\ taken # NoMsg => Before(heard[c][i], taken)
    /\ \A k \in DOMAIN msgs : Before(heard[c][i], msgs[k])

InOrder == HeldIsLast /\ QueueInOrder /\ TakenIsFirst /\ HeardIsPast /\ HeardInOrder

IInv == Typed /\ Locked /\ InOrder
=============================================================================
