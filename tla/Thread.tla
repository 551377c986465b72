------------------------------- MODULE Thread --------------------------------
(***************************************************************************)
(* zThread::Thread and zThread::ThreadFunction (lib/zThread/Thread.cpp): a *)
(* std::thread that is started, asked to stop through the _exit semaphore  *)
(* and joined, by one controlling thread at a time; and the two loops that *)
(* the functions of the library run:                                       *)
(*   "check"  while (!Exit()) { ... }    zTimer and zSocket handlers, zLog *)
(*   "poll"   while (!exit) { Poll(fds); for each fd ... }     the sockets *)
(* SIGTERM and SIGINT post the same semaphore while the thread observes    *)
(* them. Both semaphores are eventfds of which a read takes 1.             *)
(***************************************************************************)
EXTENDS Naturals

CONSTANTS
  Shapes,    \* the loops that the function may have: "check", "poll"
  Signals,   \* whether SIGTERM and SIGINT arrive
  SelfEnd,   \* whether the function may return unasked (as the tests' does)
  MaxRuns,   \* bound on the calls of Start that create a thread
  MaxAsked   \* bound on the requests made to one run by signals

ASSUME ThreadAssumption ==
  /\ Shapes \subseteq {"check", "poll"}
  /\ Signals \in BOOLEAN
  /\ SelfEnd \in BOOLEAN
  /\ MaxRuns \in Nat
  /\ MaxAsked \in Nat

Sigs == {"SIGTERM", "SIGINT"}

VARIABLES
  shape,     \* the loop of this function, which never changes
  exit,      \* counter of _exit
  reload,    \* counter of _reload
  thread,    \* whether _thread is not NULL
  observed,  \* the signals that the Thread is registered for
  ctl,       \* where the controlling thread is in Start, Stop or Join
  pc,        \* where Run is, "none" without a thread, "done" when it returned
  ready,     \* the descriptors that the last Poll returned as readable
  asked,     \* history: requests to exit since Start was last called
  runs,      \* history: threads created
  disturbed  \* history: a signal arrived or a function returned unasked

vars == <<shape, exit, reload, thread, observed, ctl, pc, ready, asked, runs, disturbed>>

Init ==
  /\ shape \in Shapes
  /\ exit = 0 /\ reload = 0
  /\ thread = FALSE
  /\ observed = {}
  /\ ctl = "idle"
  /\ pc = "none"
  /\ ready = {}
  /\ asked = 0 /\ runs = 0
  /\ disturbed = FALSE

control == <<shape, thread, observed, ctl, runs>>

(* Faults, see Mutex. *)
BeginClears ==                                    \* drops what it finds
  /\ pc = "begin"
  /\ pc' = "loop"
  /\ exit' = 0
  /\ UNCHANGED <<disturbed, reload, control, ready, asked>>
StopTwice ==                                      \* Exit(true) twice
  /\ ctl = "idle" /\ thread
  /\ exit' = exit + 2
  /\ asked' = asked + 1
  /\ ctl' = "joining"
  /\ UNCHANGED <<disturbed, shape, reload, thread, observed, pc, ready, runs>>
HandleOnce ==                                     \* exit is lost in the loop
  /\ pc = "handle"
  /\ pc' = "loop"
  /\ ready' = {}
  /\ UNCHANGED <<disturbed, exit, reload, control, asked>>

-----------------------------------------------------------------------------
(* Thread::Start *)

Start ==
  /\ ctl = "idle" /\ ~thread
  /\ runs < MaxRuns
  /\ ctl' = "starting"
  /\ asked' = 0
  /\ UNCHANGED <<disturbed, shape, exit, reload, thread, observed, pc, ready, runs>>

StartObserve ==
  /\ ctl = "starting"
  /\ observed # Sigs
  /\ observed' = IF observed = {} THEN {"SIGTERM"} ELSE Sigs
  /\ UNCHANGED <<disturbed, shape, exit, reload, thread, ctl, pc, ready, asked, runs>>

StartCreate ==
  /\ ctl = "starting"
  /\ observed = Sigs
  /\ thread' = TRUE
  /\ pc' = "begin"
  /\ runs' = runs + 1
  /\ ctl' = "idle"
  /\ UNCHANGED <<disturbed, shape, exit, reload, observed, ready, asked>>

(* Thread::Stop, also run by the destructor, and Thread::Join. A caller    *)
(* joins without stopping only a function that returns by itself.          *)

Stop ==
  /\ ctl = "idle" /\ thread
  /\ exit' = exit + 1
  /\ asked' = asked + 1
  /\ ctl' = "joining"
  /\ UNCHANGED <<disturbed, shape, reload, thread, observed, pc, ready, runs>>

JoinOnly ==
  /\ SelfEnd
  /\ ctl = "idle" /\ thread
  /\ ctl' = "joining"
  /\ UNCHANGED <<disturbed, shape, exit, reload, thread, observed, pc, ready, asked, runs>>

Join ==
  /\ ctl = "joining"
  /\ pc = "done"
  /\ ctl' = "leaving"
  /\ thread' = FALSE
  /\ pc' = "none"
  /\ UNCHANGED <<disturbed, shape, exit, reload, observed, ready, asked, runs>>

Unobserve ==
  /\ ctl = "leaving"
  /\ observed' = IF observed = Sigs THEN {"SIGINT"} ELSE {}
  /\ ctl' = IF observed = Sigs THEN "leaving" ELSE "idle"
  /\ UNCHANGED <<disturbed, shape, exit, reload, thread, pc, ready, asked, runs>>

\* ObserveEvent: whatever the Thread is doing, one more token.
Signal ==
  /\ Signals
  /\ observed # {}
  /\ asked < MaxAsked
  /\ exit' = exit + 1
  /\ asked' = asked + 1
  /\ disturbed' = TRUE
  /\ UNCHANGED <<reload, control, pc, ready>>

-----------------------------------------------------------------------------
(* ThreadFunction::Run. RegisterFd and UnregisterFd, at the two ends of a  *)
(* "poll" function, post _reload.                                          *)

TakeOne(n) == n - 1

Begin ==
  /\ pc = "begin"
  /\ pc' = "loop"
  /\ reload' = IF shape = "poll" THEN reload + 1 ELSE reload
  /\ UNCHANGED <<disturbed, exit, control, ready, asked>>

\* while (!Exit()): TryWait takes a token if there is one.
Check ==
  /\ shape = "check"
  /\ pc = "loop"
  /\ \/ exit > 0 /\ exit' = TakeOne(exit) /\ pc' = "done"
     \/ exit = 0 /\ exit' = exit /\ pc' = "body"
  /\ UNCHANGED <<disturbed, reload, control, ready, asked>>

\* The body waits 100 ms at most and serves what is there.
Body ==
  /\ pc = "body"
  /\ pc' \in {"loop"} \cup (IF SelfEnd THEN {"done"} ELSE {})
  /\ disturbed' = (disturbed \/ pc' = "done")
  /\ UNCHANGED <<exit, reload, control, ready, asked>>

\* Poll waits without a timeout (timeout_ is not used), for one of the two
\* semaphores or data, then reads each readable semaphore once.
Readable ==
  {f \in {"exit", "reload"} : (f = "exit" /\ exit > 0) \/ (f = "reload" /\ reload > 0)}

Poll ==
  /\ shape = "poll"
  /\ pc = "loop"
  /\ \E data \in {{}, {"data"}} : ready' = Readable \cup data
  /\ ready' # {}
  /\ exit' = IF "exit" \in ready' THEN TakeOne(exit) ELSE exit
  /\ reload' = IF "reload" \in ready' THEN TakeOne(reload) ELSE reload
  /\ pc' = "handle"
  /\ UNCHANGED <<disturbed, control, asked>>

\* Every descriptor is handled, also after the one that means exit.
Handle ==
  /\ pc = "handle"
  /\ pc' = IF "exit" \in ready THEN "end" ELSE "loop"
  /\ ready' = {}
  /\ UNCHANGED <<disturbed, exit, reload, control, asked>>

End ==
  /\ pc = "end"
  /\ pc' = "done"
  /\ reload' = reload + 1
  /\ UNCHANGED <<disturbed, exit, control, ready, asked>>

Run == Begin \/ Check \/ Body \/ Poll \/ Handle \/ End
Control == Start \/ StartObserve \/ StartCreate \/ Stop \/ JoinOnly \/ Join \/ Unobserve

Next == Control \/ Signal \/ Run

Spec == Init /\ [][Next]_vars

(***************************************************************************)
(* The created thread is scheduled, its body and handlers return, and a    *)
(* caller inside Start, Stop or Join is scheduled. Nobody has to call one. *)
(***************************************************************************)
FairSpec ==
  /\ Spec
  /\ WF_vars(Run)
  /\ WF_vars(StartObserve \/ StartCreate \/ Join \/ Unobserve)

-----------------------------------------------------------------------------
TypeOK ==
  /\ shape \in Shapes
  /\ exit \in Nat /\ reload \in Nat
  /\ thread \in BOOLEAN
  /\ observed \in SUBSET Sigs
  /\ ctl \in {"idle", "starting", "joining", "leaving"}
  /\ pc \in {"none", "begin", "loop", "body", "handle", "end", "done"}
  /\ ready \in SUBSET {"exit", "reload", "data"}
  /\ asked \in Nat /\ runs \in Nat
  /\ disturbed \in BOOLEAN

\* Run has seen the request to exit and returns.
Quitting == pc \in {"end", "done"} \/ (pc = "handle" /\ "exit" \in ready)

\* The ThreadFunction may be deleted or started again when Thread has no
\* std::thread: its Run is over, and no Run is left behind (lines 179-206).
ObjectMatchesRun == thread <=> pc # "none"

\* Between calls the Thread is registered for both signals exactly while it
\* has a std::thread: a signal never reaches a Thread that was stopped.
ObservesWhileStarted ==
  ctl = "idle" => observed = IF thread THEN Sigs ELSE {}

\* A request to exit stands until Run obeys it: as long as Run goes on, every
\* request made to it, by Stop or by a signal, even before its first check, is
\* still in the semaphore.
RequestStands == thread /\ ~Quitting => exit >= asked

\* A stopped Thread can be started again and runs until it is asked to stop, as
\* test/zThread/Thread.cpp:132-140 does: Run takes no token that was meant for
\* a former run. RunNotCutShort says so as long as no signal has come and no
\* function has returned unasked (lines 209-222 and 224-246).
RunNotCutShort == [][exit' < exit => asked > 0 \/ disturbed]_vars

\* Whoever asks for the end of a run gets it: a signal ends Run, and Join, in
\* Stop or of a function that a signal stops, can return.
RequestEndsRun == (thread /\ asked > 0) ~> pc \in {"none", "done"}

\* The inductive invariant behind the state properties.
ControlInv ==
  /\ ctl = "joining" => thread /\ observed = Sigs
  /\ ctl = "starting" => ~thread /\ exit >= asked
  /\ ctl = "leaving" => ~thread /\ observed # {}

\* Undisturbed, a token is there only while Stop waits for it to be taken.
Exact ==
  ~disturbed =>
    /\ exit = IF ctl = "joining" /\ asked > 0 /\ ~Quitting THEN 1 ELSE 0
    /\ ctl = "idle" /\ thread => ~Quitting
    /\ exit > 0 => asked > 0

IInv ==
  /\ TypeOK
  /\ ObjectMatchesRun
  /\ ObservesWhileStarted
  /\ RequestStands
  /\ ControlInv
  /\ Exact
=============================================================================
