------------------------------ MODULE EventBus -------------------------------
(***************************************************************************)
(* zEvent (lib/zEvent/Event.cpp, EventHandler.cpp): events hold a list of  *)
(* handlers, handlers a list of events and a list of observers. Each event *)
(* and each handler has a mutex:                                           *)
(*   (un)registering an event takes the handler's, then the event's;       *)
(*   notifying takes the event's, then the handler's, one after the other, *)
(*   and calls the observers of each with both held.                       *)
(* The mutexes are the locks of RecursiveLock; the observers called here   *)
(* do not call back into the event or the handler.                         *)
(***************************************************************************)
EXTENDS Naturals, Sequences, SequencesExt

CONSTANTS
  Threads, Events, Handlers, Observers,
  NoThread

ASSUME EventAssumption == NoThread \notin Threads

VARIABLES
  handlers,   \* _handler_list of each event
  events,     \* _event_list of each handler
  observers,  \* _obs_list of each handler
  elock,      \* who holds the _event_lock of each event
  hlock,      \* who holds the _event_lock of each handler
  call,       \* the call each thread is in
  due,        \* history: what has been registered since a notification began
  got         \* history: the calls of ObserveEvent made by it, in order

vars == <<handlers, events, observers, elock, hlock, call, due, got>>

Idle == [op |-> "idle"]

Init ==
  /\ handlers = [e \in Events |-> << >>]
  /\ events = [h \in Handlers |-> << >>]
  /\ observers = [h \in Handlers |-> << >>]
  /\ elock = [e \in Events |-> NoThread]
  /\ hlock = [h \in Handlers |-> NoThread]
  /\ call = [t \in Threads |-> Idle]
  /\ due = [t \in Threads |-> {}]
  /\ got = [t \in Threads |-> << >>]

Has(x, s) == \E i \in DOMAIN s : s[i] = x
Is(t, op) == call[t].op = op

\* std::list: unique() drops an element equal to the one before it, remove()
\* drops every element equal to its argument. These lists have no equal elements
\* (Distinct): unique() finds at most the one just appended, remove() only one.
PushUnique(s, x) == IF s # << >> /\ Last(s) = x THEN s ELSE Append(s, x)
Remove1(s, x) == IF Has(x, s) THEN RemoveAt(s, CHOOSE i \in DOMAIN s : s[i] = x) ELSE s

\* What notifications in progress may still rely on.
StillDue(gone) == due' = [t \in Threads |-> due[t] \ gone]
Registered(e) ==
  {p \in Handlers \X Observers : Has(p[1], handlers[e]) /\ Has(p[2], observers[p[1]])}

(* Faults, see Mutex. *)
UnregisterObserverNow(t, h, o) ==               \* without the lock
  /\ Is(t, "idle")
  /\ Has(o, observers[h])
  /\ observers' = [observers EXCEPT ![h] = Remove1(@, o)]
  /\ StillDue({<<h, o>>})
  /\ UNCHANGED <<handlers, events, elock, hlock, call, got>>
LeaveAll(t) ==                                  \* break after one handler
  /\ Is(t, "observe")
  /\ call[t].cbs = << >>
  /\ hlock' = [hlock EXCEPT ![Head(call[t].todo)] = NoThread]
  /\ call' = [call EXCEPT ![t] = [op |-> "notify", e |-> call[t].e, todo |-> << >>]]
  /\ UNCHANGED <<handlers, events, observers, elock, due, got>>

-----------------------------------------------------------------------------
(* Handler::RegisterEvent and UnregisterEvent. The handler's list changes  *)
(* first; its lock is kept while the event's lock is waited for. Callers   *)
(* register once and unregister what they registered.                      *)

RegisterEvent(t, h, e) ==
  /\ Is(t, "idle")
  /\ ~Has(e, events[h])
  /\ hlock[h] = NoThread
  /\ hlock' = [hlock EXCEPT ![h] = t]
  /\ events' = [events EXCEPT ![h] = PushUnique(@, e)]
  /\ call' = [call EXCEPT ![t] = [op |-> "register", h |-> h, e |-> e]]
  /\ UNCHANGED <<handlers, observers, elock, due, got>>

UnregisterEvent(t, h, e) ==
  /\ Is(t, "idle")
  /\ Has(e, events[h])
  /\ hlock[h] = NoThread
  /\ hlock' = [hlock EXCEPT ![h] = t]
  /\ events' = [events EXCEPT ![h] = Remove1(@, e)]
  /\ call' = [call EXCEPT ![t] = [op |-> "unregister", h |-> h, e |-> e]]
  /\ UNCHANGED <<handlers, observers, elock, due, got>>

\* Event::registerHandler and unregisterHandler: in and out of the event's
\* lock, then the handler's is released.
RegisterHandler(t) ==
  LET h == call[t].h  e == call[t].e IN
  /\ Is(t, "register")
  /\ elock[e] = NoThread
  /\ handlers' = [handlers EXCEPT ![e] = PushUnique(@, h)]
  /\ hlock' = [hlock EXCEPT ![h] = NoThread]
  /\ call' = [call EXCEPT ![t] = Idle]
  /\ UNCHANGED <<events, observers, elock, due, got>>

UnregisterHandler(t) ==
  LET h == call[t].h  e == call[t].e IN
  /\ Is(t, "unregister")
  /\ elock[e] = NoThread
  /\ handlers' = [handlers EXCEPT ![e] = Remove1(@, h)]
  /\ hlock' = [hlock EXCEPT ![h] = NoThread]
  /\ call' = [call EXCEPT ![t] = Idle]
  /\ UNCHANGED <<events, observers, elock, due, got>>

(* Handler::RegisterObserver and UnregisterObserver *)

RegisterObserver(t, h, o) ==
  /\ Is(t, "idle")
  /\ ~Has(o, observers[h])
  /\ hlock[h] = NoThread
  /\ observers' = [observers EXCEPT ![h] = PushUnique(@, o)]
  /\ UNCHANGED <<handlers, events, elock, hlock, call, due, got>>

UnregisterObserver(t, h, o) ==
  /\ Is(t, "idle")
  /\ Has(o, observers[h])
  /\ hlock[h] = NoThread
  /\ observers' = [observers EXCEPT ![h] = Remove1(@, o)]
  /\ StillDue({<<h, o>>})
  /\ UNCHANGED <<handlers, events, elock, hlock, call, got>>

-----------------------------------------------------------------------------
(* Event::notifyHandlers: the event's lock is held throughout, that of the *)
(* handler at the head of todo while Handler::notifyObservers calls cbs.   *)

Notify(t, e) ==
  /\ Is(t, "idle")
  /\ elock[e] = NoThread
  /\ elock' = [elock EXCEPT ![e] = t]
  /\ call' = [call EXCEPT ![t] = [op |-> "notify", e |-> e, todo |-> handlers[e]]]
  /\ due' = [due EXCEPT ![t] = Registered(e)]
  /\ UNCHANGED <<handlers, events, observers, hlock, got>>

Enter(t) ==
  LET h == Head(call[t].todo) IN
  /\ Is(t, "notify")
  /\ call[t].todo # << >>
  /\ hlock[h] = NoThread
  /\ hlock' = [hlock EXCEPT ![h] = t]
  /\ call' = [call EXCEPT ![t] =
       [op |-> "observe", e |-> call[t].e, todo |-> call[t].todo, cbs |-> observers[h]]]
  /\ UNCHANGED <<handlers, events, observers, elock, due, got>>

Observe(t) ==
  /\ Is(t, "observe")
  /\ call[t].cbs # << >>
  /\ got' = [got EXCEPT ![t] = Append(@, <<Head(call[t].todo), Head(call[t].cbs)>>)]
  /\ call' = [call EXCEPT ![t].cbs = Tail(@)]
  /\ UNCHANGED <<handlers, events, observers, elock, hlock, due>>

Leave(t) ==
  /\ Is(t, "observe")
  /\ call[t].cbs = << >>
  /\ hlock' = [hlock EXCEPT ![Head(call[t].todo)] = NoThread]
  /\ call' = [call EXCEPT ![t] = [op |-> "notify", e |-> call[t].e, todo |-> Tail(call[t].todo)]]
  /\ UNCHANGED <<handlers, events, observers, elock, due, got>>

NotifyEnd(t) ==
  /\ Is(t, "notify")
  /\ call[t].todo = << >>
  /\ elock' = [elock EXCEPT ![call[t].e] = NoThread]
  /\ call' = [call EXCEPT ![t] = Idle]
  /\ due' = [due EXCEPT ![t] = {}]
  /\ got' = [got EXCEPT ![t] = << >>]
  /\ UNCHANGED <<handlers, events, observers, hlock>>

Finish(t) == RegisterHandler(t) \/ UnregisterHandler(t)
Deliver(t) == Enter(t) \/ Observe(t) \/ Leave(t) \/ NotifyEnd(t)

Next ==
  \E t \in Threads :
    \/ \E h \in Handlers, e \in Events : RegisterEvent(t, h, e) \/ UnregisterEvent(t, h, e)
    \/ \E h \in Handlers, o \in Observers : RegisterObserver(t, h, o) \/ UnregisterObserver(t, h, o)
    \/ \E e \in Events : Notify(t, e)
    \/ Finish(t)
    \/ Deliver(t)

Spec == Init /\ [][Next]_vars

-----------------------------------------------------------------------------
Calls ==
  {Idle}
    \cup [op : {"register", "unregister"}, h : Handlers, e : Events]
    \cup [op : {"notify"}, e : Events, todo : Seq(Handlers)]
    \cup [op : {"observe"}, e : Events, todo : Seq(Handlers), cbs : Seq(Observers)]

TypeOK ==
  /\ handlers \in [Events -> Seq(Handlers)]
  /\ events \in [Handlers -> Seq(Events)]
  /\ observers \in [Handlers -> Seq(Observers)]
  /\ elock \in [Events -> Threads \cup {NoThread}]
  /\ hlock \in [Handlers -> Threads \cup {NoThread}]
  /\ call \in [Threads -> Calls]
  /\ due \in [Threads -> SUBSET (Handlers \X Observers)]
  /\ got \in [Threads -> Seq(Handlers \X Observers)]

InHand(h, e) ==
  \E t \in Threads : call[t].op \in {"register", "unregister"} /\ call[t].h = h /\ call[t].e = e

\* Every handler and observer that a notification is about to call is
\* registered: it may be destroyed as soon as its unregistration returned, and
\* the destructor of a handler (EventHandler.cpp:34-42) takes it out of the
\* events it still lists only. So the handler lists the event too, but for the
\* pair that a thread is about to change.
CallsOnlyRegistered ==
  \A t \in Threads :
    /\ Is(t, "notify") =>
         \A i \in DOMAIN call[t].todo :
           LET h == call[t].todo[i]
               e == call[t].e IN
           Has(h, handlers[e]) /\ (Has(e, events[h]) \/ InHand(h, e))
    /\ Is(t, "observe") => \A i \in DOMAIN call[t].cbs : Has(call[t].cbs[i], observers[Head(call[t].todo)])

\* A notification calls every observer that was registered for it all the
\* time exactly once (test/zEvent/Handler.cpp: one Notify, one entry).
Once(s, x) == \E i \in DOMAIN s : \A j \in DOMAIN s : s[j] = x <=> j = i

EachOnce ==
  [][\A t \in Threads :
       Is(t, "notify") /\ call'[t].op = "idle" => \A p \in due[t] : Once(got[t], p)]_vars

\* Nobody waits for a mutex whose holder waits for one of its own: a thread
\* that registers for an event and one that notifies of it take the two
\* mutexes in opposite orders.
NoCrossWait ==
  \A t, u \in Threads :
    ~ /\ call[t].op \in {"register", "unregister"}
      /\ elock[call[t].e] = u
      /\ Is(u, "notify")
      /\ call[u].todo # << >>
      /\ hlock[Head(call[u].todo)] = t

(***************************************************************************)
(* The inductive invariant behind CallsOnlyRegistered and EachOnce.        *)
(***************************************************************************)
Registering(t) == call[t].op \in {"register", "unregister"}
Notifying(t) == call[t].op \in {"notify", "observe"}

\* A call holds the mutexes it is said to hold.
LockInv ==
  \A t \in Threads :
    /\ Registering(t) => hlock[call[t].h] = t
    /\ Notifying(t) => elock[call[t].e] = t
    /\ Is(t, "observe") => call[t].todo # << >> /\ hlock[Head(call[t].todo)] = t

Distinct ==
  /\ \A e \in Events : IsInjective(handlers[e])
  /\ \A h \in Handlers : IsInjective(events[h]) /\ IsInjective(observers[h])
  /\ \A t \in Threads :
       /\ Notifying(t) => IsInjective(call[t].todo)
       /\ Is(t, "observe") => IsInjective(call[t].cbs)

\* The lists of the event and of the handler agree but for the pair in hand.
ListInv ==
  /\ \A e \in Events, h \in Handlers :
       Has(h, handlers[e]) => Has(e, events[h]) \/ InHand(h, e)
  /\ \A t \in Threads :
       Is(t, "register") =>
         Has(call[t].e, events[call[t].h]) /\ ~Has(call[t].h, handlers[call[t].e])

\* What a notification has to call is in the lists it copied.
TodoInv ==
  \A t \in Threads :
    /\ Notifying(t) => \A h \in Handlers : Has(h, call[t].todo) => Has(h, handlers[call[t].e])
    /\ Is(t, "observe") =>
         \A o \in Observers : Has(o, call[t].cbs) => Has(o, observers[Head(call[t].todo)])

\* Still to be called by the notification of t.
Pending(t, p) ==
  IF Is(t, "notify")
    THEN Has(p[1], call[t].todo)
    ELSE \/ p[1] = Head(call[t].todo) /\ Has(p[2], call[t].cbs)
         \/ Has(p[1], Tail(call[t].todo))

DueInv ==
  \A t \in Threads :
    IF Notifying(t)
      THEN \A p \in due[t] :
             /\ Has(p[2], observers[p[1]])
             /\ IF Pending(t, p) THEN ~Has(p, got[t]) ELSE Once(got[t], p)
      ELSE got[t] = << >>

IInv == TypeOK /\ LockInv /\ Distinct /\ ListInv /\ TodoInv /\ DueInv
=============================================================================
