---------------------------- MODULE EventFrameProofs ----------------------------
(***************************************************************************)
(* Theorems about events and about the parts of frames, neither of which   *)
(* uses the other, and the lemmas about frames that NetworkProofs needs.   *)
(*                                                                         *)
(* EventBus, for any threads, events, handlers and observers: who is       *)
(* called by a notification is registered, and called once.                *)
(*                                                                         *)
(* Network, for any number of setters and any arguments: the getters and   *)
(* setters of a frame's parts keep out of each other's bits.               *)
(*                                                                         *)
(* The rest is about the operators that frames are assembled and read      *)
(* with: what a buffer holds when something was written behind something   *)
(* else, the list of tags in a frame object, the frame that is assembled   *)
(* from an object of any class, and the radiotap header that is put in     *)
(* front of it, which whoever disassembles it gets back.  Lists are put    *)
(* together one element after the other; what is true of each prefix is    *)
(* shown by UpFrom, from one index to the next.                            *)
(***************************************************************************)
EXTENDS EventBus, Network, SequenceTheorems, FiniteSetTheorems, WellFoundedInduction, TLAPS

USE EventAssumption DEF EventAssumption

(***************************************************************************)
(* The lists.                                                              *)
(***************************************************************************)
LEMMA Pushed ==
  ASSUME NEW S, NEW s \in Seq(S), NEW x \in S
  PROVE  /\ PushUnique(s, x) \in Seq(S)
         /\ \A y : Has(y, PushUnique(s, x)) <=> Has(y, s) \/ y = x
         /\ IsInjective(s) /\ ~Has(x, s) => IsInjective(PushUnique(s, x))
<1>1. CASE s # << >> /\ Last(s) = x
  <2>1. Has(x, s)
    BY <1>1, EmptySeq, LenProperties DEF Last, Has
  <2> QED
    BY <1>1, <2>1 DEF PushUnique
<1>2. CASE ~(s # << >> /\ Last(s) = x)
  <2>1. PushUnique(s, x) = Append(s, x)
    BY <1>2 DEF PushUnique
  <2>2. /\ Append(s, x) \in Seq(S) /\ DOMAIN Append(s, x) = 1 .. Len(s) + 1
        /\ DOMAIN s = 1 .. Len(s) /\ Len(s) \in Nat
        /\ \A i \in DOMAIN s : Append(s, x)[i] = s[i]
        /\ Append(s, x)[Len(s) + 1] = x
    BY AppendProperties, LenProperties
  <2>3. \A y : Has(y, Append(s, x)) <=> Has(y, s) \/ y = x
    BY <2>2 DEF Has
  <2>4. IsInjective(s) /\ ~Has(x, s) => IsInjective(Append(s, x))
    BY <2>2 DEF IsInjective, Has
  <2> QED
    BY <2>1, <2>2, <2>3, <2>4
<1> QED
  BY <1>1, <1>2

LEMMA RemovedAt ==
  ASSUME NEW S, NEW s \in Seq(S), NEW k \in DOMAIN s
  PROVE  /\ RemoveAt(s, k) \in Seq(S)
         /\ DOMAIN RemoveAt(s, k) = 1 .. Len(s) - 1
         /\ \A i \in 1 .. Len(s) - 1 : i < k => RemoveAt(s, k)[i] = s[i]
         /\ \A i \in 1 .. Len(s) - 1 : i >= k => RemoveAt(s, k)[i] = s[i + 1]
<1> DEFINE a == SubSeq(s, 1, k - 1)
           b == SubSeq(s, k + 1, Len(s))
<1>1. DOMAIN s = 1 .. Len(s) /\ Len(s) \in Nat /\ k \in 1 .. Len(s)
  BY LenProperties
<1>2. /\ a \in Seq(S) /\ Len(a) = k - 1
      /\ \A i \in 1 .. k - 1 : a[i] = s[i]
  <2>1. \A i \in 1 .. k - 1 : s[i] \in S
    BY <1>1, ElementOfSeq
  <2> QED
    BY <1>1, <2>1, SubSeqProperties
<1>3. /\ b \in Seq(S) /\ Len(b) = Len(s) - k
      /\ \A i \in 1 .. Len(s) - k : b[i] = s[k + i]
  <2>1. \A i \in k + 1 .. Len(s) : s[i] \in S
    BY <1>1, ElementOfSeq
  <2> QED
    BY <1>1, <2>1, SubSeqProperties
<1>4. RemoveAt(s, k) = a \o b
  BY DEF RemoveAt
<1> HIDE DEF a, b
<1>5. /\ a \o b \in Seq(S) /\ Len(a \o b) = Len(a) + Len(b)
      /\ \A i \in 1 .. Len(a) + Len(b) : (a \o b)[i] = IF i <= Len(a) THEN a[i] ELSE b[i - Len(a)]
  BY <1>2, <1>3, ConcatProperties, Zenon
<1>6. DOMAIN (a \o b) = 1 .. Len(s) - 1
  <2>1. DOMAIN (a \o b) = 1 .. Len(a \o b)
    BY <1>5, LenProperties, Zenon
  <2>2. Len(a \o b) = Len(s) - 1
    BY <1>1, <1>2, <1>3, <1>5
  <2> QED
    BY <2>1, <2>2
<1>7. ASSUME NEW i \in 1 .. Len(s) - 1
      PROVE  (i < k => (a \o b)[i] = s[i]) /\ (i >= k => (a \o b)[i] = s[i + 1])
  <2>1. CASE i < k
    BY <1>1, <1>2, <1>3, <1>5, <2>1
  <2>2. CASE i >= k
    <3>1. (a \o b)[i] = b[i - (k - 1)] /\ i - (k - 1) \in 1 .. Len(s) - k
      BY <1>1, <1>2, <1>3, <1>5, <2>2
    <3>2. k + (i - (k - 1)) = i + 1
      BY <1>1
    <3> QED
      BY <1>1, <1>3, <2>2, <3>1, <3>2
  <2> QED
    BY <1>1, <2>1, <2>2, Zenon
<1>8. \A i \in 1 .. Len(s) - 1 :
        (i < k => (a \o b)[i] = s[i]) /\ (i >= k => (a \o b)[i] = s[i + 1])
  BY <1>7
<1> QED
  BY <1>4, <1>5, <1>6, <1>8, Zenon

LEMMA Removed ==
  ASSUME NEW S, NEW s \in Seq(S), NEW x
  PROVE  /\ Remove1(s, x) \in Seq(S)
         /\ \A y : Has(y, Remove1(s, x)) => Has(y, s)
         /\ \A y : y # x /\ Has(y, s) => Has(y, Remove1(s, x))
         /\ IsInjective(s) => IsInjective(Remove1(s, x)) /\ ~Has(x, Remove1(s, x))
<1>1. CASE ~Has(x, s)
  BY <1>1 DEF Remove1
<1>2. CASE Has(x, s)
  <2> DEFINE k == CHOOSE i \in DOMAIN s : s[i] = x
             r == RemoveAt(s, k)
  <2>1. k \in DOMAIN s /\ s[k] = x
    BY <1>2 DEF Has
  <2>2. DOMAIN s = 1 .. Len(s) /\ Len(s) \in Nat
    BY LenProperties
  <2>3. Remove1(s, x) = r
    BY <1>2 DEF Remove1
  <2> HIDE DEF k
  <2>4. /\ r \in Seq(S) /\ DOMAIN r = 1 .. Len(s) - 1
        /\ \A i \in 1 .. Len(s) - 1 : i < k => r[i] = s[i]
        /\ \A i \in 1 .. Len(s) - 1 : i >= k => r[i] = s[i + 1]
    BY <2>1, RemovedAt
  <2> HIDE DEF r
  <2>5. \A i \in DOMAIN r : \E j \in DOMAIN s : j # k /\ r[i] = s[j] /\ j = IF i < k THEN i ELSE i + 1
    BY <2>1, <2>2, <2>4
  <2>6. \A y : Has(y, r) => Has(y, s)
    BY <2>5 DEF Has
  <2>7. ASSUME NEW y, y # x, Has(y, s) PROVE Has(y, r)
    <3>1. PICK j \in DOMAIN s : s[j] = y
      BY <2>7 DEF Has
    <3>2. CASE j < k
      BY <2>1, <2>2, <2>4, <3>1, <3>2 DEF Has
    <3>3. CASE j > k
      <4>1. j - 1 \in DOMAIN r /\ r[j - 1] = s[j]
        BY <2>1, <2>2, <2>4, <3>1, <3>3
      <4> QED
        BY <3>1, <4>1 DEF Has
    <3> QED
      BY <2>1, <2>2, <2>7, <3>1, <3>2, <3>3
  <2>8. ASSUME IsInjective(s) PROVE IsInjective(r) /\ ~Has(x, r)
    <3>1. ~Has(x, r)
      BY <2>1, <2>5, <2>8 DEF IsInjective, Has
    <3>2. ASSUME NEW i \in DOMAIN r, NEW j \in DOMAIN r, r[i] = r[j] PROVE i = j
      <4>1. (IF i < k THEN i ELSE i + 1) = (IF j < k THEN j ELSE j + 1)
        BY <2>5, <2>8, <3>2 DEF IsInjective
      <4> QED
        BY <2>1, <2>2, <2>4, <4>1
    <3> QED
      BY <3>1, <3>2 DEF IsInjective
  <2> QED
    BY <2>3, <2>4, <2>6, <2>7, <2>8
<1> QED
  BY <1>1, <1>2

LEMMA Tailed ==
  ASSUME NEW S, NEW s \in Seq(S), s # << >>
  PROVE  /\ Head(s) \in S /\ Tail(s) \in Seq(S)
         /\ \A y : Has(y, s) <=> y = Head(s) \/ Has(y, Tail(s))
         /\ IsInjective(s) => IsInjective(Tail(s)) /\ ~Has(Head(s), Tail(s))
<1>1. /\ Head(s) = s[1] /\ Head(s) \in S /\ Tail(s) \in Seq(S)
      /\ DOMAIN s = 1 .. Len(s) /\ Len(s) \in Nat \ {0}
      /\ DOMAIN Tail(s) = 1 .. Len(s) - 1
      /\ \A i \in 1 .. Len(s) - 1 : Tail(s)[i] = s[i + 1]
  BY HeadTailProperties, LenProperties, EmptySeq
<1>2. ASSUME NEW y, Has(y, s) PROVE y = Head(s) \/ Has(y, Tail(s))
  <2>1. PICK j \in DOMAIN s : s[j] = y
    BY <1>2 DEF Has
  <2>2. CASE j # 1
    <3>1. j - 1 \in DOMAIN Tail(s) /\ Tail(s)[j - 1] = y
      BY <1>1, <2>1, <2>2
    <3> QED
      BY <3>1 DEF Has
  <2> QED
    BY <1>1, <2>1, <2>2
<1>3. \A y : y = Head(s) \/ Has(y, Tail(s)) => Has(y, s)
  BY <1>1 DEF Has
<1>4. IsInjective(s) => IsInjective(Tail(s)) /\ ~Has(Head(s), Tail(s))
  BY <1>1 DEF IsInjective, Has
<1> QED
  BY <1>1, <1>2, <1>3, <1>4

LEMMA Appended ==
  ASSUME NEW S, NEW s \in Seq(S), NEW x \in S
  PROVE  /\ Append(s, x) \in Seq(S)
         /\ \A y : Has(y, Append(s, x)) <=> Has(y, s) \/ y = x
         /\ ~Has(x, s) => Once(Append(s, x), x)
         /\ \A y : y # x /\ Once(s, y) => Once(Append(s, x), y)
<1>1. /\ Append(s, x) \in Seq(S) /\ DOMAIN Append(s, x) = 1 .. Len(s) + 1
      /\ DOMAIN s = 1 .. Len(s) /\ Len(s) \in Nat
      /\ \A i \in DOMAIN s : Append(s, x)[i] = s[i]
      /\ Append(s, x)[Len(s) + 1] = x
  BY AppendProperties, LenProperties
<1>2. \A y : Has(y, Append(s, x)) <=> Has(y, s) \/ y = x
  BY <1>1 DEF Has
<1>3. ~Has(x, s) => Once(Append(s, x), x)
  BY <1>1 DEF Once, Has
<1>4. ASSUME NEW y, y # x, Once(s, y) PROVE Once(Append(s, x), y)
  BY <1>1, <1>4 DEF Once
<1> QED
  BY <1>1, <1>2, <1>3, <1>4

LEMMA NoneHas == IsInjective(<< >>) /\ (\A x : ~Has(x, << >>)) /\ \A S : << >> \in Seq(S)
  BY DEF IsInjective, Has



\* What a call carries.
LEMMA ObserveType ==
  ASSUME TypeOK, NEW t \in Threads, Is(t, "observe")
  PROVE  call[t] \in [op : {"observe"}, e : Events, todo : Seq(Handlers), cbs : Seq(Observers)]
<1>1. call[t] \in Calls /\ call[t].op = "observe"
  BY DEF TypeOK, Is
<1>2. \A c : c.op = "observe" =>
        /\ c # Idle /\ c \notin [op : {"register", "unregister"}, h : Handlers, e : Events]
        /\ c \notin [op : {"notify"}, e : Events, todo : Seq(Handlers)]
  BY DEF Idle
<1> QED
  BY <1>1, <1>2 DEF Calls

LEMMA CallType ==
  ASSUME TypeOK, NEW t \in Threads
  PROVE  /\ call[t].op \in {"idle", "register", "unregister", "notify", "observe"}
         /\ Registering(t) => call[t].h \in Handlers /\ call[t].e \in Events
         /\ Notifying(t) => call[t].e \in Events /\ call[t].todo \in Seq(Handlers)
         /\ Is(t, "observe") => call[t].cbs \in Seq(Observers)
<1>1. CASE call[t] = Idle
  BY <1>1 DEF Idle, Registering, Notifying, Is
<1>2. CASE call[t] \in [op : {"register", "unregister"}, h : Handlers, e : Events]
  BY <1>2 DEF Registering, Notifying, Is
<1>3. CASE call[t] \in [op : {"notify"}, e : Events, todo : Seq(Handlers)]
  BY <1>3 DEF Registering, Notifying, Is
<1>4. CASE call[t] \in [op : {"observe"}, e : Events, todo : Seq(Handlers), cbs : Seq(Observers)]
  BY <1>4 DEF Registering, Notifying, Is
<1> QED
  BY <1>1, <1>2, <1>3, <1>4 DEF TypeOK, Calls

LEMMA InitIInv == Init => IInv
<1> SUFFICES ASSUME Init PROVE IInv
  OBVIOUS
<1>1. TypeOK
  BY NoneHas DEF Init, TypeOK, Calls
<1>2. \A t \in Threads : call[t].op = "idle"
  BY DEF Init, Idle
<1>3. LockInv /\ ListInv /\ TodoInv /\ DueInv
  BY <1>2, NoneHas DEF Init, LockInv, ListInv, TodoInv, DueInv, Registering, Notifying, Is
<1>4. Distinct
  BY <1>2, NoneHas DEF Init, Distinct, Notifying, Is
<1> QED
  BY <1>1, <1>3, <1>4 DEF IInv

(***************************************************************************)
(* The calls that change the lists.                                        *)
(***************************************************************************)
LEMMA RegisterEventIInv ==
  ASSUME IInv, NEW t \in Threads, NEW h \in Handlers, NEW e \in Events, RegisterEvent(t, h, e)
  PROVE  IInv'
<1> USE DEF IInv, Registering, Notifying, Is
<1>1. /\ UNCHANGED <<handlers, observers, elock, due, got>>
      /\ call[t].op = "idle" /\ ~Has(e, events[h]) /\ hlock[h] = NoThread
      /\ events' = [events EXCEPT ![h] = PushUnique(events[h], e)]
      /\ hlock' = [hlock EXCEPT ![h] = t]
      /\ call' = [call EXCEPT ![t] = [op |-> "register", h |-> h, e |-> e]]
  BY DEF RegisterEvent
<1>2. /\ call'[t] = [op |-> "register", h |-> h, e |-> e]
      /\ \A u \in Threads \ {t} : call'[u] = call[u]
      /\ hlock'[h] = t /\ \A g \in Handlers \ {h} : hlock'[g] = hlock[g]
  BY <1>1 DEF TypeOK
<1>3. /\ PushUnique(events[h], e) \in Seq(Events)
      /\ \A d : Has(d, PushUnique(events[h], e)) <=> Has(d, events[h]) \/ d = e
      /\ IsInjective(PushUnique(events[h], e))
  BY <1>1, Pushed DEF TypeOK, Distinct
<1>4. TypeOK'
  BY <1>1, <1>3 DEF TypeOK, Calls
<1>5. LockInv'
  BY <1>1, <1>2, CallType DEF LockInv, TypeOK
<1>6. Distinct'
  BY <1>1, <1>2, <1>3 DEF Distinct, TypeOK
<1>7. ListInv'
  <2>1. \A d \in Events, g \in Handlers : Has(d, events[g]) => Has(d, events'[g])
    BY <1>1, <1>3 DEF TypeOK
  <2>2. \A d \in Events, g \in Handlers : InHand(g, d) => InHand(g, d)'
    BY <1>1, <1>2 DEF InHand
  <2>3. ~Has(h, handlers[e])
    BY <1>1 DEF ListInv, LockInv, InHand
  <2>4. Has(e, events'[h])
    BY <1>1, <1>3 DEF TypeOK
  <2> QED
    BY <1>1, <1>2, <2>1, <2>2, <2>3, <2>4, CallType DEF ListInv
<1>8. TodoInv' /\ DueInv'
  BY <1>1, <1>2 DEF TodoInv, DueInv, Pending
<1> QED
  BY <1>4, <1>5, <1>6, <1>7, <1>8

LEMMA UnregisterEventIInv ==
  ASSUME IInv, NEW t \in Threads, NEW h \in Handlers, NEW e \in Events, UnregisterEvent(t, h, e)
  PROVE  IInv'
<1> USE DEF IInv, Registering, Notifying, Is
<1>1. /\ UNCHANGED <<handlers, observers, elock, due, got>>
      /\ call[t].op = "idle" /\ hlock[h] = NoThread
      /\ events' = [events EXCEPT ![h] = Remove1(events[h], e)]
      /\ hlock' = [hlock EXCEPT ![h] = t]
      /\ call' = [call EXCEPT ![t] = [op |-> "unregister", h |-> h, e |-> e]]
  BY DEF UnregisterEvent
<1>2. /\ call'[t] = [op |-> "unregister", h |-> h, e |-> e]
      /\ \A u \in Threads \ {t} : call'[u] = call[u]
      /\ hlock'[h] = t /\ \A g \in Handlers \ {h} : hlock'[g] = hlock[g]
  BY <1>1 DEF TypeOK
<1>3. /\ Remove1(events[h], e) \in Seq(Events)
      /\ \A d : d # e /\ Has(d, events[h]) => Has(d, Remove1(events[h], e))
      /\ IsInjective(Remove1(events[h], e))
  BY <1>1, Removed DEF TypeOK, Distinct
<1>4. TypeOK'
  BY <1>1, <1>3 DEF TypeOK, Calls
<1>5. LockInv'
  BY <1>1, <1>2, CallType DEF LockInv, TypeOK
<1>6. Distinct'
  BY <1>1, <1>2, <1>3 DEF Distinct, TypeOK
<1>7. ListInv'
  <2>1. \A d \in Events, g \in Handlers :
          Has(d, events[g]) => Has(d, events'[g]) \/ (d = e /\ g = h)
    BY <1>1, <1>3 DEF TypeOK
  <2>2. \A d \in Events, g \in Handlers : InHand(g, d) => InHand(g, d)'
    BY <1>1, <1>2 DEF InHand
  <2>3. InHand(h, e)'
    BY <1>2 DEF InHand
  <2>4. \A u \in Threads \ {t} : call[u].op = "register" => call[u].h # h
    BY <1>1 DEF LockInv
  <2> QED
    BY <1>1, <1>2, <2>1, <2>2, <2>3, <2>4, CallType DEF ListInv
<1>8. TodoInv' /\ DueInv'
  BY <1>1, <1>2 DEF TodoInv, DueInv, Pending
<1> QED
  BY <1>4, <1>5, <1>6, <1>7, <1>8

\* The end of both: the handler's lock is released.
LEMMA FinishIInv == ASSUME IInv, NEW t \in Threads, Finish(t) PROVE IInv'
<1> USE DEF IInv, Registering, Notifying, Is
<1> DEFINE h == call[t].h
           e == call[t].e
<1>1. /\ UNCHANGED <<events, observers, elock, due, got>>
      /\ Registering(t) /\ elock[e] = NoThread
      /\ handlers' = [handlers EXCEPT ![e] = IF Is(t, "register") THEN PushUnique(handlers[e], h)
                                              ELSE Remove1(handlers[e], h)]
      /\ hlock' = [hlock EXCEPT ![h] = NoThread]
      /\ call' = [call EXCEPT ![t] = Idle]
  BY DEF Finish, RegisterHandler, UnregisterHandler
<1>2. /\ h \in Handlers /\ e \in Events /\ hlock[h] = t
      /\ call'[t].op = "idle" /\ \A u \in Threads \ {t} : call'[u] = call[u]
      /\ hlock'[h] = NoThread /\ \A g \in Handlers \ {h} : hlock'[g] = hlock[g]
  BY <1>1, CallType DEF TypeOK, LockInv, Idle
<1>3. /\ handlers'[e] \in Seq(Handlers) /\ IsInjective(handlers'[e])
      /\ \A d \in Events \ {e} : handlers'[d] = handlers[d]
      /\ \A g : g # h => (Has(g, handlers'[e]) <=> Has(g, handlers[e]))
      /\ Has(h, handlers'[e]) => Is(t, "register")
  <2>1. CASE Is(t, "register")
    <3>1. ~Has(h, handlers[e]) /\ handlers[e] \in Seq(Handlers) /\ IsInjective(handlers[e])
      BY <1>2, <2>1 DEF ListInv, TypeOK, Distinct
    <3>2. /\ PushUnique(handlers[e], h) \in Seq(Handlers)
          /\ \A g : Has(g, PushUnique(handlers[e], h)) <=> Has(g, handlers[e]) \/ g = h
          /\ IsInjective(PushUnique(handlers[e], h))
      BY <1>2, <3>1, Pushed
    <3>3. handlers' = [handlers EXCEPT ![e] = PushUnique(handlers[e], h)]
      BY <1>1, <2>1
    <3> QED
      BY <1>2, <2>1, <3>2, <3>3 DEF TypeOK
  <2>2. CASE ~Is(t, "register")
    <3>1. handlers[e] \in Seq(Handlers) /\ IsInjective(handlers[e])
      BY <1>2 DEF TypeOK, Distinct
    <3>2. /\ Remove1(handlers[e], h) \in Seq(Handlers)
          /\ \A g : Has(g, Remove1(handlers[e], h)) => Has(g, handlers[e])
          /\ \A g : g # h /\ Has(g, handlers[e]) => Has(g, Remove1(handlers[e], h))
          /\ IsInjective(Remove1(handlers[e], h)) /\ ~Has(h, Remove1(handlers[e], h))
      BY <3>1, Removed
    <3>3. handlers' = [handlers EXCEPT ![e] = Remove1(handlers[e], h)]
      BY <1>1, <2>2
    <3> QED
      BY <1>2, <3>2, <3>3 DEF TypeOK
  <2> QED
    BY <2>1, <2>2
<1>4. TypeOK'
  BY <1>1, <1>2, <1>3 DEF TypeOK, Calls
<1>5. \A u \in Threads \ {t} : Registering(u) => call[u].h # h
  BY <1>2 DEF LockInv
<1>6. LockInv'
  BY <1>1, <1>2, <1>5, CallType, Tailed DEF LockInv, TypeOK
<1>7. Distinct'
  BY <1>1, <1>2, <1>3 DEF Distinct, TypeOK
<1>8. ListInv'
  <2>1. \A d \in Events, g \in Handlers : InHand(g, d) /\ g # h => InHand(g, d)'
    BY <1>1, <1>2 DEF InHand
  <2>2. \A d \in Events : InHand(h, d) => d = e
    BY <1>2, <1>5 DEF InHand
  <2>3. Is(t, "register") => Has(e, events[h])
    BY DEF ListInv
  <2>4. \A d \in Events, g \in Handlers : Has(g, handlers'[d]) => Has(d, events'[g]) \/ InHand(g, d)'
    BY <1>1, <1>2, <1>3, <2>1, <2>2, <2>3 DEF ListInv
  <2>5. ASSUME NEW u \in Threads, Is(u, "register")'
        PROVE  Has(call'[u].e, events'[call'[u].h]) /\ ~Has(call'[u].h, handlers'[call'[u].e])
    <3>1. u # t /\ call'[u] = call[u] /\ call[u].h # h
      BY <1>2, <1>5, <2>5
    <3> QED
      BY <1>1, <1>3, <2>5, <3>1, CallType DEF ListInv
  <2> QED
    BY <2>4, <2>5 DEF ListInv
<1>9. TodoInv' /\ DueInv'
  <2>1. \A u \in Threads : Notifying(u) => call[u].e # e
    BY <1>1 DEF LockInv
  <2>2. TodoInv'
    BY <1>1, <1>2, <1>3, <2>1, CallType DEF TodoInv
  <2>3. DueInv'
    BY <1>1, <1>2 DEF DueInv, Pending
  <2> QED
    BY <2>2, <2>3
<1> QED
  BY <1>4, <1>6, <1>7, <1>8, <1>9

LEMMA RegisterObserverIInv ==
  ASSUME IInv, NEW t \in Threads, NEW h \in Handlers, NEW o \in Observers,
         RegisterObserver(t, h, o) \/ UnregisterObserver(t, h, o)
  PROVE  IInv'
<1> USE DEF IInv, Registering, Notifying, Is
<1>1. /\ UNCHANGED <<handlers, events, elock, hlock, call, got>>
      /\ hlock[h] = NoThread
      /\ \/ /\ ~Has(o, observers[h]) /\ due' = due
            /\ observers' = [observers EXCEPT ![h] = PushUnique(observers[h], o)]
         \/ /\ due' = [u \in Threads |-> due[u] \ {<<h, o>>}]
            /\ observers' = [observers EXCEPT ![h] = Remove1(observers[h], o)]
  BY DEF RegisterObserver, UnregisterObserver, StillDue
<1>2. /\ observers'[h] \in Seq(Observers) /\ IsInjective(observers'[h])
      /\ \A g \in Handlers \ {h} : observers'[g] = observers[g]
      /\ \A p : p # o /\ Has(p, observers[h]) => Has(p, observers'[h])
      /\ (\A u \in Threads : <<h, o>> \notin due'[u]) \/ (Has(o, observers[h]) => Has(o, observers'[h]))
      /\ \A u \in Threads : due'[u] \subseteq due[u]
      /\ observers' \in [Handlers -> Seq(Observers)]
      /\ due' \in [Threads -> SUBSET (Handlers \X Observers)]
  <2>1. observers[h] \in Seq(Observers) /\ IsInjective(observers[h])
    BY DEF TypeOK, Distinct
  <2>2. CASE /\ ~Has(o, observers[h]) /\ due' = due
             /\ observers' = [observers EXCEPT ![h] = PushUnique(observers[h], o)]
    <3>1. /\ PushUnique(observers[h], o) \in Seq(Observers)
          /\ \A p : Has(p, PushUnique(observers[h], o)) <=> Has(p, observers[h]) \/ p = o
          /\ IsInjective(PushUnique(observers[h], o))
      BY <2>1, <2>2, Pushed
    <3> QED
      BY <2>2, <3>1 DEF TypeOK
  <2>3. CASE /\ due' = [u \in Threads |-> due[u] \ {<<h, o>>}]
             /\ observers' = [observers EXCEPT ![h] = Remove1(observers[h], o)]
    <3>1. /\ Remove1(observers[h], o) \in Seq(Observers)
          /\ \A p : p # o /\ Has(p, observers[h]) => Has(p, Remove1(observers[h], o))
          /\ IsInjective(Remove1(observers[h], o)) /\ ~Has(o, Remove1(observers[h], o))
      BY <2>1, Removed
    <3> QED
      BY <2>3, <3>1 DEF TypeOK
  <2> QED
    BY <1>1, <2>2, <2>3
<1>3. TypeOK'
  BY <1>1, <1>2, Zenon DEF TypeOK
<1>7. Distinct'
  BY <1>1, <1>2 DEF Distinct
<1>4. LockInv' /\ ListInv'
  BY <1>1 DEF LockInv, ListInv, InHand
<1>5. TodoInv'
  <2>1. \A u \in Threads : Is(u, "observe") => Head(call[u].todo) \in Handlers \ {h}
    BY <1>1, CallType, Tailed DEF LockInv
  <2> QED
    BY <1>1, <1>2, <2>1 DEF TodoInv
<1>6. DueInv'
  <2>1. ASSUME NEW u \in Threads, Notifying(u), NEW p \in due'[u]
        PROVE  p \in due[u] /\ Has(p[2], observers'[p[1]])
    <3>1. /\ p \in due[u] /\ p \in Handlers \X Observers
          /\ p # <<h, o>> \/ (Has(o, observers[h]) => Has(o, observers'[h]))
      BY <1>2, <2>1, Zenon DEF TypeOK
    <3>2. Has(p[2], observers[p[1]])
      BY <2>1, <3>1 DEF DueInv
    <3> QED
      BY <1>2, <3>1, <3>2
  <2> QED
    BY <1>1, <2>1 DEF DueInv, Pending
<1> QED
  BY <1>3, <1>4, <1>5, <1>6, <1>7

(***************************************************************************)
(* A notification. It leaves the lists alone.                              *)
(***************************************************************************)
LEMMA NotifyIInv ==
  ASSUME IInv, NEW t \in Threads, NEW e \in Events, Notify(t, e)
  PROVE  IInv'
<1> USE DEF IInv, Registering, Notifying, Is
<1>1. /\ UNCHANGED <<handlers, events, observers, hlock, got>>
      /\ call[t].op = "idle" /\ elock[e] = NoThread
      /\ elock' = [elock EXCEPT ![e] = t]
      /\ call' = [call EXCEPT ![t] = [op |-> "notify", e |-> e, todo |-> handlers[e]]]
      /\ due' = [due EXCEPT ![t] = Registered(e)]
  BY DEF Notify
<1>2. /\ call'[t] = [op |-> "notify", e |-> e, todo |-> handlers[e]]
      /\ \A u \in Threads \ {t} : call'[u] = call[u] /\ due'[u] = due[u]
      /\ elock'[e] = t /\ \A d \in Events \ {e} : elock'[d] = elock[d]
      /\ due'[t] = Registered(e)
  BY <1>1 DEF TypeOK
<1>3. TypeOK'
  BY <1>1 DEF TypeOK, Calls, Registered
<1>4. LockInv'
  BY <1>1, <1>2, CallType DEF LockInv
<1>5. Distinct'
  BY <1>1, <1>2 DEF Distinct
<1>6. ListInv'
  BY <1>1, <1>2 DEF ListInv, InHand
<1>7. TodoInv'
  BY <1>1, <1>2 DEF TodoInv
<1>8. DueInv'
  <2>1. \A p \in due'[t] : Has(p[1], handlers[e]) /\ Has(p[2], observers[p[1]]) /\ ~Has(p, got[t])
    BY <1>1, <1>2, NoneHas DEF Registered, DueInv
  <2> QED
    BY <1>1, <1>2, <2>1 DEF DueInv, Pending
<1> QED
  BY <1>3, <1>4, <1>5, <1>6, <1>7, <1>8

LEMMA EnterIInv == ASSUME IInv, NEW t \in Threads, Enter(t) PROVE IInv'
<1> USE DEF IInv, Registering, Notifying, Is
<1> DEFINE h == Head(call[t].todo)
           r == [op |-> "observe", e |-> call[t].e, todo |-> call[t].todo, cbs |-> observers[h]]
<1>1. /\ UNCHANGED <<handlers, events, observers, elock, due, got>>
      /\ call[t].op = "notify" /\ call[t].todo # << >> /\ hlock[h] = NoThread
      /\ hlock' = [hlock EXCEPT ![h] = t]
      /\ call' = [call EXCEPT ![t] = r]
  BY DEF Enter
<1>2. /\ call[t].e \in Events /\ call[t].todo \in Seq(Handlers) /\ h \in Handlers
      /\ call'[t] = r /\ \A u \in Threads \ {t} : call'[u] = call[u]
      /\ hlock'[h] = t /\ \A g \in Handlers \ {h} : hlock'[g] = hlock[g]
      /\ \A g : Has(g, call[t].todo) <=> g = h \/ Has(g, Tail(call[t].todo))
  BY <1>1, CallType, Tailed DEF TypeOK
<1>3. TypeOK'
  <2>1. r \in Calls
    BY <1>2 DEF Calls, TypeOK
  <2> QED
    BY <1>1, <2>1, Zenon DEF TypeOK
<1>4. LockInv'
  <2>1. \A u \in Threads : Is(u, "observe") => Head(call[u].todo) \in Handlers
    BY CallType, Tailed DEF LockInv
  <2> QED
    BY <1>1, <1>2, <2>1, CallType DEF LockInv
<1>5. Distinct'
  BY <1>1, <1>2 DEF Distinct
<1>6. ListInv'
  BY <1>1, <1>2 DEF ListInv, InHand
<1>7. TodoInv'
  BY <1>1, <1>2 DEF TodoInv
<1>8. DueInv'
  <2>1. \A p \in due[t] : p[1] \in Handlers /\ Has(p[2], observers[p[1]])
    BY <1>1 DEF DueInv, TypeOK
  <2>2. \A p \in due[t] : Pending(t, p)' <=> Pending(t, p)
    BY <1>1, <1>2, <2>1 DEF Pending
  <2>3. \A u \in Threads \ {t} : \A p : Pending(u, p)' <=> Pending(u, p)
    BY <1>2 DEF Pending
  <2> QED
    BY <1>1, <1>2, <2>2, <2>3 DEF DueInv
<1> QED
  BY <1>3, <1>4, <1>5, <1>6, <1>7, <1>8

LEMMA ObserveIInv == ASSUME IInv, NEW t \in Threads, Observe(t) PROVE IInv'
<1> USE DEF IInv, Registering, Notifying, Is
<1> DEFINE h == Head(call[t].todo)
           o == Head(call[t].cbs)
           q == <<h, o>>
<1>1. /\ UNCHANGED <<handlers, events, observers, elock, hlock, due>>
      /\ call[t].op = "observe" /\ call[t].cbs # << >>
      /\ got' = [got EXCEPT ![t] = Append(got[t], q)]
      /\ call' = [call EXCEPT ![t].cbs = Tail(call[t].cbs)]
  BY DEF Observe
<1>2. /\ call[t].todo \in Seq(Handlers) /\ call[t].todo # << >> /\ h \in Handlers
      /\ call[t].cbs \in Seq(Observers) /\ o \in Observers /\ Tail(call[t].cbs) \in Seq(Observers)
      /\ \A x : Has(x, call[t].cbs) <=> x = o \/ Has(x, Tail(call[t].cbs))
      /\ IsInjective(Tail(call[t].cbs)) /\ ~Has(o, Tail(call[t].cbs))
      /\ \A x : Has(x, call[t].todo) <=> x = h \/ Has(x, Tail(call[t].todo))
      /\ ~Has(h, Tail(call[t].todo))
  BY <1>1, CallType, Tailed DEF LockInv, Distinct
<1>3. /\ call'[t].op = "observe" /\ call'[t].e = call[t].e /\ call'[t].todo = call[t].todo
      /\ call'[t].cbs = Tail(call[t].cbs) /\ call'[t] \in Calls
      /\ \A u \in Threads \ {t} : call'[u] = call[u] /\ got'[u] = got[u]
      /\ got'[t] = Append(got[t], q)
  <2>1. call[t] \in [op : {"observe"}, e : Events, todo : Seq(Handlers), cbs : Seq(Observers)]
    BY <1>1, ObserveType
  <2>2. call'[t] = [call[t] EXCEPT !.cbs = Tail(call[t].cbs)]
    BY <1>1 DEF TypeOK
  <2>3. /\ call'[t] \in [op : {"observe"}, e : Events, todo : Seq(Handlers), cbs : Seq(Observers)]
        /\ call'[t].op = "observe" /\ call'[t].e = call[t].e /\ call'[t].todo = call[t].todo
        /\ call'[t].cbs = Tail(call[t].cbs)
    <3>1. PICK c \in [op : {"observe"}, e : Events, todo : Seq(Handlers), cbs : Seq(Observers)] :
            c = call[t]
      BY <2>1
    <3>2. \A s \in Seq(Observers) :
            /\ [c EXCEPT !.cbs = s] \in [op : {"observe"}, e : Events, todo : Seq(Handlers), cbs : Seq(Observers)]
            /\ [c EXCEPT !.cbs = s].op = "observe" /\ [c EXCEPT !.cbs = s].e = c.e
            /\ [c EXCEPT !.cbs = s].todo = c.todo /\ [c EXCEPT !.cbs = s].cbs = s
      BY Zenon
    <3> QED
      BY <1>2, <2>2, <3>1, <3>2
  <2>4. /\ \A u \in Threads \ {t} : call'[u] = call[u] /\ got'[u] = got[u]
        /\ got'[t] = Append(got[t], q)
    BY <1>1 DEF TypeOK
  <2>5. call'[t] \in Calls
    BY <2>3 DEF Calls
  <2> QED
    BY <2>3, <2>4, <2>5
<1>4. /\ Append(got[t], q) \in Seq(Handlers \X Observers)
      /\ ~Has(q, got[t]) => Once(Append(got[t], q), q)
      /\ \A p : Has(p, Append(got[t], q)) <=> Has(p, got[t]) \/ p = q
      /\ \A p : p # q /\ Once(got[t], p) => Once(Append(got[t], q), p)
  <2>1. got[t] \in Seq(Handlers \X Observers)
    BY DEF TypeOK
  <2>2. q \in Handlers \X Observers
    BY <1>2
  <2> HIDE DEF q
  <2>3. \A S : \A s \in Seq(S) : \A x \in S :
          /\ Append(s, x) \in Seq(S)
          /\ ~Has(x, s) => Once(Append(s, x), x)
          /\ \A y : Has(y, Append(s, x)) <=> Has(y, s) \/ y = x
          /\ \A y : y # x /\ Once(s, y) => Once(Append(s, x), y)
    BY Appended
  <2> QED
    BY <2>1, <2>2, <2>3
<1>5. TypeOK'
  BY <1>1, <1>3, <1>4 DEF TypeOK
<1>6. LockInv'
  BY <1>1, <1>3 DEF LockInv
<1>7. Distinct'
  BY <1>1, <1>2, <1>3 DEF Distinct
<1>8. ListInv'
  BY <1>1, <1>3 DEF ListInv, InHand
<1>9. TodoInv'
  <2>1. /\ \A g \in Handlers : Has(g, call'[t].todo) => Has(g, handlers[call'[t].e])
        /\ \A x \in Observers : Has(x, call'[t].cbs) => Has(x, observers[Head(call'[t].todo)])
    BY <1>1, <1>2, <1>3, Zenon DEF TodoInv
  <2> QED
    BY <1>1, <1>3, <2>1 DEF TodoInv
<1>10. DueInv'
  <2>1. ASSUME NEW p \in due[t]
        PROVE IF Pending(t, p)' THEN ~Has(p, got'[t]) ELSE Once(got'[t], p)
    <3>1. p = <<p[1], p[2]>>
      BY <2>1 DEF TypeOK
    <3>2. IF Pending(t, p) THEN ~Has(p, got[t]) ELSE Once(got[t], p)
      BY <1>1, <2>1 DEF DueInv
    <3>3. CASE p = q
      <4>1. p[1] = h /\ p[2] = o
        BY <3>3
      <4>2. Pending(t, p) /\ ~Pending(t, p)'
        BY <1>1, <1>2, <1>3, <4>1 DEF Pending
      <4> QED
        BY <1>3, <1>4, <3>2, <3>3, <4>2
    <3>4. CASE p # q
      <4>1. p[1] # h \/ p[2] # o
        BY <3>1, <3>4
      <4>2. Pending(t, p)' <=> Pending(t, p)
        BY <1>1, <1>2, <1>3, <4>1 DEF Pending
      <4> QED
        BY <1>3, <1>4, <3>2, <3>4, <4>2, Zenon
    <3> QED
      BY <3>3, <3>4
  <2>2. \A u \in Threads \ {t} : \A p : Pending(u, p)' <=> Pending(u, p)
    BY <1>3 DEF Pending
  <2> QED
    BY <1>1, <1>3, <2>1, <2>2, Zenon DEF DueInv
<1> QED
  BY <1>5, <1>6, <1>7, <1>8, <1>9, <1>10

LEMMA LeaveIInv == ASSUME IInv, NEW t \in Threads, Leave(t) PROVE IInv'
<1> USE DEF IInv, Registering, Notifying, Is
<1> DEFINE h == Head(call[t].todo)
           r == [op |-> "notify", e |-> call[t].e, todo |-> Tail(call[t].todo)]
<1>1. /\ UNCHANGED <<handlers, events, observers, elock, due, got>>
      /\ call[t].op = "observe" /\ call[t].cbs = << >>
      /\ hlock' = [hlock EXCEPT ![h] = NoThread]
      /\ call' = [call EXCEPT ![t] = r]
  BY DEF Leave
<1>2. /\ call[t].e \in Events /\ h \in Handlers /\ Tail(call[t].todo) \in Seq(Handlers)
      /\ call'[t] = r /\ \A u \in Threads \ {t} : call'[u] = call[u]
      /\ hlock[h] = t /\ \A g \in Handlers \ {h} : hlock'[g] = hlock[g]
      /\ \A g : Has(g, call[t].todo) <=> g = h \/ Has(g, Tail(call[t].todo))
      /\ IsInjective(Tail(call[t].todo))
  BY <1>1, CallType, Tailed DEF TypeOK, LockInv, Distinct
<1>3. TypeOK'
  <2>1. r \in Calls
    BY <1>2 DEF Calls
  <2> QED
    BY <1>1, <2>1, Zenon DEF TypeOK
<1>4. LockInv'
  <2>1. \A u \in Threads : Is(u, "observe") => Head(call[u].todo) \in Handlers
    BY CallType, Tailed DEF LockInv
  <2> QED
    BY <1>1, <1>2, <2>1, CallType DEF LockInv
<1>5. Distinct'
  BY <1>1, <1>2 DEF Distinct
<1>6. ListInv'
  BY <1>1, <1>2 DEF ListInv, InHand
<1>7. TodoInv'
  BY <1>1, <1>2 DEF TodoInv
<1>8. DueInv'
  <2>1. \A p : Pending(t, p)' <=> Pending(t, p)
    BY <1>1, <1>2, NoneHas DEF Pending
  <2>2. \A u \in Threads \ {t} : \A p : Pending(u, p)' <=> Pending(u, p)
    BY <1>2 DEF Pending
  <2> QED
    BY <1>1, <1>2, <2>1, <2>2 DEF DueInv
<1> QED
  BY <1>3, <1>4, <1>5, <1>6, <1>7, <1>8

LEMMA NotifyEndIInv == ASSUME IInv, NEW t \in Threads, NotifyEnd(t) PROVE IInv'
<1> USE DEF IInv, Registering, Notifying, Is
<1> DEFINE e == call[t].e
<1>1. /\ UNCHANGED <<handlers, events, observers, hlock>>
      /\ call[t].op = "notify"
      /\ elock' = [elock EXCEPT ![e] = NoThread]
      /\ call' = [call EXCEPT ![t] = Idle]
      /\ due' = [due EXCEPT ![t] = {}] /\ got' = [got EXCEPT ![t] = << >>]
  BY DEF NotifyEnd
<1>2. /\ e \in Events /\ elock[e] = t
      /\ call'[t].op = "idle"
      /\ \A u \in Threads \ {t} : call'[u] = call[u] /\ due'[u] = due[u] /\ got'[u] = got[u]
      /\ \A d \in Events \ {e} : elock'[d] = elock[d]
      /\ got'[t] = << >>
  BY <1>1, CallType DEF TypeOK, LockInv, Idle
<1>3. TypeOK'
  BY <1>1, NoneHas, Zenon DEF TypeOK, Calls
<1>4. LockInv'
  BY <1>1, <1>2, CallType DEF LockInv
<1>5. Distinct'
  BY <1>1, <1>2 DEF Distinct
<1>6. ListInv'
  BY <1>1, <1>2 DEF ListInv, InHand
<1>7. TodoInv'
  BY <1>1, <1>2 DEF TodoInv
<1>8. DueInv'
  BY <1>1, <1>2 DEF DueInv, Pending
<1> QED
  BY <1>3, <1>4, <1>5, <1>6, <1>7, <1>8

LEMMA NextIInv == IInv /\ [Next]_vars => IInv'
<1> SUFFICES ASSUME IInv, [Next]_vars PROVE IInv'
  OBVIOUS
<1>1. CASE UNCHANGED vars
  <2>1. TypeOK' /\ LockInv' /\ Distinct'
    BY <1>1 DEF IInv, vars, TypeOK, LockInv, Distinct, Registering, Notifying, Is
  <2>2. ListInv' /\ TodoInv' /\ DueInv'
    BY <1>1 DEF IInv, vars, ListInv, InHand, TodoInv, DueInv, Pending, Notifying, Is
  <2> QED
    BY <2>1, <2>2 DEF IInv
<1>2. CASE Next
  <2>1. PICK t \in Threads :
          \/ \E h \in Handlers, e \in Events : RegisterEvent(t, h, e) \/ UnregisterEvent(t, h, e)
          \/ \E h \in Handlers, o \in Observers :
               RegisterObserver(t, h, o) \/ UnregisterObserver(t, h, o)
          \/ \E e \in Events : Notify(t, e)
          \/ Finish(t)
          \/ Deliver(t)
    BY <1>2 DEF Next
  <2>2. CASE \E h \in Handlers, e \in Events : RegisterEvent(t, h, e) \/ UnregisterEvent(t, h, e)
    BY <2>2, RegisterEventIInv, UnregisterEventIInv
  <2>3. CASE \E h \in Handlers, o \in Observers :
               RegisterObserver(t, h, o) \/ UnregisterObserver(t, h, o)
    BY <2>3, RegisterObserverIInv
  <2>4. CASE (\E e \in Events : Notify(t, e)) \/ Finish(t)
    BY <2>4, NotifyIInv, FinishIInv
  <2>5. CASE Deliver(t)
    BY <2>5, EnterIInv, ObserveIInv, LeaveIInv, NotifyEndIInv DEF Deliver
  <2> QED
    BY <2>1, <2>2, <2>3, <2>4, <2>5
<1> QED
  BY <1>1, <1>2

-----------------------------------------------------------------------------
THEOREM Invariance == Spec => []IInv
  BY InitIInv, NextIInv, PTL DEF Spec

\* Whom a notification is about to call is registered: no handler that left the
\* event, and no observer that left its handler, is called after that returned.
THEOREM CalledIsRegistered == Spec => []CallsOnlyRegistered
<1>1. IInv => CallsOnlyRegistered
  <2> SUFFICES ASSUME IInv, NEW t \in Threads
               PROVE  /\ Is(t, "notify") =>
                           \A i \in DOMAIN call[t].todo :
                             /\ Has(call[t].todo[i], handlers[call[t].e])
                             /\ Has(call[t].e, events[call[t].todo[i]]) \/ InHand(call[t].todo[i], call[t].e)
                      /\ Is(t, "observe") =>
                           \A i \in DOMAIN call[t].cbs :
                             Has(call[t].cbs[i], observers[Head(call[t].todo)])
    BY DEF CallsOnlyRegistered
  <2>1. ASSUME Is(t, "notify"), NEW i \in DOMAIN call[t].todo
        PROVE  /\ Has(call[t].todo[i], handlers[call[t].e])
               /\ Has(call[t].e, events[call[t].todo[i]]) \/ InHand(call[t].todo[i], call[t].e)
    <3>1. call[t].todo[i] \in Handlers /\ call[t].e \in Events
      BY <2>1, CallType, ElementOfSeq, LenProperties DEF IInv, Notifying, Is
    <3>2. Has(call[t].todo[i], call[t].todo)
      BY <2>1 DEF Has
    <3> QED
      BY <2>1, <3>1, <3>2 DEF IInv, TodoInv, ListInv, Notifying, Is
  <2>2. ASSUME Is(t, "observe"), NEW i \in DOMAIN call[t].cbs
        PROVE  Has(call[t].cbs[i], observers[Head(call[t].todo)])
    <3>1. call[t].cbs[i] \in Observers
      BY <2>2, CallType, ElementOfSeq, LenProperties DEF IInv
    <3>2. Has(call[t].cbs[i], call[t].cbs)
      BY <2>2 DEF Has
    <3> QED
      BY <2>2, <3>1, <3>2 DEF IInv, TodoInv
  <2> QED
    BY <2>1, <2>2
<1> QED
  BY <1>1, Invariance, PTL

\* An observer that stays registered while an event notifies is called once.
THEOREM CalledOnce == Spec => EachOnce
<1>1. IInv /\ [Next]_vars =>
        \A t \in Threads :
          Is(t, "notify") /\ call'[t].op = "idle" => \A p \in due[t] : Once(got[t], p)
  <2> SUFFICES ASSUME IInv, [Next]_vars, NEW t \in Threads, Is(t, "notify"), call'[t].op = "idle"
               PROVE  \A p \in due[t] : Once(got[t], p)
    OBVIOUS
  <2>1. call[t].todo = << >>
    <3>1. call \in [Threads -> Calls]
      BY DEF IInv, TypeOK
    <3>2. Next
      BY DEF vars, Is
    <3>3. PICK u \in Threads :
          \/ \E h \in Handlers, e \in Events : RegisterEvent(u, h, e) \/ UnregisterEvent(u, h, e)
          \/ \E h \in Handlers, o \in Observers :
               RegisterObserver(u, h, o) \/ UnregisterObserver(u, h, o)
          \/ \E e \in Events : Notify(u, e)
          \/ Finish(u)
          \/ Deliver(u)
      BY <3>2 DEF Next
    <3>4. \A r : call' = [call EXCEPT ![u] = r] => u = t
      BY <3>1 DEF Is
    <3>5. call' # call
      BY DEF Is
    <3>6. u = t /\ NotifyEnd(t)
      <4>1. ~\E h \in Handlers, o \in Observers :
               RegisterObserver(u, h, o) \/ UnregisterObserver(u, h, o)
        BY <3>5, Zenon DEF RegisterObserver, UnregisterObserver
      <4>2. ~(Enter(u) \/ Observe(u) \/ Leave(u))
        <5>1. CASE Enter(u)
          BY <3>1, <3>4, <5>1 DEF Enter, Is
        <5>2. CASE Observe(u)
          BY <3>1, <5>2 DEF Observe, Is
        <5>3. CASE Leave(u)
          BY <3>1, <3>4, <5>3 DEF Leave, Is
        <5> QED
          BY <5>1, <5>2, <5>3
      <4>3. ~Finish(u)
        BY <3>4 DEF Finish, RegisterHandler, UnregisterHandler, Is
      <4>4. ~\E h \in Handlers, e \in Events : RegisterEvent(u, h, e) \/ UnregisterEvent(u, h, e)
        BY <3>4 DEF RegisterEvent, UnregisterEvent, Is
      <4>5. ~\E e \in Events : Notify(u, e)
        BY <3>4 DEF Notify, Is
      <4>6. NotifyEnd(u)
        BY <3>3, <4>1, <4>2, <4>3, <4>4, <4>5 DEF Deliver
      <4> QED
        BY <3>4, <4>6, Zenon DEF NotifyEnd
    <3> QED
      BY <3>6 DEF NotifyEnd
  <2> QED
    BY <2>1, NoneHas DEF IInv, DueInv, Pending, Notifying, Is
<1> QED
  BY <1>1, Invariance, PTL DEF Spec, EachOnce
-----------------------------------------------------------------------------
(***************************************************************************)
(* The accessors of a frame's parts.                                       *)
(***************************************************************************)
BitsOf(f) == P!Span(f.get, f.width)

\* The accessor sets and gets the same bits, and clears them.
Keeps(f) ==
  /\ f.get \in Int /\ f.width \in Int /\ f.put = f.get
  /\ BitsOf(f) \subseteq f.clear
  /\ BitsOf(f) \cap (f.drops \cup f.known) = {}

\* What the setter of g does is not seen by the getter of f.
Spares(g, f) ==
  /\ BitsOf(f) \cap (g.clear \cup g.drops \cup g.known \cup P!Span(g.put, g.width)) = {}
  /\ f.known \cap (g.clear \cup g.drops) = {}

\* But for those astray, each accessor of F keeps its bits, and is spared by the
\* others' setters or is one with them.
Sound(F, astray) ==
  \A f \in F :
    /\ f.put \in Int /\ f.width \in Int
    /\ f.name \notin astray =>
         /\ Keeps(f)
         /\ \A g \in F \ {f} :
              /\ g.name # f.name
              /\ Spares(g, f) \/ f.name \in g.covers \/ g.name \in f.covers

LEMMA Shifted ==
  ASSUME NEW w \in Int, NEW num \in Int, NEW c \in SUBSET P!Span(0, w)
  PROVE  /\ P!Shift(c, num) \subseteq P!Span(num, w)
         /\ P!Shift(P!Shift(c, num), -num) = c
<1>1. c \subseteq Int
  BY DEF P!Span
<1>2. P!Shift(P!Shift(c, num), -num) = c
  <2>1. \A x : x \in P!Shift(P!Shift(c, num), -num) <=> \E b \in c : x = b + num + (-num)
    BY DEF P!Shift
  <2>2. \A b \in c : b + num + (-num) = b
    BY <1>1
  <2>3. P!Shift(P!Shift(c, num), -num) \subseteq c
    BY <2>1, <2>2
  <2>4. c \subseteq P!Shift(P!Shift(c, num), -num)
    BY <2>1, <2>2
  <2> QED
    BY <2>3, <2>4
<1> QED
  BY <1>2 DEF P!Span, P!Shift

LEMMA CodedTwice ==
  ASSUME NEW f, NEW v
  PROVE  /\ P!Coded(f, v) \subseteq P!Span(0, f.width)
         /\ P!Coded(f, P!Coded(f, v)) = v \cap P!Span(0, f.width)
  BY DEF P!Coded

LEMMA GetsWhatWasPut ==
  ASSUME NEW f, Keeps(f), NEW w, NEW v
  PROVE  /\ P!GetField(P!PutField(w, f, v), f) = v \cap P!Span(0, f.width)
         /\ f.known \subseteq P!PutField(w, f, v)
<1> DEFINE c == P!Coded(f, v)
           u == P!PutField(w, f, v)
<1>1. c \in SUBSET P!Span(0, f.width)
  BY CodedTwice, Zenon
<1>2. /\ P!Shift(c, f.get) \subseteq BitsOf(f)
      /\ P!Shift(P!Shift(c, f.get), -f.get) = c
  BY <1>1, Shifted DEF Keeps, BitsOf
<1>3. u = ((w \ (f.clear \cup f.drops)) \cup f.known) \cup (P!Shift(c, f.get) \ f.drops)
  BY DEF P!PutField, Keeps
<1> HIDE DEF c, u
<1>4. u \cap BitsOf(f) = P!Shift(c, f.get) /\ f.known \subseteq u
  BY <1>2, <1>3 DEF Keeps
<1>5. P!GetField(u, f) = P!Coded(f, c)
  BY <1>2, <1>4 DEF P!GetField, BitsOf
<1> QED
  BY <1>4, <1>5, CodedTwice DEF c, u

LEMMA GetsWhatWasThere ==
  ASSUME NEW f, NEW g, g.put \in Int, g.width \in Int, Spares(g, f), NEW w, NEW v, f.known \subseteq w
  PROVE  /\ P!GetField(P!PutField(w, g, v), f) = P!GetField(w, f)
         /\ f.known \subseteq P!PutField(w, g, v)
<1> DEFINE c == P!Coded(g, v)
           u == P!PutField(w, g, v)
<1>1. P!Shift(c, g.put) \subseteq P!Span(g.put, g.width)
  BY CodedTwice, Shifted, Zenon
<1>2. u = ((w \ (g.clear \cup g.drops)) \cup g.known) \cup (P!Shift(c, g.put) \ g.drops)
  BY DEF P!PutField
<1> HIDE DEF c, u
<1>3. u \cap BitsOf(f) = w \cap BitsOf(f)
  BY <1>1, <1>2 DEF Spares
<1>4. f.known \subseteq u
  BY <1>2 DEF Spares
<1>5. P!GetField(u, f) = P!GetField(w, f)
  BY <1>3, <1>4 DEF P!GetField, BitsOf
<1> QED
  BY <1>4, <1>5 DEF u

LEMMA SetKeeps ==
  ASSUME P!AccessIInv, Sound(P!Accessors[object], P!Astray(object)),
         NEW g \in P!Accessors[object], NEW v, P!Set(g, v)
  PROVE  P!AccessIInv'
<1> DEFINE F == P!Accessors[object]
           astray == P!Astray(object)
<1>1. /\ object' = object
      /\ bits' = P!PutField(bits, g, v)
      /\ DOMAIN said' = (DOMAIN said \ P!Unsaid(g)) \cup {g.name}
      /\ said'[g.name] = v \cap P!Span(0, g.width)
      /\ \A x \in DOMAIN said \ P!Unsaid(g) : x # g.name => said'[x] = said[x]
  BY DEF P!Set
<1>2. ASSUME NEW f \in F, f.name \in DOMAIN said' \ astray
      PROVE  P!GetField(bits', f) = said'[f.name] /\ f.known \subseteq bits'
  <2>1. CASE f = g
    <3>1. Keeps(f)
      BY <1>2 DEF Sound
    <3>2. /\ P!GetField(P!PutField(bits, f, v), f) = v \cap P!Span(0, f.width)
          /\ f.known \subseteq P!PutField(bits, f, v)
      BY <3>1, GetsWhatWasPut
    <3> QED
      BY <1>1, <2>1, <3>2
  <2>2. CASE f # g
    <3>1. f.name # g.name
      BY <1>2, <2>2 DEF Sound
    <3>2. f.name \in DOMAIN said \ P!Unsaid(g)
      BY <1>1, <1>2, <3>1
    <3>3. f.name \notin g.covers /\ g.name \notin f.covers
      BY <3>2 DEF P!Unsaid
    <3>4. Spares(g, f) /\ g.put \in Int /\ g.width \in Int
      BY <1>2, <2>2, <3>3 DEF Sound
    <3>5. P!GetField(bits, f) = said[f.name] /\ f.known \subseteq bits
      BY <1>2, <3>2 DEF P!AccessIInv, P!FieldsKept
    <3> QED
      BY <1>1, <3>1, <3>2, <3>4, <3>5, GetsWhatWasThere
  <2> QED
    BY <2>1, <2>2
<1>3. object \in DOMAIN P!Accessors
  BY DEF P!AccessIInv
<1> QED
  BY <1>1, <1>2, <1>3 DEF P!AccessIInv, P!FieldsKept

LEMMA NewKeeps ==
  ASSUME said = << >>, object \in DOMAIN P!Accessors
  PROVE  P!AccessIInv
<1>1. DOMAIN said = {}
  OBVIOUS
<1> QED
  BY <1>1 DEF P!AccessIInv, P!FieldsKept

-----------------------------------------------------------------------------
(* The tables of accessors. *)

\* An accessor with all its bits in one place, see Field.
IsAt(f, name, at, width) ==
  /\ f.name = name /\ f.get = at /\ f.put = at /\ f.width = width
  /\ f.clear = P!Span(at, width) /\ f.drops = {} /\ f.known = {} /\ f.covers = {}

LEMMA FieldIs ==
  ASSUME NEW name, NEW at, NEW width, NEW argument
  PROVE  IsAt(P!Field(name, at, width, argument), name, at, width)
  BY DEF P!Field, IsAt

LEMMA NumberIs ==
  ASSUME NEW name, NEW at, NEW width
  PROVE  IsAt(P!Number(name, at, width), name, at, width)
  BY FieldIs DEF P!Number

LEMMA FlagIs ==
  ASSUME NEW name, NEW at
  PROVE  IsAt(P!FlagAt(name, at), name, at, 1)
  BY FieldIs DEF P!FlagAt

\* The accessors of F have a place each.
Placed(F) ==
  \A f \in F : 
    /\ f.get \in Int /\ f.width \in Int /\ IsAt(f, f.name, f.get, f.width)
    /\ \A g \in F \ {f} : g.name # f.name /\ (f.get + f.width <= g.get \/ g.get + g.width <= f.get)

LEMMA Spans ==
  ASSUME NEW a \in Int, NEW w \in Int
  PROVE  /\ \A b, u \in Int : a + w <= b \/ b + u <= a => P!Span(a, w) \cap P!Span(b, u) = {}
         /\ \A b, u \in Int : b <= a /\ a + w <= u + 1 => P!Span(a, w) \subseteq b..u
  BY DEF P!Span

LEMMA AsideIsSound == ASSUME NEW F, Placed(F), NEW astray PROVE Sound(F, astray)
<1>1. ASSUME NEW f \in F
      PROVE  f.put \in Int /\ f.width \in Int /\ Keeps(f)
  BY <1>1 DEF Placed, IsAt, Keeps, BitsOf
<1>2. ASSUME NEW f \in F, NEW g \in F \ {f}
      PROVE  g.name # f.name /\ Spares(g, f)
  <2>1. /\ g.name # f.name
        /\ f.get \in Int /\ f.width \in Int /\ g.get \in Int /\ g.width \in Int
        /\ f.get + f.width <= g.get \/ g.get + g.width <= f.get
    BY <1>2 DEF Placed
  <2>2. /\ f.known = {} /\ g.known = {} /\ g.drops = {}
        /\ g.clear = BitsOf(g) /\ P!Span(g.put, g.width) = BitsOf(g)
    BY <1>2 DEF Placed, IsAt, BitsOf
  <2>3. BitsOf(f) \cap BitsOf(g) = {}
    BY <2>1, Spans DEF BitsOf
  <2> QED
    BY <2>1, <2>2, <2>3 DEF Spares
<1> QED
  BY <1>1, <1>2 DEF Sound

LEMMA WholeIsSound ==
  ASSUME NEW parts, NEW astray, Sound(parts, astray), NEW name, \A f \in parts : f.name # name,
         NEW at \in Int, NEW width \in Int
  PROVE  Sound(P!Whole(name, at, width, parts), astray)
<1> DEFINE num == P!Number(name, at, width)
           w == [num EXCEPT !.covers = {f.name : f \in parts}]
<1>1. w.name = name /\ w.get = at /\ w.put = at /\ w.width = width /\ w.clear = P!Span(at, width)
      /\ w.drops = {} /\ w.known = {} /\ w.covers = {f.name : f \in parts}
  BY DEF P!Number, P!Field
<1>2. P!Whole(name, at, width, parts) = {w} \cup parts
  BY DEF P!Whole
<1> HIDE DEF w, num
<1>3. Keeps(w) /\ w.put \in Int
  BY <1>1 DEF Keeps, BitsOf
<1>4. \A f \in parts : f.name \in w.covers /\ f.name # w.name
  BY <1>1
<1> QED
  BY <1>2, <1>3, <1>4 DEF Sound, Keeps

LEMMA RefusingIs ==
  ASSUME NEW name, NEW at, NEW width, NEW R
  PROVE  IsAt([P!Number(name, at, width) EXCEPT !.refused = R], name, at, width)
  BY DEF P!Number, P!Field, IsAt

LEMMA FrameControlIsSound == Sound(P!FrameControl, {})
<1> DEFINE type == [P!Number("Type", 2, 2) EXCEPT !.refused = {{0, 1}}]
           subtype == [P!Number("Subtype", 4, 4) EXCEPT !.refused = {0..3}]
<1>1. /\ IsAt(P!Field("Version", 0, 2, 8), "Version", 0, 2)
      /\ IsAt(type, "Type", 2, 2) /\ IsAt(subtype, "Subtype", 4, 4)
      /\ IsAt(P!FlagAt("ToDS", 8), "ToDS", 8, 1)
      /\ IsAt(P!FlagAt("FromDS", 9), "FromDS", 9, 1)
      /\ IsAt(P!FlagAt("MoreFragments", 10), "MoreFragments", 10, 1)
      /\ IsAt(P!FlagAt("Retry", 11), "Retry", 11, 1)
      /\ IsAt(P!FlagAt("PowerManagement", 12), "PowerManagement", 12, 1)
      /\ IsAt(P!FlagAt("MoreData", 13), "MoreData", 13, 1)
      /\ IsAt(P!FlagAt("Protected", 14), "Protected", 14, 1)
      /\ IsAt(P!FlagAt("Order", 15), "Order", 15, 1)
  BY FieldIs, FlagIs, RefusingIs, Zenon
<1>2. P!FrameControl =
        {P!Field("Version", 0, 2, 8), type, subtype, P!FlagAt("ToDS", 8),
         P!FlagAt("FromDS", 9), P!FlagAt("MoreFragments", 10), P!FlagAt("Retry", 11),
         P!FlagAt("PowerManagement", 12), P!FlagAt("MoreData", 13),
         P!FlagAt("Protected", 14), P!FlagAt("Order", 15)}
  BY DEF P!FrameControl
<1> HIDE DEF type, subtype
<1>3. Placed(P!FrameControl)
  BY <1>1, <1>2 DEF Placed, IsAt
<1> QED
  BY <1>3, AsideIsSound

LEMMA SequenceControlIsSound == Sound(P!SequenceControl, {})
<1> DEFINE F == {P!Field("FragmentNum", 0, 4, 8), P!Field("SequenceNum", 4, 12, 16)}
<1>1. Placed(F) /\ \A f \in F : f.name # "SequenceControl"
  BY FieldIs DEF Placed, IsAt
<1> QED
  BY <1>1, AsideIsSound, WholeIsSound DEF P!SequenceControl

LEMMA QosControlIsSound == Sound(P!QosControl, {})
<1> DEFINE F == {P!Field("TID", 0, 4, 8)}
<1>1. Placed(F) /\ \A f \in F : f.name # "QosControl"
  BY FieldIs DEF Placed, IsAt
<1> QED
  BY <1>1, AsideIsSound, WholeIsSound DEF P!QosControl

LEMMA BlockAckIsSound == Sound(P!BlockAck, {})
<1>1. Placed(P!BlockAck)
  BY FieldIs DEF Placed, IsAt, P!BlockAck
<1> QED
  BY <1>1, AsideIsSound

LEMMA RadioTapFlagsIsSound == Sound(P!RadioTapFlags, {})
<1> DEFINE F ==
      {P!FlagAt("CFP", 0), P!FlagAt("ShortPreamble", 1), P!FlagAt("WEP", 2),
       P!FlagAt("Fragmentation", 3), P!FlagAt("FCS", 4), P!FlagAt("DataPad", 5),
       P!FlagAt("BadFCS", 6), P!FlagAt("ShortGI", 7)}
<1>1. /\ IsAt(P!FlagAt("CFP", 0), "CFP", 0, 1)
      /\ IsAt(P!FlagAt("ShortPreamble", 1), "ShortPreamble", 1, 1)
      /\ IsAt(P!FlagAt("WEP", 2), "WEP", 2, 1)
      /\ IsAt(P!FlagAt("Fragmentation", 3), "Fragmentation", 3, 1)
      /\ IsAt(P!FlagAt("FCS", 4), "FCS", 4, 1)
      /\ IsAt(P!FlagAt("DataPad", 5), "DataPad", 5, 1)
      /\ IsAt(P!FlagAt("BadFCS", 6), "BadFCS", 6, 1)
      /\ IsAt(P!FlagAt("ShortGI", 7), "ShortGI", 7, 1)
  BY FlagIs
<1>2. Placed(F)
  BY <1>1 DEF Placed, IsAt
<1>3. \A f \in F : f.name # "operator()"
  BY <1>1 DEF IsAt
<1> QED
  BY <1>2, <1>3, AsideIsSound, WholeIsSound DEF P!RadioTapFlags

LEMMA InvertedIs ==
  ASSUME NEW name, NEW at
  PROVE  IsAt([P!FlagAt(name, at) EXCEPT !.inverted = TRUE], name, at, 1)
  BY DEF P!FlagAt, P!Field, IsAt

LEMMA RadioTapTxFlagsIsSound == Sound(P!RadioTapTxFlags, {})
<1> DEFINE seq == [P!FlagAt("NoSeqNum", 4) EXCEPT !.inverted = TRUE]
           F == {P!FlagAt("Failed", 0), P!FlagAt("UseRtsCts", 2), P!FlagAt("NoAck", 3), seq}
<1>1. /\ IsAt(P!FlagAt("Failed", 0), "Failed", 0, 1)
      /\ IsAt(P!FlagAt("UseRtsCts", 2), "UseRtsCts", 2, 1)
      /\ IsAt(P!FlagAt("NoAck", 3), "NoAck", 3, 1)
      /\ IsAt(seq, "NoSeqNum", 4, 1)
  BY FlagIs, InvertedIs
<1>2. P!RadioTapTxFlags = P!Whole("operator()", 0, 16, F)
  BY DEF P!RadioTapTxFlags
<1> HIDE DEF seq
<1>3. Placed(F)
  BY <1>1 DEF Placed, IsAt
<1>4. \A f \in F : f.name # "operator()"
  BY <1>1 DEF IsAt
<1> QED
  BY <1>2, <1>3, <1>4, AsideIsSound, WholeIsSound

LEMMA ErpInfoIsSound == Sound(P!ErpInfo, {})
<1> DEFINE F ==
      {P!FlagAt("NonErpPresent", 0),
       P!FlagAt("UseProtection", 1),
       P!FlagAt("BarkerPreambleMode", 2)}
<1>1. /\ IsAt(P!FlagAt("NonErpPresent", 0), "NonErpPresent", 0, 1)
      /\ IsAt(P!FlagAt("UseProtection", 1), "UseProtection", 1, 1)
      /\ IsAt(P!FlagAt("BarkerPreambleMode", 2), "BarkerPreambleMode", 2, 1)
  BY FlagIs
<1>2. Placed(F)
  BY <1>1 DEF Placed, IsAt
<1>3. \A f \in F : f.name # "operator()"
  BY <1>1 DEF IsAt
<1> QED
  BY <1>2, <1>3, AsideIsSound, WholeIsSound DEF P!ErpInfo

LEMMA ChannelSwitchIsSound == Sound(P!ChannelSwitch, {})
<1> DEFINE F ==
      {P!Number("Mode", 0, 8),
       P!Number("Channel", 8, 8),
       P!Number("Count", 16, 8)}
<1>1. /\ IsAt(P!Number("Mode", 0, 8), "Mode", 0, 8)
      /\ IsAt(P!Number("Channel", 8, 8), "Channel", 8, 8)
      /\ IsAt(P!Number("Count", 16, 8), "Count", 16, 8)
  BY NumberIs
<1>2. Placed(F)
  BY <1>1 DEF Placed, IsAt
<1>3. \A f \in F : f.name # "operator()"
  BY <1>1 DEF IsAt
<1> QED
  BY <1>2, <1>3, AsideIsSound, WholeIsSound DEF P!ChannelSwitch

LEMMA PowerCapsIsSound == Sound(P!PowerCaps, {})
<1> DEFINE F ==
      {P!Number("Min", 0, 8),
       P!Number("Max", 8, 8)}
<1>1. /\ IsAt(P!Number("Min", 0, 8), "Min", 0, 8)
      /\ IsAt(P!Number("Max", 8, 8), "Max", 8, 8)
  BY NumberIs
<1>2. Placed(F)
  BY <1>1 DEF Placed, IsAt
<1>3. \A f \in F : f.name # "operator()"
  BY <1>1 DEF IsAt
<1> QED
  BY <1>2, <1>3, AsideIsSound, WholeIsSound DEF P!PowerCaps

LEMMA HtInfoIsSound == Sound(P!HtInfo, {})
<1> DEFINE F ==
      {P!Number("PrimaryChannel", 0, 8),
       P!Number("HtSubset1", 8, 8),
       P!Number("HtSubset2", 16, 16),
       P!Number("HtSubset3", 32, 16),
       P!Number("RxMcs", 48, 128)}
<1>1. /\ IsAt(P!Number("PrimaryChannel", 0, 8), "PrimaryChannel", 0, 8)
      /\ IsAt(P!Number("HtSubset1", 8, 8), "HtSubset1", 8, 8)
      /\ IsAt(P!Number("HtSubset2", 16, 16), "HtSubset2", 16, 16)
      /\ IsAt(P!Number("HtSubset3", 32, 16), "HtSubset3", 32, 16)
      /\ IsAt(P!Number("RxMcs", 48, 128), "RxMcs", 48, 128)
  BY NumberIs
<1>2. Placed(F)
  BY <1>1 DEF Placed, IsAt
<1>3. \A f \in F : f.name # "operator()"
  BY <1>1 DEF IsAt
<1> QED
  BY <1>2, <1>3, AsideIsSound, WholeIsSound DEF P!HtInfo

LEMMA ExtCapsIsSound == Sound(P!ExtCaps, P!Astray("ExtCaps"))
<1> DEFINE At(e) == 8 * (e[2] \div 16) + (e[2] % 16)
           Flag(e) == P!FlagAt(e[1], At(e))
<1>1. \A e \in P!Extended : At(e) \in Int /\ IsAt(Flag(e), e[1], At(e), 1)
  <2>1. \A e \in P!Extended : e[2] \in Nat
    BY DEF P!Extended
  <2> QED
    BY <2>1, FlagIs
<1>2. P!Astray("ExtCaps") = {e[1] : e \in {e \in P!Extended : e[2] \in {4, 6, 7}}}
  BY DEF P!Astray
<1>3. \A e \in P!Extended : e[2] \notin {4, 6, 7} =>
        \A d \in P!Extended \ {e} : d[1] # e[1] /\ At(d) # At(e)
  BY DEF P!Extended
<1>4. P!ExtCaps = {Flag(e) : e \in P!Extended}
  BY DEF P!ExtCaps
<1> HIDE DEF At, Flag
<1>5. ASSUME NEW e \in P!Extended
      PROVE  /\ Flag(e).put \in Int /\ Flag(e).width \in Int /\ Keeps(Flag(e))
  BY <1>1, <1>5 DEF IsAt, Keeps, BitsOf
<1>6. ASSUME NEW e \in P!Extended, e[2] \notin {4, 6, 7}, NEW d \in P!Extended, Flag(d) # Flag(e)
      PROVE  Flag(d).name # Flag(e).name /\ Spares(Flag(d), Flag(e))
  BY <1>1, <1>3, <1>6 DEF IsAt, Spares, BitsOf, P!Span
<1> QED
  BY <1>1, <1>2, <1>4, <1>5, <1>6 DEF Sound, IsAt

-----------------------------------------------------------------------------
(* The tables in which some are astray or have to be known. *)

LEMMA ChannelFlagIs ==
  ASSUME NEW name, NEW at
  PROVE  LET f == [P!FlagAt(name, at) EXCEPT !.drops = 24..31] IN
         /\ f.name = name /\ f.get = at /\ f.put = at /\ f.width = 1
         /\ f.clear = P!Span(at, 1) /\ f.drops = 24..31 /\ f.known = {} /\ f.covers = {}
  BY DEF P!FlagAt, P!Field

\* Flags above the eighth do not pass through the setters' local variable.
LEMMA ChannelFlagsIsSound ==
  /\ Sound(P!ChannelFlags, P!Astray("RadioTapChannel"))
  /\ \A f \in P!ChannelFlags :
       /\ f.name \notin {"operator()", "Frequency", "Flags"}
       /\ f.put \in 20..31 /\ f.width = 1 /\ f.clear = P!Span(f.put, 1)
       /\ f.drops = 24..31 /\ f.known = {}
<1> DEFINE Flag(e) == [P!FlagAt(e[1], e[2]) EXCEPT !.drops = 24..31]
           L == {<<"Turbo", 20>>, <<"CCK", 21>>, <<"OFDM", 22>>, <<"Spectrum2G", 23>>}
           H == {<<"Spectrum5G", 24>>, <<"Passive", 25>>, <<"DynamicCCK", 26>>, <<"GFSK", 27>>,
                 <<"GSM", 28>>, <<"StaticTurbo", 29>>, <<"HalfRate", 30>>, <<"QuarterRate", 31>>}
<1>1. /\ P!Low = {P!FlagAt(e[1], e[2]) : e \in L}
      /\ P!High = {P!FlagAt(e[1], e[2]) : e \in H}
  <2>1. P!Low = {P!FlagAt(e[1], e[2]) : e \in L}
    BY DEF P!Low
  <2>2. P!High = {P!FlagAt(e[1], e[2]) : e \in H}
    BY DEF P!High
  <2> QED
    BY <2>1, <2>2
<1>2. P!ChannelFlags = {Flag(e) : e \in L \cup H}
  BY <1>1 DEF P!ChannelFlags
<1>3. P!Astray("RadioTapChannel") = {e[1] : e \in H}
  <2>1. P!Astray("RadioTapChannel") = {f.name : f \in P!High}
    BY DEF P!Astray
  <2>2. \A e : P!FlagAt(e[1], e[2]).name = e[1]
    BY FlagIs DEF IsAt
  <2> HIDE DEF H
  <2> QED
    BY <1>1, <2>1, <2>2
<1>4. \A e \in L \cup H : /\ e[2] \in 20..31
                        /\ e[1] \notin {"operator()", "Frequency", "Flags"}
  OBVIOUS
<1>5. \A e \in L : e[2] \in 20..23 /\ \A d \in (L \cup H) \ {e} : d[1] # e[1] /\ d[2] # e[2]
  OBVIOUS
<1>6. \A e \in L \cup H : /\ Flag(e).name = e[1] /\ Flag(e).get = e[2] /\ Flag(e).put = e[2]
                        /\ Flag(e).width = 1 /\ Flag(e).clear = P!Span(e[2], 1)
                        /\ Flag(e).drops = 24..31 /\ Flag(e).known = {} /\ Flag(e).covers = {}
  BY ChannelFlagIs
<1> HIDE DEF Flag, L, H
<1>7. ASSUME NEW e \in L PROVE Keeps(Flag(e))
  <2>1. e[2] \in 20..23
    BY <1>5
  <2>2. P!Span(e[2], 1) \cap 24..31 = {}
    BY <2>1 DEF P!Span
  <2>3. /\ Flag(e).get = e[2] /\ Flag(e).put = e[2] /\ Flag(e).width = 1
        /\ Flag(e).clear = P!Span(e[2], 1) /\ Flag(e).drops = 24..31 /\ Flag(e).known = {}
    BY <1>6
  <2> QED
    BY <2>1, <2>2, <2>3 DEF Keeps, BitsOf
<1>8. ASSUME NEW e \in L, NEW d \in L \cup H, Flag(d) # Flag(e)
      PROVE  Flag(d).name # Flag(e).name /\ Spares(Flag(d), Flag(e))
  <2>1. Flag(d).name # Flag(e).name /\ e[2] \in 20..23 /\ d[2] \in 20..31 /\ d[2] # e[2]
    BY <1>4, <1>5, <1>6, <1>8
  <2>2. /\ P!Span(e[2], 1) \cap P!Span(d[2], 1) = {}
        /\ P!Span(e[2], 1) \cap 24..31 = {}
    BY <2>1 DEF P!Span
  <2> QED
    BY <1>6, <2>1, <2>2 DEF Spares, BitsOf
<1>9. Sound(P!ChannelFlags, P!Astray("RadioTapChannel"))
  BY <1>2, <1>3, <1>4, <1>6, <1>7, <1>8 DEF Sound
<1> QED
  BY <1>2, <1>4, <1>6, <1>9

LEMMA RadioTapChannelIsSound == Sound(P!RadioTapChannel, P!Astray("RadioTapChannel"))
<1> DEFINE num == P!Number("Flags", 16, 16)
           w == [num EXCEPT !.covers = {f.name : f \in P!ChannelFlags}]
           astray == P!Astray("RadioTapChannel")
           W == P!Whole("Flags", 16, 16, P!ChannelFlags)
           q == P!Number("Frequency", 0, 16)
<1>1. w.name = "Flags" /\ w.get = 16 /\ w.put = 16 /\ w.width = 16 /\ w.clear = P!Span(16, 16)
      /\ w.drops = {} /\ w.known = {}
  BY DEF P!Number, P!Field
<1>2. W = {w} \cup P!ChannelFlags
  BY DEF P!Whole
<1>3. IsAt(q, "Frequency", 0, 16)
  BY NumberIs
<1> HIDE DEF num, w, q, W
<1>4. Sound(W, astray)
  BY ChannelFlagsIsSound, WholeIsSound DEF W
<1>5. \A f \in W : /\ f.name \notin {"operator()", "Frequency"} /\ f.known = {}
                   /\ f.put \in 16..31 /\ f.width \in 1..16 /\ f.put + f.width <= 32
                   /\ f.clear \cup f.drops \subseteq 16..31
  BY <1>1, <1>2, ChannelFlagsIsSound DEF P!Span
<1>6. ASSUME NEW f \in W PROVE Spares(f, q)
  BY <1>3, <1>5, <1>6 DEF IsAt, Spares, BitsOf, P!Span
<1>7. ASSUME NEW f \in W, f.name \notin astray PROVE Spares(q, f)
  <2>1. f.get \in 16..31 /\ f.width \in Int /\ f.known = {}
    BY <1>4, <1>5, <1>7 DEF Sound, Keeps
  <2> QED
    BY <1>3, <2>1 DEF IsAt, Spares, BitsOf, P!Span
<1>8. Keeps(q)
  BY <1>3 DEF IsAt, Keeps, BitsOf
<1>9. Sound({q} \cup W, astray)
  BY <1>3, <1>4, <1>5, <1>6, <1>7, <1>8 DEF Sound, IsAt
<1>10. \A f \in {q} \cup W : f.name # "operator()"
  BY <1>3, <1>5 DEF IsAt
<1> QED
  BY <1>9, <1>10, WholeIsSound DEF P!RadioTapChannel, W, q

\* The same for one whose setter sets the bit k that its getter has to find.
IsKnown(f, name, at, width, k) ==
  /\ f.name = name /\ f.get = at /\ f.put = at /\ f.width = width
  /\ f.clear = P!Span(at, width) /\ f.drops = {} /\ f.known = {k} /\ f.covers = {}

LEMMA KnownIs ==
  ASSUME NEW f, NEW name, NEW at, NEW width, NEW k, NEW none,
         f \in {P!Number(name, at, width), P!Field(name, at, width, width)}
  PROVE  IsKnown(P!Known(f, k, none), name, at, width, k)
  BY DEF P!Known, P!Number, P!Field, IsKnown

LEMMA RadioTapMcsIsSound == Sound(P!RadioTapMcs, {})
<1> DEFINE a == P!Known(P!Number("Width", 8, 2), 0, P!None)
           b == P!Known(P!FlagAt("GuardInterval", 10), 2, P!None)
           c == P!Known(P!FlagAt("HtFormat", 11), 3, P!None)
           d == P!Known(P!Number("Streams", 13, 2), 5, {})
           e == P!Known(P!Number("Index", 16, 8), 1, {})
           F == {a, b, c, d, e}
<1>1. /\ IsKnown(a, "Width", 8, 2, 0) /\ IsKnown(b, "GuardInterval", 10, 1, 2)
      /\ IsKnown(c, "HtFormat", 11, 1, 3) /\ IsKnown(d, "Streams", 13, 2, 5)
      /\ IsKnown(e, "Index", 16, 8, 1)
  BY KnownIs DEF P!FlagAt
<1>2. P!RadioTapMcs = P!Whole("operator()", 0, 24, F)
  BY DEF P!RadioTapMcs, P!McsFlags
<1> HIDE DEF a, b, c, d, e
<1>3. \A f \in F : /\ f.get \in Nat /\ f.width \in Nat /\ f.put = f.get /\ 8 <= f.get
                   /\ f.clear = P!Span(f.get, f.width) /\ f.drops = {} /\ f.known \subseteq 0..7
                   /\ f.name # "operator()"
  BY <1>1 DEF IsKnown
<1>4. \A f \in F : \A g \in F \ {f} :
        g.name # f.name /\ (f.get + f.width <= g.get \/ g.get + g.width <= f.get)
  BY <1>1 DEF IsKnown
<1> HIDE DEF F
<1>5. \A f, g \in F : BitsOf(f) \cap g.known = {}
  <2>1. \A f \in F : \A x \in BitsOf(f) : x \notin 0..7
    BY <1>3 DEF BitsOf, P!Span
  <2> QED
    BY <1>3, <2>1
<1>6. ASSUME NEW f \in F PROVE f.put \in Int /\ f.width \in Int /\ Keeps(f)
  BY <1>3, <1>5 DEF Keeps, BitsOf
<1>7. ASSUME NEW f \in F, NEW g \in F \ {f} PROVE Spares(g, f)
  <2>1. BitsOf(f) \cap BitsOf(g) = {}
    BY <1>3, <1>4, Spans DEF BitsOf
  <2>2. f.known \cap BitsOf(g) = {} /\ BitsOf(f) \cap g.known = {}
    BY <1>5
  <2>3. g.clear = BitsOf(g) /\ g.drops = {} /\ P!Span(g.put, g.width) = BitsOf(g)
    BY <1>3 DEF BitsOf
  <2> QED
    BY <2>1, <2>2, <2>3 DEF Spares
<1>8. Sound(F, {})
  BY <1>4, <1>6, <1>7 DEF Sound
<1> QED
  BY <1>2, <1>3, <1>8, WholeIsSound

LEMMA AsidePlus ==
  ASSUME NEW F, Placed(F), NEW astray, NEW G,
         \A g \in G : g.name \in astray /\ g.put \in Int /\ g.width \in Int,
         \A f \in F, g \in G : f.name # g.name /\ Spares(g, f)
  PROVE  Sound(F \cup G, astray)
<1>1. Sound(F, astray)
  BY AsideIsSound
<1> QED
  BY <1>1 DEF Sound

LEMMA HtCapsIsSound == Sound(P!HtCaps, P!Astray("HtCaps"))
<1> DEFINE beam == [P!Number("HtTransBeamCap", P!TransBeamCap, 32) EXCEPT
                      !.put = P!AselCap, !.clear = P!Span(P!AselCap, 8), !.drops = 208..231]
           asel == [P!Number("HtAselCap", P!AselCap, 32) EXCEPT
                      !.get = P!TransBeamCap, !.clear = P!Span(P!AselCap, 8), !.drops = 208..231]
           G == {beam, asel}
           F == {P!Number("HtCapInfo", 0, 16), P!Number("HtAmpduParms", 16, 8),
                 P!Number("HtSupportedMcsSet", 24, 128), P!Number("HtExtCaps", 152, 16)}
<1>1. /\ IsAt(P!Number("HtCapInfo", 0, 16), "HtCapInfo", 0, 16)
      /\ IsAt(P!Number("HtAmpduParms", 16, 8), "HtAmpduParms", 16, 8)
      /\ IsAt(P!Number("HtSupportedMcsSet", 24, 128), "HtSupportedMcsSet", 24, 128)
      /\ IsAt(P!Number("HtExtCaps", 152, 16), "HtExtCaps", 152, 16)
  BY NumberIs
<1>2. /\ beam.name = "HtTransBeamCap" /\ beam.put = 200 /\ beam.width = 32
      /\ beam.clear = P!Span(200, 8) /\ beam.drops = 208..231 /\ beam.known = {}
  BY DEF P!Number, P!Field, P!AselCap, P!TransBeamCap
<1>3. /\ asel.name = "HtAselCap" /\ asel.put = 200 /\ asel.width = 32
      /\ asel.clear = P!Span(200, 8) /\ asel.drops = 208..231 /\ asel.known = {}
  BY DEF P!Number, P!Field, P!AselCap, P!TransBeamCap
<1>4. P!Astray("HtCaps") = {"HtAselCap", "HtTransBeamCap"}
  BY DEF P!Astray
<1>5. P!HtCaps = P!Whole("operator()", 0, 208, F \cup G)
  BY DEF P!HtCaps
<1> HIDE DEF beam, asel
<1>6. Placed(F)
  BY <1>1 DEF Placed, IsAt
<1>7. \A f \in F : /\ f.name \notin {"operator()", "HtAselCap", "HtTransBeamCap"} /\ f.known = {}
                   /\ f.get \in Nat /\ f.width \in Nat /\ f.get + f.width <= 168
  BY <1>1 DEF IsAt
<1> HIDE DEF F
<1>8. \A f \in F, g \in G : f.name # g.name /\ Spares(g, f)
  BY <1>2, <1>3, <1>7 DEF Spares, BitsOf, P!Span
<1>9. Sound(F \cup G, P!Astray("HtCaps"))
  <2>1. \A g \in G : g.name \in P!Astray("HtCaps") /\ g.put \in Int /\ g.width \in Int
    BY <1>2, <1>3, <1>4
  <2> HIDE DEF G
  <2> QED
    BY <1>6, <1>8, <2>1, AsidePlus, Zenon
<1>10. \A f \in F \cup G : f.name # "operator()"
  BY <1>2, <1>3, <1>7
<1> QED
  BY <1>5, <1>9, <1>10, WholeIsSound

LEMMA AllSound == \A c \in DOMAIN P!Accessors : Sound(P!Accessors[c], P!Astray(c))
<1> DEFINE Plain == {"FrameControl", "SequenceControl", "QosControl", "BlockAck", "RadioTapFlags",
                     "RadioTapTxFlags", "RadioTapMcs", "ErpInfo", "ChannelSwitch", "PowerCaps", "HtInfo"}
<1>1. \A c \in Plain : c \notin {"RadioTapChannel", "HtCaps", "ExtCaps"}
  OBVIOUS
<1>2. \A c : c \notin {"RadioTapChannel", "HtCaps", "ExtCaps"} => P!Astray(c) = {}
  BY DEF P!Astray
<1>3. \A c \in Plain : Sound(P!Accessors[c], {})
  BY FrameControlIsSound, SequenceControlIsSound, QosControlIsSound, BlockAckIsSound,
     RadioTapFlagsIsSound, RadioTapTxFlagsIsSound, RadioTapMcsIsSound, ErpInfoIsSound,
     ChannelSwitchIsSound, PowerCapsIsSound, HtInfoIsSound DEF P!Accessors
<1>4. /\ P!Accessors["RadioTapChannel"] = P!RadioTapChannel
      /\ P!Accessors["HtCaps"] = P!HtCaps
      /\ P!Accessors["ExtCaps"] = P!ExtCaps
      /\ DOMAIN P!Accessors = Plain \cup {"RadioTapChannel", "HtCaps", "ExtCaps"}
  BY DEF P!Accessors
<1> HIDE DEF Plain
<1>5. \A c \in Plain : Sound(P!Accessors[c], P!Astray(c))
  BY <1>1, <1>2, <1>3
<1> QED
  BY <1>4, <1>5, RadioTapChannelIsSound, HtCapsIsSound, ExtCapsIsSound

-----------------------------------------------------------------------------
(* The behaviours of Network that are about the parts of a frame. *)

PartsIInv == about = "parts" => P!AccessIInv

LEMMA InitParts == NetInit => PartsIInv
<1> SUFFICES ASSUME NetInit, about = "parts" PROVE P!AccessIInv
  BY DEF PartsIInv
<1>1. P!AccessInit
  BY DEF NetInit
<1>2. object \in DOMAIN P!Accessors /\ said = << >>
  BY <1>1 DEF P!AccessInit, P!Objects
<1> QED
  BY <1>2, NewKeeps

LEMMA NextParts ==
  ASSUME PartsIInv, [NetNext]_<<airVars, about, wireVars, partVars>> PROVE PartsIInv'
<1>1. CASE UNCHANGED <<about, object, bits, said>>
  BY <1>1 DEF PartsIInv, P!AccessIInv, P!FieldsKept
<1>2. CASE about = "parts" /\ P!AccessNext /\ about' = about
  <2>1. P!AccessIInv
    BY <1>2 DEF PartsIInv
  <2>2. CASE P!Another
    <3>1. object' \in DOMAIN P!Accessors /\ said' = << >>
      BY <2>2 DEF P!Another, P!Objects
    <3>2. DOMAIN said' = {}
      BY <3>1
    <3> QED
      BY <3>1, <3>2 DEF PartsIInv, P!AccessIInv, P!FieldsKept
  <2>3. ASSUME NEW f \in P!Accessors[object], NEW v, P!Set(f, v) PROVE P!AccessIInv'
    <3>1. Sound(P!Accessors[object], P!Astray(object))
      BY <2>1, AllSound DEF P!AccessIInv
    <3> QED
      BY <2>1, <2>3, <3>1, SetKeeps
  <2> QED
    BY <1>2, <2>2, <2>3 DEF P!AccessNext, PartsIInv
<1>3. CASE about # "parts" /\ about' = about
  BY <1>3 DEF PartsIInv
<1> QED
  BY <1>1, <1>2, <1>3 DEF NetNext, partVars

\* The getters of all frames, radiotap fields and tags but the ones named in
\* Accessors give what was set last, whatever setters of the same word were called
\* since, in any number and with any arguments.
THEOREM PartsStay == NetSpec => []PartsKept
<1>1. PartsIInv => PartsKept
  BY DEF PartsIInv, PartsKept, P!AccessIInv
<1> QED
  BY <1>1, InitParts, NextParts, PTL DEF NetSpec

-----------------------------------------------------------------------------
HIDE EventAssumption DEF EventAssumption

(***************************************************************************)
(* Sets of numbers, and the list of one in its order.                      *)
(***************************************************************************)
LEMMA LeastOf ==
  ASSUME NEW S \in SUBSET Nat, S # {}
  PROVE  \E i \in S : \A j \in S : i <= j
<1> DEFINE R == OpToRel(<, Nat)
<1>1. IsWellFoundedOn(R, Nat)
  BY NatLessThanWellFounded
<1>2. \A i, j \in Nat : i < j => <<i, j>> \in R
  BY DEF OpToRel
<1> HIDE DEF R
<1>3. PICK i \in S : \A j \in S : ~(<<j, i>> \in R)
  BY <1>1, WFMin, Zenon
<1>4. \A j \in S : ~(j < i)
  BY <1>2, <1>3
<1> QED
  BY <1>4

LEMMA UpFrom ==
  ASSUME NEW k \in Nat, NEW S, 0 \in S, \A i \in 0 .. k : i < k /\ i \in S => i + 1 \in S
  PROVE  k \in S /\ \A i \in 0 .. k : i \in S
<1> DEFINE U == {i \in 0 .. k : i \notin S}
<1> SUFFICES ASSUME U # {} PROVE FALSE
  <2>1. k \in 0 .. k
    OBVIOUS
  <2> QED
    BY <2>1
<1>0. U \in SUBSET Nat
  BY DEF U
<1>1. PICK i \in U : \A j \in U : i <= j
  BY <1>0, LeastOf, Zenon
<1>2. i # 0 /\ i - 1 \in 0 .. k /\ i - 1 < k
  BY <1>1
<1>3. i - 1 \notin U
  BY <1>1
<1>4. i - 1 \in S
  BY <1>2, <1>3
<1>5. i - 1 + 1 \in S
  BY <1>2, <1>4
<1> QED
  BY <1>1, <1>5

\* q lists the numbers of S from the smallest on.
Lists(q, S) ==
  /\ Cardinality(S) \in Nat /\ q \in [1 .. Cardinality(S) -> S]
  /\ \A i, j \in DOMAIN q : i < j => q[i] < q[j]
  /\ \A x \in S : \E i \in DOMAIN q : q[i] = x

Under(S, x) == {y \in S : y < x}

LEMMA UnderIs ==
  ASSUME NEW k \in Nat, NEW S, \A u \in S : u \in 0 .. k, NEW x \in Nat
  PROVE  /\ IsFiniteSet(S) /\ Cardinality(S) \in Nat
         /\ IsFiniteSet(Under(S, x)) /\ Cardinality(Under(S, x)) \in Nat
         /\ Cardinality(Under(S, x)) <= Cardinality(S)
         /\ x \in S => Cardinality(Under(S, x)) < Cardinality(S)
         /\ Cardinality(Under(S, x + 1)) = Cardinality(Under(S, x)) + (IF x \in S THEN 1 ELSE 0)
<1>0. \A y \in S : y \in Nat /\ y <= k
  OBVIOUS
<1>1. IsFiniteSet(S) /\ Cardinality(S) \in Nat
  <2>1. IsFiniteSet(0 .. k) /\ S \in SUBSET (0 .. k)
    BY FS_Interval
  <2> QED
    BY <2>1, FS_Subset, FS_CardinalityType, Zenon
<1>2. Under(S, x) \in SUBSET S
  BY DEF Under
<1>3. /\ IsFiniteSet(Under(S, x)) /\ Cardinality(Under(S, x)) \in Nat
      /\ Cardinality(Under(S, x)) <= Cardinality(S)
      /\ Cardinality(S) = Cardinality(Under(S, x)) => S = Under(S, x)
  BY <1>1, <1>2, FS_Subset, FS_CardinalityType
<1>4. x \notin Under(S, x)
  BY DEF Under
<1>5. x \in S => Cardinality(Under(S, x)) < Cardinality(S)
  BY <1>1, <1>3, <1>4
<1>6. CASE x \in S
  <2>1. Under(S, x + 1) = Under(S, x) \cup {x}
    <3>1. ASSUME NEW y \in S PROVE y < x + 1 <=> y < x \/ y = x
      BY <1>0
    <3> QED
      BY <1>6, <3>1, Zenon DEF Under
  <2> QED
    BY <1>1, <1>3, <1>4, <1>5, <1>6, <2>1, FS_AddElement
<1>7. CASE x \notin S
  <2>1. Under(S, x + 1) = Under(S, x)
    <3>1. ASSUME NEW y \in S PROVE y < x + 1 <=> y < x
      BY <1>0, <1>7
    <3> QED
      BY <3>1 DEF Under
  <2> QED
    BY <1>1, <1>3, <1>5, <1>7, <2>1
<1> QED
  BY <1>6, <1>7

LEMMA UnderMore ==
  ASSUME NEW k \in Nat, NEW S, \A u \in S : u \in 0 .. k,
         NEW x \in Nat, NEW y \in Nat, x <= y
  PROVE  Cardinality(Under(S, x)) <= Cardinality(Under(S, y))
<1>1. Under(S, x) \in SUBSET Under(S, y)
  <2>1. \A u \in S : u \in Nat
    OBVIOUS
  <2> QED
    BY <2>1 DEF Under
<1> QED
  BY <1>1, UnderIs, FS_Subset, Zenon

LEMMA UnderEnds ==
  ASSUME NEW k \in Nat, NEW S, \A u \in S : u \in 0 .. k
  PROVE  Cardinality(Under(S, 0)) = 0 /\ Under(S, k + 1) = S
<1>0. \A y \in S : y \in Nat /\ y <= k
  OBVIOUS
<1>1. Under(S, 0) = {}
  BY <1>0 DEF Under
<1>2. Under(S, k + 1) = S
  BY <1>0 DEF Under
<1> QED
  BY <1>1, <1>2, FS_EmptySet

\* The ranks of the elements of S are all different, and all that there can be.
LEMMA Ranks ==
  ASSUME NEW k \in Nat, NEW S, \A u \in S : u \in 0 .. k
  PROVE  /\ \A x, y \in S : x < y => Cardinality(Under(S, x)) < Cardinality(Under(S, y))
         /\ \A i \in 1 .. Cardinality(S) : \E x \in S : Cardinality(Under(S, x)) = i - 1
<1> DEFINE c(x) == Cardinality(Under(S, x))
           m == Cardinality(S)
<1>0. \A y \in S : y \in Nat /\ y <= k
  OBVIOUS
<1>1. /\ m \in Nat /\ \A x \in Nat : c(x) \in Nat /\ c(x) <= m /\ (x \in S => c(x) < m)
      /\ \A x \in Nat : c(x + 1) = c(x) + (IF x \in S THEN 1 ELSE 0)
  BY UnderIs, Zenon
<1>2. \A x, y \in Nat : x <= y => c(x) <= c(y)
  BY UnderMore
<1>3. c(0) = 0 /\ c(k + 1) = m
  BY UnderEnds
<1> HIDE DEF c, m
<1>4. ASSUME NEW i \in 1 .. m PROVE \E x \in S : c(x) = i - 1
  <2> DEFINE Z == {z \in Nat : c(z) >= i}
  <2>1. k + 1 \in Z /\ Z \in SUBSET Nat
    BY <1>1, <1>3
  <2>2. PICK z \in Z : \A y \in Z : z <= y
    BY <2>1, LeastOf, Zenon
  <2>3. z # 0 /\ z - 1 \in Nat /\ z - 1 \notin Z
    BY <1>3, <2>2
  <2>4. c(z - 1) <= i - 1 /\ c(z - 1) \in Nat
    BY <1>1, <2>3
  <2>5. c(z) = c(z - 1) + (IF z - 1 \in S THEN 1 ELSE 0)
    <3>1. (z - 1) + 1 = z
      BY <2>2, <2>3
    <3> QED
      BY <1>1, <2>3, <3>1
  <2>6. c(z) >= i
    BY <2>2
  <2>7. z - 1 \in S /\ c(z - 1) = i - 1
    <3> HIDE DEF Z
    <3> QED
      BY <2>4, <2>5, <2>6
  <2> QED
    BY <2>7
<1>5. ASSUME NEW x \in S, NEW y \in S, x < y PROVE c(x) < c(y)
  <2>1. c(x + 1) <= c(y) /\ c(x + 1) = c(x) + 1
    BY <1>0, <1>1, <1>2, <1>5
  <2> QED
    BY <1>0, <1>1, <2>1
<1> QED
  BY <1>4, <1>5 DEF c, m

LEMMA AscendingLists ==
  ASSUME NEW k \in Nat, NEW S, \A u \in S : u \in 0 .. k
  PROVE  Lists(Ascending(S), S)
<1> DEFINE c(x) == Cardinality(Under(S, x))
           q == Ascending(S)
           m == Cardinality(S)
<1>0. \A y \in S : y \in Nat /\ y <= k
  OBVIOUS
<1>1. m \in Nat /\ \A x \in Nat : c(x) \in Nat /\ (x \in S => c(x) < m)
  BY UnderIs
<1>2. \A x, y \in Nat : x <= y => c(x) <= c(y)
  BY UnderMore
<1>3. \A i \in 1 .. m : \E x \in S : c(x) = i - 1
  BY Ranks
<1>4. \A x, y \in S : x < y => c(x) < c(y)
  BY Ranks, Zenon
<1>5. q = [i \in 1 .. m |-> CHOOSE x \in S : c(x) = i - 1]
  BY DEF Ascending, Under
<1> HIDE DEF c, q, m
<1>6. \A i \in 1 .. m : q[i] \in S /\ c(q[i]) = i - 1
  BY <1>3, <1>5
<1>7. q \in [1 .. m -> S] /\ DOMAIN q = 1 .. m
  BY <1>5, <1>6
<1>8. ASSUME NEW i \in 1 .. m, NEW j \in 1 .. m, i < j PROVE q[i] < q[j]
  <2>1. q[i] \in Nat /\ q[j] \in Nat
    BY <1>0, <1>6
  <2>2. q[j] <= q[i] => c(q[j]) <= c(q[i])
    BY <1>2, <2>1
  <2> QED
    BY <1>6, <1>8, <2>1, <2>2
<1>9. ASSUME NEW x \in S PROVE \E i \in 1 .. m : q[i] = x
  <2>1. c(x) + 1 \in 1 .. m /\ c(x) \in Nat
    BY <1>0, <1>1
  <2>2. q[c(x) + 1] \in S /\ c(q[c(x) + 1]) = c(x)
    BY <1>6, <2>1
  <2> DEFINE y == q[c(x) + 1]
  <2>3. y \in Nat /\ x \in Nat /\ ~(x < y) /\ ~(y < x)
    BY <1>0, <1>4, <2>1, <2>2
  <2> QED
    BY <2>1, <2>3
<1> QED
  BY <1>1, <1>7, <1>8, <1>9, Zenon DEF Lists, q, m

\* There is one such list.
LEMMA ListsOnce ==
  ASSUME NEW k \in Nat, NEW S, \A u \in S : u \in 0 .. k, NEW m \in Nat, NEW q \in [1 .. m -> S],
         \A i, j \in 1 .. m : i < j => q[i] < q[j], \A x \in S : \E i \in 1 .. m : q[i] = x
  PROVE  Cardinality(S) = m /\ Ascending(S) = q
<1>0. \A y \in S : y \in Nat
  OBVIOUS
<1>1. Cardinality(S) = m
  <2>1. q \in Bijection(1 .. m, S)
    <3>1. \A i, j \in 1 .. m : q[i] = q[j] => i = j
      <4>1. \A i \in 1 .. m : q[i] \in Nat
        BY <1>0
      <4> QED
        BY <4>1
    <3> QED
      BY <3>1 DEF Bijection, Injection, Surjection, IsInjective
  <2> QED
    BY <2>1, FS_CountingElements DEF ExistsBijection
<1> DEFINE a == Ascending(S)
<1>2. a \in [1 .. m -> S] /\ (\A i, j \in 1 .. m : i < j => a[i] < a[j])
      /\ \A x \in S : \E i \in 1 .. m : a[i] = x
  <2>1. Lists(a, S)
    BY AscendingLists
  <2> HIDE DEF a
  <2> QED
    BY <1>1, <2>1 DEF Lists
<1> HIDE DEF a
<1>3. \A i \in 1 .. m : a[i] = q[i]
  <2> DEFINE U == {i \in 1 .. m : a[i] # q[i]}
  <2> SUFFICES ASSUME U # {} PROVE FALSE
    BY Zenon
  <2>0. U \in SUBSET Nat
    BY DEF U
  <2>1. PICK i \in U : \A j \in U : i <= j
    BY <2>0, LeastOf
  <2>2. \A j \in 1 .. m : j < i => a[j] = q[j]
    BY <2>1
  <2>3. PICK x \in 1 .. m : a[x] = q[i]
    BY <1>2, <2>1
  <2>4. PICK y \in 1 .. m : q[y] = a[i]
    BY <1>2, <2>1
  <2>5. a[i] \in Nat /\ q[i] \in Nat /\ a[i] # q[i]
    BY <1>0, <1>2, <2>1
  <2>6. x > i
    <3>1. x # i
      BY <2>3, <2>5, Zenon
    <3>2. x < i => q[x] = q[i] /\ q[x] < q[i]
      BY <2>1, <2>2, <2>3
    <3> QED
      BY <2>1, <2>5, <3>1, <3>2
  <2>7. y > i
    <3>1. y # i
      BY <2>4, <2>5
    <3>2. y < i => a[y] = a[i] /\ a[y] < a[i]
      BY <1>2, <2>1, <2>2, <2>4
    <3> QED
      BY <2>1, <2>5, <3>1, <3>2
  <2>8. a[i] < q[i]
    BY <1>2, <2>1, <2>3, <2>6
  <2>9. q[i] < a[i]
    BY <2>1, <2>4, <2>7, Zenon
  <2> QED
    BY <2>5, <2>8, <2>9
<1>4. a = q
  BY <1>2, <1>3
<1> QED
  BY <1>1, <1>4 DEF a

(***************************************************************************)
(* Buffers.                                                                *)
(***************************************************************************)
IsBuffer(b) == b.end \in Int /\ \E k \in Nat : \A p \in DOMAIN b.at : p \in 0 .. k

\* A field that is there whole.
Holds(b, p, w, f, v) == p \in DOMAIN b.at /\ b.at[p] = [f |-> f, w |-> w, v |-> v]

LEMMA HoldsReads ==
  ASSUME NEW b, NEW p, NEW w, NEW f, NEW v, Holds(b, p, w, f, v)
  PROVE  ReadAt(b, p, w, f) = v
BY DEF Holds, ReadAt

LEMMA Written ==
  ASSUME NEW b, IsBuffer(b), NEW at \in Nat, NEW w \in Nat \ {0}, NEW f, NEW v
  PROVE  /\ IsBuffer(Write(b, at, w, f, v)) /\ Write(b, at, w, f, v).end = b.end + w
         /\ Holds(Write(b, at, w, f, v), at, w, f, v)
         /\ \A p \in DOMAIN Write(b, at, w, f, v).at :
              p # at => p \in DOMAIN b.at /\ Write(b, at, w, f, v).at[p] = b.at[p]
<1> DEFINE c == Write(b, at, w, f, v)
<1>1. c.end = b.end + w /\ c.end \in Int
  BY DEF Write, IsBuffer
<1>2. /\ DOMAIN c.at = {p \in DOMAIN b.at : Apart(p, b.at[p], at, w)} \cup {at}
      /\ c.at[at] = [f |-> f, w |-> w, v |-> v]
      /\ \A p \in DOMAIN c.at : p # at => p \in DOMAIN b.at /\ c.at[p] = b.at[p]
  BY DEF Write
<1>3. PICK k \in Nat : \A p \in DOMAIN b.at : p \in 0 .. k
  BY DEF IsBuffer
<1> HIDE DEF c
<1>4. \A p \in DOMAIN c.at : p \in 0 .. (k + at)
  <2>1. \A p \in 0 .. k : p \in 0 .. (k + at)
    OBVIOUS
  <2>2. at \in 0 .. (k + at)
    OBVIOUS
  <2> QED
    BY <1>2, <1>3, <2>1, <2>2
<1>5. k + at \in Nat
  OBVIOUS
<1> QED
  BY <1>1, <1>2, <1>4, <1>5 DEF IsBuffer, Holds, c

LEMMA WriteKeeps ==
  ASSUME NEW b, NEW at \in Nat, NEW w \in Nat \ {0}, NEW f, NEW v,
         NEW p \in Nat, NEW u \in Nat \ {0}, NEW g, NEW x, Holds(b, p, u, g, x),
         p + u <= at \/ at + w <= p
  PROVE  Holds(Write(b, at, w, f, v), p, u, g, x)
<1>1. p # at
  OBVIOUS
<1>2. Apart(p, b.at[p], at, w)
  BY DEF Holds, Apart
<1> QED
  BY <1>1, <1>2 DEF Write, Holds

LEMMA Popped ==
  ASSUME NEW b, IsBuffer(b), NEW w \in Nat
  PROVE  /\ IsBuffer(Pop(b, w)) /\ Pop(b, w).end = b.end - w
         /\ \A p \in DOMAIN Pop(b, w).at : p \in DOMAIN b.at /\ Pop(b, w).at[p] = b.at[p]
         /\ \A p \in DOMAIN b.at : p + b.at[p].w <= b.end - w =>
              p \in DOMAIN Pop(b, w).at /\ Pop(b, w).at[p] = b.at[p]
<1> DEFINE c == Pop(b, w)
<1>1. c.end = b.end - w /\ c.end \in Int
  BY DEF Pop, IsBuffer
<1>2. /\ DOMAIN c.at = {p \in DOMAIN b.at : p + b.at[p].w <= b.end - w}
      /\ \A p \in DOMAIN c.at : c.at[p] = b.at[p]
  BY DEF Pop, Restrict
<1>3. PICK k \in Nat : \A p \in DOMAIN b.at : p \in 0 .. k
  BY DEF IsBuffer
<1> HIDE DEF c
<1> QED
  BY <1>1, <1>2, <1>3 DEF IsBuffer, c

LEMMA PopKeeps ==
  ASSUME NEW b, NEW w \in Nat, b.end \in Int,
         NEW p \in Nat, NEW u \in Nat, NEW g, NEW x, Holds(b, p, u, g, x), p + u <= b.end - w
  PROVE  Holds(Pop(b, w), p, u, g, x)
BY DEF Pop, Restrict, Holds

(***************************************************************************)
(* Writers.                                                                *)
(***************************************************************************)
IsWriter(s) == s.ok \in BOOLEAN /\ s = [ok |-> s.ok, o |-> s.o, b |-> s.b, base |-> s.base]

\* t is what a step makes of s that does not change its object.
Onward(t, s) == IsWriter(t) /\ t.o = s.o /\ t.base = s.base /\ (t.ok => s.ok)

LEMMA Onwards ==
  ASSUME NEW s, NEW t, NEW u, Onward(t, s), Onward(u, t)
  PROVE  Onward(u, s)
BY DEF Onward

LEMMA PutOne ==
  ASSUME NEW s, IsWriter(s), NEW at, NEW w, NEW f
  PROVE  /\ Onward(Put(s, at, w, f), s)
         /\ Put(s, at, w, f).ok => Put(s, at, w, f).b = Write(s.b, s.base + at, w, f, s.o.val[f])
         /\ Put(s, at, w, f).ok = s.ok
<1>1. CASE s.ok
  <2>1. Put(s, at, w, f) = [ok |-> s.ok, o |-> s.o, base |-> s.base,
                            b |-> Write(s.b, s.base + at, w, f, s.o.val[f])]
    BY <1>1, Zenon DEF Put, IsWriter
  <2> QED
    BY <1>1, <2>1 DEF Onward, IsWriter
<1>2. CASE ~s.ok
  BY <1>2 DEF Put, Onward, IsWriter
<1> QED
  BY <1>1, <1>2

LEMMA NeedOne ==
  ASSUME NEW s, IsWriter(s), NEW cond \in BOOLEAN
  PROVE  /\ Onward(Need(s, cond), s) /\ Need(s, cond).b = s.b
         /\ Need(s, cond).ok = (s.ok /\ cond)
<1>1. Need(s, cond) = [ok |-> s.ok /\ cond, o |-> s.o, b |-> s.b, base |-> s.base]
  BY DEF Need, IsWriter
<1> QED
  BY <1>1 DEF Onward, IsWriter

LEMMA PutControlOne ==
  ASSUME NEW s, IsWriter(s)
  PROVE  /\ Onward(PutControl(s), s) /\ PutControl(s).ok = s.ok
         /\ PutControl(s).b = Write(s.b, s.base, 2, "fc", s.o.fc)
<1>1. PutControl(s) = [ok |-> s.ok, o |-> s.o, base |-> s.base, b |-> Write(s.b, s.base, 2, "fc", s.o.fc)]
  BY DEF PutControl, IsWriter
<1> QED
  BY <1>1 DEF Onward, IsWriter

LEMMA PutNextOne ==
  ASSUME NEW s, IsWriter(s), NEW fields
  PROVE  /\ Onward(PutNext(s, fields), s) /\ PutNext(s, fields).ok = s.ok
         /\ PutNext(s, fields).ok => PutNext(s, fields).b = WriteNext(s.b, fields, s.o.val)
<1>1. CASE s.ok
  <2>1. PutNext(s, fields) = [ok |-> s.ok, o |-> s.o, base |-> s.base, b |-> WriteNext(s.b, fields, s.o.val)]
    BY <1>1, Zenon DEF PutNext, IsWriter
  <2> QED
    BY <1>1, <2>1 DEF Onward, IsWriter
<1>2. CASE ~s.ok
  BY <1>2 DEF PutNext, Onward, IsWriter
<1> QED
  BY <1>1, <1>2

(***************************************************************************)
(* A frame object: its parts, and the identifiers of its tags, all         *)
(* different.                                                              *)
(***************************************************************************)
Ids == {Id(m) : m \in TagNames}
TagRecord == [id : Ids, v : Int]

AreTags(q) ==
  /\ q \in Seq(TagRecord)
  /\ \A i, j \in DOMAIN q : q[i].id = q[j].id => i = j

IsObject(o) ==
  /\ o = [class |-> o.class, fc |-> o.fc, val |-> o.val, member |-> o.member, tags |-> o.tags]
  /\ o.class \in Classes
  /\ o.fc \in [type : {Mgmt, Cntl, Data}, sub : Nat, ds : BOOLEAN]
  /\ o.val \in [Fields -> Int]
  /\ o.member \in [Members(o.class) -> Int]
  /\ AreTags(o.tags)

-----------------------------------------------------------------------------
(***************************************************************************)
(* Tags that are put.                                                      *)
(***************************************************************************)
LEMMA FirstIs ==
  ASSUME NEW q, AreTags(q), NEW id, HasTag(q, id)
  PROVE  /\ FirstTag(q, id) \in DOMAIN q /\ q[FirstTag(q, id)].id = id
         /\ \A i \in DOMAIN q : q[i].id = id => i = FirstTag(q, id)
         /\ GetTag(q, id) = q[FirstTag(q, id)].v
<1> DEFINE I == {i \in 1 .. Len(q) : q[i].id = id}
<1>1. DOMAIN q = 1 .. Len(q) /\ Len(q) \in Nat
  BY LenProperties DEF AreTags
<1>2. PICK i \in DOMAIN q : q[i].id = id
  BY DEF HasTag
<1>3. I = {i}
  BY <1>1, <1>2 DEF AreTags
<1>4. Min(I) = i
  <2>1. i \in I /\ \A x \in I : i <= x
    BY <1>1, <1>2, <1>3
  <2>2. \A y \in I : y = i
    BY <1>3
  <2> HIDE DEF I
  <2> QED
    BY <2>1, <2>2 DEF Min
<1>5. FirstTag(q, id) = i
  BY <1>3, <1>4 DEF FirstTag, SelectInSeq
<1> QED
  BY <1>2, <1>5 DEF GetTag, AreTags

LEMMA TagPut ==
  ASSUME NEW q, AreTags(q), NEW id \in Ids, NEW v \in Int
  PROVE  /\ AreTags(PutTag(q, id, v))
         /\ HasTag(PutTag(q, id, v), id) /\ GetTag(PutTag(q, id, v), id) = v
         /\ \A x : x # id => /\ HasTag(PutTag(q, id, v), x) <=> HasTag(q, x)
                             /\ HasTag(q, x) => GetTag(PutTag(q, id, v), x) = GetTag(q, x)
         /\ HasTag(q, id) /\ GetTag(q, id) = v => PutTag(q, id, v) = q
<1> DEFINE t == PutTag(q, id, v)
           e == [id |-> id, v |-> v]
<1>1. /\ q \in Seq(TagRecord) /\ DOMAIN q = 1 .. Len(q) /\ Len(q) \in Nat
      /\ \A i \in DOMAIN q : q[i] \in TagRecord
      /\ \A i, j \in DOMAIN q : q[i].id = q[j].id => i = j
  BY LenProperties, ElementOfSeq DEF AreTags
<1>2. e \in TagRecord /\ e.id = id /\ e.v = v
  BY DEF TagRecord
<1>3. ASSUME NEW x, HasTag(t, x), AreTags(t), NEW i \in DOMAIN t, t[i].id = x
      PROVE  GetTag(t, x) = t[i].v
  <2> HIDE DEF t
  <2> QED
    BY <1>3, FirstIs
<1>4. CASE HasTag(q, id)
  <2> DEFINE i == FirstTag(q, id)
  <2>1. i \in DOMAIN q /\ q[i].id = id /\ GetTag(q, id) = q[i].v
    BY <1>4, FirstIs
  <2>2. t = [q EXCEPT ![i].v = v]
    BY <1>4 DEF PutTag
  <2>3. [q[i] EXCEPT !.v = v] = e
    BY <1>1, <2>1 DEF TagRecord
  <2>4. t = [q EXCEPT ![i] = e]
    BY <2>2, <2>3, Zenon
  <2> HIDE DEF i, e, t
  <2>5. /\ t \in Seq(TagRecord) /\ Len(t) = Len(q) /\ DOMAIN t = DOMAIN q
        /\ \A j \in DOMAIN q : t[j] = IF j = i THEN e ELSE q[j]
    <3>1. t \in Seq(TagRecord) /\ Len(t) = Len(q)
          /\ \A j \in DOMAIN q : t[j] = IF j = i THEN e ELSE q[j]
      BY <1>1, <1>2, <2>1, <2>4, ExceptSeq
    <3> QED
      BY <1>1, <3>1, LenProperties
  <2>6. \A j \in DOMAIN q : t[j].id = q[j].id
    BY <1>2, <2>1, <2>5
  <2>7. AreTags(t)
    BY <1>1, <2>5, <2>6 DEF AreTags
  <2>8. \A x : HasTag(t, x) <=> HasTag(q, x)
    BY <2>5, <2>6 DEF HasTag
  <2>9. GetTag(t, id) = v
    BY <1>2, <1>3, <1>4, <2>1, <2>5, <2>7, <2>8
  <2>10. ASSUME NEW x, x # id, HasTag(q, x) PROVE GetTag(t, x) = GetTag(q, x)
    <3>1. PICK j \in DOMAIN q : q[j].id = x
      BY <2>10 DEF HasTag
    <3>2. GetTag(q, x) = q[j].v
      BY <2>10, <3>1, FirstIs
    <3>3. t[j] = q[j] /\ GetTag(t, x) = t[j].v
      BY <1>3, <2>1, <2>5, <2>6, <2>7, <2>8, <2>10, <3>1
    <3> QED
      BY <3>2, <3>3
  <2>11. ASSUME GetTag(q, id) = v PROVE t = q
    <3>1. q[i] = e
      BY <1>1, <2>1, <2>11, Zenon DEF TagRecord, e
    <3> QED
      BY <1>1, <2>5, <3>1, SeqEqual
  <2> QED
    BY <1>4, <2>7, <2>8, <2>9, <2>10, <2>11 DEF t
<1>5. CASE ~HasTag(q, id)
  <2>1. t = Append(q, e)
    BY <1>5 DEF PutTag
  <2> HIDE DEF e, t
  <2>2. /\ t \in Seq(TagRecord) /\ Len(t) = Len(q) + 1 /\ DOMAIN t = 1 .. Len(q) + 1
        /\ \A j \in DOMAIN q : t[j] = q[j]
        /\ t[Len(q) + 1] = e
    BY <1>1, <1>2, <2>1, AppendProperties, LenProperties
  <2>3. AreTags(t)
    <3>1. \A j \in DOMAIN q : q[j].id # id
      BY <1>5 DEF HasTag
    <3>2. ASSUME NEW j \in DOMAIN t, NEW k \in DOMAIN t, t[j].id = t[k].id PROVE j = k
      <4>1. (j \in DOMAIN q \/ j = Len(q) + 1) /\ (k \in DOMAIN q \/ k = Len(q) + 1)
        BY <1>1, <2>2
      <4> QED
        BY <1>1, <1>2, <2>2, <3>1, <3>2, <4>1
    <3> QED
      BY <2>2, <3>2 DEF AreTags
  <2>4. \A x : HasTag(t, x) <=> HasTag(q, x) \/ x = id
    <3>1. \A j : j \in DOMAIN t <=> j \in DOMAIN q \/ j = Len(q) + 1
      BY <1>1, <2>2
    <3> QED
      BY <1>2, <2>2, <3>1 DEF HasTag
  <2>5. GetTag(t, id) = v
    <3>1. Len(q) + 1 \in DOMAIN t
      BY <1>1, <2>2
    <3> QED
      BY <1>2, <1>3, <2>2, <2>3, <2>4, <3>1
  <2>6. ASSUME NEW x, x # id, HasTag(q, x) PROVE GetTag(t, x) = GetTag(q, x)
    <3>1. PICK j \in DOMAIN q : q[j].id = x
      BY <2>6 DEF HasTag
    <3>2. GetTag(q, x) = q[j].v
      BY <2>6, <3>1, FirstIs
    <3>3. j \in DOMAIN t
      BY <1>1, <2>2, <3>1
    <3>4. t[j] = q[j] /\ GetTag(t, x) = t[j].v
      BY <1>3, <2>2, <2>3, <2>4, <2>6, <3>1, <3>3
    <3> QED
      BY <3>2, <3>4
  <2> QED
    BY <1>5, <2>3, <2>4, <2>5, <2>6 DEF t
<1> QED
  BY <1>4, <1>5

-----------------------------------------------------------------------------
(***************************************************************************)
(* The members a class puts in its tag list.                               *)
(***************************************************************************)
LEMMA IdsAre ==
  /\ Id("Ssid") = 0 /\ Id("Rates") = 1 /\ Id("Dsss") = 3 /\ Id("Tim") = 5 /\ Id("Country") = 7
  /\ Id("PowerCaps") = 33 /\ Id("Channels") = 36 /\ Id("ChannelSwitch") = 37 /\ Id("ErpInfo") = 42
  /\ Id("HtCaps") = 45 /\ Id("RsnElement") = 48 /\ Id("ExtRates") = 50 /\ Id("SuppOpClass") = 59
  /\ Id("SuppOpClasses") = 59 /\ Id("HtInfo") = 61 /\ Id("ExtCaps") = 127 /\ Id("VhtCaps") = 191
  /\ Id("WmmWme") = 221
BY DEF Id, TagOf, Tag, SsidTag, RatesTag, DsssTag, TimTag, CountryTag, PowerCapsTag, ChannelsTag,
       ChannelSwitchTag, ErpInfoTag, HtCapsTag, RsnTag, ExtRatesTag, SuppOpClassesTag, HtInfoTag,
       ExtCapsTag, VhtCapsTag, VendorSpecificTag

LEMMA NamesAre ==
  TagNames = {"Ssid", "Rates", "Dsss", "Tim", "Country", "PowerCaps", "Channels", "ChannelSwitch",
              "ErpInfo", "HtCaps", "RsnElement", "ExtRates", "SuppOpClass", "SuppOpClasses",
              "HtInfo", "ExtCaps", "VhtCaps", "WmmWme"}
BY DEF TagNames, TagOf

\* The puts of a class are members of it, no two with the same identifier.
ArePuts(q, M) ==
  /\ q \in Seq(M \cap TagNames)
  /\ \A i, j \in DOMAIN q : Id(q[i]) = Id(q[j]) => i = j

LEMMA PutsAre ==
  ASSUME NEW c \in Classes
  PROVE  ArePuts(Out(c).puts, Members(c))
<1> USE IdsAre, NamesAre
<1>1. ArePuts(BeaconOut.puts, BeaconMembers)
  BY DEF ArePuts, BeaconOut, BeaconMembers
<1>2. ArePuts(ProbeRequestOut.puts, ProbeRequestMembers)
  BY DEF ArePuts, ProbeRequestOut, ProbeRequestMembers
<1>3. ArePuts(ProbeResponseOut.puts, ProbeResponseMembers)
  BY DEF ArePuts, ProbeResponseOut, ProbeResponseMembers
<1>4. ArePuts(AssociationRequestOut.puts, AssociationRequestMembers)
  BY DEF ArePuts, AssociationRequestOut, AssociationRequestMembers
<1>5. ArePuts(AssociationResponseOut.puts, AssociationResponseMembers)
  BY DEF ArePuts, AssociationResponseOut, AssociationResponseMembers
<1>6. ArePuts(ReassociationRequestOut.puts, ReassociationRequestMembers)
  BY DEF ArePuts, ReassociationRequestOut, ReassociationRequestMembers
<1>7. ArePuts(ReassociationResponseOut.puts, ReassociationResponseMembers)
  BY DEF ArePuts, ReassociationResponseOut, ReassociationResponseMembers
<1>8. \A M : ArePuts(<< >>, M)
  BY DEF ArePuts
<1>9. AuthenticationOut.puts = << >> /\ DeauthenticationOut.puts = << >> /\ DisassociationOut.puts = << >>
      /\ Nothing.puts = << >>
  BY DEF AuthenticationOut, DeauthenticationOut, DisassociationOut, Nothing
<1> HIDE IdsAre, NamesAre
<1> QED
  BY <1>1, <1>2, <1>3, <1>4, <1>5, <1>6, <1>7, <1>8, <1>9 DEF Out, Members

LEMMA PutMembersTo ==
  ASSUME NEW o, IsObject(o), NEW k \in Nat, NEW puts, puts = Out(o.class).puts, Len(puts) = k
  PROVE  \E f : /\ f[0] = o.tags
                /\ \A i \in 1 .. k : f[i] = PutTag(f[i - 1], Id(puts[i]), o.member[puts[i]])
                /\ PutMembers(o) = [o EXCEPT !.tags = f[k]]
<1> DEFINE Steps(f, j) ==
             f = [i \in 0 .. j |->
                    IF i = 0 THEN o.tags ELSE PutTag(f[i - 1], Id(puts[i]), o.member[puts[i]])]
           J == {j \in 0 .. k : \E f : Steps(f, j)}
<1>1. 0 \in J
  <2>1. Steps([i \in 0 .. 0 |-> o.tags], 0)
    OBVIOUS
  <2> HIDE DEF Steps
  <2> QED
    BY <2>1
<1>2. ASSUME NEW j \in 0 .. k, j < k, j \in J PROVE j + 1 \in J
  <2>1. PICK f : Steps(f, j)
    BY <1>2
  <2> DEFINE g == [i \in 0 .. (j + 1) |->
                     IF i <= j THEN f[i] ELSE PutTag(f[j], Id(puts[i]), o.member[puts[i]])]
  <2>2. ASSUME NEW i \in 0 .. (j + 1)
        PROVE  g[i] = IF i = 0 THEN o.tags ELSE PutTag(g[i - 1], Id(puts[i]), o.member[puts[i]])
    <3>1. CASE i = 0
      BY <2>1, <3>1
    <3>2. CASE i # 0 /\ i <= j
      <4>1. i - 1 \in 0 .. (j + 1) /\ i - 1 <= j /\ i \in 0 .. j
        BY <3>2
      <4>2. g[i] = f[i] /\ g[i - 1] = f[i - 1]
        BY <3>2, <4>1
      <4>3. f[i] = PutTag(f[i - 1], Id(puts[i]), o.member[puts[i]])
        BY <2>1, <3>2, <4>1, Zenon
      <4> QED
        BY <3>2, <4>2, <4>3
    <3>3. CASE i = j + 1
      <4>1. j \in 0 .. (j + 1) /\ g[j] = f[j] /\ i # 0 /\ i - 1 = j /\ ~(i <= j)
        BY <3>3
      <4>2. g[i] = PutTag(f[j], Id(puts[i]), o.member[puts[i]])
        BY <4>1
      <4> QED
        BY <4>1, <4>2
    <3> QED
      BY <3>1, <3>2, <3>3
  <2>3. Steps(g, j + 1)
    BY <2>2
  <2>4. j + 1 \in 0 .. k
    BY <1>2
  <2> HIDE DEF Steps, g
  <2> QED
    BY <2>3, <2>4
<1> HIDE DEF J, Steps
<1>3. k \in J
  <2>1. \A i \in 0 .. k : i < k /\ i \in J => i + 1 \in J
    BY <1>2
  <2> QED
    BY <1>1, <2>1, UpFrom
<1> DEFINE f == CHOOSE f : Steps(f, k)
<1>4. Steps(f, k)
  BY <1>3 DEF J
<1>5. PutMembers(o) = [o EXCEPT !.tags = f[k]]
  BY DEF PutMembers, Steps
<1> HIDE DEF f
<1>6. f[0] = o.tags /\ \A i \in 1 .. k : f[i] = PutTag(f[i - 1], Id(puts[i]), o.member[puts[i]])
  BY <1>4 DEF Steps
<1> QED
  BY <1>5, <1>6, Zenon

\* After PutMembers the list has each member put, with its value; the object is
\* otherwise as it was.
LEMMA MembersPut ==
  ASSUME NEW o, IsObject(o)
  PROVE  /\ IsObject(PutMembers(o))
         /\ PutMembers(o) = [o EXCEPT !.tags = PutMembers(o).tags]
         /\ \A i \in DOMAIN Out(o.class).puts :
              LET m == Out(o.class).puts[i] IN
              HasTag(PutMembers(o).tags, Id(m)) /\ GetTag(PutMembers(o).tags, Id(m)) = o.member[m]
<1> DEFINE puts == Out(o.class).puts
           k == Len(puts)
<1>1. /\ k \in Nat /\ DOMAIN puts = 1 .. k
      /\ \A i \in 1 .. k : puts[i] \in Members(o.class) /\ Id(puts[i]) \in Ids
      /\ \A i, j \in 1 .. k : Id(puts[i]) = Id(puts[j]) => i = j
  <2>1. ArePuts(puts, Members(o.class))
    BY PutsAre DEF IsObject
  <2>2. /\ puts \in Seq(Members(o.class) \cap TagNames)
        /\ \A i, j \in DOMAIN puts : Id(puts[i]) = Id(puts[j]) => i = j
    BY <2>1 DEF ArePuts
  <2> HIDE DEF puts
  <2>3. k \in Nat /\ DOMAIN puts = 1 .. k /\ \A i \in 1 .. k : puts[i] \in Members(o.class) \cap TagNames
    BY <2>2, LenProperties, ElementOfSeq
  <2> QED
    BY <2>2, <2>3 DEF Ids
<1>2. AreTags(o.tags) /\ \A m \in Members(o.class) : o.member[m] \in Int
  BY DEF IsObject
<1>3. PICK f : /\ f[0] = o.tags
               /\ \A i \in 1 .. k : f[i] = PutTag(f[i - 1], Id(puts[i]), o.member[puts[i]])
               /\ PutMembers(o) = [o EXCEPT !.tags = f[k]]
  BY <1>1, PutMembersTo
<1> HIDE DEF puts, k
<1> DEFINE Done(i) == /\ AreTags(f[i])
                      /\ \A j \in 1 .. i : /\ HasTag(f[i], Id(puts[j]))
                                           /\ GetTag(f[i], Id(puts[j])) = o.member[puts[j]]
           I == {i \in 0 .. k : Done(i)}
<1>4. 0 \in I
  BY <1>1, <1>2, <1>3
<1>5. ASSUME NEW i \in 0 .. k, i < k, i \in I PROVE i + 1 \in I
  <2>1. i + 1 \in 1 .. k /\ (i + 1) - 1 = i
    BY <1>1, <1>5
  <2>2. f[i + 1] = PutTag(f[i], Id(puts[i + 1]), o.member[puts[i + 1]])
    BY <1>3, <2>1
  <2>3. Id(puts[i + 1]) \in Ids /\ o.member[puts[i + 1]] \in Int /\ AreTags(f[i])
    BY <1>1, <1>2, <1>5, <2>1
  <2>4. /\ AreTags(f[i + 1])
        /\ HasTag(f[i + 1], Id(puts[i + 1])) /\ GetTag(f[i + 1], Id(puts[i + 1])) = o.member[puts[i + 1]]
        /\ \A x : x # Id(puts[i + 1]) => /\ HasTag(f[i + 1], x) <=> HasTag(f[i], x)
                                         /\ HasTag(f[i], x) => GetTag(f[i + 1], x) = GetTag(f[i], x)
    BY <2>2, <2>3, TagPut
  <2>5. ASSUME NEW j \in 1 .. (i + 1)
        PROVE  HasTag(f[i + 1], Id(puts[j])) /\ GetTag(f[i + 1], Id(puts[j])) = o.member[puts[j]]
    <3>1. CASE j = i + 1
      BY <2>4, <3>1
    <3>2. CASE j # i + 1
      <4>1. j \in 1 .. i /\ j \in 1 .. k
        BY <1>1, <2>1, <3>2
      <4>2. Id(puts[j]) # Id(puts[i + 1])
        BY <1>1, <2>1, <3>2, <4>1
      <4>3. HasTag(f[i], Id(puts[j])) /\ GetTag(f[i], Id(puts[j])) = o.member[puts[j]]
        BY <1>5, <4>1
      <4> QED
        BY <2>4, <4>2, <4>3
    <3> QED
      BY <3>1, <3>2
  <2>6. i + 1 \in 0 .. k
    BY <2>1
  <2> QED
    BY <2>4, <2>5, <2>6
<1>6. k \in I
  <2> HIDE DEF I
  <2>1. \A i \in 0 .. k : i < k /\ i \in I => i + 1 \in I
    BY <1>5
  <2> QED
    BY <1>1, <1>4, <2>1, UpFrom
<1>7. Done(k)
  BY <1>6
<1>8. /\ PutMembers(o) = [class |-> o.class, fc |-> o.fc, val |-> o.val, member |-> o.member, tags |-> f[k]]
  BY <1>3 DEF IsObject
<1>9. IsObject(PutMembers(o))
  BY <1>7, <1>8 DEF IsObject
<1>10. PutMembers(o).tags = f[k]
  BY <1>8
<1>11. PutMembers(o) = [o EXCEPT !.tags = PutMembers(o).tags]
  BY <1>3, <1>10
<1>12. \A i \in 1 .. k :
         HasTag(PutMembers(o).tags, Id(puts[i])) /\ GetTag(PutMembers(o).tags, Id(puts[i])) = o.member[puts[i]]
  BY <1>7, <1>10
<1> QED
  BY <1>1, <1>9, <1>11, <1>12 DEF puts

\* Putting them again changes nothing.
LEMMA MembersPutAgain ==
  ASSUME NEW o, IsObject(o)
  PROVE  PutMembers(PutMembers(o)) = PutMembers(o)
<1> DEFINE u == PutMembers(o)
           puts == Out(o.class).puts
           k == Len(puts)
<1>1. IsObject(u) /\ u = [o EXCEPT !.tags = u.tags]
  BY MembersPut
<1>2. u.class = o.class /\ u.member = o.member
  BY <1>1 DEF IsObject
<1>3. \A i \in DOMAIN puts : HasTag(u.tags, Id(puts[i])) /\ GetTag(u.tags, Id(puts[i])) = o.member[puts[i]]
  BY MembersPut, Zenon
<1>4. /\ k \in Nat /\ DOMAIN puts = 1 .. k
      /\ \A i \in 1 .. k : puts[i] \in Members(o.class) /\ Id(puts[i]) \in Ids
  <2>1. ArePuts(puts, Members(o.class))
    BY PutsAre DEF IsObject
  <2>2. puts \in Seq(Members(o.class) \cap TagNames)
    BY <2>1 DEF ArePuts
  <2> HIDE DEF puts
  <2>3. k \in Nat /\ DOMAIN puts = 1 .. k /\ \A i \in 1 .. k : puts[i] \in Members(o.class) \cap TagNames
    BY <2>2, LenProperties, ElementOfSeq
  <2> QED
    BY <2>3 DEF Ids
<1>5. PICK f : /\ f[0] = u.tags
               /\ \A i \in 1 .. k : f[i] = PutTag(f[i - 1], Id(puts[i]), u.member[puts[i]])
               /\ PutMembers(u) = [u EXCEPT !.tags = f[k]]
  <2> HIDE DEF u
  <2> QED
    BY <1>1, <1>2, <1>4, PutMembersTo
<1>6. AreTags(u.tags) /\ \A m \in Members(o.class) : o.member[m] \in Int
  BY <1>1 DEF IsObject
<1> HIDE DEF u, puts, k
<1> DEFINE I == {i \in 0 .. k : f[i] = u.tags}
<1>7. 0 \in I
  BY <1>4, <1>5
<1>8. ASSUME NEW i \in 0 .. k, i < k, i \in I PROVE i + 1 \in I
  <2>1. i + 1 \in 1 .. k /\ (i + 1) - 1 = i /\ i + 1 \in 0 .. k
    BY <1>4, <1>8
  <2>2. f[i + 1] = PutTag(u.tags, Id(puts[i + 1]), o.member[puts[i + 1]])
    BY <1>2, <1>5, <1>8, <2>1
  <2>3. /\ Id(puts[i + 1]) \in Ids /\ o.member[puts[i + 1]] \in Int
        /\ HasTag(u.tags, Id(puts[i + 1])) /\ GetTag(u.tags, Id(puts[i + 1])) = o.member[puts[i + 1]]
    BY <1>3, <1>4, <1>6, <2>1
  <2>4. f[i + 1] = u.tags
    BY <1>6, <2>2, <2>3, TagPut
  <2> QED
    BY <2>1, <2>4
<1>9. k \in I
  <2> HIDE DEF I
  <2>1. \A i \in 0 .. k : i < k /\ i \in I => i + 1 \in I
    BY <1>8
  <2> QED
    BY <1>4, <1>7, <2>1, UpFrom
<1>10. PutMembers(u) = [u EXCEPT !.tags = u.tags]
  BY <1>5, <1>9
<1> QED
  BY <1>1, <1>10 DEF IsObject, u

(***************************************************************************)
(* Writers that differ in the tags of their objects alone write the same   *)
(* as long as it is not tags.                                              *)
(***************************************************************************)
Alike(s, t) ==
  /\ IsWriter(s) /\ IsWriter(t)
  /\ s.ok = t.ok /\ (s.ok => s.b = t.b) /\ s.base = t.base
  /\ s.o.class = t.o.class /\ s.o.fc = t.o.fc /\ s.o.val = t.o.val

\* What two writers become that do not change their objects.
Still(s, t, u, v) == Alike(u, v) /\ u.o = s.o /\ v.o = t.o

LEMMA PutAlike ==
  ASSUME NEW s, NEW t, Alike(s, t), NEW at, NEW w, NEW f
  PROVE  Still(s, t, Put(s, at, w, f), Put(t, at, w, f))
BY PutOne DEF Alike, Still, Onward

LEMMA NeedAlike ==
  ASSUME NEW s, NEW t, Alike(s, t), NEW cond \in BOOLEAN
  PROVE  Still(s, t, Need(s, cond), Need(t, cond))
BY NeedOne DEF Alike, Still, Onward

LEMMA ControlAlike ==
  ASSUME NEW s, NEW t, Alike(s, t)
  PROVE  Still(s, t, PutControl(s), PutControl(t))
BY PutControlOne DEF Alike, Still, Onward

LEMMA NextAlike ==
  ASSUME NEW s, NEW t, Alike(s, t), NEW fields
  PROVE  Still(s, t, PutNext(s, fields), PutNext(t, fields))
BY PutNextOne DEF Alike, Still, Onward

LEMMA FrameAlike ==
  ASSUME NEW s, NEW t, Alike(s, t)
  PROVE  Still(s, t, FrameAssemble(s), FrameAssemble(t))
<1> DEFINE s1 == Need(s, s.o.val.addr1 # Unset)  t1 == Need(t, t.o.val.addr1 # Unset)
           s2 == PutControl(s1)  t2 == PutControl(t1)
           s3 == Put(s2, 2, 2, "duration")  t3 == Put(t2, 2, 2, "duration")
           s4 == Put(s3, 4, 6, "addr1")  t4 == Put(t3, 4, 6, "addr1")
<1>1. Still(s, t, s1, t1)
  <2>1. (s.o.val.addr1 # Unset) = (t.o.val.addr1 # Unset) /\ (s.o.val.addr1 # Unset) \in BOOLEAN
    BY DEF Alike
  <2> QED
    BY <2>1, NeedAlike, Zenon
<1> HIDE DEF s1, t1
<1>2. Still(s1, t1, s2, t2)
  BY <1>1, ControlAlike DEF Still
<1> HIDE DEF s2, t2
<1>3. Still(s2, t2, s3, t3)
  BY <1>2, PutAlike DEF Still
<1> HIDE DEF s3, t3
<1>4. Still(s3, t3, s4, t4)
  BY <1>3, PutAlike DEF Still
<1>5. FrameAssemble(s) = PutSource(s4) /\ FrameAssemble(t) = PutSource(t4)
  BY DEF FrameAssemble, s1, t1, s2, t2, s3, t3
<1> HIDE DEF s4, t4
<1>6. Still(s, t, s4, t4)
  BY <1>1, <1>2, <1>3, <1>4 DEF Still
<1>7. CASE s4.o.val.addr2 = Unset
  BY <1>5, <1>6, <1>7 DEF Still, Alike, PutSource
<1>8. CASE s4.o.val.addr2 # Unset
  <2>1. Still(s4, t4, Put(s4, 10, 6, "addr2"), Put(t4, 10, 6, "addr2"))
    BY <1>6, PutAlike DEF Still
  <2>2. t4.o.val.addr2 # Unset
    BY <1>6, <1>8 DEF Still, Alike
  <2> QED
    BY <1>5, <1>6, <1>8, <2>1, <2>2 DEF Still, PutSource
<1> QED
  BY <1>7, <1>8

LEMMA ManagementAlike ==
  ASSUME NEW s, NEW t, Alike(s, t)
  PROVE  Still(s, t, ManagementAssemble(s), ManagementAssemble(t))
<1> DEFINE s1 == Need(s, s.o.fc.type = Mgmt)  t1 == Need(t, t.o.fc.type = Mgmt)
           s2 == FrameAssemble(s1)  t2 == FrameAssemble(t1)
           s3 == Need(s2, s2.o.val.addr3 # Unset)  t3 == Need(t2, t2.o.val.addr3 # Unset)
           s4 == Put(s3, 16, 6, "addr3")  t4 == Put(t3, 16, 6, "addr3")
           s5 == Put(s4, 22, 2, "seqcntl")  t5 == Put(t4, 22, 2, "seqcntl")
<1>1. Still(s, t, s1, t1)
  <2>1. (s.o.fc.type = Mgmt) = (t.o.fc.type = Mgmt) /\ (s.o.fc.type = Mgmt) \in BOOLEAN
    BY DEF Alike
  <2> QED
    BY <2>1, NeedAlike, Zenon
<1> HIDE DEF s1, t1
<1>2. Still(s1, t1, s2, t2)
  BY <1>1, FrameAlike DEF Still
<1> HIDE DEF s2, t2
<1>3. Still(s2, t2, s3, t3)
  <2>1. /\ (s2.o.val.addr3 # Unset) = (t2.o.val.addr3 # Unset)
        /\ (s2.o.val.addr3 # Unset) \in BOOLEAN /\ Alike(s2, t2)
    BY <1>2 DEF Still, Alike
  <2> QED
    BY <2>1, NeedAlike, Zenon
<1> HIDE DEF s3, t3
<1>4. Still(s3, t3, s4, t4)
  BY <1>3, PutAlike DEF Still
<1> HIDE DEF s4, t4
<1>5. Still(s4, t4, s5, t5)
  BY <1>4, PutAlike DEF Still
<1>6. ManagementAssemble(s) = s5 /\ ManagementAssemble(t) = t5
  BY DEF ManagementAssemble, PutThird, s1, t1, s2, t2, s3, t3, s4, t4
<1> HIDE DEF s5, t5
<1> QED
  BY <1>1, <1>2, <1>3, <1>4, <1>5, <1>6 DEF Still

LEMMA BodyAlike ==
  ASSUME NEW s, NEW t, Alike(s, t)
  PROVE  Still(s, t, PutNext(ManagementAssemble(OwnSubtype(s)), Out(s.o.class).body),
                     PutNext(ManagementAssemble(OwnSubtype(t)), Out(t.o.class).body))
<1> DEFINE s1 == OwnSubtype(s)  t1 == OwnSubtype(t)
           s2 == ManagementAssemble(s1)  t2 == ManagementAssemble(t1)
<1>1. Still(s, t, s1, t1)
  <2>1. /\ (s.o.fc.sub = TypeOf[s.o.class].sub) = (t.o.fc.sub = TypeOf[t.o.class].sub)
        /\ (s.o.fc.sub = TypeOf[s.o.class].sub) \in BOOLEAN
    BY DEF Alike
  <2> QED
    BY <2>1, NeedAlike, Zenon DEF OwnSubtype
<1> HIDE DEF s1, t1
<1>2. Still(s1, t1, s2, t2)
  BY <1>1, ManagementAlike DEF Still
<1> HIDE DEF s2, t2
<1>3. Alike(s2, t2) /\ Out(s.o.class).body = Out(t.o.class).body
  BY <1>2 DEF Still, Alike
<1>4. Still(s2, t2, PutNext(s2, Out(s.o.class).body), PutNext(t2, Out(t.o.class).body))
  BY <1>3, NextAlike
<1> QED
  BY <1>1, <1>2, <1>4 DEF Still, s2, t2, s1, t1

-----------------------------------------------------------------------------
(***************************************************************************)
(* What Assemble does to the object.                                       *)
(***************************************************************************)
Bodied == Management \ {"ActionRequest"}

WriterOf(o, b) == [ok |-> TRUE, o |-> o, b |-> b, base |-> b.end]

LEMMA FrameOnward ==
  ASSUME NEW s, IsWriter(s)
  PROVE  Onward(FrameAssemble(s), s)
<1>1. Alike(s, s)
  BY DEF Alike
<1>2. Still(s, s, FrameAssemble(s), FrameAssemble(s))
  BY <1>1, FrameAlike
<1> DEFINE s1 == Need(s, s.o.val.addr1 # Unset)
           s2 == PutControl(s1)
           s3 == Put(s2, 2, 2, "duration")
           s4 == Put(s3, 4, 6, "addr1")
<1>3. Onward(s1, s)
  BY NeedOne, Zenon
<1> HIDE DEF s1
<1>4. Onward(s2, s)
  BY <1>3, PutControlOne, Onwards DEF Onward
<1> HIDE DEF s2
<1>5. Onward(s3, s)
  BY <1>4, PutOne, Onwards DEF Onward
<1> HIDE DEF s3
<1>6. Onward(s4, s)
  BY <1>5, PutOne, Onwards DEF Onward
<1>7. FrameAssemble(s) = PutSource(s4)
  BY DEF FrameAssemble, s1, s2, s3
<1> HIDE DEF s4
<1> QED
  BY <1>6, <1>7, PutOne, Onwards DEF Onward, PutSource

LEMMA ThirdOnward ==
  ASSUME NEW s, IsWriter(s)
  PROVE  Onward(PutThird(s), s)
<1> DEFINE s3 == Need(s, s.o.val.addr3 # Unset)
           s4 == Put(s3, 16, 6, "addr3")
           s5 == Put(s4, 22, 2, "seqcntl")
<1>1. Onward(s3, s)
  BY NeedOne, Zenon
<1> HIDE DEF s3
<1>2. Onward(s4, s)
  BY <1>1, PutOne, Onwards DEF Onward
<1> HIDE DEF s4
<1>3. Onward(s5, s)
  BY <1>2, PutOne, Onwards DEF Onward
<1> QED
  BY <1>3 DEF PutThird, s3, s4

LEMMA ManagementOnward ==
  ASSUME NEW s, IsWriter(s)
  PROVE  Onward(ManagementAssemble(s), s)
<1> DEFINE s1 == Need(s, s.o.fc.type = Mgmt)
           s2 == FrameAssemble(s1)
<1>1. Onward(s1, s)
  BY NeedOne, Zenon
<1> HIDE DEF s1
<1>2. Onward(s2, s)
  BY <1>1, FrameOnward, Onwards DEF Onward
<1> HIDE DEF s2
<1> QED
  BY <1>2, ThirdOnward, Onwards DEF ManagementAssemble, Onward, s1, s2

LEMMA PayloadOnward ==
  ASSUME NEW s, IsWriter(s), NEW header
  PROVE  Onward(PutPayload(s, header), s)
BY PutNextOne DEF PutPayload, Onward

LEMMA DataOnward ==
  ASSUME NEW s, IsWriter(s)
  PROVE  Onward(DataAssemble(s), s)
<1> DEFINE s1 == Need(s, s.o.fc.type = Data)
           s2 == FrameAssemble(s1)
           s3 == PutThird(s2)
           s4 == PutQos(s3)
           s5 == PutFourth(s4)
<1>1. Onward(s1, s)
  BY NeedOne, Zenon
<1> HIDE DEF s1
<1>2. Onward(s2, s)
  BY <1>1, FrameOnward, Onwards DEF Onward
<1> HIDE DEF s2
<1>3. Onward(s3, s)
  BY <1>2, ThirdOnward, Onwards DEF Onward
<1> HIDE DEF s3
<1>4. Onward(s4, s)
  BY <1>3, PutOne, Onwards DEF Onward, PutQos
<1> HIDE DEF s4
<1>5. Onward(s5, s)
  <2> DEFINE x == Need(s4, s4.o.val.addr4 # Unset)
  <2>1. Onward(x, s4)
    BY <1>4, NeedOne, Zenon DEF Onward
  <2> HIDE DEF x
  <2>2. Onward(Put(x, 24, 6, "addr4"), x)
    BY <2>1, PutOne DEF Onward
  <2> QED
    BY <1>4, <2>1, <2>2, Onwards DEF PutFourth, x
<1>6. DataAssemble(s) = PutPayload(s5, <<<<"llc", 8>>>>)
  BY DEF DataAssemble, s1, s2, s3, s4
<1> HIDE DEF s5
<1> QED
  BY <1>5, <1>6, PayloadOnward, Onwards DEF Onward

LEMMA ControlOnward ==
  ASSUME NEW s, IsWriter(s)
  PROVE  Onward(ControlAssemble(s), s)
<1> DEFINE s1 == Need(s, s.o.fc.type = Cntl)
           s2 == FrameAssemble(s1)
<1>1. Onward(s1, s)
  BY NeedOne, Zenon
<1> HIDE DEF s1
<1>2. Onward(s2, s)
  BY <1>1, FrameOnward, Onwards DEF Onward
<1>3. ControlAssemble(s) = PutPayload(s2, << >>)
  BY DEF ControlAssemble, s1
<1> HIDE DEF s2
<1> QED
  BY <1>2, <1>3, PayloadOnward, Onwards DEF Onward

\* The writer before the members are put.
Before(s) == PutNext(ManagementAssemble(OwnSubtype(s)), Out(s.o.class).body)

LEMMA BeforeOnward ==
  ASSUME NEW s, IsWriter(s)
  PROVE  Onward(Before(s), s)
<1> DEFINE s1 == OwnSubtype(s)
           s2 == ManagementAssemble(s1)
<1>1. Onward(s1, s)
  BY NeedOne, Zenon DEF OwnSubtype
<1> HIDE DEF s1
<1>2. Onward(s2, s)
  BY <1>1, ManagementOnward, Onwards DEF Onward
<1> HIDE DEF s2
<1> QED
  BY <1>2, PutNextOne, Onwards DEF Before, Onward, s1, s2

LEMMA BodyIs ==
  ASSUME NEW s, IsWriter(s)
  PROVE  LET t == Before(s) IN
         BodyAssemble(s)
           = IF t.ok THEN [ok |-> TRUE, o |-> PutMembers(s.o), base |-> s.base,
                           b |-> AssembleTags(t.b, PutMembers(s.o).tags)]
             ELSE t
<1> DEFINE t == Before(s)
<1>1. BodyAssemble(s) = PutTagList(PutTags(t))
  BY DEF BodyAssemble, Before
<1>2. Onward(t, s) /\ IsWriter(t)
  BY BeforeOnward DEF Onward
<1> HIDE DEF t
<1>3. CASE t.ok
  <2>1. PutTags(t) = [ok |-> TRUE, o |-> PutMembers(s.o), base |-> s.base, b |-> t.b]
    BY <1>2, <1>3, Zenon DEF PutTags, Onward, IsWriter
  <2>2. PutTagList(PutTags(t)) = [ok |-> TRUE, o |-> PutMembers(s.o), base |-> s.base,
                                  b |-> AssembleTags(t.b, PutMembers(s.o).tags)]
    <3> DEFINE x == PutTags(t)
    <3>1. x = [ok |-> x.ok, o |-> x.o, b |-> x.b, base |-> x.base] /\ x.ok
          /\ x.o = PutMembers(s.o) /\ x.base = s.base /\ x.b = t.b
      BY <2>1
    <3> HIDE DEF x
    <3>2. PutTagList(x) = [ok |-> TRUE, o |-> PutMembers(s.o), base |-> s.base,
                           b |-> AssembleTags(t.b, PutMembers(s.o).tags)]
      BY <3>1, Zenon DEF PutTagList
    <3> QED
      BY <3>2 DEF x
  <2> QED
    BY <1>1, <1>3, <2>2 DEF t
<1>4. CASE ~t.ok
  BY <1>1, <1>4 DEF PutTags, PutTagList, t
<1> QED
  BY <1>3, <1>4

LEMMA AssembledBy ==
  ASSUME NEW o, IsObject(o), NEW b
  PROVE  LET s == WriterOf(o, b) IN
         /\ IsWriter(s)
         /\ o.class \in Bodied => Assemble(o, b) = BodyAssemble(s)
         /\ o.class \notin Bodied => Onward(Assemble(o, b), s)
<1> DEFINE s == WriterOf(o, b)
<1>1. IsWriter(s) /\ s.o = o
  BY DEF IsWriter, WriterOf
<1>2. Assemble(o, b) = ClassAssemble(s)
  BY DEF Assemble, WriterOf
<1>3. {"ActionRequest"} \cap Bodied = {} /\ Bodied = Management \ {"ActionRequest"}
  BY DEF Bodied
<1>4. "ControlFrame" \notin Management /\ "DataFrame" \notin Management /\ "QosData" \notin Management
  BY DEF Management, TypeOf, Type, Cntl, Data, Mgmt
<1> HIDE DEF s
<1>5. Onward(ActionAssemble(s), s)
  <2>1. Onward(OwnSubtype(s), s)
    BY <1>1, NeedOne, Zenon DEF OwnSubtype
  <2>2. Onward(ManagementAssemble(OwnSubtype(s)), OwnSubtype(s))
    BY <2>1, ManagementOnward DEF Onward
  <2> QED
    BY <2>1, <2>2, Onwards DEF ActionAssemble
<1>6. CASE o.class \in Bodied
  <2>1. o.class # "ActionRequest" /\ o.class \in Management \ {"ActionRequest"}
    BY <1>3, <1>6
  <2>2. ClassAssemble(s) = BodyAssemble(s)
    BY <1>1, <1>4, <2>1 DEF ClassAssemble
  <2> QED
    BY <1>1, <1>2, <1>6, <2>2 DEF s
<1>7. CASE o.class \notin Bodied
  <2>1. o.class \notin Management \ {"ActionRequest"}
    BY <1>3, <1>7
  <2>2. ClassAssemble(s) \in {ActionAssemble(s), ControlAssemble(s), DataAssemble(s), FrameAssemble(s)}
    BY <1>1, <2>1 DEF ClassAssemble
  <2>3. Onward(ClassAssemble(s), s)
    BY <1>1, <1>5, <2>2, ControlOnward, DataOnward, FrameOnward
  <2> QED
    BY <1>1, <1>2, <1>7, <2>3 DEF s
<1> QED
  BY <1>6, <1>7

\* Assemble leaves a frame object a frame object.
LEMMA AssembleKeeps ==
  ASSUME NEW o, IsObject(o), NEW b
  PROVE  /\ IsWriter(Assemble(o, b)) /\ Assemble(o, b).base = b.end
         /\ IsObject(Assemble(o, b).o)
         /\ Assemble(o, b).o = [o EXCEPT !.tags = Assemble(o, b).o.tags]
         /\ Assemble(o, b).ok =>
              Assemble(o, b).o = IF o.class \in Bodied THEN PutMembers(o) ELSE o
<1> DEFINE s == WriterOf(o, b)
           a == Assemble(o, b)
<1>1. IsWriter(s) /\ s.o = o /\ s.base = b.end
  BY DEF IsWriter, WriterOf
<1>2. /\ o.class \in Bodied => a = BodyAssemble(s)
      /\ o.class \notin Bodied => Onward(a, s)
  BY AssembledBy
<1>3. o = [o EXCEPT !.tags = o.tags]
  BY DEF IsObject
<1> HIDE DEF s, a
<1>4. CASE o.class \notin Bodied
  BY <1>1, <1>2, <1>3, <1>4 DEF Onward, a
<1>5. CASE o.class \in Bodied
  <2>1. Onward(Before(s), s)
    BY <1>1, BeforeOnward
  <2>2. CASE Before(s).ok
    <3>1. a = [ok |-> TRUE, o |-> PutMembers(o), base |-> b.end,
               b |-> AssembleTags(Before(s).b, PutMembers(o).tags)]
      BY <1>1, <1>2, <1>5, <2>2, BodyIs
    <3>2. IsWriter(a) /\ a.base = b.end /\ a.o = PutMembers(o) /\ a.ok
      BY <3>1 DEF IsWriter
    <3> QED
      BY <1>5, <3>2, MembersPut DEF a
  <2>3. CASE ~Before(s).ok
    <3>1. a = Before(s)
      BY <1>1, <1>2, <1>5, <2>3, BodyIs
    <3> QED
      BY <1>1, <1>3, <2>1, <2>3, <3>1 DEF Onward, a
  <2> QED
    BY <2>2, <2>3
<1> QED
  BY <1>4, <1>5

\* What was sent is sent the same again.
LEMMA SendsAgain ==
  ASSUME NEW o, IsObject(o)
  PROVE  SameAgain(Assemble(o, Empty))
<1> DEFINE s == WriterOf(o, Empty)
           a == Assemble(o, Empty)
<1> SUFFICES ASSUME a.ok PROVE SameAs(a, Assemble(a.o, Empty))
  BY DEF SameAgain
<1>1. IsWriter(s) /\ s.o = o
  BY DEF IsWriter, WriterOf
<1>2. /\ o.class \in Bodied => a = BodyAssemble(s)
      /\ o.class \notin Bodied => Onward(a, s)
  BY AssembledBy
<1>3. CASE o.class \notin Bodied
  <2>1. a.o = o
    BY <1>1, <1>2, <1>3 DEF Onward
  <2> QED
    BY <2>1 DEF SameAs
<1>4. CASE o.class \in Bodied
  <2> DEFINE u == PutMembers(o)
             t == WriterOf(u, Empty)
  <2>0. IsObject(u) /\ u = [o EXCEPT !.tags = u.tags] /\ PutMembers(u) = u
    BY MembersPut, MembersPutAgain
  <2>1. u.class = o.class /\ u.fc = o.fc /\ u.val = o.val
    BY <2>0 DEF IsObject
  <2>2. IsWriter(t) /\ t.o = u /\ Assemble(u, Empty) = BodyAssemble(t)
    <3> HIDE DEF u
    <3>1. t.o = u
      BY DEF WriterOf
    <3> QED
      BY <1>4, <2>0, <2>1, <3>1, AssembledBy
  <2>3. Alike(s, t)
    <3> HIDE DEF u
    <3> QED
      BY <1>1, <2>1, <2>2 DEF Alike, WriterOf
  <2>4. Still(s, t, Before(s), Before(t))
    BY <2>3, BodyAlike DEF Before
  <2> HIDE DEF u, t, s, a
  <2>5. Before(s).ok
    BY <1>1, <1>2, <1>4, BodyIs
  <2>6. Before(t).ok /\ Before(t).b = Before(s).b
    BY <2>4, <2>5 DEF Still, Alike
  <2>7. a = [ok |-> TRUE, o |-> u, base |-> s.base, b |-> AssembleTags(Before(s).b, u.tags)]
    BY <1>1, <1>2, <1>4, <2>5, BodyIs DEF u
  <2>8. Assemble(u, Empty)
          = [ok |-> TRUE, o |-> u, base |-> t.base, b |-> AssembleTags(Before(s).b, u.tags)]
    BY <2>0, <2>2, <2>6, BodyIs
  <2> QED
    BY <2>7, <2>8 DEF SameAs
<1> QED
  BY <1>3, <1>4

(***************************************************************************)
(* Tags that are written.                                                  *)
(***************************************************************************)
Width(t) == 2 + TagLength(t.id, t.v)

LEMMA WidthIs ==
  ASSUME NEW t \in TagRecord
  PROVE  Width(t) \in Nat \ {0}
<1>1. PICK m \in TagNames : t.id = Id(m)
  BY DEF TagRecord, Ids
<1> DEFINE x == CHOOSE y \in TagNames : Id(y) = t.id
<1>2. x \in TagNames
  BY <1>1
<1>3. \A y \in TagNames : TagOf[y].len \in Nat
  BY NamesAre DEF TagOf, Tag, SsidTag, RatesTag, DsssTag, TimTag, CountryTag, PowerCapsTag, ChannelsTag,
       ChannelSwitchTag, ErpInfoTag, HtCapsTag, RsnTag, ExtRatesTag, SuppOpClassesTag, HtInfoTag,
       ExtCapsTag, VhtCapsTag, VendorSpecificTag
<1>4. TagOf[x].len \in Nat
  BY <1>2, <1>3
<1>5. VendorSpecificTag.len = 4 /\ WmmBlocks(t.v) \in {0, 1, 2}
  BY DEF VendorSpecificTag, Tag, WmmBlocks
<1>6. TagLength(t.id, t.v) \in {4 + 20 * WmmBlocks(t.v), TagOf[x].len}
  BY <1>5 DEF TagLength
<1> HIDE DEF x
<1>7. 4 + 20 * WmmBlocks(t.v) \in Nat
  BY <1>5
<1> QED
  BY <1>4, <1>6, <1>7 DEF Width

LEMMA WriteTagsTo ==
  ASSUME NEW b, NEW q, Len(q) \in Nat
  PROVE  \E f : /\ f[0] = b
                /\ \A i \in 1 .. Len(q) : f[i] = WriteTag(f[i - 1], q[i])
                /\ WriteTags(b, q) = f[Len(q)]
<1> DEFINE k == Len(q)
<1> DEFINE Steps(f, j) == f = [i \in 0 .. j |-> IF i = 0 THEN b ELSE WriteTag(f[i - 1], q[i])]
           J == {j \in 0 .. k : \E f : Steps(f, j)}
<1>1. 0 \in J
  <2>1. Steps([i \in 0 .. 0 |-> b], 0)
    OBVIOUS
  <2> HIDE DEF Steps
  <2> QED
    BY <2>1
<1>2. ASSUME NEW j \in 0 .. k, j < k, j \in J PROVE j + 1 \in J
  <2>1. PICK f : Steps(f, j)
    BY <1>2
  <2> DEFINE g == [i \in 0 .. (j + 1) |-> IF i <= j THEN f[i] ELSE WriteTag(f[j], q[i])]
  <2>2. ASSUME NEW i \in 0 .. (j + 1)
        PROVE  g[i] = IF i = 0 THEN b ELSE WriteTag(g[i - 1], q[i])
    <3>1. CASE i = 0
      BY <2>1, <3>1
    <3>2. CASE i # 0 /\ i <= j
      <4>1. i - 1 \in 0 .. (j + 1) /\ i - 1 <= j /\ i \in 0 .. j
        BY <3>2
      <4>2. g[i] = f[i] /\ g[i - 1] = f[i - 1]
        BY <3>2, <4>1
      <4>3. f[i] = WriteTag(f[i - 1], q[i])
        BY <2>1, <3>2, <4>1
      <4> QED
        BY <3>2, <4>2, <4>3
    <3>3. CASE i = j + 1
      <4>1. j \in 0 .. (j + 1) /\ g[j] = f[j] /\ i # 0 /\ i - 1 = j /\ ~(i <= j)
        BY <3>3
      <4>2. g[i] = WriteTag(f[j], q[i])
        BY <4>1
      <4> QED
        BY <4>1, <4>2
    <3> QED
      BY <3>1, <3>2, <3>3
  <2>3. Steps(g, j + 1)
    BY <2>2
  <2>4. j + 1 \in 0 .. k
    BY <1>2
  <2> HIDE DEF Steps, g
  <2> QED
    BY <2>3, <2>4
<1> HIDE DEF J, Steps
<1>3. k \in J
  <2>1. \A i \in 0 .. k : i < k /\ i \in J => i + 1 \in J
    BY <1>2
  <2> QED
    BY <1>1, <2>1, UpFrom
<1> DEFINE f == CHOOSE f : Steps(f, k)
<1>4. Steps(f, k)
  BY <1>3 DEF J
<1>5. WriteTags(b, q) = f[k]
  BY DEF WriteTags, Steps
<1> HIDE DEF f
<1>6. f[0] = b /\ \A i \in 1 .. k : f[i] = WriteTag(f[i - 1], q[i])
  <2>1. k \in Nat
    OBVIOUS
  <2> HIDE DEF k
  <2> QED
    BY <1>4, <2>1 DEF Steps
<1> QED
  BY <1>5, <1>6

\* The tags q have been written behind b, from place at[1] on.
Tagged(c, b, q, at) ==
  /\ IsBuffer(c) /\ at \in [1 .. Len(q) + 1 -> Nat]
  /\ at[1] = b.end /\ c.end = at[Len(q) + 1]
  /\ \A i \in 1 .. Len(q) : at[i + 1] = at[i] + Width(q[i])
  /\ \A i \in 1 .. Len(q) : Holds(c, at[i], Width(q[i]), "tag", q[i])
  /\ \A p \in DOMAIN c.at : (\E i \in 1 .. Len(q) : p = at[i]) \/ (p \in DOMAIN b.at /\ c.at[p] = b.at[p])
  /\ \A p \in Nat, u \in Nat \ {0} : \A g, x :
       Holds(b, p, u, g, x) /\ p + u <= b.end => Holds(c, p, u, g, x)

LEMMA TagsWritten ==
  ASSUME NEW b, IsBuffer(b), b.end \in Nat, NEW q \in Seq(TagRecord)
  PROVE  \E at : Tagged(WriteTags(b, q), b, q, at)
<1> DEFINE k == Len(q)
<1>1. k \in Nat /\ \A i \in 1 .. k : q[i] \in TagRecord /\ Width(q[i]) \in Nat \ {0}
  BY LenProperties, ElementOfSeq, WidthIs
<1>2. PICK f : /\ f[0] = b
               /\ \A i \in 1 .. k : f[i] = WriteTag(f[i - 1], q[i])
               /\ WriteTags(b, q) = f[k]
  BY <1>1, WriteTagsTo
<1> DEFINE at == [i \in 1 .. k + 1 |-> f[i - 1].end]
           Till(i) ==
             /\ IsBuffer(f[i]) /\ f[i].end \in Nat /\ b.end <= f[i].end
             /\ \A j \in 1 .. i : /\ f[j - 1].end \in Nat
                                  /\ f[j].end = f[j - 1].end + Width(q[j]) /\ f[j].end <= f[i].end
                                  /\ Holds(f[i], f[j - 1].end, Width(q[j]), "tag", q[j])
             /\ \A p \in DOMAIN f[i].at :
                  \/ \E j \in 1 .. i : p = f[j - 1].end
                  \/ p \in DOMAIN b.at /\ f[i].at[p] = b.at[p]
             /\ \A p \in Nat, u \in Nat \ {0} : \A g, x :
                  Holds(b, p, u, g, x) /\ p + u <= b.end => Holds(f[i], p, u, g, x)
           I == {i \in 0 .. k : Till(i)}
<1>3. 0 \in I
  <2>1. Till(0)
    BY <1>2
  <2> HIDE DEF Till
  <2> QED
    BY <1>1, <2>1
<1> HIDE DEF k
<1>4. ASSUME NEW i \in 0 .. k, i < k, i \in I PROVE i + 1 \in I
  <2>0. i + 1 \in 1 .. k /\ i + 1 \in 0 .. k /\ (i + 1) - 1 = i
    BY <1>1, <1>4
  <2>1. Till(i)
    BY <1>4
  <2> DEFINE c == f[i]
             w == Width(q[i + 1])
             d == f[i + 1]
  <2>2. d = Write(c, c.end, w, "tag", q[i + 1]) /\ w \in Nat \ {0}
    BY <1>1, <1>2, <2>0 DEF WriteTag, Width
  <2>3. /\ IsBuffer(c) /\ c.end \in Nat /\ b.end <= c.end /\ b.end \in Nat
        /\ \A j \in 1 .. i : /\ f[j - 1].end \in Nat
                             /\ f[j].end = f[j - 1].end + Width(q[j]) /\ f[j].end <= c.end
                             /\ Holds(c, f[j - 1].end, Width(q[j]), "tag", q[j])
        /\ \A p \in DOMAIN c.at :
             \/ \E j \in 1 .. i : p = f[j - 1].end
             \/ p \in DOMAIN b.at /\ c.at[p] = b.at[p]
        /\ \A p \in Nat, u \in Nat \ {0} : \A g, x :
             Holds(b, p, u, g, x) /\ p + u <= b.end => Holds(c, p, u, g, x)
    BY <2>1
  <2> HIDE DEF w, Till, I
  <2>4. /\ IsBuffer(d) /\ d.end = c.end + w
        /\ Holds(d, c.end, w, "tag", q[i + 1])
        /\ \A p \in DOMAIN d.at : p # c.end => p \in DOMAIN c.at /\ d.at[p] = c.at[p]
    <3> HIDE DEF c
    <3> QED
      BY <2>2, <2>3, Written
  <2>5. \A p \in Nat, u \in Nat \ {0} : \A g, x :
          Holds(c, p, u, g, x) /\ p + u <= c.end => Holds(d, p, u, g, x)
    <3> HIDE DEF c
    <3> QED
      BY <2>2, <2>3, WriteKeeps
  <2>6. d.end \in Nat /\ c.end <= d.end /\ b.end <= d.end
    <3> HIDE DEF c, d
    <3> QED
      BY <2>2, <2>3, <2>4
  <2>7. ASSUME NEW j \in 1 .. (i + 1)
        PROVE  /\ f[j - 1].end \in Nat
               /\ f[j].end = f[j - 1].end + Width(q[j]) /\ f[j].end <= d.end
               /\ Holds(d, f[j - 1].end, Width(q[j]), "tag", q[j])
    <3>1. CASE j = i + 1
      <4>1. j - 1 = i
        BY <2>0, <3>1
      <4> QED
        BY <2>3, <2>4, <2>6, <3>1, <4>1 DEF w
    <3>2. CASE j # i + 1
      <4>1. j \in 1 .. i /\ j \in 1 .. k
        BY <1>1, <2>0, <3>2
      <4> DEFINE p == f[j - 1].end
      <4>2. /\ p \in Nat /\ f[j].end = p + Width(q[j]) /\ f[j].end <= c.end
            /\ Holds(c, p, Width(q[j]), "tag", q[j]) /\ Width(q[j]) \in Nat \ {0}
        BY <1>1, <2>3, <4>1
      <4> HIDE DEF p
      <4>3. Holds(d, p, Width(q[j]), "tag", q[j])
        <5> HIDE DEF c, d
        <5> QED
          BY <2>5, <4>2
      <4>4. f[j].end <= d.end
        <5> DEFINE y == f[j].end
        <5>1. y \in Nat /\ y <= c.end
          BY <4>2
        <5> HIDE DEF c, d, y
        <5>2. y <= d.end
          BY <2>3, <2>6, <5>1
        <5> QED
          BY <5>2 DEF y
      <4> QED
        BY <4>2, <4>3, <4>4 DEF p
    <3> QED
      BY <3>1, <3>2
  <2>8. ASSUME NEW p \in DOMAIN d.at
        PROVE  (\E j \in 1 .. (i + 1) : p = f[j - 1].end) \/ (p \in DOMAIN b.at /\ d.at[p] = b.at[p])
    <3>1. CASE p = c.end
      <4>1. i + 1 \in 1 .. (i + 1)
        BY <2>0
      <4> QED
        BY <2>0, <3>1, <4>1
    <3>2. CASE p # c.end
      <4>1. p \in DOMAIN c.at /\ d.at[p] = c.at[p]
        BY <2>4, <3>2
      <4>2. CASE \E j \in 1 .. i : p = f[j - 1].end
        <5>1. \A j \in 1 .. i : j \in 1 .. (i + 1)
          OBVIOUS
        <5> QED
          BY <4>2, <5>1
      <4> QED
        BY <2>3, <4>1, <4>2
    <3> QED
      BY <3>1, <3>2
  <2>9. ASSUME NEW p \in Nat, NEW u \in Nat \ {0}, NEW g, NEW x, Holds(b, p, u, g, x), p + u <= b.end
        PROVE  Holds(d, p, u, g, x)
    <3>1. Holds(c, p, u, g, x)
      BY <2>3, <2>9
    <3>2. p + u <= c.end
      <4> HIDE DEF c
      <4> QED
        BY <2>3, <2>9
    <3> HIDE DEF c, d
    <3> QED
      BY <2>5, <3>1, <3>2
  <2>10. Till(i + 1)
    BY <2>4, <2>6, <2>7, <2>8, <2>9 DEF Till
  <2> QED
    BY <2>0, <2>10 DEF I
<1>5. k \in I
  <2> HIDE DEF I
  <2>1. \A i \in 0 .. k : i < k /\ i \in I => i + 1 \in I
    BY <1>4
  <2> QED
    BY <1>1, <1>3, <2>1, UpFrom
<1>6. Till(k)
  BY <1>5
<1>7. /\ at[1] = b.end /\ at[k + 1] = f[k].end
      /\ \A i \in 1 .. k : at[i] = f[i - 1].end /\ at[i + 1] = f[i].end
  <2>1. 1 \in 1 .. k + 1 /\ k + 1 \in 1 .. k + 1 /\ (k + 1) - 1 = k /\ 1 - 1 = 0
    BY <1>1
  <2>2. \A i \in 1 .. k : i \in 1 .. k + 1 /\ i + 1 \in 1 .. k + 1 /\ (i + 1) - 1 = i
    BY <1>1
  <2> QED
    BY <1>2, <2>1, <2>2
<1>8. at \in [1 .. k + 1 -> Nat]
  <2>1. ASSUME NEW i \in 1 .. k + 1 PROVE f[i - 1].end \in Nat
    <3>1. i \in 1 .. k \/ i = k + 1
      BY <1>1
    <3>2. i = k + 1 => i - 1 = k
      BY <1>1
    <3> QED
      BY <1>6, <3>1, <3>2
  <2> QED
    BY <2>1
<1>9. Tagged(f[k], b, q, at)
  <2> HIDE DEF at
  <2> QED
    BY <1>6, <1>7, <1>8 DEF Tagged, k
<1> QED
  BY <1>2, <1>9

(***************************************************************************)
(* The order of the tags.                                                  *)
(***************************************************************************)
LEMMA TagsKnown ==
  ASSUME NEW t, AreTags(t)
  PROVE  /\ DOMAIN t = 1 .. Len(t) /\ Len(t) \in Nat
         /\ \A i \in DOMAIN t : t[i] \in TagRecord
         /\ \A i, j \in DOMAIN t : t[i].id = t[j].id => i = j
<1>1. t \in Seq(TagRecord)
  BY DEF AreTags
<1>2. DOMAIN t = 1 .. Len(t) /\ Len(t) \in Nat
  BY <1>1, LenProperties
<1>3. \A i \in DOMAIN t : t[i] \in TagRecord
  BY <1>1, <1>2, ElementOfSeq
<1> QED
  BY <1>2, <1>3 DEF AreTags

LEMMA ListOf ==
  ASSUME NEW m \in Nat, NEW q, DOMAIN q = 1 .. m, q = [i \in DOMAIN q |-> q[i]],
         NEW S, \A i \in 1 .. m : q[i] \in S
  PROVE  q \in Seq(S) /\ Len(q) = m
<1>1. q \in [1 .. m -> S]
  OBVIOUS
<1>2. q \in Seq(S)
  BY <1>1
<1> QED
  BY <1>2, LenProperties

LEMMA ValidIs ==
  ASSUME NEW t, AreTags(t), NEW head \in BOOLEAN
  PROVE  LET q == ValidTags(t, head) IN
         /\ AreTags(q)
         /\ \A i \in DOMAIN q : /\ IsHead(q[i].id) = head /\ q[i].v # Invalid
                                /\ \E j \in DOMAIN t : q[i] = t[j]
         /\ \A j \in DOMAIN t : t[j].v # Invalid /\ IsHead(t[j].id) = head =>
              \E i \in DOMAIN q : q[i] = t[j]
<1> DEFINE S == {i \in DOMAIN t : t[i].v # Invalid /\ IsHead(t[i].id) = head}
           A == Ascending(S)
           m == Cardinality(S)
           q == ValidTags(t, head)
<1>1. /\ DOMAIN t = 1 .. Len(t) /\ Len(t) \in Nat
      /\ \A i \in DOMAIN t : t[i] \in TagRecord
      /\ \A i, j \in DOMAIN t : t[i].id = t[j].id => i = j
  BY TagsKnown
<1>2. Lists(A, S)
  <2>1. \A u \in S : u \in 0 .. Len(t)
    BY <1>1
  <2> HIDE DEF S
  <2> QED
    BY <1>1, <2>1, AscendingLists
<1>3. q = [k \in DOMAIN A |-> t[A[k]]]
  BY DEF ValidTags
<1>4. \A i \in S : i \in DOMAIN t /\ t[i].v # Invalid /\ IsHead(t[i].id) = head
  OBVIOUS
<1>5. \A j \in DOMAIN t : t[j].v # Invalid /\ IsHead(t[j].id) = head => j \in S
  OBVIOUS
<1> HIDE DEF S, A, q
<1>6. /\ m \in Nat /\ DOMAIN A = 1 .. m /\ \A i \in 1 .. m : A[i] \in S
      /\ \A i, j \in 1 .. m : i < j => A[i] < A[j]
      /\ \A x \in S : \E i \in 1 .. m : A[i] = x
  BY <1>2 DEF Lists
<1> HIDE DEF m
<1>7. DOMAIN q = 1 .. m /\ \A i \in 1 .. m : q[i] = t[A[i]] /\ A[i] \in S /\ A[i] \in Nat
  BY <1>1, <1>3, <1>4, <1>6
<1>8. \A i \in 1 .. m : q[i] \in TagRecord /\ IsHead(q[i].id) = head /\ q[i].v # Invalid
                        /\ A[i] \in DOMAIN t
  BY <1>1, <1>4, <1>7
<1>9. ASSUME NEW i \in 1 .. m, NEW j \in 1 .. m, q[i].id = q[j].id PROVE i = j
  <2>1. A[i] = A[j]
    BY <1>1, <1>7, <1>8, <1>9
  <2>2. ~(A[i] < A[j]) /\ ~(A[j] < A[i])
    BY <1>7, <2>1
  <2> QED
    BY <1>6, <2>2
<1>10. AreTags(q)
  <2>1. q \in Seq(TagRecord)
    BY <1>3, <1>6, <1>7, <1>8, ListOf
  <2> QED
    BY <1>7, <1>9, <2>1 DEF AreTags
<1>11. \A j \in DOMAIN t : t[j].v # Invalid /\ IsHead(t[j].id) = head => \E i \in DOMAIN q : q[i] = t[j]
  BY <1>5, <1>6, <1>7
<1> QED
  BY <1>7, <1>8, <1>10, <1>11 DEF q

\* The first h of the tags are head tags, the others are not.
HeadsFirst(q, h) ==
  h \in 0 .. Len(q) /\ \A i \in DOMAIN q : q[i].v # Invalid /\ (IsHead(q[i].id) <=> i <= h)

LEMMA InOrderIs ==
  ASSUME NEW t, AreTags(t)
  PROVE  LET q == InOrder(t) IN
         /\ AreTags(q) /\ \E h : HeadsFirst(q, h)
         /\ \A i \in DOMAIN q : \E j \in DOMAIN t : q[i] = t[j]
         /\ \A j \in DOMAIN t : t[j].v # Invalid => \E i \in DOMAIN q : q[i] = t[j]
<1> DEFINE a == ValidTags(t, TRUE)
           b == ValidTags(t, FALSE)
           h == Len(a)
           q == a \o b
<1>1. /\ AreTags(a)
      /\ \A i \in DOMAIN a : IsHead(a[i].id) = TRUE /\ a[i].v # Invalid /\ \E j \in DOMAIN t : a[i] = t[j]
      /\ \A j \in DOMAIN t : t[j].v # Invalid /\ IsHead(t[j].id) = TRUE => \E i \in DOMAIN a : a[i] = t[j]
  BY ValidIs, Zenon
<1>2. /\ AreTags(b)
      /\ \A i \in DOMAIN b : IsHead(b[i].id) = FALSE /\ b[i].v # Invalid /\ \E j \in DOMAIN t : b[i] = t[j]
      /\ \A j \in DOMAIN t : t[j].v # Invalid /\ IsHead(t[j].id) = FALSE => \E i \in DOMAIN b : b[i] = t[j]
  BY ValidIs
<1> HIDE DEF a, b
<1>3. /\ DOMAIN a = 1 .. Len(a) /\ Len(a) \in Nat /\ a \in Seq(TagRecord)
      /\ \A i, j \in DOMAIN a : a[i].id = a[j].id => i = j
  BY <1>1, TagsKnown DEF AreTags
<1>4. /\ DOMAIN b = 1 .. Len(b) /\ Len(b) \in Nat /\ b \in Seq(TagRecord)
      /\ \A i, j \in DOMAIN b : b[i].id = b[j].id => i = j
  BY <1>2, TagsKnown DEF AreTags
<1>5. /\ q \in Seq(TagRecord) /\ Len(q) = Len(a) + Len(b)
      /\ \A i \in 1 .. Len(a) + Len(b) : q[i] = IF i <= Len(a) THEN a[i] ELSE b[i - Len(a)]
  BY <1>3, <1>4, ConcatProperties
<1>6. DOMAIN q = 1 .. Len(a) + Len(b)
  BY <1>5, LenProperties
<1> HIDE DEF q
<1>7. \A i \in DOMAIN q : (i <= h => i \in DOMAIN a /\ q[i] = a[i])
                          /\ (i > h => i - h \in DOMAIN b /\ q[i] = b[i - h])
  BY <1>3, <1>4, <1>5, <1>6
<1>8. \A i \in DOMAIN q : i <= h \/ i > h
  BY <1>3, <1>4, <1>6
<1> DEFINE nth(i) == i - h
<1>9. \A i \in DOMAIN q : /\ IsHead(q[i].id) <=> i <= h
                          /\ q[i].v # Invalid
                          /\ \E j \in DOMAIN t : q[i] = t[j]
  <2> SUFFICES ASSUME NEW i \in DOMAIN q
               PROVE  /\ IsHead(q[i].id) <=> i <= h
                      /\ q[i].v # Invalid
                      /\ \E j \in DOMAIN t : q[i] = t[j]
    OBVIOUS
  <2>1. CASE i <= h
    BY <1>1, <1>7, <2>1
  <2>2. CASE i > h
    <3>1. i - h \in DOMAIN b /\ q[i] = b[i - h]
      BY <1>7, <2>2
    <3>2. IsHead(q[i].id) = FALSE /\ q[i].v # Invalid /\ \E j \in DOMAIN t : q[i] = t[j]
      BY <1>2, <3>1
    <3>3. ~(i <= h)
      BY <1>3, <1>4, <1>6, <2>2
    <3> QED
      BY <3>2, <3>3
  <2> QED
    BY <1>8, <2>1, <2>2
<1>10. ASSUME NEW i \in DOMAIN q, NEW j \in DOMAIN q, q[i].id = q[j].id PROVE i = j
  <2>1. i <= h <=> j <= h
    BY <1>9, <1>10
  <2>2. CASE i <= h
    BY <1>3, <1>7, <1>10, <2>1, <2>2
  <2>3. CASE i > h
    <3>1. j > h
      BY <1>3, <1>4, <1>6, <2>1, <2>3
    <3>2. i - h = j - h
      BY <1>4, <1>7, <1>10, <2>3, <3>1
    <3> QED
      BY <1>3, <1>4, <1>6, <3>2
  <2> QED
    BY <1>8, <2>2, <2>3
<1>11. AreTags(q)
  BY <1>5, <1>10 DEF AreTags
<1>12. HeadsFirst(q, h)
  BY <1>3, <1>4, <1>5, <1>6, <1>9 DEF HeadsFirst
<1>13. ASSUME NEW j \in DOMAIN t, t[j].v # Invalid PROVE \E i \in DOMAIN q : q[i] = t[j]
  <2>1. CASE IsHead(t[j].id)
    <3>1. PICK i \in DOMAIN a : a[i] = t[j]
      <4>1. IsHead(t[j].id) = TRUE
        BY <2>1 DEF IsHead
      <4> QED
        BY <1>1, <1>13, <4>1
    <3>2. i \in DOMAIN q /\ i <= h
      BY <1>3, <1>4, <1>6
    <3> QED
      BY <1>7, <3>1, <3>2
  <2>2. CASE ~IsHead(t[j].id)
    <3>1. PICK i \in DOMAIN b : b[i] = t[j]
      <4>1. IsHead(t[j].id) = FALSE
        BY <2>2 DEF IsHead
      <4> QED
        BY <1>2, <1>13, <4>1
    <3>2. i + h \in DOMAIN q /\ i + h > h /\ (i + h) - h = i
      BY <1>3, <1>4, <1>6
    <3>3. q[i + h] = t[j]
      BY <1>7, <3>1, <3>2
    <3> QED
      BY <3>2, <3>3
  <2> QED
    BY <2>1, <2>2
<1> QED
  BY <1>9, <1>11, <1>12, <1>13, Zenon DEF InOrder, q, a, b

-----------------------------------------------------------------------------
(***************************************************************************)
(* Tags that are read.                                                     *)
(***************************************************************************)
\* The tags in a buffer are some of t, each in one place.
TagsIn(b, t) ==
  /\ \A p \in TagPlaces(b) : \E i \in DOMAIN t : b.at[p].v = t[i]
  /\ \A p, r \in TagPlaces(b) : b.at[p].v = b.at[r].v => p = r

\* q has none but tags of t.
Among(q, t) == AreTags(q) /\ \A i \in DOMAIN q : \E j \in DOMAIN t : q[i] = t[j]

LEMMA AmongThem ==
  ASSUME NEW q, NEW t, AreTags(t), Among(q, t), NEW id, HasTag(q, id)
  PROVE  HasTag(t, id) /\ GetTag(t, id) = GetTag(q, id) /\ GetTag(q, id) \in Int
<1>1. PICK i \in DOMAIN q : q[i].id = id
  BY DEF HasTag
<1>2. PICK j \in DOMAIN t : q[i] = t[j]
  BY DEF Among
<1>3. HasTag(t, id)
  BY <1>1, <1>2 DEF HasTag
<1>4. GetTag(q, id) = q[i].v
  BY <1>1, FirstIs DEF Among
<1>5. GetTag(t, id) = t[j].v
  BY <1>1, <1>2, <1>3, FirstIs
<1>6. t[j].v \in Int
  BY TagsKnown DEF TagRecord
<1> QED
  BY <1>2, <1>3, <1>4, <1>5, <1>6

LEMMA TagsAtAmong ==
  ASSUME NEW b, IsBuffer(b), NEW t, AreTags(t), TagsIn(b, t), NEW at \in Nat
  PROVE  Among(TagsAt(b, at), t)
<1> DEFINE S == {p \in TagPlaces(b) : p >= at /\ at \in TagPlaces(b)}
           A == Ascending(S)
           m == Cardinality(S)
           q == TagsAt(b, at)
<1>1. PICK k \in Nat : \A p \in DOMAIN b.at : p \in 0 .. k
  BY DEF IsBuffer
<1>2. \A u \in S : u \in 0 .. k /\ u \in TagPlaces(b)
  BY <1>1 DEF TagPlaces
<1>3. q = [i \in DOMAIN A |-> b.at[A[i]].v]
  BY DEF TagsAt, ValuesAt
<1> HIDE DEF S
<1>4. Lists(A, S)
  BY <1>2, AscendingLists
<1> HIDE DEF A, q
<1>5. /\ m \in Nat /\ DOMAIN A = 1 .. m /\ \A i \in 1 .. m : A[i] \in S
      /\ \A i, j \in 1 .. m : i < j => A[i] < A[j]
  BY <1>4 DEF Lists
<1> HIDE DEF m
<1>6. DOMAIN q = 1 .. m /\ \A i \in 1 .. m : q[i] = b.at[A[i]].v /\ A[i] \in TagPlaces(b) /\ A[i] \in Nat
  BY <1>2, <1>3, <1>5
<1>7. \A i \in 1 .. m : \E j \in DOMAIN t : q[i] = t[j]
  BY <1>6 DEF TagsIn
<1>8. \A i \in 1 .. m : q[i] \in TagRecord
  BY <1>7, TagsKnown
<1>9. ASSUME NEW i \in 1 .. m, NEW j \in 1 .. m, q[i].id = q[j].id PROVE i = j
  <2>1. PICK x \in DOMAIN t, y \in DOMAIN t : q[i] = t[x] /\ q[j] = t[y]
    BY <1>7
  <2>2. q[i] = q[j]
    BY <1>9, <2>1, TagsKnown
  <2>3. A[i] = A[j]
    BY <1>6, <2>2 DEF TagsIn
  <2>4. ~(A[i] < A[j]) /\ ~(A[j] < A[i])
    BY <1>6, <2>3
  <2> QED
    BY <1>5, <2>4
<1>10. q \in Seq(TagRecord)
  BY <1>3, <1>5, <1>6, <1>8, ListOf
<1> QED
  BY <1>6, <1>7, <1>9, <1>10 DEF Among, AreTags, q

\* What Run and UpTo give is what the list begins with.
LEMMA UpToIs ==
  ASSUME NEW S, NEW q \in Seq(S), NEW x \in 0 .. Len(q)
  PROVE  /\ UpTo(q, x) \in Seq(S)
         /\ Len(UpTo(q, x)) = IF x = 0 THEN Len(q) ELSE x - 1
         /\ \A i \in DOMAIN UpTo(q, x) : i \in DOMAIN q /\ UpTo(q, x)[i] = q[i]
<1>1. Len(q) \in Nat /\ DOMAIN q = 1 .. Len(q)
  BY LenProperties
<1>2. CASE x = 0
  BY <1>1, <1>2 DEF UpTo
<1>3. CASE x # 0
  <2>1. UpTo(q, x) = SubSeq(q, 1, x - 1)
    BY <1>3 DEF UpTo
  <2>2. x - 1 \in Int /\ \A i \in 1 .. x - 1 : i \in 1 .. Len(q)
    BY <1>1, <1>3
  <2>3. \A i \in 1 .. x - 1 : q[i] \in S
    BY <2>2, ElementOfSeq
  <2>4. /\ SubSeq(q, 1, x - 1) \in Seq(S)
        /\ Len(SubSeq(q, 1, x - 1)) = IF 1 <= x - 1 THEN (x - 1) - 1 + 1 ELSE 0
        /\ \A i \in 1 .. (x - 1) - 1 + 1 : SubSeq(q, 1, x - 1)[i] = q[1 + i - 1]
    BY <2>2, <2>3, SubSeqProperties
  <2>5. Len(SubSeq(q, 1, x - 1)) = x - 1
    BY <1>1, <1>3, <2>4
  <2>6. \A i \in 1 .. x - 1 : SubSeq(q, 1, x - 1)[i] = q[i]
    <3> SUFFICES ASSUME NEW i \in 1 .. x - 1 PROVE SubSeq(q, 1, x - 1)[i] = q[i]
      OBVIOUS
    <3>1. i \in 1 .. (x - 1) - 1 + 1 /\ 1 + i - 1 = i
      BY <1>1, <1>3
    <3> QED
      BY <2>4, <3>1
  <2>7. DOMAIN SubSeq(q, 1, x - 1) = 1 .. x - 1
    BY <2>4, <2>5, LenProperties
  <2> QED
    BY <1>1, <1>3, <2>1, <2>2, <2>4, <2>5, <2>6, <2>7
<1> QED
  BY <1>2, <1>3

LEMMA RunIs ==
  ASSUME NEW S, NEW q \in Seq(S), NEW head \in BOOLEAN
  PROVE  /\ Run(q, head) \in Seq(S) /\ Len(Run(q, head)) <= Len(q)
         /\ \A i \in DOMAIN Run(q, head) : i \in DOMAIN q /\ Run(q, head)[i] = q[i]
         /\ \A i \in DOMAIN q : i <= Len(Run(q, head)) => IsHead(q[i].id) = head
         /\ Len(Run(q, head)) < Len(q) => IsHead(q[Len(Run(q, head)) + 1].id) # head
<1> DEFINE I == {i \in 1 .. Len(q) : IsHead(q[i].id) # head}
           x == SelectInSeq(q, LAMBDA t : IsHead(t.id) # head)
<1>1. Len(q) \in Nat /\ DOMAIN q = 1 .. Len(q)
  BY LenProperties
<1>2. x = IF I # {} THEN Min(I) ELSE 0
  BY DEF SelectInSeq
<1>3. Run(q, head) = UpTo(q, x)
  BY DEF Run
<1> HIDE DEF x
<1>4. CASE I = {}
  <2>1. x = 0 /\ \A i \in DOMAIN q : IsHead(q[i].id) = head
    BY <1>1, <1>2, <1>4
  <2>2. 0 \in 0 .. Len(q)
    BY <1>1
  <2> QED
    BY <1>1, <1>3, <2>1, <2>2, UpToIs
<1>5. CASE I # {}
  <2>1. I \in SUBSET Nat
    OBVIOUS
  <2>2. PICK y \in I : \A z \in I : y <= z
    BY <1>5, <2>1, LeastOf, Zenon
  <2>3. Min(I) \in I /\ \A z \in I : Min(I) <= z
    BY <2>2 DEF Min
  <2>4. x \in I /\ \A z \in I : x <= z
    BY <1>2, <1>5, <2>3
  <2>5. x \in 1 .. Len(q) /\ IsHead(q[x].id) # head
    BY <2>4
  <2>6. \A i \in DOMAIN q : i < x => IsHead(q[i].id) = head
    <3> SUFFICES ASSUME NEW i \in DOMAIN q, i < x, IsHead(q[i].id) # head PROVE FALSE
      OBVIOUS
    <3>1. i \in I
      BY <1>1
    <3> HIDE DEF I
    <3> QED
      BY <1>1, <2>4, <2>5, <3>1
  <2> HIDE DEF I
  <2>7. /\ UpTo(q, x) \in Seq(S) /\ Len(UpTo(q, x)) = x - 1
        /\ \A i \in DOMAIN UpTo(q, x) : i \in DOMAIN q /\ UpTo(q, x)[i] = q[i]
    <3>1. x \in 0 .. Len(q) /\ x # 0
      BY <1>1, <2>5
    <3> QED
      BY <3>1, UpToIs
  <2>8. \A i \in DOMAIN q : i <= x - 1 => IsHead(q[i].id) = head
    BY <1>1, <2>5, <2>6
  <2>9. x - 1 + 1 = x /\ x - 1 <= Len(q)
    BY <1>1, <2>5
  <2> QED
    BY <1>3, <2>5, <2>7, <2>8, <2>9
<1> QED
  BY <1>4, <1>5

LEMMA HeadThenTailIs ==
  ASSUME NEW q, AreTags(q)
  PROVE  /\ HeadThenTail(q) \in Seq(TagRecord) /\ Len(HeadThenTail(q)) <= Len(q)
         /\ \A i \in DOMAIN HeadThenTail(q) : i \in DOMAIN q /\ HeadThenTail(q)[i] = q[i]
         /\ \A h : HeadsFirst(q, h) => HeadThenTail(q) = q
<1> DEFINE a == Run(q, TRUE)
           r == SubSeq(q, Len(a) + 1, Len(q))
           c == Run(r, FALSE)
           t == a \o c
<1>1. q \in Seq(TagRecord) /\ Len(q) \in Nat /\ DOMAIN q = 1 .. Len(q)
  BY TagsKnown DEF AreTags
<1>2. /\ a \in Seq(TagRecord) /\ Len(a) <= Len(q)
      /\ \A i \in DOMAIN a : i \in DOMAIN q /\ a[i] = q[i]
      /\ \A i \in DOMAIN q : i <= Len(a) => IsHead(q[i].id) = TRUE
      /\ Len(a) < Len(q) => IsHead(q[Len(a) + 1].id) # TRUE
  BY <1>1, RunIs, Zenon
<1>0. HeadThenTail(q) = t
  BY DEF HeadThenTail, ThenTail
<1> HIDE DEF a
<1>3. Len(a) \in Nat /\ DOMAIN a = 1 .. Len(a)
  BY <1>2, LenProperties
<1>4. /\ r \in Seq(TagRecord) /\ Len(r) = Len(q) - Len(a)
      /\ \A i \in 1 .. Len(q) - Len(a) : r[i] = q[Len(a) + i]
  <2>1. \A i \in Len(a) + 1 .. Len(q) : q[i] \in TagRecord
    <3>1. \A i \in Len(a) + 1 .. Len(q) : i \in 1 .. Len(q)
      BY <1>1, <1>3
    <3> QED
      BY <1>1, <3>1, ElementOfSeq
  <2>2. Len(a) + 1 \in Int /\ Len(q) \in Int
    BY <1>1, <1>3
  <2>3. /\ r \in Seq(TagRecord)
        /\ Len(r) = IF Len(a) + 1 <= Len(q) THEN Len(q) - (Len(a) + 1) + 1 ELSE 0
        /\ \A i \in 1 .. Len(q) - (Len(a) + 1) + 1 : r[i] = q[(Len(a) + 1) + i - 1]
    BY <2>1, <2>2, SubSeqProperties
  <2> HIDE DEF r
  <2>4. Len(r) = Len(q) - Len(a)
    <3>1. CASE Len(a) + 1 <= Len(q)
      <4>1. Len(r) = Len(q) - (Len(a) + 1) + 1
        BY <2>3, <3>1
      <4> QED
        BY <1>1, <1>3, <4>1
    <3>2. CASE ~(Len(a) + 1 <= Len(q))
      <4>1. Len(r) = 0
        BY <2>3, <3>2
      <4>2. \A x, y \in Nat : x <= y /\ ~(x + 1 <= y) => x = y /\ y - x = 0
        OBVIOUS
      <4>3. Len(q) - Len(a) = 0
        BY <1>1, <1>2, <1>3, <3>2, <4>2
      <4> QED
        BY <4>1, <4>3
    <3> QED
      BY <3>1, <3>2
  <2>5. ASSUME NEW i \in 1 .. Len(q) - Len(a) PROVE r[i] = q[Len(a) + i]
    <3>1. i \in 1 .. Len(q) - (Len(a) + 1) + 1 /\ (Len(a) + 1) + i - 1 = Len(a) + i
      BY <1>1, <1>3
    <3> QED
      BY <2>3, <3>1
  <2> QED
    BY <2>3, <2>4, <2>5
<1> HIDE DEF r
<1>5. /\ c \in Seq(TagRecord) /\ Len(c) <= Len(r)
      /\ \A i \in DOMAIN c : i \in DOMAIN r /\ c[i] = r[i]
      /\ Len(c) < Len(r) => IsHead(r[Len(c) + 1].id) # FALSE
  BY <1>4, RunIs, Zenon
<1> HIDE DEF c
<1>6. Len(c) \in Nat /\ DOMAIN c = 1 .. Len(c)
  BY <1>5, LenProperties
<1>7. /\ t \in Seq(TagRecord) /\ Len(t) = Len(a) + Len(c)
      /\ \A i \in 1 .. Len(a) + Len(c) : t[i] = IF i <= Len(a) THEN a[i] ELSE c[i - Len(a)]
  BY <1>2, <1>5, ConcatProperties
<1> HIDE DEF t
<1>8. Len(t) <= Len(q) /\ Len(t) \in Nat /\ DOMAIN t = 1 .. Len(t)
  BY <1>1, <1>3, <1>4, <1>5, <1>6, <1>7, LenProperties
<1>9. ASSUME NEW i \in DOMAIN t PROVE i \in DOMAIN q /\ t[i] = q[i]
  <2>1. i \in 1 .. Len(a) + Len(c) /\ i \in DOMAIN q
    BY <1>1, <1>7, <1>8
  <2>2. CASE i <= Len(a)
    <3>1. i \in DOMAIN a
      BY <1>3, <2>1, <2>2
    <3> QED
      BY <1>2, <1>7, <2>1, <2>2, <3>1
  <2>3. CASE ~(i <= Len(a))
    <3>1. i - Len(a) \in DOMAIN c /\ i - Len(a) \in 1 .. Len(q) - Len(a) /\ Len(a) + (i - Len(a)) = i
      BY <1>1, <1>3, <1>4, <1>5, <1>6, <2>1, <2>3
    <3>2. c[i - Len(a)] = r[i - Len(a)]
      BY <1>5, <3>1
    <3>3. r[i - Len(a)] = q[i]
      BY <1>4, <3>1, Zenon
    <3> QED
      BY <1>7, <2>1, <2>3, <3>2, <3>3
  <2> QED
    BY <2>2, <2>3
<1>10. ASSUME NEW h, HeadsFirst(q, h) PROVE t = q
  <2>1. /\ h \in 0 .. Len(q)
        /\ \A i \in DOMAIN q : IsHead(q[i].id) <=> i <= h
    BY <1>10 DEF HeadsFirst
  <2>2. Len(a) = h
    <3>1. Len(a) <= h
      <4>1. Len(a) = 0 \/ (Len(a) \in DOMAIN q)
        BY <1>1, <1>2, <1>3
      <4> QED
        BY <1>1, <1>2, <1>3, <2>1, <4>1
    <3>2. ~(Len(a) < h)
      <4> SUFFICES ASSUME Len(a) < h PROVE FALSE
        OBVIOUS
      <4>1. Len(a) < Len(q) /\ Len(a) + 1 \in DOMAIN q /\ Len(a) + 1 <= h
        BY <1>1, <1>3, <2>1
      <4>2. IsHead(q[Len(a) + 1].id) \in BOOLEAN
        BY DEF IsHead
      <4> QED
        BY <1>2, <2>1, <4>1, <4>2, Zenon
    <3>3. h \in Nat
      BY <1>1, <2>1
    <3>4. \A x, y \in Nat : x <= y /\ ~(x < y) => x = y
      OBVIOUS
    <3> QED
      BY <1>3, <3>1, <3>2, <3>3, <3>4, Zenon
  <2>3. Len(c) = Len(r)
    <3>0. Len(r) \in Nat
      BY <1>4, LenProperties
    <3> SUFFICES ASSUME Len(c) < Len(r) PROVE FALSE
      BY <1>5, <1>6, <3>0
    <3>1. /\ Len(c) + 1 \in 1 .. Len(q) - Len(a) /\ Len(a) + (Len(c) + 1) \in DOMAIN q
          /\ ~(Len(a) + (Len(c) + 1) <= h)
      BY <1>1, <1>3, <1>4, <1>6, <2>2
    <3>2. r[Len(c) + 1] = q[Len(a) + (Len(c) + 1)]
      BY <1>4, <3>1
    <3>3. ~IsHead(r[Len(c) + 1].id) /\ IsHead(r[Len(c) + 1].id) \in BOOLEAN
      BY <2>1, <3>1, <3>2 DEF IsHead
    <3> QED
      BY <1>5, <3>3, Zenon
  <2>4. Len(t) = Len(q)
    BY <1>1, <1>3, <1>4, <1>7, <2>3
  <2> QED
    BY <1>1, <1>7, <1>8, <1>9, <2>4, SeqEqual
<1> QED
  BY <1>0, <1>7, <1>8, <1>9, <1>10

\* What DisassembleTags makes of the tags there are.
LEMMA TakenAmong ==
  ASSUME NEW b, IsBuffer(b), NEW t, AreTags(t), TagsIn(b, t), NEW at \in Nat
  PROVE  Among(DisassembleTags(b, at), t) /\ Among(DisassembleSplit(b, at), t)
<1> DEFINE q == TagsAt(b, at)
           r == HeadThenTail(q)
<1>1. Among(q, t)
  BY TagsAtAmong
<1> HIDE DEF q
<1>2. /\ r \in Seq(TagRecord) /\ Len(r) <= Len(q)
      /\ \A i \in DOMAIN r : i \in DOMAIN q /\ r[i] = q[i]
  BY <1>1, HeadThenTailIs DEF Among
<1> HIDE DEF r
<1>3. AreTags(r)
  BY <1>1, <1>2, TagsKnown DEF AreTags, Among
<1> QED
  BY <1>1, <1>2, <1>3 DEF DisassembleTags, DisassembleSplit, Among, q, r

(***************************************************************************)
(* What the steps of a writer leave in its buffer.                         *)
(***************************************************************************)
\* What ends before place edge is in c as it was in b.
Kept(c, b, edge) ==
  \A p \in Nat, u \in Nat \ {0} : \A g, x :
    Holds(b, p, u, g, x) /\ p + u <= edge => Holds(c, p, u, g, x)

\* What is in b of a frame's fields is o's; no tag is in b.
Only(b, o) ==
  \A p \in DOMAIN b.at :
    /\ b.at[p].f = "fc" => b.at[p].v = o.fc
    /\ b.at[p].f \in Fields => b.at[p].v = o.val[b.at[p].f]
    /\ b.at[p].f = "addr2" => o.val.addr2 # Unset

NoTags(b) == \A p \in DOMAIN b.at : b.at[p].f # "tag"

IsFine(s) ==
  /\ IsWriter(s) /\ IsBuffer(s.b) /\ s.base \in Nat /\ s.b.end \in Nat
  /\ NoTags(s.b) /\ Only(s.b, s.o)

LEMMA KeptOn ==
  ASSUME NEW b, NEW c, NEW d, NEW e1 \in Int, NEW e2 \in Int, e1 <= e2, Kept(c, b, e1), Kept(d, c, e2)
  PROVE  Kept(d, b, e1)
BY DEF Kept

LEMMA KeptLess ==
  ASSUME NEW b, NEW c, NEW e1 \in Int, NEW e2 \in Int, e1 <= e2, Kept(c, b, e2)
  PROVE  Kept(c, b, e1)
BY DEF Kept

LEMMA WriteKept ==
  ASSUME NEW b, NEW at \in Nat, NEW w \in Nat \ {0}, NEW f, NEW v
  PROVE  Kept(Write(b, at, w, f, v), b, at)
BY WriteKeeps DEF Kept

LEMMA FieldsAre == {"fc", "tag", "fcs"} \cap Fields = {} /\ "addr2" \in Fields
BY DEF Fields

LEMMA OnlyWritten ==
  ASSUME NEW b, NEW o, IsBuffer(b), Only(b, o), NoTags(b),
         NEW at \in Nat, NEW w \in Nat \ {0}, NEW f \in Fields, f = "addr2" => o.val.addr2 # Unset
  PROVE  Only(Write(b, at, w, f, o.val[f]), o) /\ NoTags(Write(b, at, w, f, o.val[f]))
<1> DEFINE c == Write(b, at, w, f, o.val[f])
<1>1. /\ c.at[at] = [f |-> f, w |-> w, v |-> o.val[f]]
      /\ \A p \in DOMAIN c.at : p # at => p \in DOMAIN b.at /\ c.at[p] = b.at[p]
  BY Written DEF Holds
<1> HIDE DEF c
<1>2. f # "fc" /\ f # "tag"
  BY FieldsAre
<1> SUFFICES ASSUME NEW p \in DOMAIN c.at
             PROVE  /\ c.at[p].f = "fc" => c.at[p].v = o.fc
                    /\ c.at[p].f \in Fields => c.at[p].v = o.val[c.at[p].f]
                    /\ c.at[p].f = "addr2" => o.val.addr2 # Unset
                    /\ c.at[p].f # "tag"
  BY DEF c, Only, NoTags
<1>3. CASE p = at
  BY <1>1, <1>2, <1>3
<1>4. CASE p # at
  BY <1>1, <1>4 DEF Only, NoTags
<1> QED
  BY <1>3, <1>4

\* t is s, having put field f of width w at place at.
HasPut(t, s, at, w, f) ==
  /\ Onward(t, s) /\ t.ok = s.ok
  /\ t.ok => /\ IsFine(t) /\ t.b.end = s.b.end + w
             /\ Holds(t.b, s.base + at, w, f, s.o.val[f]) /\ Kept(t.b, s.b, s.base + at)

LEMMA PutHas ==
  ASSUME NEW s, IsWriter(s), s.ok => IsFine(s), NEW at \in Nat, NEW w \in Nat \ {0}, NEW f \in Fields,
         f = "addr2" => s.o.val.addr2 # Unset
  PROVE  HasPut(Put(s, at, w, f), s, at, w, f)
<1> DEFINE t == Put(s, at, w, f)
<1>1. Onward(t, s) /\ t.ok = s.ok /\ (t.ok => t.b = Write(s.b, s.base + at, w, f, s.o.val[f]))
  BY PutOne
<1> HIDE DEF t
<1> SUFFICES ASSUME t.ok
             PROVE  /\ IsFine(t) /\ t.b.end = s.b.end + w
                    /\ Holds(t.b, s.base + at, w, f, s.o.val[f]) /\ Kept(t.b, s.b, s.base + at)
  BY <1>1 DEF HasPut, t
<1>2. IsFine(s) /\ s.base + at \in Nat
  BY <1>1 DEF IsFine
<1>3. IsBuffer(t.b) /\ t.b.end = s.b.end + w /\ Holds(t.b, s.base + at, w, f, s.o.val[f])
  BY <1>1, <1>2, Written DEF IsFine
<1>4. Only(t.b, s.o) /\ NoTags(t.b)
  BY <1>1, <1>2, OnlyWritten, Zenon DEF IsFine
<1>5. Kept(t.b, s.b, s.base + at)
  BY <1>1, <1>2, WriteKept
<1>6. t.base = s.base /\ t.o = s.o /\ IsWriter(t) /\ t.b.end \in Nat
  BY <1>1, <1>2, <1>3 DEF Onward, IsFine
<1> QED
  BY <1>2, <1>3, <1>4, <1>5, <1>6 DEF IsFine

LEMMA ControlHas ==
  ASSUME NEW s, IsWriter(s), IsFine(s)
  PROVE  LET t == PutControl(s) IN
         /\ Onward(t, s) /\ t.ok = s.ok
         /\ IsFine(t) /\ t.b.end = s.b.end + 2
         /\ Holds(t.b, s.base, 2, "fc", s.o.fc) /\ Kept(t.b, s.b, s.base)
<1> DEFINE t == PutControl(s)
<1>1. Onward(t, s) /\ t.ok = s.ok /\ t.b = Write(s.b, s.base, 2, "fc", s.o.fc)
  BY PutControlOne
<1> HIDE DEF t
<1>2. /\ IsBuffer(t.b) /\ t.b.end = s.b.end + 2 /\ Holds(t.b, s.base, 2, "fc", s.o.fc)
      /\ \A p \in DOMAIN t.b.at : p # s.base => p \in DOMAIN s.b.at /\ t.b.at[p] = s.b.at[p]
  BY <1>1, Written DEF IsFine
<1>3. Kept(t.b, s.b, s.base)
  BY <1>1, WriteKept DEF IsFine
<1>4. Only(t.b, s.o) /\ NoTags(t.b)
  <2> SUFFICES ASSUME NEW p \in DOMAIN t.b.at
               PROVE  /\ t.b.at[p].f = "fc" => t.b.at[p].v = s.o.fc
                      /\ t.b.at[p].f \in Fields => t.b.at[p].v = s.o.val[t.b.at[p].f]
                      /\ t.b.at[p].f = "addr2" => s.o.val.addr2 # Unset
                      /\ t.b.at[p].f # "tag"
    BY DEF Only, NoTags
  <2>1. CASE p = s.base
    BY <1>2, <2>1, FieldsAre DEF Holds
  <2>2. CASE p # s.base
    BY <1>2, <2>2 DEF IsFine, Only, NoTags
  <2> QED
    BY <2>1, <2>2
<1>5. t.base = s.base /\ t.o = s.o /\ IsWriter(t) /\ t.b.end \in Nat
  BY <1>1, <1>2 DEF Onward, IsFine
<1> QED
  BY <1>1, <1>2, <1>3, <1>4, <1>5 DEF IsFine, t

LEMMA NeedHas ==
  ASSUME NEW s, IsWriter(s), s.ok => IsFine(s), NEW cond \in BOOLEAN
  PROVE  LET t == Need(s, cond) IN
         Onward(t, s) /\ t.b = s.b /\ t.ok = (s.ok /\ cond) /\ (t.ok => IsFine(t))
BY NeedOne DEF Onward, IsFine

\* The frame control and the addresses that every frame has.
HeadAt(b, o, base) ==
  /\ Holds(b, base, 2, "fc", o.fc)
  /\ Holds(b, base + 2, 2, "duration", o.val["duration"])
  /\ Holds(b, base + 4, 6, "addr1", o.val["addr1"])
  /\ o.val.addr2 # Unset => Holds(b, base + 10, 6, "addr2", o.val["addr2"])

ThirdAt(b, o, base) ==
  /\ Holds(b, base + 16, 6, "addr3", o.val["addr3"])
  /\ Holds(b, base + 22, 2, "seqcntl", o.val["seqcntl"])

HeadLength(o) == IF o.val.addr2 = Unset THEN 10 ELSE 16

LEMMA HeadKept ==
  ASSUME NEW b, NEW c, NEW o, NEW base \in Nat, HeadAt(b, o, base), Kept(c, b, base + 16)
  PROVE  HeadAt(c, o, base)
<1>1. /\ base \in Nat /\ base + 2 \in Nat /\ base + 4 \in Nat /\ base + 10 \in Nat
      /\ base + 2 <= base + 16 /\ (base + 2) + 2 <= base + 16 /\ (base + 4) + 6 <= base + 16
      /\ (base + 10) + 6 <= base + 16 /\ 2 \in Nat \ {0} /\ 6 \in Nat \ {0}
  OBVIOUS
<1> QED
  BY <1>1 DEF HeadAt, Kept

LEMMA ThirdKept ==
  ASSUME NEW b, NEW c, NEW o, NEW base \in Nat, ThirdAt(b, o, base), Kept(c, b, base + 24)
  PROVE  ThirdAt(c, o, base)
<1>1. /\ base + 16 \in Nat /\ base + 22 \in Nat
      /\ (base + 16) + 6 <= base + 24 /\ (base + 22) + 2 <= base + 24
      /\ 2 \in Nat \ {0} /\ 6 \in Nat \ {0}
  OBVIOUS
<1> QED
  BY <1>1 DEF ThirdAt, Kept

LEMMA FrameHas ==
  ASSUME NEW s, IsWriter(s), s.ok => IsFine(s)
  PROVE  LET t == FrameAssemble(s) IN
         /\ Onward(t, s)
         /\ t.ok => /\ IsFine(t) /\ s.o.val.addr1 # Unset
                    /\ t.b.end = s.b.end + HeadLength(s.o) /\ HeadAt(t.b, s.o, s.base)
<1> DEFINE o == s.o
           base == s.base
           s1 == Need(s, s.o.val.addr1 # Unset)
           s2 == PutControl(s1)
           s3 == Put(s2, 2, 2, "duration")
           s4 == Put(s3, 4, 6, "addr1")
           t == PutSource(s4)
<1>1. FrameAssemble(s) = t
  BY DEF FrameAssemble
<1>2. Onward(t, s)
  BY <1>1, FrameOnward
<1>3. /\ Onward(s1, s) /\ s1.b = s.b /\ (s1.ok => s.ok /\ o.val.addr1 # Unset /\ IsFine(s1))
  BY NeedHas, Zenon
<1> HIDE DEF s1
<1>4. /\ Onward(s2, s1) /\ s2.ok = s1.ok
  BY <1>3, PutControlOne DEF Onward
<1>5. s1.ok => /\ IsFine(s2) /\ s2.b.end = s1.b.end + 2
               /\ Holds(s2.b, s1.base, 2, "fc", s1.o.fc) /\ Kept(s2.b, s1.b, s1.base)
  BY <1>3, ControlHas DEF Onward
<1> HIDE DEF s2
<1>6. HasPut(s3, s2, 2, 2, "duration")
  <2>1. "duration" \in Fields
    BY DEF Fields
  <2> QED
    BY <1>4, <1>5, <2>1, PutHas DEF Onward
<1> HIDE DEF s3
<1>7. HasPut(s4, s3, 4, 6, "addr1")
  <2>1. "addr1" \in Fields
    BY DEF Fields
  <2> QED
    BY <1>6, <2>1, PutHas DEF Onward, HasPut
<1> HIDE DEF s4
<1>8. /\ s1.o = o /\ s2.o = o /\ s3.o = o /\ s4.o = o
      /\ s1.base = base /\ s2.base = base /\ s3.base = base /\ s4.base = base
      /\ s4.ok = s1.ok /\ s3.ok = s1.ok /\ IsWriter(s4)
  BY <1>3, <1>4, <1>6, <1>7 DEF Onward, HasPut
<1> SUFFICES ASSUME t.ok
             PROVE  /\ IsFine(t) /\ o.val.addr1 # Unset
                    /\ t.b.end = s.b.end + HeadLength(o) /\ HeadAt(t.b, o, base)
  BY <1>1, <1>2
<1>9. s4.ok
  <2>1. CASE s4.o.val.addr2 = Unset
    BY <2>1 DEF PutSource
  <2>2. CASE s4.o.val.addr2 # Unset
    BY <1>8, <2>2, PutOne DEF PutSource
  <2> QED
    BY <2>1, <2>2
<1>10. /\ IsFine(s1) /\ IsFine(s2) /\ IsFine(s3) /\ IsFine(s4) /\ o.val.addr1 # Unset
       /\ s4.b.end = s.b.end + 10 /\ base \in Nat
  <2>1. /\ IsFine(s1) /\ IsFine(s2) /\ IsFine(s3) /\ IsFine(s4) /\ o.val.addr1 # Unset /\ base \in Nat
    BY <1>3, <1>5, <1>6, <1>7, <1>8, <1>9 DEF HasPut, IsFine
  <2>2. s2.b.end = s.b.end + 2 /\ s3.b.end = s2.b.end + 2 /\ s4.b.end = s3.b.end + 6
    BY <1>3, <1>5, <1>6, <1>7, <1>8, <1>9 DEF HasPut
  <2>3. s.b.end \in Nat
    BY <1>3, <2>1 DEF IsFine
  <2> QED
    BY <2>1, <2>2, <2>3
<1>11. /\ Holds(s4.b, base, 2, "fc", o.fc)
       /\ Holds(s4.b, base + 2, 2, "duration", o.val["duration"])
       /\ Holds(s4.b, base + 4, 6, "addr1", o.val["addr1"])
  <2>1. Holds(s2.b, base, 2, "fc", o.fc)
    BY <1>5, <1>8, <1>9
  <2>2. Holds(s3.b, base + 2, 2, "duration", o.val["duration"]) /\ Kept(s3.b, s2.b, base + 2)
    BY <1>6, <1>8, <1>9 DEF HasPut
  <2>3. Holds(s4.b, base + 4, 6, "addr1", o.val["addr1"]) /\ Kept(s4.b, s3.b, base + 4)
    BY <1>7, <1>8, <1>9 DEF HasPut
  <2>4. Kept(s3.b, s2.b, base + 2) /\ Holds(s3.b, base, 2, "fc", o.fc)
    BY <1>10, <2>1, <2>2 DEF Kept
  <2>5. base + 2 \in Nat /\ base + 2 <= base + 4 /\ (base + 2) + 2 <= base + 4 /\ 2 \in Nat \ {0}
    BY <1>10
  <2> QED
    BY <1>10, <2>2, <2>3, <2>4, <2>5 DEF Kept
<1>12. CASE o.val.addr2 = Unset
  <2>1. t = s4
    BY <1>8, <1>12 DEF PutSource
  <2> HIDE DEF t
  <2> QED
    BY <1>10, <1>11, <1>12, <2>1 DEF HeadAt, HeadLength
<1>13. CASE o.val.addr2 # Unset
  <2>1. t = Put(s4, 10, 6, "addr2")
    BY <1>8, <1>13 DEF PutSource
  <2>2. HasPut(t, s4, 10, 6, "addr2")
    <3> HIDE DEF t
    <3> QED
      BY <1>8, <1>10, <1>13, <2>1, PutHas, FieldsAre
  <2> HIDE DEF t
  <2>3. IsFine(t) /\ t.b.end = s4.b.end + 6 /\ Holds(t.b, base + 10, 6, "addr2", o.val["addr2"])
        /\ Kept(t.b, s4.b, base + 10)
    BY <1>8, <2>2 DEF HasPut
  <2>4. t.b.end = s.b.end + HeadLength(o)
    <3>1. s.b.end \in Nat
      BY <1>3, <1>10 DEF IsFine
    <3> QED
      BY <1>10, <1>13, <2>3, <3>1 DEF HeadLength
  <2>5. /\ base + 2 \in Nat /\ base + 4 \in Nat /\ base + 2 <= base + 10 /\ (base + 2) + 2 <= base + 10
        /\ (base + 4) + 6 <= base + 10 /\ 2 \in Nat \ {0} /\ 6 \in Nat \ {0}
    BY <1>10
  <2>6. /\ Holds(t.b, base, 2, "fc", o.fc)
        /\ Holds(t.b, base + 2, 2, "duration", o.val["duration"])
        /\ Holds(t.b, base + 4, 6, "addr1", o.val["addr1"])
    BY <1>10, <1>11, <2>3, <2>5 DEF Kept
  <2> QED
    BY <1>10, <2>3, <2>4, <2>6 DEF HeadAt
<1> QED
  BY <1>12, <1>13

LEMMA ThirdHas ==
  ASSUME NEW s, IsWriter(s), s.ok => IsFine(s)
  PROVE  LET t == PutThird(s) IN
         /\ Onward(t, s)
         /\ t.ok => /\ IsFine(t) /\ s.o.val.addr3 # Unset /\ t.b.end = s.b.end + 8
                    /\ ThirdAt(t.b, s.o, s.base) /\ Kept(t.b, s.b, s.base + 16)
<1> DEFINE o == s.o
           base == s.base
           s1 == Need(s, s.o.val.addr3 # Unset)
           s2 == Put(s1, 16, 6, "addr3")
           t == Put(s2, 22, 2, "seqcntl")
<1>1. PutThird(s) = t /\ Onward(t, s)
  BY ThirdOnward DEF PutThird
<1>2. /\ Onward(s1, s) /\ s1.b = s.b /\ (s1.ok => s.ok /\ o.val.addr3 # Unset /\ IsFine(s1))
  BY NeedHas, Zenon
<1> HIDE DEF s1
<1>3. HasPut(s2, s1, 16, 6, "addr3")
  <2>1. "addr3" \in Fields /\ "addr3" # "addr2"
    BY DEF Fields
  <2>2. IsWriter(s1) /\ (s1.ok => IsFine(s1))
    BY <1>2 DEF Onward
  <2> HIDE DEF t, s2
  <2> QED
    BY <2>1, <2>2, PutHas DEF s2
<1> HIDE DEF s2
<1>4. HasPut(t, s2, 22, 2, "seqcntl")
  <2>1. "seqcntl" \in Fields /\ "seqcntl" # "addr2"
    BY DEF Fields
  <2>2. IsWriter(s2) /\ (s2.ok => IsFine(s2))
    BY <1>3 DEF Onward, HasPut
  <2> HIDE DEF t
  <2> QED
    BY <2>1, <2>2, PutHas DEF t
<1> HIDE DEF t
<1> SUFFICES ASSUME t.ok
             PROVE  /\ IsFine(t) /\ o.val.addr3 # Unset /\ t.b.end = s.b.end + 8
                    /\ ThirdAt(t.b, o, base) /\ Kept(t.b, s.b, base + 16)
  BY <1>1 DEF t
<1>5. /\ s1.o = o /\ s2.o = o /\ s1.base = base /\ s2.base = base /\ s1.ok /\ s2.ok
      /\ IsFine(s1) /\ IsFine(s2) /\ IsFine(t) /\ o.val.addr3 # Unset
  BY <1>2, <1>3, <1>4 DEF Onward, HasPut
<1>6. /\ Holds(s2.b, base + 16, 6, "addr3", o.val["addr3"]) /\ Kept(s2.b, s.b, base + 16)
      /\ s2.b.end = s.b.end + 6 /\ t.b.end = s2.b.end + 2
      /\ Holds(t.b, base + 22, 2, "seqcntl", o.val["seqcntl"]) /\ Kept(t.b, s2.b, base + 22)
  BY <1>2, <1>3, <1>4, <1>5 DEF HasPut
<1>7. base \in Nat /\ s.b.end \in Nat
  BY <1>2, <1>5 DEF IsFine
<1>8. /\ base + 16 \in Nat /\ (base + 16) + 6 <= base + 22 /\ 6 \in Nat \ {0}
      /\ base + 22 \in Int /\ base + 16 \in Int /\ base + 16 <= base + 22
  BY <1>7
<1>9. Holds(t.b, base + 16, 6, "addr3", o.val["addr3"])
  BY <1>6, <1>8 DEF Kept
<1>10. Kept(t.b, s.b, base + 16)
  BY <1>6, <1>8, KeptOn
<1> QED
  BY <1>5, <1>6, <1>7, <1>9, <1>10 DEF ThirdAt

LEMMA ManagementHas ==
  ASSUME NEW s, IsWriter(s), s.ok => IsFine(s), s.o.val.addr2 = Unset => s.o.val.addr3 = Unset
  PROVE  LET t == ManagementAssemble(s) IN
         /\ Onward(t, s)
         /\ t.ok => /\ IsFine(t) /\ t.b.end = s.b.end + 24 /\ s.o.fc.type = Mgmt
                    /\ s.o.val.addr1 # Unset /\ s.o.val.addr2 # Unset /\ s.o.val.addr3 # Unset
                    /\ HeadAt(t.b, s.o, s.base) /\ ThirdAt(t.b, s.o, s.base)
<1> DEFINE o == s.o
           s1 == Need(s, s.o.fc.type = Mgmt)
           s2 == FrameAssemble(s1)
           t == PutThird(s2)
<1>1. ManagementAssemble(s) = t /\ Onward(t, s)
  BY ManagementOnward DEF ManagementAssemble
<1>2. /\ Onward(s1, s) /\ s1.b = s.b /\ (s1.ok => s.ok /\ o.fc.type = Mgmt /\ IsFine(s1))
  BY NeedHas, Zenon
<1> HIDE DEF s1
<1>3. /\ Onward(s2, s1)
      /\ s2.ok => /\ IsFine(s2) /\ s1.o.val.addr1 # Unset
                  /\ s2.b.end = s1.b.end + HeadLength(s1.o) /\ HeadAt(s2.b, s1.o, s1.base)
  BY <1>2, FrameHas DEF Onward
<1> HIDE DEF s2
<1>4. /\ Onward(t, s2)
      /\ t.ok => /\ IsFine(t) /\ s2.o.val.addr3 # Unset /\ t.b.end = s2.b.end + 8
                 /\ ThirdAt(t.b, s2.o, s2.base) /\ Kept(t.b, s2.b, s2.base + 16)
  BY <1>3, ThirdHas DEF Onward
<1> HIDE DEF t
<1> SUFFICES ASSUME t.ok
             PROVE  /\ IsFine(t) /\ t.b.end = s.b.end + 24 /\ o.fc.type = Mgmt
                    /\ o.val.addr1 # Unset /\ o.val.addr2 # Unset /\ o.val.addr3 # Unset
                    /\ HeadAt(t.b, o, s.base) /\ ThirdAt(t.b, o, s.base)
  BY <1>1 DEF t
<1>5. /\ s1.o = o /\ s2.o = o /\ s1.base = s.base /\ s2.base = s.base /\ s1.ok /\ s2.ok
      /\ s.base \in Nat /\ s.b.end \in Nat
  BY <1>2, <1>3, <1>4 DEF Onward, IsFine
<1>6. o.val.addr3 # Unset /\ o.val.addr2 # Unset
  BY <1>4, <1>5
<1>7. t.b.end = s.b.end + 24
  BY <1>2, <1>3, <1>4, <1>5, <1>6 DEF HeadLength
<1>8. HeadAt(t.b, o, s.base)
  BY <1>3, <1>4, <1>5, HeadKept
<1> QED
  BY <1>2, <1>3, <1>4, <1>5, <1>6, <1>7, <1>8

(***************************************************************************)
(* Fields that follow each other, at most three, and how far from the      *)
(* first each of them is.                                                  *)
(***************************************************************************)
AreParts(q) ==
  /\ q \in Seq(Fields \X (Nat \ {0})) /\ Len(q) <= 3
  /\ \A i, j \in DOMAIN q : q[i][1] = q[j][1] => i = j
  /\ \A i \in DOMAIN q : q[i][1] # "addr2"

Skip(q, i) ==
  CASE i = 1 -> 0
    [] i = 2 -> q[1][2]
    [] i = 3 -> q[1][2] + q[2][2]
    [] OTHER -> q[1][2] + q[2][2] + q[3][2]

Length(q) == Skip(q, Len(q) + 1)

LEMMA PartsKnown ==
  ASSUME NEW q, AreParts(q)
  PROVE  /\ Len(q) \in 0 .. 3 /\ DOMAIN q = 1 .. Len(q)
         /\ \A i \in 1 .. Len(q) : q[i][1] \in Fields /\ q[i][2] \in Nat \ {0} /\ q[i][1] # "addr2"
         /\ \A i \in 1 .. Len(q) : Skip(q, i) \in Nat /\ Skip(q, i + 1) = Skip(q, i) + q[i][2]
         /\ Length(q) \in Nat
         /\ Skip(q, 1) = 0
<1>1. Len(q) \in 0 .. 3 /\ DOMAIN q = 1 .. Len(q)
  <2>1. Len(q) \in Nat /\ DOMAIN q = 1 .. Len(q) /\ Len(q) <= 3
    <3> DEFINE S == Fields \X (Nat \ {0})
    <3>1. q \in Seq(S) /\ Len(q) <= 3
      BY DEF AreParts
    <3> HIDE DEF S
    <3> QED
      BY <3>1, LenProperties
  <2> QED
    BY <2>1
<1>2. \A i \in 1 .. Len(q) : q[i][1] \in Fields /\ q[i][2] \in Nat \ {0} /\ q[i][1] # "addr2"
  <2>1. \A i \in 1 .. Len(q) : q[i] \in Fields \X (Nat \ {0})
    BY <1>1, ElementOfSeq DEF AreParts
  <2>2. \A x \in Fields \X (Nat \ {0}) : x[1] \in Fields /\ x[2] \in Nat \ {0}
    OBVIOUS
  <2> QED
    BY <1>1, <2>1, <2>2, Zenon DEF AreParts
<1>3. Skip(q, 1) = 0 /\ Skip(q, 2) = q[1][2] /\ Skip(q, 3) = q[1][2] + q[2][2]
      /\ Skip(q, 4) = q[1][2] + q[2][2] + q[3][2]
  BY DEF Skip
<1>4. /\ 1 <= Len(q) => q[1][2] \in Nat
      /\ 2 <= Len(q) => q[2][2] \in Nat
      /\ 3 <= Len(q) => q[3][2] \in Nat
  BY <1>1, <1>2
<1>5. ASSUME NEW i \in 1 .. Len(q)
      PROVE  Skip(q, i) \in Nat /\ Skip(q, i + 1) = Skip(q, i) + q[i][2] /\ Skip(q, i + 1) \in Nat
  <2>1. i \in {1, 2, 3} /\ i <= Len(q)
    BY <1>1
  <2>2. CASE i = 1
    <3>1. q[1][2] \in Nat
      BY <1>1, <1>4, <2>1, <2>2
    <3> QED
      BY <1>3, <2>2, <3>1
  <2>3. CASE i = 2
    <3>1. q[1][2] \in Nat /\ q[2][2] \in Nat
      BY <1>1, <1>4, <2>1, <2>3
    <3> QED
      BY <1>3, <2>3, <3>1
  <2>4. CASE i = 3
    <3>1. q[1][2] \in Nat /\ q[2][2] \in Nat /\ q[3][2] \in Nat
      BY <1>1, <1>4, <2>1, <2>4
    <3> QED
      BY <1>3, <2>4, <3>1
  <2> QED
    BY <2>1, <2>2, <2>3, <2>4
<1>6. Length(q) \in Nat
  <2>1. CASE Len(q) = 0
    BY <1>3, <2>1 DEF Length
  <2>2. CASE Len(q) # 0
    <3>1. Len(q) \in 1 .. Len(q)
      BY <1>1, <2>2
    <3> QED
      BY <1>5, <3>1 DEF Length
  <2> QED
    BY <2>1, <2>2
<1> QED
  BY <1>1, <1>2, <1>3, <1>5, <1>6, Zenon

\* b has become c by fields of o, w octets behind it.
Grown(c, b, o, w) ==
  /\ IsBuffer(c) /\ c.end \in Nat /\ c.end = b.end + w
  /\ Only(c, o) /\ NoTags(c) /\ Kept(c, b, b.end)

LEMMA OneGrown ==
  ASSUME NEW b, NEW c, NEW o, NEW w \in Nat, b.end \in Nat, Grown(c, b, o, w),
         NEW f \in Fields, f # "addr2", NEW u \in Nat \ {0}
  PROVE  /\ Grown(Write(c, c.end, u, f, o.val[f]), b, o, w + u)
         /\ Holds(Write(c, c.end, u, f, o.val[f]), b.end + w, u, f, o.val[f])
         /\ Kept(Write(c, c.end, u, f, o.val[f]), c, b.end + w)
<1> DEFINE d == Write(c, c.end, u, f, o.val[f])
<1>1. IsBuffer(c) /\ c.end \in Nat /\ c.end = b.end + w /\ Only(c, o) /\ NoTags(c) /\ Kept(c, b, b.end)
  BY DEF Grown
<1>2. IsBuffer(d) /\ d.end = c.end + u /\ Holds(d, c.end, u, f, o.val[f])
  BY <1>1, Written
<1>3. Only(d, o) /\ NoTags(d)
  BY <1>1, OnlyWritten
<1>4. Kept(d, c, c.end)
  BY <1>1, WriteKept
<1> HIDE DEF d
<1>5. Kept(d, b, b.end)
  <2>1. b.end \in Int /\ c.end \in Int /\ b.end <= c.end
    BY <1>1
  <2> QED
    BY <1>1, <1>4, <2>1, KeptOn
<1>6. d.end \in Nat /\ d.end = b.end + (w + u)
  BY <1>1, <1>2
<1> QED
  BY <1>1, <1>2, <1>3, <1>4, <1>5, <1>6 DEF Grown, d

LEMMA NextGrown ==
  ASSUME NEW b, NEW o, NEW q, AreParts(q), Grown(b, b, o, 0)
  PROVE  /\ Grown(WriteNext(b, q, o.val), b, o, Length(q))
         /\ \A i \in DOMAIN q :
              Holds(WriteNext(b, q, o.val), b.end + Skip(q, i), q[i][2], q[i][1], o.val[q[i][1]])
<1> DEFINE do(c, i) == IF i \in DOMAIN q THEN Write(c, c.end, q[i][2], q[i][1], o.val[q[i][1]]) ELSE c
           c1 == do(b, 1)
           c2 == do(c1, 2)
           c3 == do(c2, 3)
           c4 == do(c3, 4)
<1>1. WriteNext(b, q, o.val) = c4
  BY DEF WriteNext, InTurn
<1>2. /\ Len(q) \in 0 .. 3 /\ DOMAIN q = 1 .. Len(q)
      /\ \A i \in 1 .. Len(q) : q[i][1] \in Fields /\ q[i][2] \in Nat \ {0} /\ q[i][1] # "addr2"
      /\ \A i \in 1 .. Len(q) : Skip(q, i) \in Nat /\ Skip(q, i + 1) = Skip(q, i) + q[i][2]
      /\ Skip(q, 1) = 0
  BY PartsKnown, Zenon
<1>3. b.end \in Nat
  BY DEF Grown
<1>4. ASSUME NEW c, NEW i \in DOMAIN q, Grown(c, b, o, Skip(q, i))
      PROVE  /\ Grown(do(c, i), b, o, Skip(q, i + 1))
             /\ Holds(do(c, i), b.end + Skip(q, i), q[i][2], q[i][1], o.val[q[i][1]])
             /\ Kept(do(c, i), c, b.end + Skip(q, i))
  <2>1. do(c, i) = Write(c, c.end, q[i][2], q[i][1], o.val[q[i][1]])
    OBVIOUS
  <2>2. /\ q[i][1] \in Fields /\ q[i][2] \in Nat \ {0} /\ q[i][1] # "addr2"
        /\ Skip(q, i) \in Nat /\ Skip(q, i + 1) = Skip(q, i) + q[i][2]
    BY <1>2
  <2> HIDE DEF do
  <2> DEFINE u == q[i][2]  f == q[i][1]  w == Skip(q, i)
  <2> HIDE DEF u, f, w
  <2>3. f \in Fields /\ u \in Nat \ {0} /\ f # "addr2" /\ w \in Nat /\ Grown(c, b, o, w)
    BY <1>4, <2>2 DEF u, f, w
  <2>4. /\ Grown(Write(c, c.end, u, f, o.val[f]), b, o, w + u)
        /\ Holds(Write(c, c.end, u, f, o.val[f]), b.end + w, u, f, o.val[f])
        /\ Kept(Write(c, c.end, u, f, o.val[f]), c, b.end + w)
    BY <1>3, <2>3, OneGrown
  <2> QED
    BY <2>1, <2>2, <2>4 DEF u, f, w
<1>5. \A c, i : i \notin DOMAIN q => do(c, i) = c
  OBVIOUS
<1> HIDE DEF do
<1>6. CASE Len(q) = 0
  <2>1. c4 = b
    BY <1>2, <1>5, <1>6
  <2> QED
    BY <1>1, <1>2, <1>6, <2>1 DEF Length
<1>7. CASE Len(q) = 1
  <2>1. c4 = c1
    BY <1>2, <1>5, <1>7
  <2>2. 1 \in DOMAIN q
    BY <1>2, <1>7
  <2>3. Grown(c1, b, o, Skip(q, 2)) /\ Holds(c1, b.end + Skip(q, 1), q[1][2], q[1][1], o.val[q[1][1]])
    BY <1>2, <1>4, <2>2
  <2> HIDE DEF c4, c1
  <2>4. \A i \in DOMAIN q : i = 1
    BY <1>2, <1>7
  <2> QED
    BY <1>1, <1>7, <2>1, <2>3, <2>4 DEF Length
<1>8. CASE Len(q) = 2
  <2>1. c4 = c2
    BY <1>2, <1>5, <1>8
  <2>2. 1 \in DOMAIN q /\ 2 \in DOMAIN q
    BY <1>2, <1>8
  <2>3. Grown(c1, b, o, Skip(q, 2)) /\ Holds(c1, b.end + Skip(q, 1), q[1][2], q[1][1], o.val[q[1][1]])
    BY <1>2, <1>4, <2>2
  <2> HIDE DEF c4, c1
  <2>4. /\ Grown(c2, b, o, Skip(q, 3)) /\ Holds(c2, b.end + Skip(q, 2), q[2][2], q[2][1], o.val[q[2][1]])
        /\ Kept(c2, c1, b.end + Skip(q, 2))
    BY <1>4, <2>2, <2>3
  <2> HIDE DEF c2
  <2>5. Holds(c2, b.end + Skip(q, 1), q[1][2], q[1][1], o.val[q[1][1]])
    <3>1. /\ b.end + Skip(q, 1) \in Nat /\ q[1][2] \in Nat \ {0}
          /\ (b.end + Skip(q, 1)) + q[1][2] <= b.end + Skip(q, 2)
      BY <1>2, <1>3, <2>2
    <3> QED
      BY <2>3, <2>4, <3>1 DEF Kept
  <2>6. \A i \in DOMAIN q : i = 1 \/ i = 2
    BY <1>2, <1>8
  <2> QED
    BY <1>1, <1>8, <2>1, <2>4, <2>5, <2>6 DEF Length
<1>9. CASE Len(q) = 3
  <2>1. c4 = c3
    BY <1>2, <1>5, <1>9
  <2>2. 1 \in DOMAIN q /\ 2 \in DOMAIN q /\ 3 \in DOMAIN q
    BY <1>2, <1>9
  <2>3. Grown(c1, b, o, Skip(q, 2)) /\ Holds(c1, b.end + Skip(q, 1), q[1][2], q[1][1], o.val[q[1][1]])
    BY <1>2, <1>4, <2>2
  <2> HIDE DEF c4, c1
  <2>4. /\ Grown(c2, b, o, Skip(q, 3)) /\ Holds(c2, b.end + Skip(q, 2), q[2][2], q[2][1], o.val[q[2][1]])
        /\ Kept(c2, c1, b.end + Skip(q, 2))
    BY <1>4, <2>2, <2>3
  <2> HIDE DEF c2
  <2>5. /\ Grown(c3, b, o, Skip(q, 4)) /\ Holds(c3, b.end + Skip(q, 3), q[3][2], q[3][1], o.val[q[3][1]])
        /\ Kept(c3, c2, b.end + Skip(q, 3))
    BY <1>4, <2>2, <2>4
  <2> HIDE DEF c3
  <2>6. /\ b.end + Skip(q, 1) \in Nat /\ q[1][2] \in Nat \ {0}
        /\ (b.end + Skip(q, 1)) + q[1][2] <= b.end + Skip(q, 2)
        /\ (b.end + Skip(q, 1)) + q[1][2] <= b.end + Skip(q, 3)
        /\ b.end + Skip(q, 2) \in Nat /\ q[2][2] \in Nat \ {0}
        /\ (b.end + Skip(q, 2)) + q[2][2] <= b.end + Skip(q, 3)
    <3>1. /\ Skip(q, 1) = 0 /\ Skip(q, 1) \in Nat /\ q[1][2] \in Nat \ {0} /\ Skip(q, 1 + 1) = Skip(q, 1) + q[1][2]
      BY <1>2, <2>2
    <3>2. /\ Skip(q, 2) \in Nat /\ q[2][2] \in Nat \ {0} /\ Skip(q, 2 + 1) = Skip(q, 2) + q[2][2]
      BY <1>2, <2>2
    <3>3. Skip(q, 2) = q[1][2] /\ Skip(q, 3) = Skip(q, 2) + q[2][2]
      BY <3>1, <3>2
    <3> HIDE <1>2
    <3> QED
      BY <1>3, <3>1, <3>2, <3>3
  <2>7. Holds(c3, b.end + Skip(q, 1), q[1][2], q[1][1], o.val[q[1][1]])
    <3>1. Holds(c2, b.end + Skip(q, 1), q[1][2], q[1][1], o.val[q[1][1]])
      BY <2>3, <2>4, <2>6 DEF Kept
    <3> QED
      BY <2>5, <2>6, <3>1 DEF Kept
  <2>8. Holds(c3, b.end + Skip(q, 2), q[2][2], q[2][1], o.val[q[2][1]])
    BY <2>4, <2>5, <2>6 DEF Kept
  <2>9. \A i \in DOMAIN q : i = 1 \/ i = 2 \/ i = 3
    BY <1>2, <1>9
  <2> QED
    BY <1>1, <1>9, <2>1, <2>5, <2>7, <2>8, <2>9 DEF Length
<1> QED
  BY <1>2, <1>6, <1>7, <1>8, <1>9

LEMMA NextHas ==
  ASSUME NEW s, IsWriter(s), s.ok => IsFine(s), NEW q, AreParts(q)
  PROVE  LET t == PutNext(s, q) IN
         /\ Onward(t, s) /\ t.ok = s.ok
         /\ t.ok => /\ IsFine(t) /\ t.b.end = s.b.end + Length(q) /\ Kept(t.b, s.b, s.b.end)
                    /\ \A i \in DOMAIN q :
                         Holds(t.b, s.b.end + Skip(q, i), q[i][2], q[i][1], s.o.val[q[i][1]])
<1> DEFINE t == PutNext(s, q)
<1>1. Onward(t, s) /\ t.ok = s.ok /\ (t.ok => t.b = WriteNext(s.b, q, s.o.val))
  BY PutNextOne
<1> HIDE DEF t
<1> SUFFICES ASSUME t.ok
             PROVE  /\ IsFine(t) /\ t.b.end = s.b.end + Length(q) /\ Kept(t.b, s.b, s.b.end)
                    /\ \A i \in DOMAIN q :
                         Holds(t.b, s.b.end + Skip(q, i), q[i][2], q[i][1], s.o.val[q[i][1]])
  BY <1>1 DEF t
<1>2. IsFine(s)
  BY <1>1
<1>3. Grown(s.b, s.b, s.o, 0)
  <2>1. Kept(s.b, s.b, s.b.end)
    BY DEF Kept
  <2> QED
    BY <1>2, <2>1 DEF Grown, IsFine
<1>4. /\ Grown(t.b, s.b, s.o, Length(q))
      /\ \A i \in DOMAIN q :
           Holds(t.b, s.b.end + Skip(q, i), q[i][2], q[i][1], s.o.val[q[i][1]])
  BY <1>1, <1>3, NextGrown
<1>5. IsFine(t)
  BY <1>1, <1>2, <1>4 DEF IsFine, Onward, Grown
<1> QED
  BY <1>4, <1>5 DEF Grown

LEMMA HeadKeptTo ==
  ASSUME NEW b, NEW c, NEW o, NEW base \in Nat, HeadAt(b, o, base), Kept(c, b, base + HeadLength(o))
  PROVE  HeadAt(c, o, base)
<1>1. /\ base \in Nat /\ base + 2 \in Nat /\ base + 4 \in Nat /\ base + 10 \in Nat
      /\ base + 2 <= base + 10 /\ (base + 2) + 2 <= base + 10 /\ (base + 4) + 6 <= base + 10
      /\ (base + 10) + 6 <= base + 16 /\ base + 10 <= base + 16
      /\ 2 \in Nat \ {0} /\ 6 \in Nat \ {0} /\ base + 10 \in Int /\ base + 16 \in Int
  OBVIOUS
<1>2. CASE o.val.addr2 = Unset
  <2>1. Kept(c, b, base + 10)
    BY <1>2 DEF HeadLength
  <2> QED
    BY <1>1, <1>2, <2>1 DEF HeadAt, Kept
<1>3. CASE o.val.addr2 # Unset
  <2>1. Kept(c, b, base + 16)
    BY <1>3 DEF HeadLength
  <2> QED
    BY <2>1, HeadKept
<1> QED
  BY <1>2, <1>3

-----------------------------------------------------------------------------
(***************************************************************************)
(* Control frames and data frames.                                         *)
(***************************************************************************)
LlcPart == << <<"llc", 8>> >>
PayloadPart == <<"payload", PayloadLength>>

\* A payload, if there is one, behind place edge and what goes before it.
PayloadAt(b, o, edge, header) ==
  IF o.val.payload = Unset THEN b.end = edge
  ELSE /\ b.end = edge + Length(header) + 4
       /\ header = LlcPart => Holds(b, edge, 8, "llc", o.val["llc"])
       /\ Holds(b, edge + Length(header), 4, "payload", o.val["payload"])

LEMMA HeadersAre ==
  /\ Len(<< >>) = 0 /\ Length(<< >>) = 0 /\ AreParts(Append(<< >>, PayloadPart))
  /\ Length(LlcPart) = 8 /\ AreParts(Append(LlcPart, PayloadPart))
  /\ Len(Append(<< >>, PayloadPart)) = 1 /\ Append(<< >>, PayloadPart)[1] = PayloadPart
  /\ Len(Append(LlcPart, PayloadPart)) = 2 /\ Append(LlcPart, PayloadPart)[2] = PayloadPart
  /\ Append(LlcPart, PayloadPart)[1] = <<"llc", 8>>
  /\ Length(Append(<< >>, PayloadPart)) = 4 /\ Length(Append(LlcPart, PayloadPart)) = 12
<1>1. "llc" \in Fields /\ "payload" \in Fields
  BY DEF Fields
<1> DEFINE S == Fields \X (Nat \ {0})
<1>2. <<"llc", 8>> \in S /\ PayloadPart \in S
  BY <1>1 DEF PayloadPart, PayloadLength
<1>3. << >> \in Seq(S) /\ LlcPart \in Seq(S) /\ Len(<< >>) = 0 /\ Len(LlcPart) = 1 /\ LlcPart[1] = <<"llc", 8>>
  BY <1>2 DEF LlcPart
<1> HIDE DEF S
<1> DEFINE p == Append(<< >>, PayloadPart)
           q == Append(LlcPart, PayloadPart)
<1>4. /\ p \in Seq(S) /\ Len(p) = 1 /\ p[1] = PayloadPart /\ DOMAIN p = 1 .. 1
      /\ q \in Seq(S) /\ Len(q) = 2 /\ q[1] = <<"llc", 8>> /\ q[2] = PayloadPart /\ DOMAIN q = 1 .. 2
  <2>1. p \in Seq(S) /\ Len(p) = 1 /\ p[1] = PayloadPart /\ DOMAIN p = 1 .. 1
    <3>1. \A e : e = << >> => Len(e) = 0 /\ e \in Seq(S)
      BY <1>3
    <3> DEFINE e == << >>
    <3>2. e \in Seq(S) /\ Len(e) = 0 /\ p = Append(e, PayloadPart)
      BY <3>1
    <3> HIDE DEF e, p
    <3>3. p \in Seq(S) /\ Len(p) = 0 + 1 /\ p[0 + 1] = PayloadPart /\ DOMAIN p = 1 .. 0 + 1
      BY <1>2, <3>2, AppendProperties, LenProperties
    <3> QED
      BY <3>3
  <2>2. q \in Seq(S) /\ Len(q) = 2 /\ q[1] = <<"llc", 8>> /\ q[2] = PayloadPart /\ DOMAIN q = 1 .. 2
    <3>1. q \in Seq(S) /\ Len(q) = 1 + 1 /\ q[1 + 1] = PayloadPart /\ DOMAIN q = 1 .. 1 + 1
      <4> DEFINE e == LlcPart
      <4>1. e \in Seq(S) /\ Len(e) = 1 /\ q = Append(e, PayloadPart)
        BY <1>3
      <4> HIDE DEF e, q
      <4> QED
        <5>1. q \in Seq(S) /\ Len(q) = Len(e) + 1 /\ q[Len(e) + 1] = PayloadPart
          BY <1>2, <4>1, AppendProperties
        <5>2. DOMAIN q = 1 .. Len(q)
          BY <5>1, LenProperties
        <5> QED
          BY <4>1, <5>1, <5>2
    <3>2. 1 \in 1 .. Len(LlcPart)
      BY <1>3
    <3>3. q[1] = LlcPart[1]
      BY <1>2, <1>3, <3>2, AppendProperties
    <3> HIDE DEF q
    <3> QED
      BY <1>3, <3>1, <3>3
  <2> QED
    BY <2>1, <2>2
<1> HIDE DEF p, q
<1>5. PayloadPart[1] = "payload" /\ PayloadPart[2] = 4 /\ <<"llc", 8>>[1] = "llc" /\ <<"llc", 8>>[2] = 8
  BY DEF PayloadPart, PayloadLength
<1>6. AreParts(p)
  BY <1>4, <1>5 DEF AreParts, S
<1>7. AreParts(q)
  <2>1. \A i \in DOMAIN q : i = 1 \/ i = 2
    BY <1>4
  <2>2. q[1][1] = "llc" /\ q[2][1] = "payload"
    BY <1>4, <1>5
  <2> QED
    BY <1>4, <2>1, <2>2 DEF AreParts, S
<1>8. Length(<< >>) = 0 /\ Length(LlcPart) = 8 /\ Length(p) = 4 /\ Length(q) = 12
  <2>1. \A x : /\ Len(x) = 0 => Length(x) = 0
               /\ Len(x) = 1 => Length(x) = x[1][2]
               /\ Len(x) = 2 => Length(x) = x[1][2] + x[2][2]
    BY DEF Length, Skip
  <2>2. q[1][2] = 8 /\ q[2][2] = 4 /\ p[1][2] = 4 /\ LlcPart[1][2] = 8
    BY <1>3, <1>4, <1>5
  <2> QED
    BY <1>3, <1>4, <2>1, <2>2
<1> QED
  BY <1>3, <1>4, <1>6, <1>7, <1>8 DEF p, q

LEMMA PayloadHas ==
  ASSUME NEW s, IsWriter(s), s.ok => IsFine(s), NEW header \in {<< >>, LlcPart}
  PROVE  LET t == PutPayload(s, header) IN
         /\ Onward(t, s)
         /\ t.ok => /\ IsFine(t) /\ Kept(t.b, s.b, s.b.end)
                    /\ PayloadAt(t.b, s.o, s.b.end, header)
<1> DEFINE t == PutPayload(s, header)
           q == Append(header, PayloadPart)
<1>1. Onward(t, s)
  BY PayloadOnward
<1>2. CASE s.o.val.payload = Unset
  <2>1. t = s
    BY <1>2 DEF PutPayload
  <2>2. Kept(s.b, s.b, s.b.end)
    BY DEF Kept
  <2> HIDE DEF t
  <2> QED
    BY <1>1, <1>2, <2>1, <2>2 DEF PayloadAt, t
<1>3. CASE s.o.val.payload # Unset
  <2>1. t = PutNext(s, q)
    BY <1>3 DEF PutPayload, PayloadPart
  <2>2. AreParts(q) /\ Length(q) = Length(header) + 4
    <3>1. \A x, y, z : x = 8 /\ y = 12 => y = x + 4
      OBVIOUS
    <3>2. CASE header = << >>
      BY <3>2, HeadersAre
    <3>3. CASE header = LlcPart
      <4>1. Length(LlcPart) = 8 /\ Length(Append(LlcPart, PayloadPart)) = 12 /\ AreParts(Append(LlcPart, PayloadPart))
        BY HeadersAre
      <4>2. q = Append(LlcPart, PayloadPart)
        BY <3>3
      <4> HIDE DEF q
      <4> QED
        BY <3>3, <4>1, <4>2
    <3> QED
      BY <3>2, <3>3
  <2> HIDE DEF t, q
  <2>3. t.ok => /\ IsFine(t) /\ t.b.end = s.b.end + Length(q) /\ Kept(t.b, s.b, s.b.end)
                /\ \A i \in DOMAIN q :
                     Holds(t.b, s.b.end + Skip(q, i), q[i][2], q[i][1], s.o.val[q[i][1]])
    BY <2>1, <2>2, NextHas
  <2> SUFFICES ASSUME t.ok
               PROVE  /\ IsFine(t) /\ Kept(t.b, s.b, s.b.end)
                      /\ PayloadAt(t.b, s.o, s.b.end, header)
    BY <1>1 DEF t
  <2>4. s.b.end \in Nat
    BY <1>1 DEF Onward, IsFine
  <2>5. DOMAIN q = 1 .. Len(q)
    BY <2>2, PartsKnown
  <2>6. CASE header = << >>
    <3>1. q[1] = PayloadPart /\ 1 \in DOMAIN q /\ Skip(q, 1) = 0 /\ Length(header) = 0 /\ header # LlcPart
      <4>1. Len(<< >>) # Len(LlcPart)
        BY HeadersAre DEF LlcPart
      <4> QED
        BY <2>2, <2>5, <2>6, <4>1, HeadersAre, PartsKnown DEF q
    <3>2. Holds(t.b, s.b.end, 4, "payload", s.o.val["payload"])
      <4>1. PayloadPart[1] = "payload" /\ PayloadPart[2] = 4 /\ s.b.end + 0 = s.b.end
        BY <2>4 DEF PayloadPart, PayloadLength
      <4> QED
        BY <2>3, <3>1, <4>1
    <3>3. s.b.end + Length(header) = s.b.end /\ t.b.end = s.b.end + Length(header) + 4
      BY <2>2, <2>3, <2>4, <3>1
    <3> QED
      BY <1>3, <2>3, <3>1, <3>2, <3>3 DEF PayloadAt
  <2>7. CASE header = LlcPart
    <3>1. /\ q[1] = <<"llc", 8>> /\ q[2] = PayloadPart /\ 1 \in DOMAIN q /\ 2 \in DOMAIN q
          /\ Skip(q, 1) = 0 /\ Skip(q, 2) = 8 /\ Length(header) = 8
      <4>1. q[1] = <<"llc", 8>> /\ q[2] = PayloadPart /\ Len(q) = 2 /\ Length(header) = 8
        BY <2>7, HeadersAre DEF q
      <4>2. 1 \in DOMAIN q /\ 2 \in DOMAIN q
        BY <2>5, <4>1
      <4> QED
        BY <2>2, <4>1, <4>2, PartsKnown DEF Skip
    <3>2. Holds(t.b, s.b.end, 8, "llc", s.o.val["llc"])
      <4>1. q[1][1] = "llc" /\ q[1][2] = 8 /\ s.b.end + 0 = s.b.end
        BY <2>4, <3>1
      <4> QED
        BY <2>3, <3>1, <4>1
    <3>3. Holds(t.b, s.b.end + 8, 4, "payload", s.o.val["payload"])
      <4>1. q[2][1] = "payload" /\ q[2][2] = 4
        BY <3>1 DEF PayloadPart, PayloadLength
      <4> QED
        BY <2>3, <3>1, <4>1
    <3>4. t.b.end = s.b.end + Length(header) + 4
      BY <2>2, <2>3, <2>4, <3>1
    <3> QED
      BY <1>3, <2>3, <3>1, <3>2, <3>3, <3>4 DEF PayloadAt
  <2> QED
    BY <2>6, <2>7
<1> QED
  BY <1>2, <1>3

LEMMA ControlAssembled ==
  ASSUME NEW s, IsWriter(s), IsFine(s), s.b.end = s.base
  PROVE  LET t == ControlAssemble(s) IN
         /\ Onward(t, s)
         /\ t.ok => /\ IsFine(t) /\ s.o.fc.type = Cntl /\ HeadAt(t.b, s.o, s.base)
                    /\ PayloadAt(t.b, s.o, s.base + HeadLength(s.o), << >>)
<1> DEFINE o == s.o
           s1 == Need(s, s.o.fc.type = Cntl)
           s2 == FrameAssemble(s1)
           t == PutPayload(s2, << >>)
<1>1. ControlAssemble(s) = t /\ Onward(t, s)
  BY ControlOnward DEF ControlAssemble
<1>2. /\ Onward(s1, s) /\ s1.b = s.b /\ (s1.ok => s.ok /\ o.fc.type = Cntl /\ IsFine(s1))
  BY NeedHas, Zenon
<1> HIDE DEF s1
<1>3. /\ Onward(s2, s1)
      /\ s2.ok => /\ IsFine(s2) /\ s1.o.val.addr1 # Unset
                  /\ s2.b.end = s1.b.end + HeadLength(s1.o) /\ HeadAt(s2.b, s1.o, s1.base)
  BY <1>2, FrameHas DEF Onward
<1> HIDE DEF s2
<1>4. /\ Onward(t, s2)
      /\ t.ok => /\ IsFine(t) /\ Kept(t.b, s2.b, s2.b.end)
                 /\ PayloadAt(t.b, s2.o, s2.b.end, << >>)
  BY <1>3, PayloadHas DEF Onward
<1> HIDE DEF t
<1> SUFFICES ASSUME t.ok
             PROVE  /\ IsFine(t) /\ o.fc.type = Cntl /\ HeadAt(t.b, o, s.base)
                    /\ PayloadAt(t.b, o, s.base + HeadLength(o), << >>)
  BY <1>1 DEF t
<1>5. /\ s1.o = o /\ s2.o = o /\ s1.base = s.base /\ s2.base = s.base /\ s1.ok /\ s2.ok
      /\ s.base \in Nat
  BY <1>2, <1>3, <1>4 DEF Onward, IsFine
<1>6. s2.b.end = s.base + HeadLength(o)
  BY <1>2, <1>3, <1>5
<1>7. HeadAt(t.b, o, s.base)
  BY <1>3, <1>4, <1>5, <1>6, HeadKeptTo
<1> QED
  BY <1>2, <1>4, <1>5, <1>6, <1>7

\* The octets before the payload of a data frame.
DataLength(o) == 24 + (IF HasQos(o.fc.sub) THEN 2 ELSE 0) + (IF o.fc.ds THEN 6 ELSE 0)

FourthAt(b, o, base) ==
  /\ HasQos(o.fc.sub) /\ ~o.fc.ds => Holds(b, base + 24, 2, "qoscntl", o.val["qoscntl"])
  /\ o.fc.ds => Holds(b, base + 24, 6, "addr4", o.val["addr4"])

LEMMA FourthHas ==
  ASSUME NEW s, IsWriter(s), s.ok => IsFine(s), s.o.fc.ds \in BOOLEAN
  PROVE  LET t == PutFourth(PutQos(s)) IN
         /\ Onward(t, s)
         /\ t.ok => /\ IsFine(t) /\ Kept(t.b, s.b, s.base + 24) /\ FourthAt(t.b, s.o, s.base)
                    /\ t.b.end = s.b.end + (DataLength(s.o) - 24)
<1> DEFINE o == s.o
           s1 == PutQos(s)
           t == PutFourth(s1)
<1>0. {"qoscntl", "addr4"} \subseteq Fields /\ "qoscntl" # "addr2" /\ "addr4" # "addr2"
  BY DEF Fields
<1>1. /\ Onward(s1, s) /\ s1.ok = s.ok
      /\ s1.ok => /\ IsFine(s1) /\ Kept(s1.b, s.b, s.base + 24)
                  /\ HasQos(o.fc.sub) => Holds(s1.b, s.base + 24, 2, "qoscntl", o.val["qoscntl"])
                  /\ s1.b.end = s.b.end + (IF HasQos(o.fc.sub) THEN 2 ELSE 0)
  <2>1. CASE HasQos(o.fc.sub)
    <3>1. s1 = Put(s, 24, 2, "qoscntl")
      BY <2>1 DEF PutQos
    <3>2. HasPut(s1, s, 24, 2, "qoscntl")
      <4> HIDE DEF s1
      <4> QED
        BY <1>0, <3>1, PutHas
    <3> HIDE DEF s1
    <3> QED
      BY <2>1, <3>2 DEF HasPut
  <2>2. CASE ~HasQos(o.fc.sub)
    <3>1. s1 = s
      BY <2>2 DEF PutQos
    <3>2. s.ok => s.b.end + 0 = s.b.end
      BY DEF IsFine
    <3>3. Kept(s.b, s.b, s.base + 24) /\ Onward(s, s)
      BY DEF Kept, Onward
    <3> HIDE DEF s1
    <3> QED
      BY <2>2, <3>1, <3>2, <3>3
  <2> QED
    BY <2>1, <2>2
<1> HIDE DEF s1
<1>2. CASE ~o.fc.ds
  <2>1. t = s1
    BY <1>1, <1>2 DEF PutFourth, Onward
  <2>2. PutFourth(PutQos(s)) = s1
    BY <2>1 DEF s1
  <2>3. t.ok => t.b.end = s.b.end + (DataLength(o) - 24)
    BY <1>1, <1>2, <2>1 DEF DataLength, IsFine
  <2> HIDE DEF t
  <2> QED
    BY <1>1, <1>2, <2>1, <2>2, <2>3 DEF FourthAt
<1>3. CASE o.fc.ds
  <2> DEFINE x == Need(s1, s1.o.val.addr4 # Unset)
             z == Put(x, 24, 6, "addr4")
  <2>1. t = z /\ PutFourth(PutQos(s)) = z
    BY <1>1, <1>3 DEF PutFourth, Onward, s1
  <2>2. Onward(x, s1) /\ x.b = s1.b /\ (x.ok => s1.ok /\ IsFine(x))
    BY <1>1, NeedHas, Zenon DEF Onward
  <2> HIDE DEF x
  <2>3. HasPut(z, x, 24, 6, "addr4")
    BY <1>0, <2>2, PutHas DEF Onward
  <2> HIDE DEF z, t
  <2>4. Onward(z, s)
    BY <1>1, <2>2, <2>3, Onwards DEF HasPut
  <2> SUFFICES ASSUME z.ok
               PROVE  /\ IsFine(z) /\ Kept(z.b, s.b, s.base + 24) /\ FourthAt(z.b, o, s.base)
                      /\ z.b.end = s.b.end + (DataLength(o) - 24)
    BY <2>1, <2>4
  <2>5. x.o = o /\ x.base = s.base /\ x.ok /\ s1.ok /\ s.base \in Nat /\ s.b.end \in Nat
    BY <1>1, <2>2, <2>3 DEF HasPut, Onward, IsFine
  <2>6. IsFine(z) /\ z.b.end = s1.b.end + 6 /\ Holds(z.b, s.base + 24, 6, "addr4", o.val["addr4"])
        /\ Kept(z.b, s1.b, s.base + 24)
    BY <2>2, <2>3, <2>5 DEF HasPut
  <2>7. Kept(z.b, s.b, s.base + 24)
    <3>1. s.base + 24 \in Int /\ s.base + 24 <= s.base + 24
      BY <2>5
    <3> QED
      BY <1>1, <2>5, <2>6, <3>1, KeptOn
  <2>8. z.b.end = s.b.end + (DataLength(o) - 24)
    BY <1>1, <1>3, <2>5, <2>6 DEF DataLength
  <2> QED
    BY <1>3, <2>6, <2>7, <2>8 DEF FourthAt
<1> QED
  BY <1>2, <1>3

LEMMA FourthKept ==
  ASSUME NEW b, NEW c, NEW o, NEW base \in Nat, FourthAt(b, o, base), o.fc.ds \in BOOLEAN,
         Kept(c, b, base + DataLength(o))
  PROVE  FourthAt(c, o, base)
<1>1. /\ base + 24 \in Nat /\ 2 \in Nat \ {0} /\ 6 \in Nat \ {0}
      /\ HasQos(o.fc.sub) /\ ~o.fc.ds => (base + 24) + 2 <= base + DataLength(o)
      /\ o.fc.ds => (base + 24) + 6 <= base + DataLength(o)
  BY DEF DataLength
<1> QED
  BY <1>1 DEF FourthAt, Kept

LEMMA DataAssembled ==
  ASSUME NEW s, IsWriter(s), IsFine(s), s.b.end = s.base, s.o.fc.ds \in BOOLEAN,
         s.o.val.addr2 = Unset => s.o.val.addr3 = Unset
  PROVE  LET t == DataAssemble(s) IN
         /\ Onward(t, s)
         /\ t.ok => /\ IsFine(t) /\ s.o.fc.type = Data /\ s.o.val.addr2 # Unset
                    /\ HeadAt(t.b, s.o, s.base) /\ ThirdAt(t.b, s.o, s.base)
                    /\ FourthAt(t.b, s.o, s.base)
                    /\ PayloadAt(t.b, s.o, s.base + DataLength(s.o), LlcPart)
<1> DEFINE o == s.o
           base == s.base
           s1 == Need(s, s.o.fc.type = Data)
           s2 == FrameAssemble(s1)
           s3 == PutThird(s2)
           s4 == PutFourth(PutQos(s3))
           t == PutPayload(s4, LlcPart)
<1>1. DataAssemble(s) = t /\ Onward(t, s)
  BY DataOnward DEF DataAssemble, LlcPart
<1>2. /\ Onward(s1, s) /\ s1.b = s.b /\ (s1.ok => s.ok /\ o.fc.type = Data /\ IsFine(s1))
  BY NeedHas, Zenon
<1> HIDE DEF s1
<1>3. /\ Onward(s2, s1)
      /\ s2.ok => /\ IsFine(s2) /\ s1.o.val.addr1 # Unset
                  /\ s2.b.end = s1.b.end + HeadLength(s1.o) /\ HeadAt(s2.b, s1.o, s1.base)
  BY <1>2, FrameHas DEF Onward
<1> HIDE DEF s2
<1>4. /\ Onward(s3, s2)
      /\ s3.ok => /\ IsFine(s3) /\ s2.o.val.addr3 # Unset /\ s3.b.end = s2.b.end + 8
                 /\ ThirdAt(s3.b, s2.o, s2.base) /\ Kept(s3.b, s2.b, s2.base + 16)
  BY <1>3, ThirdHas DEF Onward
<1> HIDE DEF s3
<1>5. /\ s1.o = o /\ s2.o = o /\ s3.o = o /\ s1.base = base /\ s2.base = base /\ s3.base = base
      /\ base \in Nat /\ IsWriter(s3)
  BY <1>2, <1>3, <1>4 DEF Onward, IsFine
<1>6. /\ Onward(s4, s3)
      /\ s4.ok => /\ IsFine(s4) /\ Kept(s4.b, s3.b, s3.base + 24) /\ FourthAt(s4.b, s3.o, s3.base)
                  /\ s4.b.end = s3.b.end + (DataLength(s3.o) - 24)
  BY <1>4, <1>5, FourthHas
<1> HIDE DEF s4
<1>7. /\ Onward(t, s4)
      /\ t.ok => /\ IsFine(t) /\ Kept(t.b, s4.b, s4.b.end)
                 /\ PayloadAt(t.b, s4.o, s4.b.end, LlcPart)
  BY <1>6, PayloadHas DEF Onward
<1> HIDE DEF t
<1> SUFFICES ASSUME t.ok
             PROVE  /\ IsFine(t) /\ o.fc.type = Data /\ o.val.addr2 # Unset
                    /\ HeadAt(t.b, o, base) /\ ThirdAt(t.b, o, base) /\ FourthAt(t.b, o, base)
                    /\ PayloadAt(t.b, o, base + DataLength(o), LlcPart)
  BY <1>1 DEF t
<1>8. s1.ok /\ s2.ok /\ s3.ok /\ s4.ok /\ s4.o = o /\ s4.base = base
  BY <1>3, <1>4, <1>5, <1>6, <1>7 DEF Onward
<1>9. o.val.addr2 # Unset
  BY <1>4, <1>5, <1>8
<1>10. DataLength(o) \in Nat /\ 24 <= DataLength(o)
  BY DEF DataLength
<1>11. s4.b.end = base + DataLength(o)
  <2>1. s2.b.end = base + 16
    BY <1>2, <1>3, <1>5, <1>8, <1>9 DEF HeadLength
  <2>2. s3.b.end = base + 24
    BY <1>4, <1>5, <1>8, <2>1
  <2> QED
    BY <1>5, <1>6, <1>8, <1>10, <2>2
<1>12. Kept(t.b, s3.b, base + 24)
  <2>1. base + 24 \in Int /\ s4.b.end \in Int /\ base + 24 <= s4.b.end
    BY <1>5, <1>10, <1>11
  <2>2. Kept(s4.b, s3.b, base + 24) /\ Kept(t.b, s4.b, s4.b.end)
    BY <1>5, <1>6, <1>7, <1>8
  <2> QED
    BY <2>1, <2>2, KeptOn
<1>13. HeadAt(t.b, o, base)
  <2>1. HeadAt(s2.b, o, base) /\ Kept(s3.b, s2.b, base + 16)
    BY <1>3, <1>4, <1>5, <1>8
  <2>2. base + 16 \in Int /\ base + 24 \in Int /\ base + 16 <= base + 24
    BY <1>5
  <2>3. Kept(t.b, s2.b, base + 16)
    BY <1>12, <2>1, <2>2, KeptOn
  <2> QED
    BY <1>5, <2>1, <2>3, HeadKept
<1>14. ThirdAt(t.b, o, base)
  BY <1>4, <1>5, <1>8, <1>12, ThirdKept
<1>15. FourthAt(t.b, o, base)
  <2>1. Kept(t.b, s4.b, base + DataLength(o)) /\ FourthAt(s4.b, o, base)
    BY <1>5, <1>6, <1>7, <1>8, <1>11
  <2> QED
    BY <1>5, <2>1, FourthKept
<1>16. PayloadAt(t.b, o, base + DataLength(o), LlcPart)
  BY <1>7, <1>8, <1>11
<1> QED
  BY <1>2, <1>7, <1>8, <1>9, <1>13, <1>14, <1>15, <1>16

(***************************************************************************)
(* Management frames.                                                      *)
(***************************************************************************)
LEMMA OnePart ==
  ASSUME NEW x \in Fields \X (Nat \ {0}), x[1] # "addr2"
  PROVE  AreParts(<<x>>)
<1> DEFINE S == Fields \X (Nat \ {0})
           q == <<x>>
<1>1. q \in Seq(S) /\ Len(q) = 1 /\ DOMAIN q = 1 .. 1 /\ q[1] = x
  <2>1. x \in S
    OBVIOUS
  <2> HIDE DEF S
  <2> QED
    BY <2>1
<1> HIDE DEF q
<1> QED
  BY <1>1 DEF AreParts

LEMMA TwoParts ==
  ASSUME NEW x \in Fields \X (Nat \ {0}), NEW y \in Fields \X (Nat \ {0}),
         x[1] # "addr2", y[1] # "addr2", x[1] # y[1]
  PROVE  AreParts(<<x, y>>)
<1> DEFINE S == Fields \X (Nat \ {0})
           q == <<x, y>>
<1>1. q \in Seq(S) /\ Len(q) = 2 /\ DOMAIN q = 1 .. 2 /\ q[1] = x /\ q[2] = y
  <2>1. x \in S /\ y \in S
    OBVIOUS
  <2> HIDE DEF S
  <2> QED
    BY <2>1
<1> HIDE DEF q
<1>2. \A i \in DOMAIN q : i = 1 \/ i = 2
  BY <1>1
<1> QED
  BY <1>1, <1>2 DEF AreParts

LEMMA ThreeParts ==
  ASSUME NEW x \in Fields \X (Nat \ {0}), NEW y \in Fields \X (Nat \ {0}), NEW z \in Fields \X (Nat \ {0}),
         x[1] # "addr2", y[1] # "addr2", z[1] # "addr2", x[1] # y[1], x[1] # z[1], y[1] # z[1]
  PROVE  AreParts(<<x, y, z>>)
<1> DEFINE S == Fields \X (Nat \ {0})
           q == <<x, y, z>>
<1>1. q \in Seq(S) /\ Len(q) = 3 /\ DOMAIN q = 1 .. 3 /\ q[1] = x /\ q[2] = y /\ q[3] = z
  <2>1. x \in S /\ y \in S /\ z \in S
    OBVIOUS
  <2> HIDE DEF S
  <2> QED
    BY <2>1
<1> HIDE DEF q
<1>2. \A i \in DOMAIN q : i = 1 \/ i = 2 \/ i = 3
  BY <1>1
<1> QED
  BY <1>1, <1>2 DEF AreParts

LEMMA BodiesAre ==
  ASSUME NEW c \in Classes
  PROVE  AreParts(Out(c).body) /\ In(c).body = Out(c).body
<1>1. /\ BeaconIn.body = BeaconOut.body /\ ProbeRequestIn.body = ProbeRequestOut.body
      /\ ProbeResponseIn.body = ProbeResponseOut.body
      /\ AssociationRequestIn.body = AssociationRequestOut.body
      /\ AssociationResponseIn.body = AssociationResponseOut.body
      /\ ReassociationRequestIn.body = ReassociationRequestOut.body
      /\ ReassociationResponseIn.body = ReassociationResponseOut.body
      /\ AuthenticationIn.body = AuthenticationOut.body
      /\ DeauthenticationIn.body = DeauthenticationOut.body
      /\ DisassociationIn.body = DisassociationOut.body
  BY DEF BeaconIn, BeaconOut, ProbeRequestIn, ProbeRequestOut, ProbeResponseIn, ProbeResponseOut,
         AssociationRequestIn, AssociationRequestOut, AssociationResponseIn, AssociationResponseOut,
         ReassociationRequestIn, ReassociationRequestOut, ReassociationResponseIn,
         ReassociationResponseOut, AuthenticationIn, AuthenticationOut, DeauthenticationIn,
         DeauthenticationOut, DisassociationIn, DisassociationOut
<1> DEFINE F(f, w) == <<f, w>>
           Names == {"timestamp", "interval", "capabilities", "status", "aid", "currentApMac",
                     "algorithm", "seqNumber", "statusCode", "reasonCode"}
           W == {2, 6, 8}
           S == Fields \X (Nat \ {0})
<1>2. \A f \in Names, w \in W : F(f, w) \in S /\ F(f, w)[1] = f /\ F(f, w)[1] # "addr2"
  <2>1. Names \subseteq Fields /\ "addr2" \notin Names /\ W \subseteq Nat \ {0}
    BY DEF Fields
  <2> HIDE DEF Names, W
  <2> QED
    BY <2>1
<1>3. /\ \A f \in Names, u \in W : AreParts(<<F(f, u)>>)
      /\ \A f, g \in Names, u, v \in W : f # g => AreParts(<<F(f, u), F(g, v)>>)
      /\ \A f, g, h \in Names, u, v, w \in W :
           f # g /\ f # h /\ g # h => AreParts(<<F(f, u), F(g, v), F(h, w)>>)
  <2> HIDE DEF F, Names, W
  <2>1. ASSUME NEW f \in Names, NEW u \in W PROVE AreParts(<<F(f, u)>>)
    BY <1>2, OnePart
  <2>2. ASSUME NEW f \in Names, NEW g \in Names, NEW u \in W, NEW v \in W, f # g
        PROVE  AreParts(<<F(f, u), F(g, v)>>)
    <3>1. F(f, u)[1] # F(g, v)[1]
      BY <1>2, <2>2
    <3> QED
      BY <1>2, <3>1, TwoParts
  <2>3. ASSUME NEW f \in Names, NEW g \in Names, NEW h \in Names, NEW u \in W, NEW v \in W, NEW w \in W,
               f # g /\ f # h /\ g # h
        PROVE  AreParts(<<F(f, u), F(g, v), F(h, w)>>)
    <3>1. F(f, u)[1] # F(g, v)[1] /\ F(f, u)[1] # F(h, w)[1] /\ F(g, v)[1] # F(h, w)[1]
      BY <1>2, <2>3
    <3> QED
      BY <1>2, <3>1, ThreeParts
  <2> QED
    BY <2>1, <2>2, <2>3
<1>4. 2 \in W /\ 6 \in W /\ 8 \in W
  OBVIOUS
<1>5. /\ BeaconOut.body = <<F("timestamp", 8), F("interval", 2), F("capabilities", 2)>>
      /\ ProbeResponseOut.body = <<F("timestamp", 8), F("interval", 2), F("capabilities", 2)>>
      /\ AssociationRequestOut.body = <<F("capabilities", 2), F("interval", 2)>>
      /\ AssociationResponseOut.body = <<F("capabilities", 2), F("status", 2), F("aid", 2)>>
      /\ ReassociationRequestOut.body = <<F("capabilities", 2), F("interval", 2), F("currentApMac", 6)>>
      /\ ReassociationResponseOut.body = <<F("capabilities", 2), F("status", 2), F("aid", 2)>>
      /\ AuthenticationOut.body = <<F("algorithm", 2), F("seqNumber", 2), F("statusCode", 2)>>
      /\ DeauthenticationOut.body = <<F("reasonCode", 2)>>
      /\ DisassociationOut.body = <<F("reasonCode", 2)>>
      /\ ProbeRequestOut.body = << >> /\ Nothing.body = << >>
  BY DEF BeaconOut, ProbeRequestOut, ProbeResponseOut, AssociationRequestOut, AssociationResponseOut,
         ReassociationRequestOut, ReassociationResponseOut, AuthenticationOut, DeauthenticationOut,
         DisassociationOut, Nothing
<1>6. AreParts(BeaconOut.body) /\ AreParts(ProbeResponseOut.body)
  <2>1. "timestamp" \in Names /\ "interval" \in Names /\ "capabilities" \in Names
    BY DEF Names
  <2>2. AreParts(<<F("timestamp", 8), F("interval", 2), F("capabilities", 2)>>)
    <3> HIDE DEF F, Names, W
    <3> QED
      BY <1>3, <1>4, <2>1
  <2> QED
    BY <1>5, <2>2
<1>7. AreParts(AssociationRequestOut.body)
  <2>1. "capabilities" \in Names /\ "interval" \in Names
    BY DEF Names
  <2>2. AreParts(<<F("capabilities", 2), F("interval", 2)>>)
    <3> HIDE DEF F, Names, W
    <3> QED
      BY <1>3, <1>4, <2>1
  <2> QED
    BY <1>5, <2>2
<1>8. AreParts(AssociationResponseOut.body) /\ AreParts(ReassociationResponseOut.body)
  <2>1. "capabilities" \in Names /\ "status" \in Names /\ "aid" \in Names
    BY DEF Names
  <2>2. AreParts(<<F("capabilities", 2), F("status", 2), F("aid", 2)>>)
    <3> HIDE DEF F, Names, W
    <3> QED
      BY <1>3, <1>4, <2>1
  <2> QED
    BY <1>5, <2>2
<1>9. AreParts(ReassociationRequestOut.body)
  <2>1. "capabilities" \in Names /\ "interval" \in Names /\ "currentApMac" \in Names
    BY DEF Names
  <2>2. AreParts(<<F("capabilities", 2), F("interval", 2), F("currentApMac", 6)>>)
    <3> HIDE DEF F, Names, W
    <3> QED
      BY <1>3, <1>4, <2>1
  <2> QED
    BY <1>5, <2>2
<1>10. AreParts(AuthenticationOut.body)
  <2>1. "algorithm" \in Names /\ "seqNumber" \in Names /\ "statusCode" \in Names
    BY DEF Names
  <2>2. AreParts(<<F("algorithm", 2), F("seqNumber", 2), F("statusCode", 2)>>)
    <3> HIDE DEF F, Names, W
    <3> QED
      BY <1>3, <1>4, <2>1
  <2> QED
    BY <1>5, <2>2
<1>11. AreParts(DeauthenticationOut.body) /\ AreParts(DisassociationOut.body)
  <2>1. "reasonCode" \in Names
    BY DEF Names
  <2>2. AreParts(<<F("reasonCode", 2)>>)
    <3> HIDE DEF F, Names, W
    <3> QED
      BY <1>3, <1>4, <2>1
  <2> QED
    BY <1>5, <2>2
<1>12. AreParts(<< >>)
  BY DEF AreParts
<1> QED
  BY <1>1, <1>5, <1>6, <1>7, <1>8, <1>9, <1>10, <1>11, <1>12, Zenon DEF In, Out

BodyAt(b, o, base) ==
  LET q == Out(o.class).body IN
  \A i \in DOMAIN q : Holds(b, base + 24 + Skip(q, i), q[i][2], q[i][1], o.val[q[i][1]])

BodyEnd(o, base) == base + 24 + Length(Out(o.class).body)

LEMMA BodyKept ==
  ASSUME NEW b, NEW c, NEW o, o.class \in Classes, NEW base \in Nat, BodyAt(b, o, base),
         Kept(c, b, BodyEnd(o, base))
  PROVE  BodyAt(c, o, base)
<1> DEFINE q == Out(o.class).body
<1>1. AreParts(q)
  BY BodiesAre
<1> HIDE DEF q
<1> SUFFICES ASSUME NEW i \in DOMAIN q
             PROVE  Holds(c, base + 24 + Skip(q, i), q[i][2], q[i][1], o.val[q[i][1]])
  BY DEF BodyAt, q
<1>2. /\ Len(q) \in 0 .. 3 /\ i \in 1 .. Len(q) /\ Skip(q, i) \in Nat /\ q[i][2] \in Nat \ {0}
      /\ \A j \in 1 .. Len(q) : Skip(q, j + 1) = Skip(q, j) + q[j][2] /\ q[j][2] \in Nat
                                /\ Skip(q, j) \in Nat
  BY <1>1, PartsKnown, Zenon
<1>3. Skip(q, i) + q[i][2] <= Skip(q, Len(q) + 1)
  <2>1. Len(q) \in {1, 2, 3}
    BY <1>2
  <2>2. CASE Len(q) = 1
    <3>1. i = 1 /\ Skip(q, 1 + 1) = Skip(q, 1) + q[1][2] /\ Skip(q, 1) \in Nat /\ q[1][2] \in Nat
      BY <1>2, <2>2
    <3> QED
      BY <2>2, <3>1
  <2>3. CASE Len(q) = 2
    <3>1. (i = 1 \/ i = 2) /\ Skip(q, 1 + 1) = Skip(q, 1) + q[1][2] /\ Skip(q, 1) \in Nat /\ q[1][2] \in Nat
      BY <1>2, <2>3
    <3>2. Skip(q, 2 + 1) = Skip(q, 2) + q[2][2] /\ Skip(q, 2) \in Nat /\ q[2][2] \in Nat
      BY <1>2, <2>3
    <3> QED
      BY <2>3, <3>1, <3>2
  <2>4. CASE Len(q) = 3
    <3>1. (i = 1 \/ i = 2 \/ i = 3) /\ Skip(q, 1 + 1) = Skip(q, 1) + q[1][2] /\ Skip(q, 1) \in Nat /\ q[1][2] \in Nat
      BY <1>2, <2>4
    <3>2. Skip(q, 2 + 1) = Skip(q, 2) + q[2][2] /\ Skip(q, 2) \in Nat /\ q[2][2] \in Nat
      BY <1>2, <2>4
    <3>3. Skip(q, 3 + 1) = Skip(q, 3) + q[3][2] /\ Skip(q, 3) \in Nat /\ q[3][2] \in Nat
      BY <1>2, <2>4
    <3> QED
      BY <2>4, <3>1, <3>2, <3>3
  <2> QED
    BY <2>1, <2>2, <2>3, <2>4
<1>4. Length(q) \in Nat
  BY <1>1, PartsKnown
<1>5. /\ base + 24 + Skip(q, i) \in Nat
      /\ (base + 24 + Skip(q, i)) + q[i][2] <= base + 24 + Length(q)
  <2>1. \A x, y, z \in Nat : x + y <= z => base + 24 + x \in Nat /\ (base + 24 + x) + y <= base + 24 + z
    OBVIOUS
  <2>2. Skip(q, i) \in Nat /\ q[i][2] \in Nat /\ Skip(q, i) + q[i][2] <= Length(q)
    BY <1>2, <1>3, Zenon DEF Length
  <2> QED
    BY <1>4, <2>1, <2>2, Zenon
<1>6. Holds(b, base + 24 + Skip(q, i), q[i][2], q[i][1], o.val[q[i][1]])
  BY DEF BodyAt, q
<1> QED
  BY <1>2, <1>5, <1>6, Zenon DEF Kept, BodyEnd, q

LEMMA BeforeHas ==
  ASSUME NEW s, IsWriter(s), IsFine(s), s.o.class \in Classes, s.b.end = s.base,
         s.o.val.addr2 = Unset => s.o.val.addr3 = Unset
  PROVE  LET t == Before(s) IN
         /\ Onward(t, s)
         /\ t.ok => /\ IsFine(t) /\ s.o.fc.type = Mgmt /\ s.o.fc.sub = TypeOf[s.o.class].sub
                    /\ s.o.val.addr2 # Unset
                    /\ HeadAt(t.b, s.o, s.base) /\ ThirdAt(t.b, s.o, s.base)
                    /\ BodyAt(t.b, s.o, s.base) /\ t.b.end = BodyEnd(s.o, s.base)
<1> DEFINE o == s.o
           base == s.base
           q == Out(o.class).body
           s1 == OwnSubtype(s)
           s2 == ManagementAssemble(s1)
           t == PutNext(s2, q)
<1>1. Before(s) = t /\ Onward(t, s)
  BY BeforeOnward DEF Before
<1>2. /\ Onward(s1, s) /\ s1.b = s.b
      /\ s1.ok => s.ok /\ o.fc.sub = TypeOf[o.class].sub /\ IsFine(s1)
  BY NeedHas, Zenon DEF OwnSubtype
<1> HIDE DEF s1
<1>3. /\ Onward(s2, s1)
      /\ s2.ok => /\ IsFine(s2) /\ s2.b.end = s1.b.end + 24 /\ s1.o.fc.type = Mgmt
                  /\ s1.o.val.addr1 # Unset /\ s1.o.val.addr2 # Unset /\ s1.o.val.addr3 # Unset
                  /\ HeadAt(s2.b, s1.o, s1.base) /\ ThirdAt(s2.b, s1.o, s1.base)
  BY <1>2, ManagementHas DEF Onward
<1> HIDE DEF s2
<1>4. AreParts(q)
  BY BodiesAre
<1> HIDE DEF q
<1>5. /\ Onward(t, s2) /\ t.ok = s2.ok
      /\ t.ok => /\ IsFine(t) /\ t.b.end = s2.b.end + Length(q) /\ Kept(t.b, s2.b, s2.b.end)
                 /\ \A i \in DOMAIN q :
                      Holds(t.b, s2.b.end + Skip(q, i), q[i][2], q[i][1], s2.o.val[q[i][1]])
  BY <1>3, <1>4, NextHas DEF Onward
<1> HIDE DEF t
<1> SUFFICES ASSUME t.ok
             PROVE  /\ IsFine(t) /\ o.fc.type = Mgmt /\ o.fc.sub = TypeOf[o.class].sub
                    /\ o.val.addr2 # Unset
                    /\ HeadAt(t.b, o, base) /\ ThirdAt(t.b, o, base)
                    /\ BodyAt(t.b, o, base) /\ t.b.end = BodyEnd(o, base)
  BY <1>1 DEF t
<1>6. s1.ok /\ s2.ok /\ s1.o = o /\ s2.o = o /\ s1.base = base /\ s2.base = base /\ base \in Nat
  BY <1>2, <1>3, <1>5 DEF Onward, IsFine
<1>7. s2.b.end = base + 24 /\ Length(q) \in Nat
  BY <1>2, <1>3, <1>4, <1>6, PartsKnown
<1>8. Kept(t.b, s2.b, base + 24) /\ Kept(t.b, s2.b, base + 16)
  <2>1. base + 16 \in Int /\ base + 24 \in Int /\ base + 16 <= base + 24
    BY <1>6
  <2> QED
    BY <1>5, <1>7, <2>1, KeptLess
<1>9. HeadAt(t.b, o, base) /\ ThirdAt(t.b, o, base)
  BY <1>3, <1>6, <1>8, HeadKept, ThirdKept
<1>10. BodyAt(t.b, o, base) /\ t.b.end = BodyEnd(o, base)
  BY <1>5, <1>6, <1>7 DEF BodyAt, BodyEnd, q
<1> QED
  BY <1>2, <1>3, <1>5, <1>6, <1>9, <1>10

LEMMA ClassesAre ==
  /\ Classes = Management \cup {"ControlFrame", "DataFrame", "QosData", "Frame"}
  /\ Management = Bodied \cup {"ActionRequest"} /\ "ActionRequest" \notin Bodied
  /\ "ControlFrame" \notin Management /\ "DataFrame" \notin Management /\ "QosData" \notin Management
  /\ "Frame" \notin Management /\ Mgmt # Cntl /\ Mgmt # Data /\ Cntl # Data
BY DEF Classes, Management, Bodied, TypeOf, Type, Mgmt, Cntl, Data

\* An object that has a third address has a second one, if it is no control frame.
Sourced(o) == o.class = "ControlFrame" \/ (o.val.addr2 = Unset => o.val.addr3 = Unset)

\* A frame of o is in b, from place base on, to its end.
Laid(b, o, base) ==
  /\ IsBuffer(b) /\ b.end \in Nat /\ base \in Nat
  /\ Only(b, o) /\ TagsIn(b, o.tags)
  /\ HeadAt(b, o, base)
  /\ o.fc.type # Cntl => o.val.addr2 # Unset /\ ThirdAt(b, o, base)
  /\ o.class \in Management => o.fc.type = Mgmt /\ o.fc.sub = TypeOf[o.class].sub
  /\ o.class = "ControlFrame" => o.fc.type = Cntl
  /\ o.class \in {"DataFrame", "QosData"} => o.fc.type = Data
  /\ o.class \in Bodied => BodyAt(b, o, base)
  /\ o.fc.type = Data => FourthAt(b, o, base)

\* What follows the frame's fields, to the last octet.
Ended(b, o, base) ==
  /\ o.fc.type = Cntl => PayloadAt(b, o, base + HeadLength(o), << >>)
  /\ o.fc.type = Data => PayloadAt(b, o, base + DataLength(o), LlcPart)
  /\ o.class = "ActionRequest" => b.end = base + 24
  /\ o.class \in Bodied =>
       \E c, at : Tagged(b, c, InOrder(o.tags), at) /\ c.end = BodyEnd(o, base) /\ NoTags(c)

LEMMA NoneIn ==
  ASSUME NEW b, NoTags(b), NEW t
  PROVE  TagsIn(b, t)
BY DEF NoTags, TagsIn, TagPlaces

LEMMA TaggedIn ==
  ASSUME NEW b, NEW o, NEW t, AreTags(t), NoTags(b), Only(b, o), NEW c, NEW at, Tagged(c, b, InOrder(t), at)
  PROVE  TagsIn(c, t) /\ Only(c, o) /\ Kept(c, b, b.end)
<1> DEFINE q == InOrder(t)
<1>1. AreTags(q) /\ \A i \in DOMAIN q : \E j \in DOMAIN t : q[i] = t[j]
  BY InOrderIs
<1> HIDE DEF q
<1>2. DOMAIN q = 1 .. Len(q) /\ \A i, j \in DOMAIN q : q[i].id = q[j].id => i = j
  BY <1>1, TagsKnown
<1>3. /\ \A i \in 1 .. Len(q) : Holds(c, at[i], Width(q[i]), "tag", q[i])
      /\ \A p \in DOMAIN c.at : (\E i \in 1 .. Len(q) : p = at[i]) \/ (p \in DOMAIN b.at /\ c.at[p] = b.at[p])
      /\ Kept(c, b, b.end)
  BY DEF Tagged, Kept, q
<1>4. ASSUME NEW p \in TagPlaces(c)
      PROVE  \E i \in DOMAIN q : p = at[i] /\ c.at[p].v = q[i]
  <2>1. p \in DOMAIN c.at /\ c.at[p].f = "tag"
    BY DEF TagPlaces
  <2>2. ~(p \in DOMAIN b.at /\ c.at[p] = b.at[p])
    BY <2>1 DEF NoTags
  <2>3. PICK i \in 1 .. Len(q) : p = at[i]
    BY <1>3, <2>1, <2>2
  <2>4. c.at[p] = [f |-> "tag", w |-> Width(q[i]), v |-> q[i]]
    BY <1>3, <2>3 DEF Holds
  <2> QED
    BY <1>2, <2>3, <2>4
<1>5. TagsIn(c, t)
  <2>1. ASSUME NEW p \in TagPlaces(c) PROVE \E i \in DOMAIN t : c.at[p].v = t[i]
    BY <1>1, <1>4
  <2>2. ASSUME NEW p \in TagPlaces(c), NEW r \in TagPlaces(c), c.at[p].v = c.at[r].v PROVE p = r
    BY <1>2, <1>4, <2>2
  <2> QED
    BY <2>1, <2>2 DEF TagsIn
<1>6. Only(c, o)
  <2> SUFFICES ASSUME NEW p \in DOMAIN c.at
               PROVE  /\ c.at[p].f = "fc" => c.at[p].v = o.fc
                      /\ c.at[p].f \in Fields => c.at[p].v = o.val[c.at[p].f]
                      /\ c.at[p].f = "addr2" => o.val.addr2 # Unset
    BY DEF Only
  <2>1. CASE \E i \in 1 .. Len(q) : p = at[i]
    <3>0. PICK i \in 1 .. Len(q) : p = at[i]
      BY <2>1
    <3>2. c.at[p] = [f |-> "tag", w |-> Width(q[i]), v |-> q[i]]
      BY <1>3, <3>0 DEF Holds
    <3>1. c.at[p].f = "tag"
      BY <3>2
    <3> QED
      BY <3>1, FieldsAre
  <2>2. CASE p \in DOMAIN b.at /\ c.at[p] = b.at[p]
    BY <2>2 DEF Only
  <2> QED
    BY <1>3, <2>1, <2>2
<1> QED
  BY <1>3, <1>5, <1>6

LEMMA BodyAssembled ==
  ASSUME NEW o, IsObject(o), o.class \in Bodied, Sourced(o),
         NEW b, IsBuffer(b), b.end \in Nat, Only(b, o), NoTags(b),
         Assemble(o, b).ok
  PROVE  LET a == Assemble(o, b) IN Laid(a.b, a.o, b.end) /\ Ended(a.b, a.o, b.end)
<1> DEFINE s == WriterOf(o, b)
           a == Assemble(o, b)
           u == PutMembers(o)
           t == Before(s)
           q == InOrder(u.tags)
<1>1. a = BodyAssemble(s) /\ a.ok
  BY AssembledBy
<1>2. IsWriter(s) /\ s.o = o /\ s.base = b.end /\ s.b = b /\ s.ok
  BY DEF IsWriter, WriterOf
<1>3. IsFine(s)
  BY <1>2 DEF IsFine
<1>4. o.class \in Classes /\ o.class # "ControlFrame" /\ o.class # "DataFrame" /\ o.class # "QosData"
      /\ o.class # "ActionRequest" /\ o.class \in Management
  BY ClassesAre DEF IsObject
<1> HIDE DEF s
<1>5. a = IF t.ok THEN [ok |-> TRUE, o |-> u, base |-> s.base, b |-> AssembleTags(t.b, u.tags)] ELSE t
  BY <1>1, <1>2, BodyIs
<1>6. /\ Onward(t, s)
      /\ t.ok => /\ IsFine(t) /\ o.fc.type = Mgmt /\ o.fc.sub = TypeOf[o.class].sub
                 /\ o.val.addr2 # Unset
                 /\ HeadAt(t.b, o, b.end) /\ ThirdAt(t.b, o, b.end)
                 /\ BodyAt(t.b, o, b.end) /\ t.b.end = BodyEnd(o, b.end)
  BY <1>2, <1>3, <1>4, BeforeHas DEF Sourced
<1> HIDE DEF t, a
<1>7. t.ok /\ a.b = AssembleTags(t.b, u.tags) /\ a.o = u
  BY <1>1, <1>5
<1>8. IsObject(u) /\ u = [o EXCEPT !.tags = u.tags]
  BY MembersPut
<1> HIDE DEF u
<1>9. AreTags(u.tags) /\ u.class = o.class /\ u.fc = o.fc /\ u.val = o.val
  BY <1>8 DEF IsObject
<1>10. AreTags(q) /\ q \in Seq(TagRecord) /\ a.b = WriteTags(t.b, q)
  BY <1>7, <1>9, InOrderIs, Zenon DEF AssembleTags, InOrder, AreTags
<1>11. IsBuffer(t.b) /\ t.b.end \in Nat /\ NoTags(t.b) /\ Only(t.b, o)
  BY <1>2, <1>6, <1>7 DEF IsFine, Onward
<1>12. PICK at : Tagged(a.b, t.b, q, at)
  BY <1>10, <1>11, TagsWritten
<1>13. TagsIn(a.b, u.tags) /\ Only(a.b, o) /\ Kept(a.b, t.b, BodyEnd(o, b.end))
  BY <1>6, <1>7, <1>9, <1>11, <1>12, TaggedIn
<1>14. BodyEnd(o, b.end) \in Nat /\ b.end + 24 <= BodyEnd(o, b.end)
  BY <1>4, BodiesAre, PartsKnown DEF BodyEnd
<1>15. Kept(a.b, t.b, b.end + 24) /\ Kept(a.b, t.b, b.end + 16)
  <2>1. b.end + 24 \in Int /\ b.end + 16 \in Int /\ BodyEnd(o, b.end) \in Int /\ b.end + 16 <= BodyEnd(o, b.end)
    BY <1>14
  <2> QED
    BY <1>13, <1>14, <2>1, KeptLess
<1>16. HeadAt(a.b, o, b.end) /\ ThirdAt(a.b, o, b.end) /\ BodyAt(a.b, o, b.end)
  BY <1>4, <1>6, <1>7, <1>13, <1>15, HeadKept, ThirdKept, BodyKept
<1>17. IsBuffer(a.b) /\ a.b.end \in Nat
  <2>1. Len(q) + 1 \in 1 .. Len(q) + 1
    BY <1>10, LenProperties
  <2> QED
    BY <1>12, <2>1 DEF Tagged
<1>18. Laid(a.b, u, b.end)
  <2>1. HeadAt(a.b, u, b.end) /\ ThirdAt(a.b, u, b.end) /\ BodyAt(a.b, u, b.end) /\ Only(a.b, u)
    BY <1>9, <1>13, <1>16 DEF HeadAt, ThirdAt, BodyAt, Only
  <2> QED
    BY <1>4, <1>6, <1>7, <1>9, <1>13, <1>17, <2>1, ClassesAre DEF Laid
<1>19. Ended(a.b, u, b.end)
  <2>1. BodyEnd(u, b.end) = BodyEnd(o, b.end)
    BY <1>9 DEF BodyEnd
  <2>2. u.fc.type = Mgmt
    BY <1>6, <1>7, <1>9
  <2> QED
    BY <1>4, <1>6, <1>7, <1>9, <1>11, <1>12, <2>1, <2>2, ClassesAre DEF Ended
<1> QED
  BY <1>7, <1>18, <1>19 DEF a

LEMMA AssembledHas ==
  ASSUME NEW o, IsObject(o), o.class # "Frame", Sourced(o),
         NEW b, IsBuffer(b), b.end \in Nat, Only(b, o), NoTags(b),
         Assemble(o, b).ok
  PROVE  LET a == Assemble(o, b) IN Laid(a.b, a.o, b.end) /\ Ended(a.b, a.o, b.end)
<1> DEFINE s == WriterOf(o, b)
           a == Assemble(o, b)
<1>1. IsWriter(s) /\ s.o = o /\ s.base = b.end /\ s.b = b /\ s.ok
  BY DEF IsWriter, WriterOf
<1>2. IsFine(s) /\ s.b.end = s.base
  BY <1>1 DEF IsFine
<1>3. o.class \in Bodied \cup {"ActionRequest", "ControlFrame", "DataFrame", "QosData"}
  BY ClassesAre DEF IsObject
<1>4. a = ClassAssemble(s)
  BY DEF Assemble, WriterOf
<1>5. o.class \in Classes /\ o.fc.ds \in BOOLEAN
  BY DEF IsObject
<1> HIDE DEF s
<1>6. CASE o.class \in Bodied
  BY <1>6, BodyAssembled
<1>7. CASE o.class = "ActionRequest"
  <2>1. a = ActionAssemble(s)
    BY <1>1, <1>4, <1>7 DEF ClassAssemble
  <2> DEFINE s1 == OwnSubtype(s)
             t == ManagementAssemble(s1)
  <2>2. a = t
    BY <2>1 DEF ActionAssemble
  <2>3. /\ Onward(s1, s) /\ s1.b = s.b
        /\ s1.ok => s.ok /\ o.fc.sub = TypeOf[o.class].sub /\ IsFine(s1)
    BY <1>1, <1>2, NeedHas, Zenon DEF OwnSubtype
  <2> HIDE DEF s1
  <2>4. /\ Onward(t, s1)
        /\ t.ok => /\ IsFine(t) /\ t.b.end = s1.b.end + 24 /\ s1.o.fc.type = Mgmt
                   /\ s1.o.val.addr1 # Unset /\ s1.o.val.addr2 # Unset /\ s1.o.val.addr3 # Unset
                   /\ HeadAt(t.b, s1.o, s1.base) /\ ThirdAt(t.b, s1.o, s1.base)
    BY <1>1, <1>7, <2>3, ManagementHas DEF Onward, Sourced
  <2> HIDE DEF t, a
  <2>5. t.ok /\ s1.ok /\ s1.o = o /\ s1.base = b.end /\ t.o = o
    BY <1>1, <2>2, <2>3, <2>4 DEF Onward, a
  <2>6. IsBuffer(t.b) /\ t.b.end \in Nat /\ Only(t.b, o) /\ TagsIn(t.b, o.tags)
    BY <2>4, <2>5, NoneIn DEF IsFine
  <2>7. t.b.end = b.end + 24
    BY <1>1, <2>3, <2>4, <2>5
  <2> QED
    BY <1>1, <1>7, <2>2, <2>3, <2>4, <2>5, <2>6, <2>7, ClassesAre DEF Laid, Ended, a
<1>8. CASE o.class = "ControlFrame"
  <2> DEFINE t == ControlAssemble(s)
  <2>1. a = t
    BY <1>1, <1>4, <1>8, ClassesAre DEF ClassAssemble
  <2>2. /\ Onward(t, s)
        /\ t.ok => /\ IsFine(t) /\ o.fc.type = Cntl /\ HeadAt(t.b, o, b.end)
                   /\ PayloadAt(t.b, o, b.end + HeadLength(o), << >>)
    BY <1>1, <1>2, ControlAssembled
  <2> HIDE DEF t, a
  <2>3. t.ok /\ t.o = o
    BY <1>1, <2>1, <2>2 DEF Onward, a
  <2>4. IsBuffer(t.b) /\ t.b.end \in Nat /\ Only(t.b, o) /\ TagsIn(t.b, o.tags)
    BY <2>2, <2>3, NoneIn DEF IsFine
  <2> QED
    BY <1>8, <2>1, <2>2, <2>3, <2>4, ClassesAre DEF Laid, Ended, a
<1>9. CASE o.class \in {"DataFrame", "QosData"}
  <2> DEFINE t == DataAssemble(s)
  <2>1. a = t
    BY <1>1, <1>4, <1>9, ClassesAre DEF ClassAssemble
  <2>2. /\ Onward(t, s)
        /\ t.ok => /\ IsFine(t) /\ o.fc.type = Data /\ o.val.addr2 # Unset
                   /\ HeadAt(t.b, o, b.end) /\ ThirdAt(t.b, o, b.end)
                   /\ FourthAt(t.b, o, b.end)
                   /\ PayloadAt(t.b, o, b.end + DataLength(o), LlcPart)
    BY <1>1, <1>2, <1>5, <1>9, DataAssembled DEF Sourced
  <2> HIDE DEF t, a
  <2>3. t.ok /\ t.o = o
    BY <1>1, <2>1, <2>2 DEF Onward, a
  <2>4. IsBuffer(t.b) /\ t.b.end \in Nat /\ Only(t.b, o) /\ TagsIn(t.b, o.tags)
    BY <2>2, <2>3, NoneIn DEF IsFine
  <2> QED
    BY <1>9, <2>1, <2>2, <2>3, <2>4, ClassesAre DEF Laid, Ended, a
<1> QED
  BY <1>3, <1>6, <1>7, <1>8, <1>9

(***************************************************************************)
(* Radiotap headers.                                                       *)
(***************************************************************************)
TapNames == {"version", "pad", "length", "present", "field"}

\* A buffer with nothing but a radiotap header in it.
IsPlain(b) == IsBuffer(b) /\ b.end \in Nat /\ \A p \in DOMAIN b.at : b.at[p].f \in TapNames

LEMMA PlainWritten ==
  ASSUME NEW b, IsPlain(b), NEW at \in Nat, NEW w \in Nat \ {0}, NEW f \in TapNames, NEW v
  PROVE  IsPlain(Write(b, at, w, f, v)) /\ Write(b, at, w, f, v).end = b.end + w
<1> DEFINE c == Write(b, at, w, f, v)
<1>1. /\ IsBuffer(c) /\ c.end = b.end + w /\ c.at[at] = [f |-> f, w |-> w, v |-> v]
      /\ \A p \in DOMAIN c.at : p # at => p \in DOMAIN b.at /\ c.at[p] = b.at[p]
  BY Written DEF Holds, IsPlain
<1> HIDE DEF c
<1>2. \A p \in DOMAIN c.at : c.at[p].f \in TapNames
  BY <1>1 DEF IsPlain
<1> QED
  BY <1>1, <1>2 DEF IsPlain, c

LEMMA PlainMoved ==
  ASSUME NEW b, IsPlain(b), b = [end |-> b.end, at |-> b.at], NEW e \in Nat
  PROVE  IsPlain([b EXCEPT !.end = e])
<1> DEFINE c == [b EXCEPT !.end = e]
<1>1. c.end = e /\ c.at = b.at
  OBVIOUS
<1> HIDE DEF c
<1> QED
  BY <1>1 DEF IsPlain, IsBuffer, c

LEMMA PlainOnly ==
  ASSUME NEW b, IsPlain(b), NEW o
  PROVE  Only(b, o) /\ NoTags(b)
<1>1. \A f \in TapNames : f # "fc" /\ f \notin Fields /\ f # "tag" /\ f # "addr2"
  BY DEF TapNames, Fields
<1> QED
  BY <1>1 DEF IsPlain, Only, NoTags

LEMMA TableIs ==
  /\ \A t \in FieldTable : /\ t.id \in 0 .. 22 /\ (t.size # 0 <=> t.id # 18)
                           /\ t.id # 18 => t.size \in 1 .. 12 /\ t.align \in {1, 2, 4, 8}
  /\ \A id \in 0 .. 22 : \E t \in FieldTable : t.id = id
BY DEF FieldTable, Field, RadioTapFieldTsft, RadioTapFieldFlags, RadioTapFieldRate,
       RadioTapFieldChannel, RadioTapFieldSignalLevel, RadioTapFieldSignalNoise, RadioTapFieldTxPower,
       RadioTapFieldAntenna, RadioTapFieldRxFlags, RadioTapFieldTxFlags, RadioTapFieldDataRetries,
       RadioTapFieldMcs

LEMMA FieldOfIs ==
  ASSUME NEW id \in 0 .. 22, id # 18
  PROVE  /\ FieldOf(id) \in FieldTable /\ FieldOf(id).id = id
         /\ FieldOf(id).size \in 1 .. 12 /\ FieldOf(id).align \in {1, 2, 4, 8}
<1>1. FieldOf(id) \in FieldTable /\ FieldOf(id).id = id
  BY TableIs DEF FieldOf
<1> QED
  BY <1>1, TableIs

LEMMA PadIs ==
  ASSUME NEW at \in Nat, NEW align \in {1, 2, 4, 8}
  PROVE  Pad(at, align) \in Nat
<1>1. CASE align = 1
  BY <1>1 DEF Pad
<1>2. CASE align = 2
  BY <1>2 DEF Pad
<1>4. CASE align = 4
  BY <1>4 DEF Pad
<1>8. CASE align = 8
  BY <1>8 DEF Pad
<1> QED
  BY <1>1, <1>2, <1>4, <1>8

\* The fields of a radiotap header.
AreTapFields(S) ==
  \A x \in S : /\ x.id \in (0 .. 22) \ {18} /\ x.index \in 0 .. 7 /\ x.v \in Nat
               /\ x = [id |-> x.id, index |-> x.index, v |-> x.v]

Key(x) == x.index * 32 + x.id

\* q is the fields S in the order of their keys.
InKeys(q, S) ==
  /\ Len(q) \in Nat /\ q \in [1 .. Len(q) -> S]
  /\ \A i, j \in 1 .. Len(q) : i < j => Key(q[i]) < Key(q[j])
  /\ \A x \in S : \E i \in 1 .. Len(q) : Key(q[i]) = Key(x)

LEMMA KeysAre ==
  ASSUME NEW S, \A x \in S : x.id \in 0 .. 31 /\ x.index \in 0 .. 7
  PROVE  InKeys(InKeyOrder(S), S)
<1> DEFINE R == {Key(x) : x \in S}
           a == Ascending(R)
           m == Cardinality(R)
           q == InKeyOrder(S)
<1>0. PICK k \in Nat : k = 255
  OBVIOUS
<1>1. \A u \in R : u \in 0 .. k
  BY <1>0 DEF Key
<1>2. \A u \in R : \E x \in S : Key(x) = u
  OBVIOUS
<1>3. \A x \in S : Key(x) \in R
  OBVIOUS
<1>4. q = [i \in DOMAIN a |-> LET r == a[i] IN CHOOSE x \in S : Key(x) = r]
  BY DEF InKeyOrder, InRankOrder, Key
<1> HIDE DEF R, q
<1>5. /\ m \in Nat /\ a \in [1 .. m -> R]
      /\ \A i, j \in 1 .. m : i < j => a[i] < a[j]
      /\ \A u \in R : \E i \in 1 .. m : a[i] = u
  <2> HIDE DEF a
  <2>1. Lists(a, R)
    BY <1>1, AscendingLists DEF a
  <2> QED
    BY <2>1 DEF Lists
<1> HIDE DEF a, m
<1>6. \A i \in 1 .. m : q[i] \in S /\ Key(q[i]) = a[i]
  <2> SUFFICES ASSUME NEW i \in 1 .. m PROVE q[i] \in S /\ Key(q[i]) = a[i]
    OBVIOUS
  <2>1. a[i] \in R
    BY <1>5
  <2>2. q[i] = CHOOSE x \in S : Key(x) = a[i]
    BY <1>4, <1>5
  <2> QED
    BY <1>2, <2>1, <2>2
<1>7. q \in [1 .. m -> S]
  BY <1>4, <1>5, <1>6
<1>8. Len(q) = m
  BY <1>5, <1>7
<1>9. \A i, j \in 1 .. m : i < j => Key(q[i]) < Key(q[j])
  BY <1>5, <1>6
<1>10. \A x \in S : \E i \in 1 .. m : Key(q[i]) = Key(x)
  BY <1>3, <1>5, <1>6
<1> QED
  BY <1>5, <1>7, <1>8, <1>9, <1>10 DEF InKeys, q

\* A radiotap header object.
IsRadioTap(r) ==
  /\ r = [present |-> r.present, fields |-> r.fields]
  /\ r.present \in Seq(SUBSET Nat) /\ AreTapFields(r.fields)

LEMMA FieldPut ==
  ASSUME NEW r, IsRadioTap(r), NEW id \in (0 .. 22) \ {18}, NEW index \in 0 .. 7, NEW v \in Nat
  PROVE  IsRadioTap(PutField(r, id, index, v))
<1> DEFINE t == PutField(r, id, index, v)
           k == Len(r.present)
           D == DOMAIN r.present \cup 1 .. (index + 1)
<1>1. k \in Nat /\ DOMAIN r.present = 1 .. k /\ \A i \in 1 .. k : r.present[i] \in SUBSET Nat
  BY LenProperties, ElementOfSeq DEF IsRadioTap
<1>2. D = 1 .. (IF k < index + 1 THEN index + 1 ELSE k)
  BY <1>1
<1>3. /\ t = [present |-> t.present, fields |-> t.fields]
      /\ t.fields = {x \in r.fields : x.id # id \/ x.index # index} \cup {[id |-> id, index |-> index, v |-> v]}
      /\ DOMAIN t.present = D
      /\ t.present = [i \in D |-> t.present[i]]
      /\ \A i \in D :
           t.present[i] = (IF i \in DOMAIN r.present THEN r.present[i] ELSE {})
                            \cup (IF i = index THEN {Ext, Namespace} ELSE {})
                            \cup (IF i = index + 1 THEN {id} ELSE {})
  BY DEF PutField
<1> HIDE DEF t
<1>4. AreTapFields(t.fields)
  BY <1>3 DEF AreTapFields, IsRadioTap
<1>5. \A i \in D : t.present[i] \in SUBSET Nat
  <2>1. {Ext, Namespace} \in SUBSET Nat /\ {id} \in SUBSET Nat /\ {} \in SUBSET Nat
    BY DEF Ext, Namespace
  <2>2. \A A, B, C \in SUBSET Nat : A \cup B \cup C \in SUBSET Nat
    OBVIOUS
  <2> SUFFICES ASSUME NEW i \in D PROVE t.present[i] \in SUBSET Nat
    OBVIOUS
  <2> DEFINE A == IF i \in DOMAIN r.present THEN r.present[i] ELSE {}
             B == IF i = index THEN {Ext, Namespace} ELSE {}
             C == IF i = index + 1 THEN {id} ELSE {}
  <2>3. t.present[i] = A \cup B \cup C
    BY <1>3, Zenon
  <2>4. A \in SUBSET Nat /\ B \in SUBSET Nat /\ C \in SUBSET Nat
    BY <1>1, <2>1
  <2> HIDE DEF A, B, C
  <2> QED
    BY <2>2, <2>3, <2>4
<1> HIDE DEF D
<1>6. t.present \in Seq(SUBSET Nat)
  <2> DEFINE m == IF k < index + 1 THEN index + 1 ELSE k
  <2>1. m \in Nat
    BY <1>1
  <2> HIDE DEF m
  <2>2. t.present \in [1 .. m -> SUBSET Nat]
    BY <1>2, <1>3, <1>5 DEF m
  <2> QED
    BY <2>1, <2>2
<1> QED
  BY <1>3, <1>4, <1>6 DEF IsRadioTap, t

LEMMA RadioTapTo ==
  ASSUME NEW h, NEW q, q = InKeyOrder(h), Len(q) \in Nat
  PROVE  \E f : /\ f[0] = NewRadioTap
                /\ \A i \in 1 .. Len(q) : f[i] = PutField(f[i - 1], q[i].id, q[i].index, q[i].v)
                /\ RadioTapOf(h) = f[Len(q)]
<1> DEFINE k == Len(q)
<1> DEFINE Steps(f, j) == f = [i \in 0 .. j |-> IF i = 0 THEN NewRadioTap ELSE PutField(f[i - 1], q[i].id, q[i].index, q[i].v)]
           J == {j \in 0 .. k : \E f : Steps(f, j)}
<1>1. 0 \in J
  <2>1. Steps([i \in 0 .. 0 |-> NewRadioTap], 0)
    OBVIOUS
  <2> HIDE DEF Steps
  <2> QED
    BY <2>1
<1>2. ASSUME NEW j \in 0 .. k, j < k, j \in J PROVE j + 1 \in J
  <2>1. PICK f : Steps(f, j)
    BY <1>2
  <2> DEFINE g == [i \in 0 .. (j + 1) |-> IF i <= j THEN f[i] ELSE PutField(f[j], q[i].id, q[i].index, q[i].v)]
  <2>2. ASSUME NEW i \in 0 .. (j + 1)
        PROVE  g[i] = IF i = 0 THEN NewRadioTap ELSE PutField(g[i - 1], q[i].id, q[i].index, q[i].v)
    <3>1. CASE i = 0
      BY <2>1, <3>1
    <3>2. CASE i # 0 /\ i <= j
      <4>1. i - 1 \in 0 .. (j + 1) /\ i - 1 <= j /\ i \in 0 .. j
        BY <3>2
      <4>2. g[i] = f[i] /\ g[i - 1] = f[i - 1]
        BY <3>2, <4>1
      <4>3. f[i] = PutField(f[i - 1], q[i].id, q[i].index, q[i].v)
        BY <2>1, <3>2, <4>1
      <4> QED
        BY <3>2, <4>2, <4>3
    <3>3. CASE i = j + 1
      <4>1. j \in 0 .. (j + 1) /\ g[j] = f[j] /\ i # 0 /\ i - 1 = j /\ ~(i <= j)
        BY <3>3
      <4>2. g[i] = PutField(f[j], q[i].id, q[i].index, q[i].v)
        BY <4>1
      <4> QED
        BY <4>1, <4>2
    <3> QED
      BY <3>1, <3>2, <3>3
  <2>3. Steps(g, j + 1)
    BY <2>2
  <2>4. j + 1 \in 0 .. k
    BY <1>2
  <2> HIDE DEF Steps, g
  <2> QED
    BY <2>3, <2>4
<1> HIDE DEF J, Steps
<1>3. k \in J
  <2>1. \A i \in 0 .. k : i < k /\ i \in J => i + 1 \in J
    BY <1>2
  <2> QED
    BY <1>1, <2>1, UpFrom
<1> DEFINE f == CHOOSE f : Steps(f, k)
<1>4. Steps(f, k)
  BY <1>3 DEF J
<1>5. RadioTapOf(h) = f[k]
  BY DEF RadioTapOf, Steps
<1> HIDE DEF f
<1>6. f[0] = NewRadioTap /\ \A i \in 1 .. k : f[i] = PutField(f[i - 1], q[i].id, q[i].index, q[i].v)
  <2>1. k \in Nat
    OBVIOUS
  <2> HIDE DEF k
  <2> QED
    BY <1>4, <2>1 DEF Steps
<1> QED
  BY <1>5, <1>6

LEMMA AssemblePresentTo ==
  ASSUME NEW b, NEW q, Len(q) \in Nat
  PROVE  \E f : /\ f[0] = b
                /\ \A i \in 1 .. Len(q) : f[i] = Write(f[i - 1], f[i - 1].end, 4, "present", q[i])
                /\ AssemblePresent(b, q) = f[Len(q)]
<1> DEFINE k == Len(q)
<1> DEFINE Steps(f, j) == f = [i \in 0 .. j |-> IF i = 0 THEN b ELSE Write(f[i - 1], f[i - 1].end, 4, "present", q[i])]
           J == {j \in 0 .. k : \E f : Steps(f, j)}
<1>1. 0 \in J
  <2>1. Steps([i \in 0 .. 0 |-> b], 0)
    OBVIOUS
  <2> HIDE DEF Steps
  <2> QED
    BY <2>1
<1>2. ASSUME NEW j \in 0 .. k, j < k, j \in J PROVE j + 1 \in J
  <2>1. PICK f : Steps(f, j)
    BY <1>2
  <2> DEFINE g == [i \in 0 .. (j + 1) |-> IF i <= j THEN f[i] ELSE Write(f[j], f[j].end, 4, "present", q[i])]
  <2>2. ASSUME NEW i \in 0 .. (j + 1)
        PROVE  g[i] = IF i = 0 THEN b ELSE Write(g[i - 1], g[i - 1].end, 4, "present", q[i])
    <3>1. CASE i = 0
      BY <2>1, <3>1
    <3>2. CASE i # 0 /\ i <= j
      <4>1. i - 1 \in 0 .. (j + 1) /\ i - 1 <= j /\ i \in 0 .. j
        BY <3>2
      <4>2. g[i] = f[i] /\ g[i - 1] = f[i - 1]
        BY <3>2, <4>1
      <4>3. f[i] = Write(f[i - 1], f[i - 1].end, 4, "present", q[i])
        BY <2>1, <3>2, <4>1
      <4> QED
        BY <3>2, <4>2, <4>3
    <3>3. CASE i = j + 1
      <4>1. j \in 0 .. (j + 1) /\ g[j] = f[j] /\ i # 0 /\ i - 1 = j /\ ~(i <= j)
        BY <3>3
      <4>2. g[i] = Write(f[j], f[j].end, 4, "present", q[i])
        BY <4>1
      <4> QED
        BY <4>1, <4>2
    <3> QED
      BY <3>1, <3>2, <3>3
  <2>3. Steps(g, j + 1)
    BY <2>2
  <2>4. j + 1 \in 0 .. k
    BY <1>2
  <2> HIDE DEF Steps, g
  <2> QED
    BY <2>3, <2>4
<1> HIDE DEF J, Steps
<1>3. k \in J
  <2>1. \A i \in 0 .. k : i < k /\ i \in J => i + 1 \in J
    BY <1>2
  <2> QED
    BY <1>1, <2>1, UpFrom
<1> DEFINE f == CHOOSE f : Steps(f, k)
<1>4. Steps(f, k)
  BY <1>3 DEF J
<1>5. AssemblePresent(b, q) = f[k]
  BY DEF AssemblePresent, Steps
<1> HIDE DEF f
<1>6. f[0] = b /\ \A i \in 1 .. k : f[i] = Write(f[i - 1], f[i - 1].end, 4, "present", q[i])
  <2>1. k \in Nat
    OBVIOUS
  <2> HIDE DEF k
  <2> QED
    BY <1>4, <2>1 DEF Steps
<1> QED
  BY <1>5, <1>6

LEMMA AssembleFieldsTo ==
  ASSUME NEW b, NEW q, Len(q) \in Nat
  PROVE  \E f : /\ f[0] = b
                /\ \A i \in 1 .. Len(q) : f[i] = AssembleField(f[i - 1], q[i])
                /\ AssembleFields(b, q) = f[Len(q)]
<1> DEFINE k == Len(q)
<1> DEFINE Steps(f, j) == f = [i \in 0 .. j |-> IF i = 0 THEN b ELSE AssembleField(f[i - 1], q[i])]
           J == {j \in 0 .. k : \E f : Steps(f, j)}
<1>1. 0 \in J
  <2>1. Steps([i \in 0 .. 0 |-> b], 0)
    OBVIOUS
  <2> HIDE DEF Steps
  <2> QED
    BY <2>1
<1>2. ASSUME NEW j \in 0 .. k, j < k, j \in J PROVE j + 1 \in J
  <2>1. PICK f : Steps(f, j)
    BY <1>2
  <2> DEFINE g == [i \in 0 .. (j + 1) |-> IF i <= j THEN f[i] ELSE AssembleField(f[j], q[i])]
  <2>2. ASSUME NEW i \in 0 .. (j + 1)
        PROVE  g[i] = IF i = 0 THEN b ELSE AssembleField(g[i - 1], q[i])
    <3>1. CASE i = 0
      BY <2>1, <3>1
    <3>2. CASE i # 0 /\ i <= j
      <4>1. i - 1 \in 0 .. (j + 1) /\ i - 1 <= j /\ i \in 0 .. j
        BY <3>2
      <4>2. g[i] = f[i] /\ g[i - 1] = f[i - 1]
        BY <3>2, <4>1
      <4>3. f[i] = AssembleField(f[i - 1], q[i])
        BY <2>1, <3>2, <4>1
      <4> QED
        BY <3>2, <4>2, <4>3
    <3>3. CASE i = j + 1
      <4>1. j \in 0 .. (j + 1) /\ g[j] = f[j] /\ i # 0 /\ i - 1 = j /\ ~(i <= j)
        BY <3>3
      <4>2. g[i] = AssembleField(f[j], q[i])
        BY <4>1
      <4> QED
        BY <4>1, <4>2
    <3> QED
      BY <3>1, <3>2, <3>3
  <2>3. Steps(g, j + 1)
    BY <2>2
  <2>4. j + 1 \in 0 .. k
    BY <1>2
  <2> HIDE DEF Steps, g
  <2> QED
    BY <2>3, <2>4
<1> HIDE DEF J, Steps
<1>3. k \in J
  <2>1. \A i \in 0 .. k : i < k /\ i \in J => i + 1 \in J
    BY <1>2
  <2> QED
    BY <1>1, <2>1, UpFrom
<1> DEFINE f == CHOOSE f : Steps(f, k)
<1>4. Steps(f, k)
  BY <1>3 DEF J
<1>5. AssembleFields(b, q) = f[k]
  BY DEF AssembleFields, Steps
<1> HIDE DEF f
<1>6. f[0] = b /\ \A i \in 1 .. k : f[i] = AssembleField(f[i - 1], q[i])
  <2>1. k \in Nat
    OBVIOUS
  <2> HIDE DEF k
  <2> QED
    BY <1>4, <2>1 DEF Steps
<1> QED
  BY <1>5, <1>6

LEMMA TapIs ==
  ASSUME NEW h, IsTap(h)
  PROVE  IsRadioTap(RadioTapOf(h))
<1> DEFINE q == InKeyOrder(h)
           k == Len(q)
<1>1. \A x \in h : x.id \in (0 .. 22) \ {18} /\ x.index \in 0 .. 7 /\ x.v \in Nat
  BY TableIs DEF IsTap, MaxPresent
<1>2. InKeys(q, h)
  <2>1. \A x \in h : x.id \in 0 .. 31 /\ x.index \in 0 .. 7
    BY <1>1
  <2> QED
    BY <2>1, KeysAre
<1>3. k \in Nat /\ \A i \in 1 .. k : q[i] \in h
  BY <1>2 DEF InKeys
<1>4. PICK f : /\ f[0] = NewRadioTap
               /\ \A i \in 1 .. k : f[i] = PutField(f[i - 1], q[i].id, q[i].index, q[i].v)
               /\ RadioTapOf(h) = f[k]
  BY <1>3, RadioTapTo
<1> HIDE DEF q, k
<1> DEFINE I == {i \in 0 .. k : IsRadioTap(f[i])}
<1>5. 0 \in I
  <2>1. IsRadioTap(NewRadioTap)
    BY DEF IsRadioTap, NewRadioTap, AreTapFields
  <2> QED
    BY <1>3, <1>4, <2>1
<1>6. \A i \in 0 .. k : i < k /\ i \in I => i + 1 \in I
  <2> SUFFICES ASSUME NEW i \in 0 .. k, i < k, i \in I PROVE i + 1 \in I
    OBVIOUS
  <2>1. i + 1 \in 1 .. k /\ i + 1 \in 0 .. k /\ (i + 1) - 1 = i
    BY <1>3
  <2>2. f[i + 1] = PutField(f[i], q[i + 1].id, q[i + 1].index, q[i + 1].v)
    BY <1>4, <2>1
  <2>3. IsRadioTap(f[i])
    OBVIOUS
  <2>4. q[i + 1].id \in (0 .. 22) \ {18} /\ q[i + 1].index \in 0 .. 7 /\ q[i + 1].v \in Nat
    BY <1>1, <1>3, <2>1
  <2>5. IsRadioTap(f[i + 1])
    BY <2>2, <2>3, <2>4, FieldPut, Zenon
  <2> QED
    BY <2>1, <2>5
<1> HIDE DEF I
<1>7. k \in I
  BY <1>3, <1>5, <1>6, UpFrom
<1> QED
  BY <1>4, <1>7 DEF I

LEMMA PresentPlain ==
  ASSUME NEW b, IsPlain(b), NEW words, Len(words) \in Nat
  PROVE  IsPlain(AssemblePresent(b, words))
<1> DEFINE k == Len(words)
<1>4. PICK f : /\ f[0] = b
               /\ \A i \in 1 .. k : f[i] = Write(f[i - 1], f[i - 1].end, 4, "present", words[i])
               /\ AssemblePresent(b, words) = f[k]
  BY AssemblePresentTo
<1>3. k \in Nat
  OBVIOUS
<1> HIDE DEF k
<1> DEFINE I == {i \in 0 .. k : IsPlain(f[i])}
<1>5. 0 \in I
  BY <1>3, <1>4
<1>6. \A i \in 0 .. k : i < k /\ i \in I => i + 1 \in I
  <2> SUFFICES ASSUME NEW i \in 0 .. k, i < k, i \in I PROVE i + 1 \in I
    OBVIOUS
  <2>1. i + 1 \in 1 .. k /\ i + 1 \in 0 .. k /\ (i + 1) - 1 = i
    BY <1>3
  <2>2. f[i + 1] = Write(f[i], f[i].end, 4, "present", words[i + 1])
    BY <1>4, <2>1
  <2>3. IsPlain(f[i]) /\ f[i].end \in Nat
    BY DEF IsPlain
  <2>4. "present" \in TapNames /\ 4 \in Nat \ {0}
    BY DEF TapNames
  <2>5. IsPlain(f[i + 1])
    BY <2>2, <2>3, <2>4, PlainWritten
  <2> QED
    BY <2>1, <2>5
<1> HIDE DEF I
<1>7. k \in I
  BY <1>3, <1>5, <1>6, UpFrom
<1> QED
  BY <1>4, <1>7 DEF I

LEMMA FieldPlain ==
  ASSUME NEW b, IsPlain(b), NEW x, x.id \in (0 .. 22) \ {18}
  PROVE  IsPlain(AssembleField(b, x))
<1> DEFINE t == FieldOf(x.id)
           at == b.end + Pad(b.end, t.align)
           c == Write(b, at, t.size, "field", x.v)
<1>1. t.size \in Nat \ {0} /\ t.align \in {1, 2, 4, 8}
  BY FieldOfIs
<1>2. b.end \in Nat
  BY DEF IsPlain
<1> HIDE DEF t
<1>3. at \in Nat
  BY <1>1, <1>2, PadIs
<1>4. AssembleField(b, x) = [c EXCEPT !.end = at + t.size]
  BY DEF AssembleField, WriteField, t
<1>5. c = [end |-> c.end, at |-> c.at]
  BY DEF Write
<1> HIDE DEF at
<1>6. IsPlain(c)
  <2>1. "field" \in TapNames
    BY DEF TapNames
  <2> QED
    BY <1>1, <1>3, <2>1, PlainWritten
<1>7. at + t.size \in Nat
  BY <1>1, <1>3
<1> HIDE DEF c
<1> QED
  BY <1>4, <1>5, <1>6, <1>7, PlainMoved

LEMMA FieldsPlain ==
  ASSUME NEW b, IsPlain(b), NEW q, Len(q) \in Nat, \A i \in 1 .. Len(q) : q[i].id \in (0 .. 22) \ {18}
  PROVE  IsPlain(AssembleFields(b, q))
<1> DEFINE k == Len(q)
<1>4. PICK f : /\ f[0] = b
               /\ \A i \in 1 .. k : f[i] = AssembleField(f[i - 1], q[i])
               /\ AssembleFields(b, q) = f[k]
  BY AssembleFieldsTo
<1>3. k \in Nat /\ \A i \in 1 .. k : q[i].id \in (0 .. 22) \ {18}
  BY Zenon
<1> HIDE DEF k
<1> DEFINE I == {i \in 0 .. k : IsPlain(f[i])}
<1>5. 0 \in I
  BY <1>3, <1>4
<1>6. \A i \in 0 .. k : i < k /\ i \in I => i + 1 \in I
  <2> SUFFICES ASSUME NEW i \in 0 .. k, i < k, i \in I PROVE i + 1 \in I
    OBVIOUS
  <2>1. i + 1 \in 1 .. k /\ i + 1 \in 0 .. k /\ (i + 1) - 1 = i
    BY <1>3
  <2>2. f[i + 1] = AssembleField(f[i], q[i + 1])
    BY <1>4, <2>1
  <2>3. IsPlain(f[i])
    OBVIOUS
  <2>5. IsPlain(f[i + 1])
    BY <1>3, <2>1, <2>2, <2>3, FieldPlain
  <2> QED
    BY <2>1, <2>5
<1> HIDE DEF I
<1>7. k \in I
  BY <1>3, <1>5, <1>6, UpFrom
<1> QED
  BY <1>4, <1>7 DEF I

LEMMA HeaderPlain == IsPlain(AssembleHeader)
<1> DEFINE z == [version |-> 0, pad |-> 0, length |-> 0]
           c1 == Write(Empty, Empty.end, 1, "version", 0)
           c2 == Write(c1, c1.end, 1, "pad", 0)
           c3 == Write(c2, c2.end, 2, "length", 0)
<1>1. AssembleHeader = c3
  <2> DEFINE e == HeaderFields
             do(c, i) == IF i \in DOMAIN e THEN Write(c, c.end, e[i][2], e[i][1], z[e[i][1]]) ELSE c
  <2>1. DOMAIN e = 1 .. 3 /\ e[1] = <<"version", 1>> /\ e[2] = <<"pad", 1>> /\ e[3] = <<"length", 2>>
    BY DEF HeaderFields
  <2>2. AssembleHeader = do(do(do(do(Empty, 1), 2), 3), 4)
    BY DEF AssembleHeader, WriteNext, InTurn
  <2>3. 1 \in 1 .. 3 /\ 2 \in 1 .. 3 /\ 3 \in 1 .. 3 /\ 4 \notin 1 .. 3
    OBVIOUS
  <2>4. z["version"] = 0 /\ z["pad"] = 0 /\ z["length"] = 0
    OBVIOUS
  <2> HIDE DEF e, z
  <2>5. \A c : do(c, 1) = Write(c, c.end, 1, "version", 0)
    BY <2>1, <2>3, <2>4
  <2>6. \A c : do(c, 2) = Write(c, c.end, 1, "pad", 0)
    BY <2>1, <2>3, <2>4
  <2>7. \A c : do(c, 3) = Write(c, c.end, 2, "length", 0)
    BY <2>1, <2>3, <2>4
  <2>8. \A c : do(c, 4) = c
    BY <2>1, <2>3
  <2> HIDE DEF do
  <2> QED
    BY <2>2, <2>5, <2>6, <2>7, <2>8
<1>2. IsPlain(Empty)
  <2>1. DOMAIN Empty.at = {} /\ Empty.end = 0
    BY DEF Empty
  <2> QED
    BY <2>1 DEF IsPlain, IsBuffer
<1>3. {"version", "pad", "length"} \subseteq TapNames
  BY DEF TapNames
<1> HIDE DEF c1, c2, c3
<1>4. IsPlain(c1)
  <2>1. Empty.end \in Nat
    BY <1>2 DEF IsPlain
  <2> QED
    BY <1>2, <1>3, <2>1, PlainWritten DEF c1
<1>5. IsPlain(c2)
  <2>1. c1.end \in Nat
    BY <1>4 DEF IsPlain
  <2> QED
    BY <1>4, <1>3, <2>1, PlainWritten DEF c2
<1>6. IsPlain(c3)
  <2>1. c2.end \in Nat
    BY <1>5 DEF IsPlain
  <2> QED
    BY <1>5, <1>3, <2>1, PlainWritten DEF c3
<1> QED
  BY <1>1, <1>6

LEMMA TapPlain ==
  ASSUME NEW r, IsRadioTap(r)
  PROVE  IsPlain(AssembleRadioTap(r))
<1> DEFINE b1 == AssemblePresent(AssembleHeader, r.present)
           q == InKeyOrder(r.fields)
           b2 == AssembleFields(b1, q)
           c == Write(b2, 2, 2, "length", b2.end)
<1>1. IsPlain(b1)
  <2>1. Len(r.present) \in Nat
    BY LenProperties DEF IsRadioTap
  <2> QED
    BY <2>1, HeaderPlain, PresentPlain
<1>2. Len(q) \in Nat /\ \A i \in 1 .. Len(q) : q[i].id \in (0 .. 22) \ {18}
  <2>1. \A x \in r.fields : x.id \in 0 .. 31 /\ x.index \in 0 .. 7 /\ x.id \in (0 .. 22) \ {18}
    BY DEF IsRadioTap, AreTapFields
  <2>2. InKeys(q, r.fields)
    BY <2>1, KeysAre
  <2> HIDE DEF q
  <2> QED
    BY <2>1, <2>2, Zenon DEF InKeys
<1> HIDE DEF b1, q
<1>3. IsPlain(b2)
  BY <1>1, <1>2, FieldsPlain
<1>4. AssembleRadioTap(r) = [c EXCEPT !.end = b2.end]
  BY DEF AssembleRadioTap, AssembleLength, Overwrite, b1, q
<1>5. c = [end |-> c.end, at |-> c.at]
  BY DEF Write
<1> HIDE DEF b2
<1>6. IsPlain(c) /\ b2.end \in Nat
  <2>1. "length" \in TapNames /\ 2 \in Nat \ {0}
    BY DEF TapNames
  <2> QED
    BY <1>3, <2>1, PlainWritten DEF IsPlain
<1> HIDE DEF c
<1> QED
  BY <1>4, <1>5, <1>6, PlainMoved

LEMMA TapForPlain ==
  ASSUME NEW a \in Arrivals
  PROVE  IsPlain(TapFor[a]) /\ a.lost \in Nat
<1>1. IsTap(a.header) /\ a.lost \in Nat
  BY AirAssumption
<1> QED
  BY <1>1, TapIs, TapPlain DEF TapFor

(***************************************************************************)
(* What a radiotap header leaves in a buffer.                              *)
(***************************************************************************)
\* b has become c, w octets longer.
Longer(c, b, w) == IsPlain(c) /\ c.end = b.end + w /\ Kept(c, b, b.end)

LEMMA PlainLonger ==
  ASSUME NEW b, IsPlain(b), NEW w \in Nat \ {0}, NEW f \in TapNames, NEW v
  PROVE  LET c == Write(b, b.end, w, f, v) IN Longer(c, b, w) /\ Holds(c, b.end, w, f, v)
<1> DEFINE c == Write(b, b.end, w, f, v)
<1>1. b.end \in Nat /\ IsBuffer(b)
  BY DEF IsPlain
<1>2. IsPlain(c) /\ c.end = b.end + w
  BY <1>1, PlainWritten
<1>3. Holds(c, b.end, w, f, v)
  BY <1>1, Written
<1>4. Kept(c, b, b.end)
  BY <1>1, WriteKept
<1> HIDE DEF c
<1>5. Longer(c, b, w) /\ Holds(c, b.end, w, f, v)
  BY <1>2, <1>3, <1>4 DEF Longer
<1> QED
  BY <1>5 DEF c

LEMMA HeaderHeld ==
  /\ IsPlain(AssembleHeader) /\ AssembleHeader.end = 4
  /\ Holds(AssembleHeader, 0, 1, "version", 0)
<1> DEFINE z == [version |-> 0, pad |-> 0, length |-> 0]
           c1 == Write(Empty, Empty.end, 1, "version", 0)
           c2 == Write(c1, c1.end, 1, "pad", 0)
           c3 == Write(c2, c2.end, 2, "length", 0)
<1>1. AssembleHeader = c3
  <2> DEFINE e == HeaderFields
             do(c, i) == IF i \in DOMAIN e THEN Write(c, c.end, e[i][2], e[i][1], z[e[i][1]]) ELSE c
  <2>1. DOMAIN e = 1 .. 3 /\ e[1] = <<"version", 1>> /\ e[2] = <<"pad", 1>> /\ e[3] = <<"length", 2>>
    BY DEF HeaderFields
  <2>2. AssembleHeader = do(do(do(do(Empty, 1), 2), 3), 4)
    BY DEF AssembleHeader, WriteNext, InTurn
  <2>3. 1 \in 1 .. 3 /\ 2 \in 1 .. 3 /\ 3 \in 1 .. 3 /\ 4 \notin 1 .. 3
    OBVIOUS
  <2>4. z["version"] = 0 /\ z["pad"] = 0 /\ z["length"] = 0
    OBVIOUS
  <2> HIDE DEF e, z
  <2>5. \A c : do(c, 1) = Write(c, c.end, 1, "version", 0)
    BY <2>1, <2>3, <2>4
  <2>6. \A c : do(c, 2) = Write(c, c.end, 1, "pad", 0)
    BY <2>1, <2>3, <2>4
  <2>7. \A c : do(c, 3) = Write(c, c.end, 2, "length", 0)
    BY <2>1, <2>3, <2>4
  <2>8. \A c : do(c, 4) = c
    BY <2>1, <2>3
  <2> HIDE DEF do
  <2> QED
    BY <2>2, <2>5, <2>6, <2>7, <2>8
<1>2. IsPlain(Empty) /\ Empty.end = 0
  <2>1. DOMAIN Empty.at = {} /\ Empty.end = 0
    BY DEF Empty
  <2> QED
    BY <2>1 DEF IsPlain, IsBuffer
<1>3. "version" \in TapNames /\ "pad" \in TapNames /\ "length" \in TapNames
      /\ 1 \in Nat \ {0} /\ 2 \in Nat \ {0}
  BY DEF TapNames
<1>4. Longer(c1, Empty, 1) /\ Holds(c1, Empty.end, 1, "version", 0)
  BY <1>2, <1>3, PlainLonger
<1>5. Longer(c2, c1, 1)
  BY <1>3, <1>4, PlainLonger DEF Longer
<1>6. Longer(c3, c2, 2)
  BY <1>3, <1>5, PlainLonger DEF Longer
<1> HIDE DEF c1, c2, c3
<1>7. IsPlain(c3) /\ c3.end = 4 /\ c2.end = 2 /\ c1.end = 1
  BY <1>2, <1>4, <1>5, <1>6 DEF Longer
<1>8. Holds(c2, 0, 1, "version", 0)
  BY <1>2, <1>4, <1>5, <1>7 DEF Longer, Kept
<1>9. Holds(c3, 0, 1, "version", 0)
  BY <1>6, <1>7, <1>8 DEF Longer, Kept
<1> QED
  BY <1>1, <1>7, <1>9

\* The first m words are in c, behind the four octets of b.
Worded(c, b, words, m) ==
  /\ IsPlain(c) /\ c.end = 4 + 4 * m /\ Kept(c, b, 4)
  /\ \A k \in 1 .. m : Holds(c, 4 * k, 4, "present", words[k])

LEMMA PresentHeld ==
  ASSUME NEW b, IsPlain(b), b.end = 4, NEW words, Len(words) \in Nat
  PROVE  Worded(AssemblePresent(b, words), b, words, Len(words))
<1> DEFINE k == Len(words)
<1>4. PICK f : /\ f[0] = b
               /\ \A i \in 1 .. k : f[i] = Write(f[i - 1], f[i - 1].end, 4, "present", words[i])
               /\ AssemblePresent(b, words) = f[k]
  BY AssemblePresentTo
<1>3. k \in Nat
  OBVIOUS
<1> HIDE DEF k
<1> DEFINE I == {i \in 0 .. k : Worded(f[i], b, words, i)}
<1>5. 0 \in I
  <2>1. Worded(b, b, words, 0)
    BY DEF Worded, Kept
  <2> QED
    BY <1>3, <1>4, <2>1
<1>6. \A i \in 0 .. k : i < k /\ i \in I => i + 1 \in I
  <2> SUFFICES ASSUME NEW i \in 0 .. k, i < k, i \in I PROVE i + 1 \in I
    OBVIOUS
  <2>1. i + 1 \in 1 .. k /\ i + 1 \in 0 .. k /\ (i + 1) - 1 = i
    BY <1>3
  <2> DEFINE c == f[i]
             d == f[i + 1]
  <2>2. d = Write(c, c.end, 4, "present", words[i + 1])
    BY <1>4, <2>1
  <2>3. Worded(c, b, words, i)
    OBVIOUS
  <2>4. "present" \in TapNames /\ 4 \in Nat \ {0}
    BY DEF TapNames
  <2> HIDE DEF c, d
  <2>5. Longer(d, c, 4) /\ Holds(d, c.end, 4, "present", words[i + 1])
    BY <2>2, <2>3, <2>4, PlainLonger DEF Worded
  <2>6. c.end = 4 + 4 * i /\ IsPlain(d) /\ d.end = 4 + 4 * (i + 1) /\ Kept(d, c, 4 + 4 * i) /\ Kept(c, b, 4)
    BY <2>3, <2>5 DEF Worded, Longer
  <2>7. Kept(d, b, 4)
    BY <2>6, KeptOn
  <2>8. ASSUME NEW j \in 1 .. i + 1 PROVE Holds(d, 4 * j, 4, "present", words[j])
    <3>1. CASE j = i + 1
      BY <2>5, <2>6, <3>1
    <3>2. CASE j # i + 1
      <4>1. j \in 1 .. i /\ 4 * j + 4 <= 4 + 4 * i /\ 4 * j \in Nat /\ 4 \in Nat \ {0}
        BY <3>2
      <4>2. Holds(c, 4 * j, 4, "present", words[j])
        BY <2>3, <4>1 DEF Worded
      <4> QED
        BY <2>6, <4>1, <4>2 DEF Kept
    <3> QED
      BY <3>1, <3>2
  <2>9. Worded(d, b, words, i + 1)
    BY <2>6, <2>7, <2>8 DEF Worded
  <2> QED
    BY <2>1, <2>9 DEF d
<1> HIDE DEF I
<1>7. k \in I
  BY <1>3, <1>5, <1>6, UpFrom
<1> QED
  BY <1>4, <1>7 DEF I, k

Knows(id) == id \in (0 .. 22) \ {18}
Start(at, id) == at + Pad(at, FieldOf(id).align)

LEMMA StartIs ==
  ASSUME NEW at \in Nat, NEW id, Knows(id)
  PROVE  Start(at, id) \in Nat /\ at <= Start(at, id) /\ FieldOf(id).size \in Nat \ {0}
<1>1. FieldOf(id).size \in 1 .. 12 /\ FieldOf(id).align \in {1, 2, 4, 8}
  BY FieldOfIs DEF Knows
<1>2. Pad(at, FieldOf(id).align) \in Nat
  BY <1>1, PadIs
<1> QED
  BY <1>1, <1>2 DEF Start

\* Field x is in c behind place at.
FieldIn(c, at, x) == Holds(c, Start(at, x.id), FieldOf(x.id).size, "field", x.v)
FieldEnd(at, x) == Start(at, x.id) + FieldOf(x.id).size

LEMMA FieldHeld ==
  ASSUME NEW b, IsPlain(b), NEW x, Knows(x.id)
  PROVE  LET c == AssembleField(b, x) IN
         /\ IsPlain(c) /\ c.end = FieldEnd(b.end, x) /\ b.end <= c.end
         /\ FieldIn(c, b.end, x) /\ Kept(c, b, b.end)
<1> DEFINE t == FieldOf(x.id)
           at == Start(b.end, x.id)
           d == Write(b, at, t.size, "field", x.v)
           c == AssembleField(b, x)
<1>1. b.end \in Nat /\ IsBuffer(b)
  BY DEF IsPlain
<1>2. at \in Nat /\ b.end <= at /\ t.size \in Nat \ {0}
  BY <1>1, StartIs
<1>3. c = [d EXCEPT !.end = at + t.size]
  BY DEF AssembleField, WriteField, Start
<1>4. d = [end |-> d.end, at |-> d.at]
  BY DEF Write
<1>5. IsPlain(c)
  BY FieldPlain DEF Knows
<1> HIDE DEF at, t
<1>6. Holds(d, at, t.size, "field", x.v) /\ Kept(d, b, at)
  BY <1>1, <1>2, Written, WriteKept
<1> HIDE DEF d
<1>7. c.at = d.at /\ c.end = at + t.size
  BY <1>3, <1>4
<1> HIDE DEF c
<1>8. Holds(c, at, t.size, "field", x.v) /\ Kept(c, b, at)
  BY <1>6, <1>7 DEF Holds, Kept
<1>9. Kept(c, b, b.end)
  BY <1>1, <1>2, <1>8, KeptLess
<1>10. b.end <= c.end
  BY <1>1, <1>2, <1>7
<1> QED
  BY <1>5, <1>7, <1>8, <1>9, <1>10 DEF FieldIn, FieldEnd, c, at, t

\* The first m of the fields q are in c, behind b; g says where each ends.
Fielded(c, b, q, g, m) ==
  /\ IsPlain(c) /\ Kept(c, b, b.end)
  /\ g[0] = b.end /\ c.end = g[m]
  /\ \A i \in 0 .. m : g[i] \in Nat /\ g[i] <= g[m]
  /\ \A i \in 1 .. m : g[i] = FieldEnd(g[i - 1], q[i]) /\ FieldIn(c, g[i - 1], q[i])

LEMMA FieldsHeld ==
  ASSUME NEW b, IsPlain(b), NEW q, Len(q) \in Nat, \A i \in 1 .. Len(q) : Knows(q[i].id)
  PROVE  \E g : Fielded(AssembleFields(b, q), b, q, g, Len(q))
<1> DEFINE k == Len(q)
<1>4. PICK f : /\ f[0] = b
               /\ \A i \in 1 .. k : f[i] = AssembleField(f[i - 1], q[i])
               /\ AssembleFields(b, q) = f[k]
  BY AssembleFieldsTo
<1>3. k \in Nat /\ \A i \in 1 .. k : Knows(q[i].id)
  BY Zenon
<1> HIDE DEF k
<1> DEFINE g == [i \in 0 .. k |-> f[i].end]
<1>a. \A i \in 0 .. k : g[i] = f[i].end
  OBVIOUS
<1> HIDE DEF g
<1> DEFINE I == {i \in 0 .. k : Fielded(f[i], b, q, g, i)}
<1>5. 0 \in I
  <2>1. b.end \in Nat /\ 0 \in 0 .. k
    BY <1>3 DEF IsPlain
  <2>2. g[0] = b.end
    BY <1>4, <1>a, <2>1
  <2>3. Fielded(b, b, q, g, 0)
    BY <2>1, <2>2 DEF Fielded, Kept
  <2> QED
    BY <1>4, <2>1, <2>3
<1>6. \A i \in 0 .. k : i < k /\ i \in I => i + 1 \in I
  <2> SUFFICES ASSUME NEW i \in 0 .. k, i < k, i \in I PROVE i + 1 \in I
    OBVIOUS
  <2>1. i + 1 \in 1 .. k /\ i + 1 \in 0 .. k /\ (i + 1) - 1 = i
    BY <1>3
  <2> DEFINE c == f[i]
             d == f[i + 1]
             x == q[i + 1]
  <2>2. d = AssembleField(c, x)
    BY <1>4, <2>1
  <2>3. Fielded(c, b, q, g, i)
    OBVIOUS
  <2>4. Knows(x.id)
    BY <1>3, <2>1
  <2>a. g[i] = c.end /\ g[i + 1] = d.end
    BY <1>a, <2>1
  <2> HIDE DEF c, d, x
  <2>5. /\ IsPlain(d) /\ d.end = FieldEnd(c.end, x) /\ c.end <= d.end
        /\ FieldIn(d, c.end, x) /\ Kept(d, c, c.end)
    BY <2>2, <2>3, <2>4, FieldHeld DEF Fielded
  <2>6. /\ c.end \in Nat /\ d.end \in Nat /\ b.end \in Nat /\ b.end <= c.end
        /\ g[0] = b.end /\ Kept(c, b, b.end)
    <3>1. 0 \in 0 .. i
      OBVIOUS
    <3> QED
      BY <2>3, <2>5, <2>a, <3>1 DEF Fielded, IsPlain
  <2>7. Kept(d, b, b.end)
    BY <2>5, <2>6, KeptOn
  <2>8. \A j \in 0 .. i + 1 : g[j] \in Nat /\ g[j] <= g[i + 1]
    <3> SUFFICES ASSUME NEW j \in 0 .. i + 1 PROVE g[j] \in Nat /\ g[j] <= g[i + 1]
      OBVIOUS
    <3>1. CASE j = i + 1
      BY <2>6, <2>a, <3>1
    <3>2. CASE j # i + 1
      <4>1. j \in 0 .. i
        BY <3>2
      <4>2. g[j] \in Nat /\ g[j] <= g[i]
        BY <2>3, <4>1 DEF Fielded
      <4> QED
        BY <2>5, <2>6, <2>a, <4>2
    <3> QED
      BY <3>1, <3>2
  <2>9. \A j \in 1 .. i + 1 : g[j] = FieldEnd(g[j - 1], q[j]) /\ FieldIn(d, g[j - 1], q[j])
    <3> SUFFICES ASSUME NEW j \in 1 .. i + 1 PROVE g[j] = FieldEnd(g[j - 1], q[j]) /\ FieldIn(d, g[j - 1], q[j])
      OBVIOUS
    <3>1. CASE j = i + 1
      BY <2>1, <2>5, <2>a, <3>1 DEF x
    <3>2. CASE j # i + 1
      <4>1. j \in 1 .. i /\ j - 1 \in 0 .. i /\ j \in 0 .. i
        BY <3>2
      <4>2. g[j] = FieldEnd(g[j - 1], q[j]) /\ FieldIn(c, g[j - 1], q[j])
        BY <2>3, <4>1 DEF Fielded
      <4>3. g[j - 1] \in Nat /\ g[j] \in Nat /\ g[j] <= c.end
        BY <2>3, <2>a, <4>1 DEF Fielded
      <4>4. Knows(q[j].id)
        BY <1>3, <4>1
      <4>5. Start(g[j - 1], q[j].id) \in Nat /\ FieldOf(q[j].id).size \in Nat \ {0}
        BY <4>3, <4>4, StartIs
      <4>6. Start(g[j - 1], q[j].id) + FieldOf(q[j].id).size <= c.end
        BY <4>2, <4>3 DEF FieldEnd
      <4>7. FieldIn(d, g[j - 1], q[j])
        BY <2>5, <4>2, <4>5, <4>6 DEF FieldIn, Kept
      <4> QED
        BY <4>2, <4>7
    <3> QED
      BY <3>1, <3>2
  <2>10. Fielded(d, b, q, g, i + 1)
    BY <2>5, <2>6, <2>7, <2>8, <2>9, <2>a DEF Fielded
  <2> QED
    BY <2>1, <2>10 DEF d
<1> HIDE DEF I
<1>7. k \in I
  BY <1>3, <1>5, <1>6, UpFrom
<1>8. Fielded(AssembleFields(b, q), b, q, g, k)
  BY <1>4, <1>7 DEF I
<1> QED
  BY <1>8 DEF k

(***************************************************************************)
(* The header object made of the fields h, from the smallest key on.       *)
(***************************************************************************)
\* The present words w that go with the fields F.
Marks(w, F) ==
  \E m \in 0 .. 8 :
    /\ w \in Seq(SUBSET Nat) /\ Len(w) = m /\ DOMAIN w = 1 .. m
    /\ \A k \in 1 .. m : Ext \in w[k] <=> k < m
    /\ \A k \in 1 .. m : \A id \in 0 .. 22 : id \in w[k] <=> \E x \in F : x.id = id /\ x.index = k - 1
    /\ \A x \in F : x.index < m
    /\ m > 0 => \E x \in F : x.index = m - 1

\* A field is put that is new, in the last word or behind it.
LEMMA MarkPut ==
  ASSUME NEW r, IsRadioTap(r), Marks(r.present, r.fields), NEW x, AreTapFields({x}),
         \A y \in r.fields : Key(y) < Key(x),
         x.index > 0 => \E y \in r.fields : y.index = x.index - 1
  PROVE  LET t == PutField(r, x.id, x.index, x.v) IN
         IsRadioTap(t) /\ t.fields = r.fields \cup {x} /\ Marks(t.present, t.fields)
<1> DEFINE w == r.present
           F == r.fields
           id == x.id
           j == x.index
           t == PutField(r, id, j, x.v)
           u == t.present
<1>1. /\ id \in (0 .. 22) \ {18} /\ j \in 0 .. 7 /\ x.v \in Nat
      /\ x = [id |-> id, index |-> j, v |-> x.v]
  BY DEF AreTapFields
<1>2. PICK m \in 0 .. 8 :
        /\ w \in Seq(SUBSET Nat) /\ Len(w) = m /\ DOMAIN w = 1 .. m
        /\ \A k \in 1 .. m : Ext \in w[k] <=> k < m
        /\ \A k \in 1 .. m : \A i \in 0 .. 22 : i \in w[k] <=> \E y \in F : y.id = i /\ y.index = k - 1
        /\ \A y \in F : y.index < m
        /\ m > 0 => \E y \in F : y.index = m - 1
  BY DEF Marks
<1>3. \A y \in F : y.id \in 0 .. 22 /\ y.index \in 0 .. 7
  BY DEF IsRadioTap, AreTapFields
<1>4. IsRadioTap(t)
  BY <1>1, FieldPut
<1>5. t.fields = F \cup {x}
  <2>1. t.fields = {y \in F : y.id # id \/ y.index # j} \cup {[id |-> id, index |-> j, v |-> x.v]}
    BY DEF PutField
  <2>2. \A y \in F : y.id # id \/ y.index # j
    BY <1>1, <1>3 DEF Key
  <2> QED
    BY <1>1, <2>1, <2>2
<1>6. m - 1 <= j /\ j <= m
  <2>1. m - 1 <= j
    <3>1. CASE m > 0
      <4>1. PICK y \in F : y.index = m - 1
        BY <1>2, <3>1
      <4>2. Key(y) < Key(x) /\ y.id \in 0 .. 22 /\ y.index \in 0 .. 7
        BY <1>3
      <4> QED
        BY <1>1, <4>1, <4>2 DEF Key
    <3>2. CASE ~(m > 0)
      BY <1>1, <3>2
    <3> QED
      BY <3>1, <3>2
  <2>2. j <= m
    <3>1. CASE j > 0
      <4>1. PICK y \in F : y.index = j - 1
        BY <3>1
      <4>2. y.index < m
        BY <1>2
      <4> QED
        BY <1>1, <4>1, <4>2
    <3>2. CASE ~(j > 0)
      BY <1>1, <3>2
    <3> QED
      BY <3>1, <3>2
  <2> QED
    BY <2>1, <2>2
<1>7. /\ DOMAIN u = 1 .. j + 1
      /\ \A k \in 1 .. j + 1 :
           u[k] = (IF k \in 1 .. m THEN w[k] ELSE {})
                    \cup (IF k = j THEN {Ext, Namespace} ELSE {})
                    \cup (IF k = j + 1 THEN {id} ELSE {})
  <2>1. 1 .. m \cup 1 .. (j + 1) = 1 .. j + 1
    BY <1>1, <1>6
  <2>2. u = [k \in 1 .. m \cup 1 .. (j + 1) |->
               (IF k \in 1 .. m THEN w[k] ELSE {})
                 \cup (IF k = j THEN {Ext, Namespace} ELSE {})
                 \cup (IF k = j + 1 THEN {id} ELSE {})]
    BY <1>2 DEF PutField
  <2> HIDE DEF u
  <2> QED
    BY <2>1, <2>2
<1>8. u \in Seq(SUBSET Nat) /\ Len(u) = j + 1
  <2>1. u \in Seq(SUBSET Nat)
    BY <1>4 DEF IsRadioTap
  <2>2. Len(u) \in Nat /\ DOMAIN u = 1 .. Len(u)
    BY <2>1, LenProperties
  <2> HIDE DEF u
  <2> QED
    BY <1>1, <1>7, <2>1, <2>2
<1>9. Ext = 31 /\ Namespace = 29
  BY DEF Ext, Namespace
<1> DEFINE G == F \cup {x}
<1>a. t.fields = G
  BY <1>5
<1> HIDE DEF u, w, t, F
<1>10. \A k \in 1 .. j + 1 : Ext \in u[k] <=> k < j + 1
  <2> SUFFICES ASSUME NEW k \in 1 .. j + 1 PROVE Ext \in u[k] <=> k < j + 1
    OBVIOUS
  <2>0. Ext \notin {id}
    BY <1>1, <1>9
  <2>1. CASE k = j + 1
    <3>1. k # j /\ (k \in 1 .. m => Ext \notin w[k])
      BY <1>1, <1>2, <1>6, <2>1
    <3> QED
      BY <1>7, <2>0, <2>1, <3>1
  <2>2. CASE k = j
    <3>1. k # j + 1 /\ k < j + 1
      BY <1>1, <2>2
    <3> QED
      BY <1>7, <2>2, <3>1
  <2>3. CASE k < j
    <3>1. k \in 1 .. m /\ k # j /\ k # j + 1 /\ k < m /\ k < j + 1
      BY <1>1, <1>6, <2>3
    <3> QED
      BY <1>2, <1>7, <3>1
  <2> QED
    BY <1>1, <2>1, <2>2, <2>3
<1>11. \A k \in 1 .. j + 1 : \A i \in 0 .. 22 : i \in u[k] <=> \E y \in G : y.id = i /\ y.index = k - 1
  <2> SUFFICES ASSUME NEW k \in 1 .. j + 1, NEW i \in 0 .. 22
               PROVE i \in u[k] <=> \E y \in G : y.id = i /\ y.index = k - 1
    OBVIOUS
  <2>1. i \notin {Ext, Namespace}
    BY <1>9
  <2>2. i \in u[k] <=> (k \in 1 .. m /\ i \in w[k]) \/ (k = j + 1 /\ i = id)
    BY <1>7, <2>1
  <2>3. (k \in 1 .. m /\ i \in w[k]) <=> \E y \in F : y.id = i /\ y.index = k - 1
    <3>1. CASE k \in 1 .. m
      BY <1>2, <3>1
    <3>2. CASE k \notin 1 .. m
      <4>1. ~\E y \in F : y.index = k - 1
        BY <1>2, <1>3, <3>2
      <4> QED
        BY <3>2, <4>1
    <3> QED
      BY <3>1, <3>2
  <2>4. (k = j + 1 /\ i = id) <=> (x.id = i /\ x.index = k - 1)
    BY <1>1
  <2> QED
    BY <2>2, <2>3, <2>4
<1>12. \A y \in G : y.index < j + 1
  BY <1>1, <1>2, <1>3, <1>6
<1>13. j + 1 \in 0 .. 8 /\ j + 1 > 0 /\ \E y \in G : y.index = (j + 1) - 1
  BY <1>1
<1> HIDE DEF G
<1>14. Marks(u, G)
  BY <1>7, <1>8, <1>10, <1>11, <1>12, <1>13 DEF Marks
<1> QED
  BY <1>4, <1>5, <1>a, <1>14 DEF t, u, F

LEMMA KeyTells ==
  ASSUME NEW x, NEW y, x.id \in 0 .. 31, x.index \in 0 .. 7, y.id \in 0 .. 31, y.index \in 0 .. 7
  PROVE  /\ Key(x) = Key(y) => x.id = y.id /\ x.index = y.index
         /\ x.index < y.index => Key(x) < Key(y)
         /\ Key(x) \in Int
<1>1. PICK a \in 0 .. 31, b \in 0 .. 31, i \in 0 .. 7, j \in 0 .. 7 :
        a = x.id /\ b = y.id /\ i = x.index /\ j = y.index
  OBVIOUS
<1>2. Key(x) = i * 32 + a /\ Key(y) = j * 32 + b
  BY <1>1 DEF Key
<1>3. i < j => i * 32 + a < j * 32 + b
  OBVIOUS
<1>4. j < i => j * 32 + b < i * 32 + a
  OBVIOUS
<1>5. i = j \/ i < j \/ j < i
  OBVIOUS
<1>6. i * 32 + a \in Int /\ j * 32 + b \in Int
  OBVIOUS
<1>9. \A k \in Int : k + a = k + b => a = b
  OBVIOUS
<1>10. i = j /\ i * 32 + a = j * 32 + b => a = b
  BY <1>6, <1>9
<1>11. ~(i < i)
  OBVIOUS
<1>7. CASE i = j
  BY <1>1, <1>2, <1>6, <1>7, <1>10, <1>11
<1>8. CASE i # j
  BY <1>1, <1>2, <1>3, <1>4, <1>5, <1>6, <1>8
<1> QED
  BY <1>7, <1>8

\* No field is there twice.
OnceKeyed(F) == \A x, y \in F : Key(x) = Key(y) => x = y

LEMMA TapOfIs ==
  ASSUME NEW h, IsTap(h)
  PROVE  LET r == RadioTapOf(h) IN
         IsRadioTap(r) /\ r.fields = h /\ Marks(r.present, h) /\ AreTapFields(h) /\ OnceKeyed(h) /\ h # {}
<1> DEFINE q == InKeyOrder(h)
           k == Len(q)
<1>1. /\ \A x \in h : x.id \in (0 .. 22) \ {18} /\ x.index \in 0 .. 7 /\ x.v \in Nat
      /\ AreTapFields(h) /\ h # {}
      /\ \A x \in h : x.index > 0 => \E y \in h : y.index = x.index - 1
  BY TableIs DEF IsTap, MaxPresent, AreTapFields
<1>0. \A x, y \in h : Key(x) = Key(y) => x = y
  <2> SUFFICES ASSUME NEW x \in h, NEW y \in h, Key(x) = Key(y) PROVE x = y
    OBVIOUS
  <2>1. x.id \in 0 .. 22 /\ y.id \in 0 .. 22 /\ x.index \in 0 .. 7 /\ y.index \in 0 .. 7
    BY <1>1
  <2>2. x.id = y.id /\ x.index = y.index
    <3>2. x.id \in 0 .. 31 /\ y.id \in 0 .. 31
      BY <2>1
    <3> QED
      BY <2>1, <3>2, KeyTells
  <2> QED
    BY <2>2 DEF IsTap
<1>2. InKeys(q, h)
  <2>1. \A x \in h : x.id \in 0 .. 31 /\ x.index \in 0 .. 7
    BY <1>1
  <2> QED
    BY <2>1, KeysAre
<1>3. /\ k \in Nat /\ \A i \in 1 .. k : q[i] \in h
      /\ \A i, j \in 1 .. k : i < j => Key(q[i]) < Key(q[j])
      /\ \A x \in h : \E i \in 1 .. k : q[i] = x
  <2>1. k \in Nat /\ (\A i \in 1 .. k : q[i] \in h) /\ \A i, j \in 1 .. k : i < j => Key(q[i]) < Key(q[j])
    BY <1>2 DEF InKeys
  <2>2. \A x \in h : \E i \in 1 .. k : Key(q[i]) = Key(x)
    BY <1>2 DEF InKeys
  <2> HIDE DEF q, k
  <2> QED
    BY <1>0, <2>1, <2>2
<1>4. PICK f : /\ f[0] = NewRadioTap
               /\ \A i \in 1 .. k : f[i] = PutField(f[i - 1], q[i].id, q[i].index, q[i].v)
               /\ RadioTapOf(h) = f[k]
  BY <1>3, RadioTapTo
<1> HIDE DEF q, k
<1> DEFINE First(i) == {x \in h : \E j \in 1 .. k : j <= i /\ q[j] = x}
           Fine(r, i) == IsRadioTap(r) /\ r.fields = First(i) /\ Marks(r.present, r.fields)
           I == {i \in 0 .. k : Fine(f[i], i)}
<1>5. 0 \in I
  <2>1. IsRadioTap(NewRadioTap) /\ NewRadioTap.fields = {} /\ NewRadioTap.present = << >>
    BY DEF IsRadioTap, NewRadioTap, AreTapFields
  <2>2. First(0) = {}
    BY <1>3
  <2>3. Marks(<< >>, {})
    <3>1. 0 \in 0 .. 8 /\ << >> \in Seq(SUBSET Nat) /\ Len(<< >>) = 0 /\ DOMAIN << >> = 1 .. 0
      OBVIOUS
    <3> QED
      BY <3>1 DEF Marks
  <2> HIDE DEF First
  <2>4. Fine(NewRadioTap, 0)
    BY <2>1, <2>2, <2>3
  <2> HIDE DEF Fine
  <2> QED
    BY <1>3, <1>4, <2>4
<1>6. \A i \in 0 .. k : i < k /\ i \in I => i + 1 \in I
  <2> SUFFICES ASSUME NEW i \in 0 .. k, i < k, i \in I PROVE i + 1 \in I
    OBVIOUS
  <2>1. i + 1 \in 1 .. k /\ i + 1 \in 0 .. k /\ (i + 1) - 1 = i
    BY <1>3
  <2> DEFINE x == q[i + 1]
             r == f[i]
  <2>2. f[i + 1] = PutField(r, x.id, x.index, x.v)
    BY <1>4, <2>1
  <2>3. IsRadioTap(r) /\ r.fields = First(i) /\ Marks(r.present, r.fields)
    OBVIOUS
  <2>4. x \in h
    BY <1>3, <2>1
  <2>5. AreTapFields({x})
    BY <1>1, <2>4 DEF AreTapFields
  <2> HIDE DEF r
  <2>6. \A y \in r.fields : Key(y) < Key(x)
    <3> SUFFICES ASSUME NEW y \in r.fields PROVE Key(y) < Key(x)
      OBVIOUS
    <3>1. PICK j \in 1 .. k : j <= i /\ q[j] = y
      BY <2>3
    <3>2. j < i + 1
      BY <3>1
    <3> QED
      BY <1>3, <2>1, <3>1, <3>2
  <2>7. x.index > 0 => \E y \in r.fields : y.index = x.index - 1
    <3> SUFFICES ASSUME x.index > 0 PROVE \E y \in r.fields : y.index = x.index - 1
      OBVIOUS
    <3>1. PICK y \in h : y.index = x.index - 1
      BY <1>1, <2>4
    <3>2. PICK j \in 1 .. k : q[j] = y
      BY <1>3
    <3>3. Key(y) < Key(x)
      <4>1. /\ x.id \in 0 .. 31 /\ y.id \in 0 .. 31 /\ x.index \in 0 .. 7 /\ y.index \in 0 .. 7
            /\ y.index < x.index
        BY <1>1, <2>4, <3>1
      <4> QED
        BY <4>1, KeyTells
    <3>4. Key(x) \in Int /\ Key(y) \in Int
      BY <1>1, <2>4 DEF Key
    <3>5. j <= i
      <4> SUFFICES ASSUME ~(j <= i) PROVE FALSE
        OBVIOUS
      <4>1. j = i + 1 \/ i + 1 < j
        OBVIOUS
      <4>2. CASE j = i + 1
        BY <3>2, <3>3, <3>4, <4>2
      <4>3. CASE i + 1 < j
        <5>1. Key(q[i + 1]) < Key(q[j])
          BY <1>3, <2>1, <4>3
        <5> QED
          BY <3>2, <3>3, <3>4, <5>1
      <4> QED
        BY <4>1, <4>2, <4>3
    <3> QED
      BY <2>3, <3>1, <3>2, <3>5
  <2>8. LET t == f[i + 1] IN IsRadioTap(t) /\ t.fields = r.fields \cup {x} /\ Marks(t.present, t.fields)
    <3> HIDE DEF x, First
    <3> QED
      BY <2>2, <2>3, <2>5, <2>6, <2>7, MarkPut
  <2>9. First(i + 1) = First(i) \cup {x}
    <3>1. \A j \in 1 .. k : j <= i + 1 <=> j <= i \/ j = i + 1
      OBVIOUS
    <3> QED
      BY <2>1, <2>4, <3>1
  <2> HIDE DEF First, x
  <2>10. Fine(f[i + 1], i + 1)
    BY <2>3, <2>8, <2>9
  <2> HIDE DEF Fine
  <2> QED
    BY <2>1, <2>10
<1> HIDE DEF I
<1>7. k \in I
  BY <1>3, <1>5, <1>6, UpFrom
<1>8. First(k) = h
  BY <1>3
<1>9. Fine(f[k], k)
  BY <1>7 DEF I
<1> HIDE DEF First
<1> QED
  BY <1>0, <1>1, <1>4, <1>8, <1>9 DEF OnceKeyed

-----------------------------------------------------------------------------
(***************************************************************************)
(* What is read from it.                                                   *)
(***************************************************************************)
\* Two lists in the order of their keys, which are the same, agree in them.
LEMMA SameKeys ==
  ASSUME NEW S, NEW T, NEW p, NEW q, InKeys(p, S), InKeys(q, T),
         \A x \in S \cup T : x.id \in 0 .. 31 /\ x.index \in 0 .. 7,
         \A x \in S : \E y \in T : Key(x) = Key(y), \A y \in T : \E x \in S : Key(x) = Key(y)
  PROVE  Len(p) = Len(q) /\ \A i \in 1 .. Len(q) : p[i].id = q[i].id /\ p[i].index = q[i].index
<1> DEFINE R == {Key(x) : x \in S}
           m == Len(p)
           n1 == Len(q)
           a == [i \in 1 .. m |-> Key(p[i])]
           b == [i \in 1 .. n1 |-> Key(q[i])]
<1>0. PICK k \in Nat : k = 255
  OBVIOUS
<1>1. \A u \in R : u \in 0 .. k
  BY <1>0 DEF Key
<1>2. /\ m \in Nat /\ \A i \in 1 .. m : p[i] \in S
      /\ \A i, j \in 1 .. m : i < j => Key(p[i]) < Key(p[j])
      /\ \A x \in S : \E i \in 1 .. m : Key(p[i]) = Key(x)
  BY DEF InKeys
<1>3. /\ n1 \in Nat /\ \A i \in 1 .. n1 : q[i] \in T
      /\ \A i, j \in 1 .. n1 : i < j => Key(q[i]) < Key(q[j])
      /\ \A x \in T : \E i \in 1 .. n1 : Key(q[i]) = Key(x)
  BY DEF InKeys
<1>4. (\A x \in S : Key(x) \in R) /\ (\A y \in T : Key(y) \in R) /\ \A u \in R : \E x \in S : u = Key(x)
  OBVIOUS
<1> HIDE DEF R, m, n1
<1>5. a \in [1 .. m -> R] /\ (\A i, j \in 1 .. m : i < j => a[i] < a[j]) /\ \A u \in R : \E i \in 1 .. m : a[i] = u
  BY <1>2, <1>4
<1>6. b \in [1 .. n1 -> R] /\ (\A i, j \in 1 .. n1 : i < j => b[i] < b[j]) /\ \A u \in R : \E i \in 1 .. n1 : b[i] = u
  BY <1>3, <1>4
<1>a. (\A i \in 1 .. m : a[i] = Key(p[i])) /\ \A i \in 1 .. n1 : b[i] = Key(q[i])
  OBVIOUS
<1> HIDE DEF a, b
<1>7. Cardinality(R) = m /\ Ascending(R) = a
  BY <1>1, <1>2, <1>5, ListsOnce
<1>8. Cardinality(R) = n1 /\ Ascending(R) = b
  BY <1>1, <1>3, <1>6, ListsOnce
<1>9. m = n1 /\ a = b
  BY <1>7, <1>8
<1>10. ASSUME NEW i \in 1 .. n1 PROVE p[i].id = q[i].id /\ p[i].index = q[i].index
  <2>1. Key(p[i]) = Key(q[i])
    BY <1>9, <1>a
  <2>2. p[i].id \in 0 .. 31 /\ p[i].index \in 0 .. 7 /\ q[i].id \in 0 .. 31 /\ q[i].index \in 0 .. 7
    BY <1>2, <1>3, <1>9
  <2> QED
    BY <2>1, <2>2, KeyTells
<1> QED
  BY <1>9, <1>10 DEF m, n1

LEMMA WordsRead ==
  ASSUME NEW b, NEW w, NEW F, Marks(w, F), AreTapFields(F), F # {},
         \A k \in 1 .. Len(w) : Holds(b, 4 * k, 4, "present", w[k])
  PROVE  Words(b) = w /\ Len(w) \in 1 .. 8
<1>1. PICK m \in 0 .. 8 :
        /\ w \in Seq(SUBSET Nat) /\ Len(w) = m /\ DOMAIN w = 1 .. m
        /\ \A k \in 1 .. m : Ext \in w[k] <=> k < m
        /\ \A x \in F : x.index < m
        /\ m > 0 => \E x \in F : x.index = m - 1
  BY DEF Marks
<1>2. m \in 1 .. 8
  <2>1. m # 0
    <3> SUFFICES ASSUME m = 0 PROVE FALSE
      OBVIOUS
    <3>1. \A x \in F : x.index < 0 /\ x.index \in 0 .. 7
      BY <1>1 DEF AreTapFields
    <3> QED
      BY <3>1
  <2> QED
    BY <2>1
<1> DEFINE more(k) == Ext \in ReadAt(b, 4 * k, 4, "present")
           N == {k \in 1 .. MaxPresent : \A j \in 1 .. (k - 1) : more(j)}
           len == CHOOSE k \in N : \A j \in N : j <= k
<1>3. \A k \in 1 .. m : ReadAt(b, 4 * k, 4, "present") = w[k]
  BY <1>1, HoldsReads
<1>4. \A k \in 1 .. m : more(k) <=> k < m
  BY <1>1, <1>3
<1> HIDE DEF more
<1>5. m \in N
  <2>1. \A j \in 1 .. (m - 1) : j \in 1 .. m /\ j < m
    BY <1>2
  <2> QED
    BY <1>2, <1>4, <2>1 DEF MaxPresent
<1>6. \A k \in N : k <= m
  <2> SUFFICES ASSUME NEW k \in N, ~(k <= m) PROVE FALSE
    OBVIOUS
  <2>1. m \in 1 .. (k - 1) /\ m \in 1 .. m /\ ~(m < m)
    BY <1>2
  <2> QED
    BY <1>4, <2>1
<1>7. \A k \in N : k \in Int
  OBVIOUS
<1> HIDE DEF N
<1>8. len = m
  <2>1. len \in N /\ \A j \in N : j <= len
    BY <1>5, <1>6
  <2>2. m <= len /\ len <= m /\ len \in Int
    BY <1>5, <1>6, <1>7, <2>1
  <2> HIDE DEF len
  <2> QED
    BY <2>2, <1>2
<1>9. Words(b) = [k \in 1 .. len |-> ReadAt(b, 4 * k, 4, "present")]
  BY DEF Words, N, more
<1> HIDE DEF len
<1>10. w = [k \in 1 .. m |-> w[k]]
  BY <1>1
<1> QED
  BY <1>1, <1>2, <1>3, <1>8, <1>9, <1>10

LEMMA BitsRead ==
  ASSUME NEW w, NEW F, Marks(w, F), AreTapFields(F), NEW q, q = InKeyOrder(F)
  PROVE  LET p == Bits(w) IN
         /\ InKeys(q, F) /\ Len(p) = Len(q)
         /\ \A i \in 1 .. Len(q) : p[i].id = q[i].id /\ p[i].index = q[i].index
<1>1. PICK m \in 0 .. 8 :
        /\ w \in Seq(SUBSET Nat) /\ Len(w) = m /\ DOMAIN w = 1 .. m
        /\ \A k \in 1 .. m : \A id \in 0 .. 22 : id \in w[k] <=> \E x \in F : x.id = id /\ x.index = k - 1
        /\ \A x \in F : x.index < m
  BY DEF Marks
<1> DEFINE K == {k \in [index : 0 .. (Len(w) - 1), id : 0 .. (IdLast - 1)] : k.id \in w[k.index + 1]}
<1>2. Bits(w) = InKeyOrder(K)
  BY DEF Bits
<1>3. \A x \in K : x.id \in 0 .. 22 /\ x.index \in 0 .. (m - 1) /\ x.id \in w[x.index + 1]
  BY <1>1 DEF IdLast
<1>4. \A x \in K : \E y \in F : Key(x) = Key(y)
  <2> SUFFICES ASSUME NEW x \in K PROVE \E y \in F : Key(x) = Key(y)
    OBVIOUS
  <2>1. PICK k \in 1 .. m : k = x.index + 1 /\ k - 1 = x.index
    BY <1>3
  <2>3. \A id \in 0 .. 22 : id \in w[k] <=> \E y \in F : y.id = id /\ y.index = k - 1
    BY <1>1
  <2>2. PICK y \in F : y.id = x.id /\ y.index = x.index
    BY <1>3, <2>1, <2>3
  <2> QED
    BY <2>2 DEF Key
<1>5. \A y \in F : \E x \in K : Key(x) = Key(y)
  <2> SUFFICES ASSUME NEW y \in F PROVE \E x \in K : Key(x) = Key(y)
    OBVIOUS
  <2> DEFINE x == [index |-> y.index, id |-> y.id]
  <2>1. y.id \in 0 .. 22 /\ y.index \in 0 .. 7 /\ y.index < m
    BY <1>1 DEF AreTapFields
  <2>2. y.index + 1 \in 1 .. m /\ y.index = (y.index + 1) - 1 /\ y.index \in 0 .. (m - 1)
    BY <2>1
  <2>3. y.id \in w[y.index + 1]
    BY <1>1, <2>1, <2>2
  <2>4. x \in K
    BY <1>1, <2>1, <2>2, <2>3 DEF IdLast
  <2>5. Key(x) = Key(y)
    BY DEF Key
  <2> HIDE DEF x, K
  <2> QED
    BY <2>4, <2>5
<1>6. \A x \in K \cup F : x.id \in 0 .. 31 /\ x.index \in 0 .. 7
  BY <1>3 DEF AreTapFields
<1> HIDE DEF K
<1>7. InKeys(InKeyOrder(K), K) /\ InKeys(q, F)
  BY <1>6, KeysAre
<1> QED
  BY <1>2, <1>4, <1>5, <1>6, <1>7, SameKeys

\* The reader of a radiotap header, before the fields.
TapStart(b, w) ==
  [ok |-> ReadAt(b, 0, 1, "version") = 0 /\ ReadAt(b, 2, 2, "length") <= b.end,
   at |-> 4 + 4 * Len(w), h |-> [present |-> w, fields |-> {}]]

LEMMA DisassembleFieldsTo ==
  ASSUME NEW b, NEW w, NEW q, q = Bits(w), Len(q) \in Nat
  PROVE  \E f : /\ f[0] = TapStart(b, w)
                /\ \A i \in 1 .. Len(q) : f[i] = DisassembleField(b, f[i - 1], q[i])
                /\ DisassembleFields(b, w) = f[Len(q)]
<1> DEFINE k == Len(q)
<1> DEFINE Steps(f, j) == f = [i \in 0 .. j |-> IF i = 0 THEN TapStart(b, w) ELSE DisassembleField(b, f[i - 1], q[i])]
           J == {j \in 0 .. k : \E f : Steps(f, j)}
<1>1. 0 \in J
  <2>1. Steps([i \in 0 .. 0 |-> TapStart(b, w)], 0)
    OBVIOUS
  <2> HIDE DEF Steps
  <2> QED
    BY <2>1
<1>2. ASSUME NEW j \in 0 .. k, j < k, j \in J PROVE j + 1 \in J
  <2>1. PICK f : Steps(f, j)
    BY <1>2
  <2> DEFINE g == [i \in 0 .. (j + 1) |-> IF i <= j THEN f[i] ELSE DisassembleField(b, f[j], q[i])]
  <2>2. ASSUME NEW i \in 0 .. (j + 1)
        PROVE  g[i] = IF i = 0 THEN TapStart(b, w) ELSE DisassembleField(b, g[i - 1], q[i])
    <3>1. CASE i = 0
      BY <2>1, <3>1
    <3>2. CASE i # 0 /\ i <= j
      <4>1. i - 1 \in 0 .. (j + 1) /\ i - 1 <= j /\ i \in 0 .. j
        BY <3>2
      <4>2. g[i] = f[i] /\ g[i - 1] = f[i - 1]
        BY <3>2, <4>1
      <4>3. f[i] = DisassembleField(b, f[i - 1], q[i])
        BY <2>1, <3>2, <4>1
      <4> QED
        BY <3>2, <4>2, <4>3
    <3>3. CASE i = j + 1
      <4>1. j \in 0 .. (j + 1) /\ g[j] = f[j] /\ i # 0 /\ i - 1 = j /\ ~(i <= j)
        BY <3>3
      <4>2. g[i] = DisassembleField(b, f[j], q[i])
        BY <4>1
      <4> QED
        BY <4>1, <4>2
    <3> QED
      BY <3>1, <3>2, <3>3
  <2>3. Steps(g, j + 1)
    BY <2>2
  <2>4. j + 1 \in 0 .. k
    BY <1>2
  <2> HIDE DEF Steps, g
  <2> QED
    BY <2>3, <2>4
<1> HIDE DEF J, Steps
<1>3. k \in J
  <2>1. \A i \in 0 .. k : i < k /\ i \in J => i + 1 \in J
    BY <1>2
  <2> QED
    BY <1>1, <2>1, UpFrom
<1> DEFINE f == CHOOSE f : Steps(f, k)
<1>4. Steps(f, k)
  BY <1>3 DEF J
<1>5. DisassembleFields(b, w) = f[k]
  BY DEF DisassembleFields, Steps, TapStart
<1> HIDE DEF f
<1>6. f[0] = TapStart(b, w) /\ \A i \in 1 .. k : f[i] = DisassembleField(b, f[i - 1], q[i])
  <2>1. k \in Nat
    OBVIOUS
  <2> HIDE DEF k
  <2> QED
    BY <1>4, <2>1 DEF Steps
<1> QED
  BY <1>5, <1>6

\* d is t, having read field x behind place at.
FieldTaken(d, t, at, x) ==
  d.ok = TRUE /\ d.at = FieldEnd(at, x) /\ d.h = PutField(t.h, x.id, x.index, x.v)

LEMMA FieldRead ==
  ASSUME NEW b, b.end \in Int, NEW at \in Nat, NEW x, Knows(x.id), FieldIn(b, at, x), FieldEnd(at, x) <= b.end,
         NEW t, t.ok = TRUE, t.at = at, NEW k, k.id = x.id, k.index = x.index
  PROVE  FieldTaken(DisassembleField(b, t, k), t, at, x)
<1>1. ReadAt(b, Start(at, x.id), FieldOf(x.id).size, "field") = x.v
  BY HoldsReads DEF FieldIn
<1>2. FieldOf(x.id).size # 0
  BY StartIs
<1>3. DisassembleField(b, t, k) = TakeField(b, t, k, Start(at, x.id), FieldOf(x.id).size)
  BY DEF DisassembleField, Start
<1> DEFINE p == Start(at, x.id)
           z == FieldOf(x.id).size
<1>4. p + z <= b.end /\ FieldEnd(at, x) = p + z
  BY DEF FieldEnd
<1> HIDE DEF p, z
<1>5. TakeField(b, t, k, p, z) = [ok |-> TRUE, at |-> p + z,
                                  h |-> PutField(t.h, k.id, k.index, ReadAt(b, p, z, "field"))]
  BY <1>2, <1>4 DEF TakeField, z
<1> QED
  BY <1>1, <1>3, <1>4, <1>5 DEF p, z, FieldTaken

\* The words w and the fields q are in b, behind four octets; g says where each
\* field ends, the last one where the length says the header ends.
TapHeld(b, w, q, g) ==
  /\ b.end \in Int
  /\ Holds(b, 0, 1, "version", 0) /\ Holds(b, 2, 2, "length", g[Len(q)])
  /\ \A k \in 1 .. Len(w) : Holds(b, 4 * k, 4, "present", w[k])
  /\ g[0] = 4 + 4 * Len(w)
  /\ \A i \in 0 .. Len(q) : g[i] \in Nat /\ g[i] <= g[Len(q)]
  /\ \A i \in 1 .. Len(q) : g[i] = FieldEnd(g[i - 1], q[i]) /\ FieldIn(b, g[i - 1], q[i])

LEMMA LengthHeld ==
  ASSUME NEW c, NEW q, NEW g, NEW w, Len(w) \in Nat, Len(q) \in Nat, NEW d, Worded(d, AssembleHeader, w, Len(w)),
         Fielded(c, d, q, g, Len(q)), \A i \in 1 .. Len(q) : Knows(q[i].id)
  PROVE  TapHeld(AssembleLength(c), w, q, g) /\ AssembleLength(c).end = g[Len(q)]
<1> DEFINE l == Len(w)
           k == Len(q)
           e == AssembleLength(c)
           x == Write(c, 2, 2, "length", c.end)
<1>1. l \in Nat /\ k \in Nat
  OBVIOUS
<1>2. /\ IsPlain(d) /\ d.end = 4 + 4 * l /\ Kept(d, AssembleHeader, 4)
      /\ \A i \in 1 .. l : Holds(d, 4 * i, 4, "present", w[i])
  BY DEF Worded
<1>3. /\ IsPlain(c) /\ Kept(c, d, d.end) /\ g[0] = d.end /\ c.end = g[k]
      /\ \A i \in 0 .. k : g[i] \in Nat /\ g[i] <= g[k]
      /\ \A i \in 1 .. k : g[i] = FieldEnd(g[i - 1], q[i]) /\ FieldIn(c, g[i - 1], q[i])
  BY DEF Fielded
<1>a. \A i \in 1 .. k : Knows(q[i].id)
  OBVIOUS
<1>4. e = [x EXCEPT !.end = c.end]
  BY DEF AssembleLength, Overwrite
<1>5. e.end = c.end /\ e.at = x.at
  <2>1. x = [end |-> x.end, at |-> x.at]
    BY DEF Write
  <2> HIDE DEF x, e
  <2> QED
    BY <1>4, <2>1
<1> HIDE DEF e, l, k
<1>6. c.end \in Nat /\ IsBuffer(c)
  BY <1>3 DEF IsPlain
<1>7. \A p, u, f, v : Holds(x, p, u, f, v) <=> Holds(e, p, u, f, v)
  BY <1>5 DEF Holds
<1>8. Holds(x, 2, 2, "length", c.end)
  BY <1>6, Written
<1>9. Holds(x, 0, 1, "version", 0)
  <2>1. Holds(d, 0, 1, "version", 0)
    BY <1>2, HeaderHeld DEF Kept
  <2>2. Holds(c, 0, 1, "version", 0)
    BY <1>1, <1>2, <1>3, <2>1 DEF Kept
  <2> QED
    BY <2>2, WriteKeeps
<1>10. ASSUME NEW i \in 1 .. l PROVE Holds(x, 4 * i, 4, "present", w[i])
  <2>1. PICK p \in Nat : p = 4 * i /\ p + 4 <= 4 + 4 * l /\ 4 <= p
    BY <1>1
  <2>2. Holds(d, p, 4, "present", w[i])
    BY <1>2, <2>1
  <2>3. Holds(c, p, 4, "present", w[i])
    BY <1>2, <1>3, <2>1, <2>2 DEF Kept
  <2>4. Holds(x, p, 4, "present", w[i])
    <3>1. 2 + 2 <= p
      BY <2>1
    <3> HIDE DEF x
    <3> QED
      BY <2>1, <2>3, <3>1, WriteKeeps DEF x
  <2> QED
    BY <2>1, <2>4
<1>11. ASSUME NEW i \in 1 .. k PROVE FieldIn(x, g[i - 1], q[i])
  <2>1. i - 1 \in 0 .. k /\ Knows(q[i].id) /\ FieldIn(c, g[i - 1], q[i]) /\ g[i - 1] \in Nat
    BY <1>1, <1>3, <1>a
  <2>2. 4 <= g[i - 1]
    <3> DEFINE I == {j \in 0 .. k : 4 <= g[j]}
    <3>1. 0 \in I
      BY <1>1, <1>2, <1>3
    <3>2. \A j \in 0 .. k : j < k /\ j \in I => j + 1 \in I
      <4> SUFFICES ASSUME NEW j \in 0 .. k, j < k, j \in I PROVE j + 1 \in I
        OBVIOUS
      <4>1. j + 1 \in 1 .. k /\ j + 1 \in 0 .. k /\ (j + 1) - 1 = j
        BY <1>1
      <4>2. g[j + 1] = Start(g[j], q[j + 1].id) + FieldOf(q[j + 1].id).size
        BY <1>3, <4>1 DEF FieldEnd
      <4>3. g[j] \in Nat /\ Knows(q[j + 1].id)
        BY <1>3, <1>a, <4>1
      <4>6. PICK y \in Nat, u \in Nat : y = Start(g[j], q[j + 1].id) /\ u = FieldOf(q[j + 1].id).size /\ g[j] <= y
        BY <4>3, StartIs
      <4>4. g[j] <= g[j + 1]
        BY <4>2, <4>3, <4>6
      <4>5. 4 <= g[j] /\ g[j + 1] \in Nat
        BY <1>3, <4>1
      <4> QED
        BY <4>1, <4>3, <4>4, <4>5
    <3> HIDE DEF I
    <3>3. i - 1 \in I
      BY <1>1, <2>1, <3>1, <3>2, UpFrom
    <3> QED
      BY <3>3 DEF I
  <2>3. PICK p \in Nat, u \in Nat \ {0} :
           p = Start(g[i - 1], q[i].id) /\ u = FieldOf(q[i].id).size /\ g[i - 1] <= p
    BY <2>1, StartIs
  <2>4. Holds(c, p, u, "field", q[i].v) /\ 2 + 2 <= p
    BY <2>1, <2>2, <2>3 DEF FieldIn
  <2>5. Holds(x, p, u, "field", q[i].v)
    BY <2>4, WriteKeeps
  <2> QED
    BY <2>3, <2>5 DEF FieldIn
<1> HIDE DEF x
<1>12. \A i \in 1 .. k : FieldIn(e, g[i - 1], q[i])
  BY <1>7, <1>11 DEF FieldIn
<1>13. \A i \in 1 .. l : Holds(e, 4 * i, 4, "present", w[i])
  BY <1>7, <1>10
<1>14. Holds(e, 0, 1, "version", 0) /\ Holds(e, 2, 2, "length", g[k]) /\ e.end \in Int /\ e.end = g[k]
       /\ g[0] = 4 + 4 * l
  BY <1>2, <1>3, <1>5, <1>6, <1>7, <1>8, <1>9
<1> QED
  BY <1>3, <1>12, <1>13, <1>14 DEF TapHeld, e, l, k

\* What is read of a header that is there is the header.
LEMMA HeldRead ==
  ASSUME NEW b, NEW w, NEW F, Marks(w, F), AreTapFields(F), OnceKeyed(F), F # {}, NEW q, q = InKeyOrder(F),
         NEW g, TapHeld(b, w, q, g), g[Len(q)] <= b.end
  PROVE  LET d == DisassembleRadioTap(b) IN d.ok = TRUE /\ d.at = g[Len(q)] /\ d.h.fields = F
<1> DEFINE k == Len(q)
           p == Bits(w)
<1>1. /\ b.end \in Int
      /\ Holds(b, 0, 1, "version", 0) /\ Holds(b, 2, 2, "length", g[k])
      /\ \A i \in 1 .. Len(w) : Holds(b, 4 * i, 4, "present", w[i])
      /\ g[0] = 4 + 4 * Len(w)
      /\ \A i \in 0 .. k : g[i] \in Nat /\ g[i] <= g[k]
      /\ \A i \in 1 .. k : g[i] = FieldEnd(g[i - 1], q[i]) /\ FieldIn(b, g[i - 1], q[i])
  BY DEF TapHeld
<1>2. Words(b) = w
  BY <1>1, WordsRead
<1>3. InKeys(q, F) /\ Len(p) = k /\ \A i \in 1 .. k : p[i].id = q[i].id /\ p[i].index = q[i].index
  BY BitsRead
<1>4. /\ k \in Nat /\ \A i \in 1 .. k : q[i] \in F
      /\ \A i, j \in 1 .. k : i < j => Key(q[i]) < Key(q[j])
      /\ \A x \in F : \E i \in 1 .. k : Key(q[i]) = Key(x)
  BY <1>3 DEF InKeys
<1>a. \A x \in F : x.id \in 0 .. 31 /\ x.index \in 0 .. 7 /\ Knows(x.id)
                 /\ x = [id |-> x.id, index |-> x.index, v |-> x.v]
  BY DEF AreTapFields, Knows
<1>5. PICK f : /\ f[0] = TapStart(b, w)
               /\ \A i \in 1 .. k : f[i] = DisassembleField(b, f[i - 1], p[i])
               /\ DisassembleFields(b, w) = f[k]
  <2>1. p = Bits(w) /\ Len(p) = k /\ Len(p) \in Nat
    BY <1>3, <1>4
  <2> HIDE DEF p, k
  <2> QED
    BY <2>1, DisassembleFieldsTo
<1>b. g[k] <= b.end
  OBVIOUS
<1> HIDE DEF k, p
<1> DEFINE Fine(t, i) == t.ok = TRUE /\ t.at = g[i] /\ t.h.fields = {q[j] : j \in 1 .. i}
           I == {i \in 0 .. k : Fine(f[i], i)}
<1>6. 0 \in I
  <2>1. ReadAt(b, 0, 1, "version") = 0 /\ ReadAt(b, 2, 2, "length") = g[k]
    BY <1>1, HoldsReads
  <2>3. g[k] <= b.end /\ 4 + 4 * Len(w) = g[0]
    BY <1>1, <1>b
  <2>4. LET t == TapStart(b, w) IN t.ok = TRUE /\ t.at = g[0] /\ t.h.fields = {}
    BY <2>1, <2>3 DEF TapStart
  <2>5. {q[j] : j \in 1 .. 0} = {}
    OBVIOUS
  <2>2. Fine(TapStart(b, w), 0)
    BY <2>4, <2>5
  <2> HIDE DEF Fine
  <2> QED
    BY <1>4, <1>5, <2>2
<1>7. \A i \in 0 .. k : i < k /\ i \in I => i + 1 \in I
  <2> SUFFICES ASSUME NEW i \in 0 .. k, i < k, i \in I PROVE i + 1 \in I
    OBVIOUS
  <2>1. i + 1 \in 1 .. k /\ i + 1 \in 0 .. k /\ (i + 1) - 1 = i
    BY <1>4
  <2> DEFINE x == q[i + 1]
             t == f[i]
  <2>2. f[i + 1] = DisassembleField(b, t, p[i + 1])
    BY <1>5, <2>1
  <2>3. t.ok = TRUE /\ t.at = g[i] /\ t.h.fields = {q[j] : j \in 1 .. i}
    OBVIOUS
  <2>4. x \in F /\ p[i + 1].id = x.id /\ p[i + 1].index = x.index /\ Knows(x.id)
    BY <1>3, <1>4, <1>a, <2>1
  <2>5. FieldIn(b, g[i], x) /\ g[i + 1] = FieldEnd(g[i], x) /\ g[i] \in Nat
    BY <1>1, <2>1
  <2>6. FieldEnd(g[i], x) <= b.end
    <3>1. g[i + 1] \in Nat /\ g[i + 1] <= g[k]
      BY <1>1, <2>1
    <3>2. k \in 0 .. k /\ g[k] \in Nat
      BY <1>1, <1>4
    <3> QED
      BY <1>1, <1>b, <2>5, <3>1, <3>2
  <2>7. \A j \in 1 .. i : q[j].id # x.id \/ q[j].index # x.index
    <3> SUFFICES ASSUME NEW j \in 1 .. i, q[j].id = x.id, q[j].index = x.index PROVE FALSE
      OBVIOUS
    <3>1. j \in 1 .. k /\ j < i + 1
      BY <1>4
    <3>2. Key(q[j]) < Key(x)
      BY <1>4, <2>1, <3>1
    <3>3. Key(x) = Key(q[j])
      BY DEF Key
    <3>5. x.id \in 0 .. 31 /\ x.index \in 0 .. 7
      BY <1>a, <2>4
    <3>4. Key(x) \in Int
      <4> HIDE DEF x
      <4> QED
        BY <3>5, KeyTells
    <3> QED
      BY <3>2, <3>3, <3>4
  <2> DEFINE h2 == PutField(t.h, x.id, x.index, x.v)
  <2> HIDE DEF t
  <2>8. LET d == f[i + 1] IN d.ok = TRUE /\ d.at = FieldEnd(g[i], x) /\ d.h = h2
    <3> DEFINE y == p[i + 1]
               at == g[i]
    <3>1. /\ b.end \in Int /\ at \in Nat /\ Knows(x.id) /\ FieldIn(b, at, x) /\ FieldEnd(at, x) <= b.end
          /\ t.ok = TRUE /\ t.at = at /\ y.id = x.id /\ y.index = x.index
      BY <1>1, <2>3, <2>4, <2>5, <2>6
    <3>2. f[i + 1] = DisassembleField(b, t, y)
      BY <2>2
    <3> HIDE DEF x, y, at
    <3>3. FieldTaken(DisassembleField(b, t, y), t, at, x)
      BY <3>1, FieldRead
    <3> QED
      BY <3>2, <3>3 DEF at, FieldTaken
  <2>9. h2.fields = {q[j] : j \in 1 .. i + 1}
    <3>1. h2.fields = {y \in {q[j] : j \in 1 .. i} : y.id # x.id \/ y.index # x.index}
                       \cup {[id |-> x.id, index |-> x.index, v |-> x.v]}
      BY <2>3 DEF PutField
    <3>2. h2.fields = {q[j] : j \in 1 .. i} \cup {x}
      <4> HIDE DEF x, h2
      <4> QED
        BY <1>a, <2>4, <2>7, <3>1
    <3>3. \A j : j \in 1 .. i + 1 <=> j \in 1 .. i \/ j = i + 1
      BY <1>4
    <3> HIDE DEF h2
    <3> QED
      BY <3>2, <3>3
  <2> HIDE DEF x, h2
  <2>10. Fine(f[i + 1], i + 1)
    BY <2>5, <2>8, <2>9
  <2> HIDE DEF Fine
  <2> QED
    BY <2>1, <2>10
<1> HIDE DEF I
<1>8. k \in I
  BY <1>4, <1>6, <1>7, UpFrom
<1>9. Fine(f[k], k)
  BY <1>8 DEF I
<1>10. {q[j] : j \in 1 .. k} = F
  <2>2. \A x \in F : \E i \in 1 .. k : q[i] = x
    BY <1>4 DEF OnceKeyed
  <2> QED
    BY <1>4, <2>2
<1> QED
  BY <1>2, <1>5, <1>9, <1>10 DEF DisassembleRadioTap, k

LEMMA HeldOn ==
  ASSUME NEW b, NEW c, NEW w, Len(w) \in Nat, NEW q, Len(q) \in Nat, NEW g, TapHeld(c, w, q, g),
         \A i \in 1 .. Len(q) : Knows(q[i].id), b.end \in Int, Kept(b, c, g[Len(q)])
  PROVE  TapHeld(b, w, q, g)
<1> DEFINE l == Len(w)
           k == Len(q)
<1>1. /\ Holds(c, 0, 1, "version", 0) /\ Holds(c, 2, 2, "length", g[k])
      /\ \A i \in 1 .. l : Holds(c, 4 * i, 4, "present", w[i])
      /\ g[0] = 4 + 4 * l
      /\ \A i \in 0 .. k : g[i] \in Nat /\ g[i] <= g[k]
      /\ \A i \in 1 .. k : g[i] = FieldEnd(g[i - 1], q[i]) /\ FieldIn(c, g[i - 1], q[i])
  BY DEF TapHeld
<1>2. l \in Nat /\ k \in Nat /\ \A i \in 1 .. k : Knows(q[i].id)
  BY Zenon
<1>3. Kept(b, c, g[k])
  BY Zenon
<1> HIDE DEF l, k
<1>4. g[k] \in Nat /\ g[0] <= g[k] /\ 4 + 4 * l <= g[k]
  <2>1. 0 \in 0 .. k /\ k \in 0 .. k
    BY <1>2
  <2> QED
    BY <1>1, <2>1
<1>5. Holds(b, 0, 1, "version", 0) /\ Holds(b, 2, 2, "length", g[k])
  <2>1. 4 <= g[k]
    BY <1>2, <1>4
  <2> QED
    BY <1>1, <1>3, <1>4, <2>1 DEF Kept
<1>6. ASSUME NEW i \in 1 .. l PROVE Holds(b, 4 * i, 4, "present", w[i])
  <2>1. PICK p \in Nat : p = 4 * i /\ p + 4 <= g[k]
    BY <1>2, <1>4
  <2>2. Holds(c, p, 4, "present", w[i])
    BY <1>1, <2>1
  <2>3. Holds(b, p, 4, "present", w[i])
    BY <1>3, <2>1, <2>2 DEF Kept
  <2> QED
    BY <2>1, <2>3
<1>7. ASSUME NEW i \in 1 .. k PROVE FieldIn(b, g[i - 1], q[i])
  <2>1. i - 1 \in 0 .. k /\ i \in 0 .. k
    BY <1>2
  <2>2. g[i - 1] \in Nat /\ Knows(q[i].id) /\ g[i] <= g[k]
    BY <1>1, <1>2, <2>1
  <2>3. PICK p \in Nat, u \in Nat \ {0} : p = Start(g[i - 1], q[i].id) /\ u = FieldOf(q[i].id).size
    BY <2>2, StartIs
  <2>4. Holds(c, p, u, "field", q[i].v) /\ g[i] = p + u
    BY <1>1, <2>3 DEF FieldIn, FieldEnd
  <2>5. Holds(b, p, u, "field", q[i].v)
    BY <1>3, <2>2, <2>4 DEF Kept
  <2> QED
    BY <2>3, <2>5 DEF FieldIn
<1> QED
  BY <1>1, <1>5, <1>6, <1>7 DEF TapHeld, l, k

\* The radiotap header that arrives is the one that was put in front.
LEMMA TapRead ==
  ASSUME NEW h, IsTap(h), NEW c, c = AssembleRadioTap(RadioTapOf(h)),
         NEW b, b.end \in Int, Kept(b, c, c.end), c.end <= b.end
  PROVE  LET d == DisassembleRadioTap(b) IN d.ok = TRUE /\ d.at = c.end /\ d.h.fields = h
<1> DEFINE r == RadioTapOf(h)
           w == r.present
           q == InKeyOrder(h)
           d == AssemblePresent(AssembleHeader, w)
           e == AssembleFields(d, q)
<1>1. r.fields = h /\ Marks(w, h) /\ AreTapFields(h) /\ OnceKeyed(h) /\ h # {}
  BY TapOfIs
<1>2. InKeys(q, h)
  <2>1. \A x \in h : x.id \in 0 .. 31 /\ x.index \in 0 .. 7
    BY <1>1 DEF AreTapFields
  <2> QED
    BY <2>1, KeysAre
<1>3. Len(q) \in Nat /\ \A i \in 1 .. Len(q) : Knows(q[i].id)
  BY <1>1, <1>2 DEF InKeys, AreTapFields, Knows
<1>4. Len(w) \in Nat
  BY <1>1 DEF Marks
<1>5. c = AssembleLength(e)
  BY <1>1 DEF AssembleRadioTap
<1> HIDE DEF w, q, r
<1>6. Worded(d, AssembleHeader, w, Len(w))
  BY <1>4, HeaderHeld, PresentHeld
<1> HIDE DEF d
<1>7. PICK g : Fielded(e, d, q, g, Len(q))
  BY <1>3, <1>6, FieldsHeld DEF Worded
<1> HIDE DEF e
<1>8. TapHeld(c, w, q, g) /\ c.end = g[Len(q)]
  BY <1>3, <1>4, <1>5, <1>6, <1>7, LengthHeld
<1>9. TapHeld(b, w, q, g)
  BY <1>3, <1>4, <1>8, HeldOn
<1>10. q = InKeyOrder(h)
  BY DEF q
<1> QED
  BY <1>1, <1>8, <1>9, <1>10, HeldRead
=============================================================================
