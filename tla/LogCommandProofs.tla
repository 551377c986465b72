--------------------------- MODULE LogCommandProofs ---------------------------
(***************************************************************************)
(* The logger and the commands of netlink; neither uses the other.         *)
(*                                                                         *)
(* What a connector and its owner may rely on, for any number of threads   *)
(* that log and of connectors that come and go: a connector is called only *)
(* while it is registered, and hears the messages of each thread in the    *)
(* order in which they were logged.                                        *)
(*                                                                         *)
(* What the client of a command may rely on, for any number of links,      *)
(* values and executions of an object: true means done, what is read is    *)
(* what was reported, a list has what was there, and the sockets are       *)
(* accounted for. And what the client of an interface may rely on: what a  *)
(* Commit returned true for is how the radio is tuned.                     *)
(***************************************************************************)
EXTENDS Log, Wireless, SequenceTheorems, FiniteSetTheorems, WellFoundedInduction, TLAPS

-----------------------------------------------------------------------------
(* The logger.                                                             *)

USE LogAssumption

\* The actions that leave alone what IInv is about.
Aside ==
  UNCHANGED <<conn, lctl, held, sent, taken, target, heard, msgs, lock>>

LEMMA NoMsgIsNone == NoMsg \notin Numbered
<1>1. "id" \notin DOMAIN NoMsg /\ \A m \in Numbered : "id" \in DOMAIN m
  BY DEF NoMsg, Numbered
<1> QED
  BY <1>1

LEMMA InitIInv == Init => IInv
<1> SUFFICES ASSUME Init PROVE IInv
  OBVIOUS
<1>1. \A S : << >> \in Seq(S)
  OBVIOUS
<1>2. Typed
  BY <1>1 DEF Init, Typed
<1>3. Locked
  BY DEF Init, Locked
<1>4. InOrder
  BY DEF Init, InOrder, HeldIsLast, QueueInOrder, TakenIsFirst, HeardIsPast, HeardInOrder
<1> QED
  BY <1>2, <1>3, <1>4 DEF IInv

LEMMA AsideIInv ==
  ASSUME IInv, Aside
  PROVE  IInv'
<1>1. Typed' /\ Locked'
  BY DEF IInv, Aside, Typed, Locked
<1>2. \A m : Pushed(m)' <=> Pushed(m)
  BY DEF Aside, Pushed
<1>3. InOrder'
  BY <1>2 DEF IInv, Aside, InOrder, HeldIsLast, QueueInOrder, TakenIsFirst, HeardIsPast,
              HeardInOrder, Before
<1> QED
  BY <1>1, <1>3 DEF IInv

\* The order of the messages depends on where they are and nothing else.
LEMMA SameOrder ==
  ASSUME InOrder, UNCHANGED <<held, sent, taken, heard, msgs>>
  PROVE  InOrder'
<1>1. \A m : Pushed(m)' <=> Pushed(m)
  BY DEF Pushed
<1> QED
  BY <1>1 DEF InOrder, HeldIsLast, QueueInOrder, TakenIsFirst, HeardIsPast, HeardInOrder, Before

LEMMA CreateMessageIInv ==
  ASSUME IInv, NEW l \in Loggers, NEW v \in Levels, CreateMessage(l, v)
  PROVE  IInv'
<1> DEFINE x == [from |-> l, id |-> sent[l] + 1, level |-> v]
<1>1. /\ UNCHANGED <<conn, lctl, taken, target, heard, msgs, lock>>
      /\ held[l] = NoMsg /\ held' = [held EXCEPT ![l] = x] /\ sent' = [sent EXCEPT ![l] = @ + 1]
  BY DEF CreateMessage, setup, work
<1>2. x \in Numbered /\ x.from = l /\ x.id = sent[l] + 1
  BY DEF IInv, Typed, Numbered
<1> HIDE DEF x
<1>3. /\ held'[l] = x /\ sent'[l] = sent[l] + 1 /\ sent[l] \in Nat
      /\ \A u \in Loggers : u # l => held'[u] = held[u] /\ sent'[u] = sent[u]
  BY <1>1 DEF IInv, Typed
<1>4. Typed'
  BY <1>1, <1>2 DEF IInv, Typed
<1>5. Locked'
  BY <1>1 DEF IInv, Locked
<1>6. \A m \in Numbered : Pushed(m) => Pushed(m)'
  BY <1>1, <1>3 DEF Pushed, Numbered, IInv, Typed
<1>7. HeldIsLast'
  BY <1>2, <1>3 DEF IInv, InOrder, HeldIsLast
<1>8. QueueInOrder'
  <2>1. \A k \in DOMAIN msgs : msgs[k] \in Numbered
    BY DEF IInv, Typed
  <2> QED
    BY <2>1, <1>1, <1>6 DEF IInv, InOrder, QueueInOrder, Before
<1>9. TakenIsFirst'
  BY <1>1, <1>6 DEF IInv, Typed, InOrder, TakenIsFirst, Before
<1>10. HeardIsPast' /\ HeardInOrder'
  <2>1. \A c \in Connectors : \A i \in DOMAIN heard[c] : heard[c][i] \in Numbered
    BY DEF IInv, Typed
  <2> QED
    BY <2>1, <1>1, <1>6 DEF IInv, InOrder, HeardIsPast, HeardInOrder, Before
<1> QED
  BY <1>4, <1>5, <1>7, <1>8, <1>9, <1>10 DEF IInv, InOrder

LEMMA LogMessageIInv ==
  ASSUME IInv, NEW l \in Loggers, LogMessage(l)
  PROVE  IInv'
<1> DEFINE x == held[l]  n == Len(msgs) + 1
<1>1. /\ UNCHANGED <<conn, lctl, taken, target, heard, sent, lock>>
      /\ x # NoMsg /\ msgs' = Append(msgs, x) /\ held' = [held EXCEPT ![l] = NoMsg]
  BY DEF LogMessage, Enqueue, setup, work
<1>2. x \in Numbered /\ x.from = l /\ x.id = sent[l]
  BY <1>1 DEF IInv, Typed, InOrder, HeldIsLast
<1>3. /\ held'[l] = NoMsg /\ sent[l] \in Nat
      /\ \A u \in Loggers : u # l => held'[u] = held[u]
  BY <1>1 DEF IInv, Typed
<1>4. \A m \in Numbered : Pushed(m) => Before(m, x)
  BY <1>1, <1>2 DEF Pushed, Before
<1> HIDE DEF x
<1> DEFINE P(m) == m.id <= sent[m.from] /\ (held'[m.from] # NoMsg => m.id < sent[m.from])
<1>5. /\ msgs' \in Seq(Numbered) /\ DOMAIN msgs' = DOMAIN msgs \cup {n} /\ msgs'[n] = x
      /\ \A k \in DOMAIN msgs : k \in Nat /\ k < n /\ msgs'[k] = msgs[k] /\ msgs[k] \in Numbered
      /\ n \in Nat
  BY <1>1, <1>2 DEF IInv, Typed
<1> HIDE DEF n
<1>6. Typed'
  BY <1>1, <1>5 DEF IInv, Typed
<1>7. Locked'
  BY <1>1 DEF IInv, Locked
<1>8. \A m \in Numbered : Pushed(m) => P(m)
  BY <1>1, <1>3 DEF Pushed, Numbered
<1>9. P(x)
  BY <1>1, <1>2, <1>3
<1>10. HeldIsLast'
  BY <1>1, <1>3 DEF IInv, InOrder, HeldIsLast
<1>11. QueueInOrder'
  <2>1. \A j, k \in DOMAIN msgs : j < k => Before(msgs[j], msgs[k])
    BY DEF IInv, InOrder, QueueInOrder
  <2>2. \A j \in DOMAIN msgs : Pushed(msgs[j])
    BY DEF IInv, InOrder, QueueInOrder
  <2>3. \A j \in DOMAIN msgs' : P(msgs'[j])
    BY <2>2, <1>5, <1>8, <1>9
  <2>4. \A j, k \in DOMAIN msgs' : j < k => Before(msgs'[j], msgs'[k])
    BY <2>1, <2>2, <1>4, <1>5
  <2> QED
    BY <2>3, <2>4, <1>1 DEF QueueInOrder, Before, Pushed
<1>12. TakenIsFirst'
  <2> SUFFICES ASSUME taken # NoMsg
               PROVE  P(taken) /\ \A k \in DOMAIN msgs' : Before(taken, msgs'[k])
    BY <1>1 DEF TakenIsFirst, Before, Pushed
  <2>1. taken \in Numbered /\ Pushed(taken) /\ \A k \in DOMAIN msgs : Before(taken, msgs[k])
    BY DEF IInv, Typed, InOrder, TakenIsFirst
  <2> QED
    BY <2>1, <1>4, <1>5, <1>8
<1>13. HeardIsPast' /\ HeardInOrder'
  <2>1. ASSUME NEW c \in Connectors, NEW i \in DOMAIN heard[c]
        PROVE  /\ P(heard[c][i])
               /\ taken # NoMsg => Before(heard[c][i], taken)
               /\ \A k \in DOMAIN msgs' : Before(heard[c][i], msgs'[k])
    <3>1. /\ heard[c][i] \in Numbered /\ Pushed(heard[c][i])
          /\ taken # NoMsg => Before(heard[c][i], taken)
          /\ \A k \in DOMAIN msgs : Before(heard[c][i], msgs[k])
      BY <2>1 DEF IInv, Typed, InOrder, HeardIsPast
    <3>2. P(heard[c][i])
      BY <3>1, <1>8
    <3> QED
      BY <3>1, <3>2, <1>4, <1>5
  <2> QED
    BY <2>1, <1>1 DEF IInv, InOrder, HeardIsPast, HeardInOrder, Before, Pushed
<1> QED
  BY <1>6, <1>7, <1>10, <1>11, <1>12, <1>13 DEF IInv, InOrder

\* The caller takes the lock, changes the connectors and gives it back.
LEMMA CallerIInv ==
  ASSUME IInv,
         \/ \E v \in Levels \cup {All} :
              UnregisterConnector(v) \/ \E c \in Connectors : RegisterConnector(c, v)
         \/ Return
  PROVE  IInv'
<1>1. UNCHANGED <<held, sent, taken, target, heard, msgs>>
  BY DEF UnregisterConnector, RegisterConnector, Return, logs, work
<1>2. Typed' /\ Locked'
  <2>1. CASE Return
    <3>1. UNCHANGED conn /\ lctl' = "idle" /\ lock' = NoThread /\ lctl # "idle"
      BY <2>1 DEF Return
    <3> QED
      BY <3>1, <1>1 DEF IInv, Typed, Locked
  <2>2. CASE ~Return
    <3>1. PICK v \in Levels \cup {All} :
            UnregisterConnector(v) \/ \E c \in Connectors : RegisterConnector(c, v)
      BY <2>2
    <3>2. lctl' # "idle" /\ lock' = Caller /\ lctl = "idle" /\ lock = NoThread
      BY <3>1 DEF UnregisterConnector, RegisterConnector
    <3>3. conn' \in [Levels -> Connectors \cup {NoConn}]
      BY <3>1 DEF UnregisterConnector, RegisterConnector, IInv, Typed
    <3> QED
      BY <3>2, <3>3, <1>1 DEF IInv, Typed, Locked
  <2> QED
    BY <2>1, <2>2
<1> QED
  BY <1>1, <1>2, SameOrder DEF IInv

LEMMA TakeIInv ==
  ASSUME IInv, Take
  PROVE  IInv'
<1>1. /\ UNCHANGED <<conn, lctl, target, heard, held, sent, lock>>
      /\ taken = NoMsg /\ msgs # << >> /\ taken' = Head(msgs) /\ msgs' = Tail(msgs)
  BY DEF Take, setup, logs
<1>2. /\ msgs \in Seq(Numbered) /\ msgs' \in Seq(Numbered) /\ 1 \in DOMAIN msgs
      /\ taken' = msgs[1] /\ taken' \in Numbered
  BY <1>1 DEF IInv, Typed
<1>3. Len(msgs') = Len(msgs) - 1 /\ Len(msgs) \in Nat
  BY <1>1, <1>2
<1>4. \A k \in DOMAIN msgs' : k \in Nat /\ 1 < k + 1 /\ k + 1 \in DOMAIN msgs /\ msgs'[k] = msgs[k + 1]
  BY <1>1, <1>2, <1>3
<1>5. Typed'
  BY <1>1, <1>2 DEF IInv, Typed
<1>6. Locked'
  BY <1>1, <1>2, NoMsgIsNone DEF IInv, Locked
<1>7. HeldIsLast'
  BY <1>1 DEF IInv, InOrder, HeldIsLast
<1>8. \A j \in DOMAIN msgs : Pushed(msgs[j])
  BY DEF IInv, InOrder, QueueInOrder
<1>9. \A j, k \in DOMAIN msgs : j < k => Before(msgs[j], msgs[k])
  BY DEF IInv, InOrder, QueueInOrder
<1>10. QueueInOrder'
  <2>1. \A j \in DOMAIN msgs' : Pushed(msgs'[j])
    BY <1>4, <1>8
  <2>2. \A j, k \in DOMAIN msgs' : j < k => Before(msgs'[j], msgs'[k])
    <3> SUFFICES ASSUME NEW j \in DOMAIN msgs', NEW k \in DOMAIN msgs', j < k
                 PROVE  Before(msgs'[j], msgs'[k])
      OBVIOUS
    <3>1. j + 1 < k + 1
      BY <1>4
    <3> QED
      BY <3>1, <1>4, <1>9
  <2> QED
    BY <2>1, <2>2, <1>1 DEF QueueInOrder, Before, Pushed
<1>11. TakenIsFirst'
  <2>1. \A k \in DOMAIN msgs' : Before(msgs[1], msgs'[k])
    BY <1>2, <1>4, <1>9
  <2>2. Pushed(msgs[1])
    BY <1>2, <1>8
  <2> QED
    BY <2>1, <2>2, <1>2, <1>1 DEF TakenIsFirst, Pushed, Before
<1>12. HeardIsPast' /\ HeardInOrder'
  <2>1. ASSUME NEW c \in Connectors, NEW i \in DOMAIN heard[c]
        PROVE  /\ Pushed(heard[c][i])
               /\ Before(heard[c][i], msgs[1])
               /\ \A k \in DOMAIN msgs' : Before(heard[c][i], msgs'[k])
    BY <2>1, <1>2, <1>4 DEF IInv, InOrder, HeardIsPast
  <2> QED
    BY <2>1, <1>1, <1>2 DEF IInv, InOrder, HeardIsPast, HeardInOrder, Before, Pushed
<1> QED
  BY <1>5, <1>6, <1>7, <1>10, <1>11, <1>12 DEF IInv, InOrder

\* The thread takes the lock, and looks up the connector.
LEMMA LookUpIInv ==
  ASSUME IInv, TimedLock \/ Choose
  PROVE  IInv'
<1>1. UNCHANGED <<conn, lctl, held, sent, taken, heard, msgs>>
  BY DEF TimedLock, Choose, setup, logs, work
<1>2. Typed'
  BY <1>1, NoMsgIsNone DEF TimedLock, Choose, setup, logs, work, IInv, Typed, Numbered, Locked
<1>3. Locked'
  BY <1>1 DEF TimedLock, Choose, setup, logs, work, IInv, Locked
<1> QED
  BY <1>1, <1>2, <1>3, SameOrder DEF IInv

\* The thread is done with the message that it took, unheard.
LEMMA UnheardIInv ==
  ASSUME IInv, Drop \/ Ignore
  PROVE  IInv'
<1>1. UNCHANGED <<conn, lctl, held, sent, target, heard, msgs>> /\ taken' = NoMsg
  BY DEF Drop, Ignore, setup, logs
<1>2. Typed'
  BY <1>1 DEF IInv, Typed
<1>3. Locked'
  BY <1>1 DEF Drop, Ignore, IInv, Locked
<1>4. \A m : Pushed(m)' <=> Pushed(m)
  BY <1>1 DEF Pushed
<1>5. InOrder'
  BY <1>1, <1>4 DEF IInv, InOrder, HeldIsLast, QueueInOrder, TakenIsFirst, HeardIsPast,
                    HeardInOrder, Before
<1> QED
  BY <1>2, <1>3, <1>5 DEF IInv

LEMMA CallLoggerIInv ==
  ASSUME IInv, CallLogger
  PROVE  IInv'
<1> DEFINE n == Len(heard[target]) + 1
<1>1. /\ UNCHANGED <<conn, lctl, held, sent, msgs>> /\ target # NoConn
      /\ heard' = [heard EXCEPT ![target] = Append(@, taken)]
      /\ target' = NoConn /\ taken' = NoMsg /\ lock' = NoThread
  BY DEF CallLogger, setup, logs
<1>2. target \in Connectors /\ lock = Worker /\ taken \in Numbered /\ taken # NoMsg
  BY <1>1 DEF IInv, Typed, Locked
<1>3. /\ heard' \in [Connectors -> Seq(Numbered)]
      /\ heard'[target] = Append(heard[target], taken) /\ heard[target] \in Seq(Numbered)
      /\ \A c \in Connectors : c # target => heard'[c] = heard[c]
  BY <1>1, <1>2 DEF IInv, Typed
<1>4. /\ DOMAIN heard'[target] = DOMAIN heard[target] \cup {n} /\ heard'[target][n] = taken
      /\ n \in Nat
      /\ \A i \in DOMAIN heard[target] :
           i \in Nat /\ i < n /\ heard'[target][i] = heard[target][i]
  BY <1>3
<1> HIDE DEF n
<1>5. Typed'
  BY <1>1, <1>3 DEF IInv, Typed
<1>6. Locked'
  BY <1>1, <1>2 DEF IInv, Locked
<1>7. \A m : Pushed(m)' <=> Pushed(m)
  BY <1>1 DEF Pushed
<1>8. HeldIsLast' /\ QueueInOrder' /\ TakenIsFirst'
  BY <1>1, <1>7 DEF IInv, InOrder, HeldIsLast, QueueInOrder, TakenIsFirst, Before
<1>9. Pushed(taken) /\ \A k \in DOMAIN msgs : Before(taken, msgs[k])
  BY <1>2 DEF IInv, InOrder, TakenIsFirst
<1>10. \A c \in Connectors : \A i \in DOMAIN heard[c] :
         /\ Pushed(heard[c][i]) /\ Before(heard[c][i], taken)
         /\ \A k \in DOMAIN msgs : Before(heard[c][i], msgs[k])
  BY <1>2 DEF IInv, InOrder, HeardIsPast
<1>11. HeardIsPast'
  <2>1. ASSUME NEW c \in Connectors, NEW i \in DOMAIN heard'[c]
        PROVE  Pushed(heard'[c][i]) /\ \A k \in DOMAIN msgs : Before(heard'[c][i], msgs[k])
    <3>1. CASE c = target /\ i = n
      BY <3>1, <1>4, <1>9
    <3>2. CASE ~(c = target /\ i = n)
      <4>1. i \in DOMAIN heard[c] /\ heard'[c][i] = heard[c][i]
        BY <3>2, <2>1, <1>3, <1>4
      <4> QED
        BY <4>1, <1>10
    <3> QED
      BY <3>1, <3>2
  <2> QED
    BY <2>1, <1>1 DEF HeardIsPast, Before, Pushed
<1>12. HeardInOrder'
  <2> SUFFICES ASSUME NEW c \in Connectors, NEW i \in DOMAIN heard'[c], NEW j \in DOMAIN heard'[c],
                      i < j
               PROVE  Before(heard'[c][i], heard'[c][j])
    BY DEF HeardInOrder, Before
  <2>1. \A d \in Connectors : \A a, b \in DOMAIN heard[d] :
          a < b => Before(heard[d][a], heard[d][b])
    BY DEF IInv, InOrder, HeardInOrder, Before
  <2>2. CASE c # target
    BY <2>1, <2>2, <1>3
  <2>3. CASE c = target
    <3>1. i \in DOMAIN heard[c] /\ heard'[c][i] = heard[c][i]
      BY <2>3, <1>4
    <3>2. CASE j = n
      BY <2>3, <3>1, <3>2, <1>4, <1>10
    <3>3. CASE j # n
      BY <2>1, <2>3, <3>1, <3>3, <1>4
    <3> QED
      BY <3>2, <3>3
  <2> QED
    BY <2>2, <2>3
<1> QED
  BY <1>5, <1>6, <1>8, <1>11, <1>12 DEF IInv, InOrder

-----------------------------------------------------------------------------
\* The lock and the order of the messages, in every state.
THEOREM Invariance == Spec => []IInv
<1>1. IInv /\ [Next]_vars => IInv'
  <2> SUFFICES ASSUME IInv, [Next]_vars PROVE IInv'
    OBVIOUS
  <2>1. CASE Log
    <3>1. RegisterModule \/ UnregisterModule \/ SetMaxLevel => Aside
      BY DEF RegisterModule, UnregisterModule, SetMaxLevel, logs, work, Aside
    <3> QED
      BY <2>1, <3>1, AsideIInv, LogMessageIInv, CreateMessageIInv DEF Log
  <2>2. CASE Setup
    BY <2>2, CallerIInv DEF Setup
  <2>3. CASE Call
    <3>1. StartThread \/ StopThread \/ ThreadCall => Aside
      BY DEF StartThread, StopThread, ThreadCall, setup, logs, work, Aside
    <3> QED
      BY <2>3, <3>1, AsideIInv, CallerIInv DEF Call
  <2>4. CASE Run
    <3>1. RunLoop => Aside
      BY DEF RunLoop, setup, logs, work, Aside
    <3> QED
      BY <2>4, <3>1, AsideIInv, TakeIInv, LookUpIInv, UnheardIInv, CallLoggerIInv DEF Run
  <2>5. CASE UNCHANGED vars
    <3>1. Aside
      BY <2>5 DEF vars, setup, logs, work, Aside
    <3> QED
      BY <3>1, AsideIInv
  <2> QED
    BY <2>1, <2>2, <2>3, <2>4, <2>5 DEF Next
<1> QED
  BY <1>1, InitIInv, PTL DEF Spec

\* No connector is called that was unregistered, and each hears what a thread
\* logged in the order it was logged.
THEOREM Served == Spec => []ConnectorsServed
<1>1. IInv => CalledOnlyRegistered
  <2> SUFFICES ASSUME IInv, target # NoConn PROVE \E v \in Levels : conn[v] = target
    BY DEF CalledOnlyRegistered
  <2>1. taken \in Numbered /\ conn[taken.level] = target
    BY DEF IInv, Typed, Locked
  <2> QED
    BY <2>1 DEF Numbered
<1>2. IInv => ConnectorsServed
  BY <1>1 DEF IInv, InOrder, ConnectorsServed
<1> QED
  BY <1>2, Invariance, PTL

HIDE LogAssumption

-----------------------------------------------------------------------------
(* The commands. First the sequence of answers, and the numbers of links.  *)

LEMMA SeqIs == ASSUME NEW S, NEW q \in Seq(S) PROVE IsSequence(q)
<1>1. q \in [1..Len(q) -> S] /\ Len(q) \in Nat
  OBVIOUS
<1>2. q \in [1..Len(q) -> {q[k] : k \in DOMAIN q}]
  BY <1>1
<1> QED
  BY <1>1, <1>2 DEF IsSequence

LEMMA Appended ==
  ASSUME NEW q, IsSequence(q), NEW x
  PROVE  /\ IsSequence(Append(q, x)) /\ Len(Append(q, x)) = Len(q) + 1 /\ Len(q) \in Nat
         /\ DOMAIN q = 1..Len(q) /\ DOMAIN Append(q, x) = 1..(Len(q) + 1)
         /\ \A k \in DOMAIN q : Append(q, x)[k] = q[k]
         /\ Append(q, x)[Len(q) + 1] = x
<1> DEFINE S == {q[k] : k \in DOMAIN q} \cup {x}
<1>1. q \in Seq({q[k] : k \in DOMAIN q})
  BY DEF IsSequence
<1>2. q \in Seq(S)
  BY <1>1, SeqDef
<1>3. x \in S
  OBVIOUS
<1> HIDE DEF S
<1>4. Append(q, x) \in Seq(S)
  BY <1>2, <1>3
<1>5. IsSequence(Append(q, x))
  BY <1>4, SeqIs
<1>6. Len(Append(q, x)) = Len(q) + 1 /\ Len(q) \in Nat /\ DOMAIN q = 1..Len(q)
  BY <1>2, <1>3
<1>7. \A k \in DOMAIN q : Append(q, x)[k] = q[k]
  BY <1>2, <1>3
<1>8. Append(q, x)[Len(q) + 1] = x
  BY <1>2, <1>3
<1>9. DOMAIN Append(q, x) = 1..(Len(q) + 1)
  BY <1>4, <1>6
<1> QED
  BY <1>5, <1>6, <1>7, <1>8, <1>9

LEMMA Taken1 ==
  ASSUME NEW q, IsSequence(q), q # << >>
  PROVE  /\ IsSequence(Tail(q)) /\ Len(q) \in Nat /\ Len(q) > 0 /\ Len(Tail(q)) = Len(q) - 1
         /\ DOMAIN q = 1..Len(q) /\ DOMAIN Tail(q) = 1..(Len(q) - 1)
         /\ \A k \in DOMAIN Tail(q) : Tail(q)[k] = q[k + 1]
         /\ Head(q) = q[1]
<1> DEFINE S == {q[k] : k \in DOMAIN q}
<1>1. q \in Seq(S)
  BY DEF IsSequence
<1> HIDE DEF S
<1>2. Tail(q) \in Seq(S) /\ Len(Tail(q)) = Len(q) - 1 /\ Len(q) \in Nat /\ Len(q) > 0
  BY <1>1, HeadTailProperties, EmptySeq
<1>3. IsSequence(Tail(q))
  BY <1>2, SeqIs
<1>4. DOMAIN q = 1..Len(q) /\ DOMAIN Tail(q) = 1..(Len(q) - 1)
  BY <1>1, <1>2
<1>5. \A k \in DOMAIN Tail(q) : Tail(q)[k] = q[k + 1]
  BY <1>1, <1>2, <1>4, HeadTailProperties
<1>6. Head(q) = q[1]
  BY <1>1, <1>2
<1> QED
  BY <1>2, <1>3, <1>4, <1>5, <1>6

LEMMA NoAnswers == IsSequence(<< >>) /\ DOMAIN << >> = {} /\ Len(<< >>) = 0
<1>1. << >> \in Seq({})
  OBVIOUS
<1>2. Len(<< >>) = 0
  OBVIOUS
<1>3. DOMAIN << >> = {}
  BY <1>1, <1>2
<1>4. IsSequence(<< >>)
  BY <1>1, SeqIs
<1> QED
  BY <1>2, <1>3, <1>4

LEMMA SmallestIn ==
  ASSUME NEW S \in SUBSET Nat, S # {}
  PROVE  \E i \in S : \A j \in S : i <= j
<1> DEFINE R == OpToRel(<, Nat)
<1>1. IsWellFoundedOn(R, Nat)
  BY NatLessThanWellFounded
<1>2. \A i, j \in Nat : i < j => <<i, j>> \in R
  BY DEF OpToRel
<1> HIDE DEF R
<1>3. PICK i \in S : \A j \in S : ~(<<j, i>> \in R)
  BY <1>1, WFMin
<1>4. \A j \in S : ~(j < i)
  BY <1>2, <1>3
<1> QED
  BY <1>4

-----------------------------------------------------------------------------
LEMMA IsNl80211 ==
  ASSUME kind \in DOMAIN Nl80211Commands
  PROVE  command = Nl80211Commands[kind]
BY DEF command, Commands, Over

\* A listing is a command of nl80211 that reads the index and the name.
LEMMA ListingIs ==
  ASSUME kind \in Listings
  PROVE  /\ command.dump /\ kind # "ListLinks" /\ kind \in DOMAIN Nl80211Commands
         /\ command.reads \in {<<IfIndexAttribute, IfNameAttribute>>, <<PhyIndexAttribute, PhyNameAttribute>>}
<1>1. kind \in DOMAIN Nl80211Commands
  BY DEF Listings, Nl80211Commands
<1>2. command = IF kind = "ListInterfaces" THEN ListInterfacesCommand ELSE ListPhysCommand
  BY <1>1, IsNl80211 DEF Listings, Nl80211Commands
<1>3. ListInterfacesCommand.dump /\ ListInterfacesCommand.reads = <<IfIndexAttribute, IfNameAttribute>>
  BY DEF ListInterfacesCommand, ListInterfacesTakes, Takes, Listing, Execs, Identified
<1>4. ListPhysCommand.dump /\ ListPhysCommand.reads = <<PhyIndexAttribute, PhyNameAttribute>>
  BY DEF ListPhysCommand, ListPhysTakes, Takes, Listing, Execs
<1> QED
  BY <1>1, <1>2, <1>3, <1>4 DEF Listings

\* What the kernel lists of a link is its index and what it has for its name.
LEMMA PartIs ==
  ASSUME kind \in Listings, NEW l, NEW i
  PROVE  PartIndex(Report(l, Required, i)) = i /\ PartName(Report(l, Required, i)) = l[i]
<1> DEFINE x == command.reads[1]
           y == command.reads[2]
<1>1. Required = {x, y} /\ command.reads # << >>
  BY ListingIs DEF Required
<1>2. \/ x = IfIndexAttribute /\ y = IfNameAttribute
      \/ x = PhyIndexAttribute /\ y = PhyNameAttribute
  BY ListingIs
<1>3. x.id # y.id
  BY <1>2 DEF IfIndexAttribute, IfNameAttribute, PhyIndexAttribute, PhyNameAttribute, Number, Text, AttributeClass
<1>4. Reported(l, x, i).val = i
  BY <1>2 DEF Reported, Data, IfIndexAttribute, IfNameAttribute, PhyIndexAttribute, PhyNameAttribute,
     LinkIndex, PhyBandsAttribute, LinkOper, LinkCarrier, Number, Text, NestedClass, AttributeClass
<1>5. Reported(l, y, i).val = l[i]
  BY <1>2 DEF Reported, Data, IfIndexAttribute, IfNameAttribute, PhyIndexAttribute, PhyNameAttribute,
     LinkIndex, PhyBandsAttribute, LinkOper, LinkCarrier, Number, Text, NestedClass, AttributeClass
<1> HIDE DEF x, y
<1>6. (CHOOSE a \in {x, y} : a.id = x.id) = x /\ (CHOOSE a \in {x, y} : a.id = y.id) = y
  BY <1>3
<1>7. Report(l, {x, y}, i)[x.id] = Reported(l, x, i) /\ Report(l, {x, y}, i)[y.id] = Reported(l, y, i)
  BY <1>6 DEF Report
<1> QED
  BY <1>1, <1>4, <1>5, <1>7 DEF PartIndex, PartName, x, y

-----------------------------------------------------------------------------
(* What each action keeps. The history record is written out first.        *)

LEMMA WatchedIs ==
  ASSUME CommandTyped, NEW l
  PROVE  Watched(l) =
           [attrs |-> was.attrs, done |-> was.done, reported |-> was.reported, left |-> was.left,
            seen |-> was.seen \cup {<<i, l[i]>> : i \in Present(l)}, stayed |-> was.stayed \cap Present(l)]
<1> DEFINE a == was.attrs
           d == was.done
           r == was.reported
           n == was.left
           s == was.seen \cup {<<i, l[i]>> : i \in Present(l)}
           t == was.stayed \cap Present(l)
           old == was.seen
           there == was.stayed
<1>1. was = [attrs |-> a, done |-> d, reported |-> r, left |-> n, seen |-> old, stayed |-> there]
  BY DEF CommandTyped
<1>2. Watched(l) = [was EXCEPT !.seen = s, !.stayed = t]
  BY DEF Watched
<1> HIDE DEF a, d, r, n, s, t, old, there
<1>3. Watched(l) = [attrs |-> a, done |-> d, reported |-> r, left |-> n, seen |-> s, stayed |-> t]
  BY <1>1, <1>2
<1> QED
  BY <1>3 DEF a, d, r, n, s, t

LEMMA CommandInitIInv == CommandInit => CommandIInv
<1> SUFFICES ASSUME CommandInit PROVE CommandIInv
  OBVIOUS
<1>1. was = Idle(0) /\ phase = "idle" /\ count = 0 /\ sock = "none" /\ lost = 0 /\ next = 0 /\ answers = << >>
      /\ kind = None /\ status = FALSE
  BY DEF CommandInit
<1>2. CommandTyped
  BY <1>1, NoAnswers DEF CommandTyped, Idle
<1>3. SocketsAccounted
  BY <1>1 DEF SocketsAccounted, Idle
<1> QED
  BY <1>1, <1>2, <1>3 DEF CommandIInv, Executing, CountsOne, SentAfresh, DoneOrRefused, WatchedAll,
     AnsweredInOrder, ListedSoFar, ListedAll

LEMMA IdleIInv ==
  ASSUME CommandTyped', SocketsAccounted', phase' = "idle", count' = 0
  PROVE  CommandIInv'
BY DEF CommandIInv, Executing, CountsOne, SentAfresh, DoneOrRefused, WatchedAll,
   AnsweredInOrder, ListedSoFar, ListedAll

LEMMA StutterIInv == CommandIInv /\ UNCHANGED cmdvars => CommandIInv'
BY DEF CommandIInv, cmdvars, object, exec, io, CommandTyped, SocketsAccounted, Executing, CountsOne, SentAfresh,
   DoneOrRefused, WatchedAll, AnsweredInOrder, ListedSoFar, ListedAll, IsDone, PartIndex, PartName, Present,
   command

\* Whatever makes, deletes or fails: Exec has returned, the sockets are counted.
LEMMA NewIInv ==
  ASSUME CommandIInv, NEW k \in Kinds, NEW i, NEW v, NEW A, New(k, i, v, A)
  PROVE  CommandIInv'
<1>1. kind = None /\ kind' = k /\ UNCHANGED <<phase, status, count, sock, lost, answers, next, was>>
  BY DEF New, exec, io
<1>2. phase = "idle"
  BY <1>1 DEF CommandIInv, Executing
<1>3. CommandTyped'
  BY <1>1 DEF CommandIInv, CommandTyped
<1>4. SocketsAccounted'
  BY <1>1 DEF CommandIInv, SocketsAccounted
<1> QED
  BY <1>1, <1>2, <1>3, <1>4, IdleIInv DEF CommandIInv, CountsOne

LEMMA DeleteIInv == CommandIInv /\ Delete => CommandIInv'
<1> SUFFICES ASSUME CommandIInv, Delete PROVE CommandIInv'
  OBVIOUS
<1>1. kind' = None /\ phase' = "idle" /\ was' = Idle(0) /\ count' = 0 /\ sock' = "none" /\ lost' = 0
      /\ next' = 0 /\ answers' = << >> /\ status' = FALSE
  BY DEF Delete
<1>2. CommandTyped'
  BY <1>1, NoAnswers DEF CommandTyped, Idle
<1>3. SocketsAccounted'
  BY <1>1 DEF SocketsAccounted, Idle
<1> QED
  BY <1>1, <1>2, <1>3, IdleIInv

\* An Exec that returns at once: before it connects, or from a link command.
LEMMA UnguardedIInv == CommandIInv /\ Unguarded => CommandIInv'
<1> SUFFICES ASSUME CommandIInv, Unguarded PROVE CommandIInv'
  OBVIOUS
<1>1. phase = "idle" /\ phase' = "idle" /\ was' = Idle(was.left) /\ UNCHANGED <<kind, count, sock, lost, next, answers>>
  BY DEF Unguarded, Enter, ReturnWith, io
<1>2. status' = (status /\ ~command.resets)
  BY DEF Unguarded
<1>3. status' \in BOOLEAN
  BY <1>2
<1>4. CommandTyped'
  BY <1>1, <1>3 DEF CommandIInv, CommandTyped, Idle
<1>5. SocketsAccounted'
  BY <1>1 DEF CommandIInv, CommandTyped, SocketsAccounted, Idle
<1> QED
  BY <1>1, <1>4, <1>5, IdleIInv DEF CommandIInv, CountsOne

LEMMA RouteIInv ==
  ASSUME CommandIInv, RouteUnconnected \/ RouteFails \/ RouteDoes \/ RouteLists
  PROVE  CommandIInv'
<1>1. phase = "idle" /\ UNCHANGED <<kind, status, count>>
  BY DEF RouteUnconnected, RouteFails, RouteDoes, RouteLists, Enter, object
<1>2. \/ Connect("none") /\ phase' = "idle" /\ was' = Idle(was.left)
      \/ Connect("open") /\ phase' = "idle" /\ was' = Idle(was.left + 1)
  BY DEF RouteUnconnected, RouteFails, RouteDoes, RouteLists, ReturnOpen, ReturnWith
<1>3. CommandTyped'
  BY <1>1, <1>2, NoAnswers DEF CommandIInv, CommandTyped, Idle, Connect
<1>4. SocketsAccounted'
  BY <1>1, <1>2 DEF CommandIInv, CommandTyped, SocketsAccounted, Idle, Connect
<1> QED
  BY <1>1, <1>2, <1>3, <1>4, IdleIInv DEF CommandIInv, CountsOne

\* Exec connects: the socket that an earlier one left open is lost.
LEMMA OpenedIInv == CommandIInv /\ Opened => CommandIInv'
<1> SUFFICES ASSUME CommandIInv, Opened PROVE CommandIInv'
  OBVIOUS
<1>1. phase = "idle" /\ kind # None /\ kind \in DOMAIN Nl80211Commands /\ UNCHANGED <<link, kind, attrs, count>>
      /\ list' = Cleared /\ status' = (status /\ ~command.resets)
  BY DEF Opened, Enter
<1>2. status' \in BOOLEAN /\ count' = 0
  BY <1>1 DEF CommandIInv, CountsOne
<1>3. CASE Connect("open") /\ phase' = "send" /\ was' = Began(was.left)
  <2>1. was' = [attrs |-> attrs, done |-> {}, reported |-> Empty, left |-> was.left,
                seen |-> {<<i, link[i]>> : i \in Present(link)}, stayed |-> Present(link)]
    BY <1>3 DEF Began
  <2>2. sock' = "open" /\ answers' = << >> /\ next' = 0 /\ lost' = was.left
    BY <1>1, <1>3 DEF Connect, CommandIInv, CommandTyped, SocketsAccounted
  <2>3. was'.left = was.left /\ was'.attrs = attrs /\ was'.done = {}
        /\ was'.seen = {<<i, link[i]>> : i \in Present(link)} /\ was'.stayed = Present(link)
    BY <2>1
  <2>4. was' = [attrs |-> was'.attrs, done |-> was'.done, reported |-> was'.reported,
                left |-> was'.left, seen |-> was'.seen, stayed |-> was'.stayed]
    BY <2>1
  <2>5. CommandTyped'
    BY <1>1, <1>2, <1>3, <2>2, <2>3, <2>4, NoAnswers DEF CommandIInv, CommandTyped
  <2>6. WatchedAll'
    <3> SUFFICES ASSUME kind \in Listings
                 PROVE  /\ \A i \in Present(link)' : <<i, link'[i]>> \in was'.seen
                        /\ was'.stayed \subseteq Present(link)'
                        /\ \A i \in DOMAIN list' : <<i, list'[i]>> \in was'.seen
      BY <1>1 DEF WatchedAll
    <3>1. list' = << >> /\ DOMAIN list' = {}
      BY <1>1, ListingIs, NoAnswers DEF Cleared, Empty
    <3>2. Present(link)' = Present(link) /\ link' = link
      BY <1>1 DEF Present, command
    <3> QED
      BY <2>3, <3>1, <3>2
  <2> QED
    BY <1>1, <1>2, <1>3, <2>2, <2>3, <2>5, <2>6
       DEF CommandIInv, SocketsAccounted, Executing, CountsOne, SentAfresh, DoneOrRefused,
           AnsweredInOrder, ListedSoFar, ListedAll
<1>4. CASE \/ Connect("open") /\ phase' = "idle" /\ was' = Idle(was.left + 1)
           \/ Connect("none") /\ phase' = "idle" /\ was' = Idle(was.left)
  <2>1. CommandTyped'
    BY <1>1, <1>2, <1>4, NoAnswers DEF CommandIInv, CommandTyped, Idle, Connect
  <2>2. SocketsAccounted'
    BY <1>1, <1>4 DEF CommandIInv, CommandTyped, SocketsAccounted, Idle, Connect
  <2> QED
    BY <1>2, <1>4, <2>1, <2>2, IdleIInv
<1> QED
  BY <1>3, <1>4 DEF Opened, ReturnOpen, ReturnWith

\* RecvMsg or the wait fails: the socket stays open.
LEMMA ReturnsOpenIInv ==
  ASSUME CommandIInv, phase # "idle", phase' = "idle", was' = Idle(was.left + 1), count' = 0,
         UNCHANGED <<kind, sock, lost, status, next, answers>>
  PROVE  CommandIInv'
<1>1. CommandTyped'
  BY DEF CommandIInv, CommandTyped, Idle
<1>2. SocketsAccounted'
  BY DEF CommandIInv, CommandTyped, Executing, SocketsAccounted, Idle
<1> QED
  BY <1>1, <1>2, IdleIInv

LEMMA RecvFailsIInv == CommandIInv /\ RecvFails => CommandIInv'
BY ReturnsOpenIInv DEF RecvFails, ReturnOpen, ReturnWith, object, io, CommandIInv, CountsOne

LEMMA FinishIInv == CommandIInv /\ Finish => CommandIInv'
<1> SUFFICES ASSUME CommandIInv, Finish PROVE CommandIInv'
  OBVIOUS
<1>1. phase = "wait" /\ phase' = "idle" /\ UNCHANGED <<kind, status, lost>> /\ count \in Nat /\ count <= 1
  BY DEF Finish, ReturnOpen, ReturnWith, object, CommandIInv, CommandTyped, CountsOne
<1>2. CASE count > 0
  <2>1. count' = 0 /\ sock' = "none" /\ next' = 0 /\ answers' = << >> /\ was' = Idle(was.left)
    BY <1>1, <1>2 DEF Finish, Disconnected, ReturnWith
  <2>2. CommandTyped'
    BY <1>1, <2>1, NoAnswers DEF CommandIInv, CommandTyped, Idle
  <2>3. SocketsAccounted'
    BY <1>1, <2>1 DEF CommandIInv, CommandTyped, Executing, SocketsAccounted, Idle
  <2> QED
    BY <1>1, <2>1, <2>2, <2>3, IdleIInv
<1>3. CASE ~(count > 0)
  BY <1>1, <1>3, ReturnsOpenIInv DEF Finish, ReturnOpen, ReturnWith
<1> QED
  BY <1>2, <1>3

LEMMA SendMsgIInv == CommandIInv /\ SendMsg => CommandIInv'
<1> SUFFICES ASSUME CommandIInv, SendMsg PROVE CommandIInv'
  OBVIOUS
<1>1. phase = "send" /\ UNCHANGED <<link, kind, attrs, list, status, count, execs, sock, lost, next, answers>>
  BY DEF SendMsg, object, io
<1>2. CASE phase' = "sent" /\ UNCHANGED was
  BY <1>1, <1>2 DEF CommandIInv, CommandTyped, SocketsAccounted, Executing, CountsOne, SentAfresh,
     DoneOrRefused, WatchedAll, AnsweredInOrder, ListedSoFar, ListedAll, Present, command
<1>3. CASE ReturnOpen
  BY <1>1, <1>3, ReturnsOpenIInv DEF ReturnOpen, ReturnWith, CommandIInv, CountsOne
<1> QED
  BY <1>2, <1>3 DEF SendMsg

-----------------------------------------------------------------------------
(* The kernel's steps.                                                     *)

LEMMA KernelRefusesIInv == CommandIInv /\ KernelRefuses => CommandIInv'
<1> SUFFICES ASSUME CommandIInv, KernelRefuses PROVE CommandIInv'
  OBVIOUS
<1>1. /\ phase = "sent" /\ phase' = "recv" /\ answers' = Append(answers, Error)
      /\ UNCHANGED <<link, kind, attrs, list, status, count, sock, lost, next, was>>
  BY DEF KernelRefuses, object
<1>2. answers = << >> /\ next = 0
  BY <1>1 DEF CommandIInv, SentAfresh
<1>3. IsSequence(answers') /\ DOMAIN answers' = {1} /\ Len(answers') = 1 /\ answers'[1] = Error
  <2>1. IsSequence(answers) /\ Len(answers) = 0
    BY <1>2, NoAnswers
  <2>2. IsSequence(answers') /\ Len(answers') = 0 + 1 /\ DOMAIN answers' = 1..(0 + 1) /\ answers'[0 + 1] = Error
    BY <1>1, <2>1, Appended
  <2> QED
    BY <2>2
<1>4. Error.type = "error"
  BY DEF Error
<1>5. command' = command
  BY <1>1 DEF command
<1>6. CommandTyped'
  BY <1>1, <1>3 DEF CommandIInv, CommandTyped
<1>7. SocketsAccounted' /\ Executing' /\ CountsOne' /\ SentAfresh' /\ ListedAll'
  BY <1>1 DEF CommandIInv, SocketsAccounted, Executing, CountsOne, SentAfresh, ListedAll
<1>8. DoneOrRefused'
  BY <1>1, <1>2, <1>3, <1>4 DEF DoneOrRefused
<1>9. WatchedAll'
  BY <1>1, <1>5 DEF CommandIInv, WatchedAll, Present
<1>10. AnsweredInOrder' /\ ListedSoFar'
  BY <1>1, <1>2, <1>3, <1>4 DEF AnsweredInOrder, ListedSoFar
<1> QED
  BY <1>6, <1>7, <1>8, <1>9, <1>10 DEF CommandIInv

LEMMA KernelDoesIInv == CommandIInv /\ KernelDoes => CommandIInv'
<1> SUFFICES ASSUME CommandIInv, KernelDoes PROVE CommandIInv'
  OBVIOUS
<1> DEFINE w == Message(command, attrs)
<1>1. /\ phase = "sent" /\ phase' = "recv" /\ ~command.dump
      /\ UNCHANGED <<kind, attrs, list, status, count, sock, lost, next>>
      /\ was' = [Watched(link') EXCEPT !.done = @ \cup {w}]
  BY DEF KernelDoes, object
<1>2. answers = << >> /\ next = 0 /\ attrs = was.attrs /\ was.done = {}
  BY <1>1 DEF CommandIInv, SentAfresh
<1>3. was' = [attrs |-> was.attrs, done |-> {w}, reported |-> was.reported, left |-> was.left,
              seen |-> was.seen \cup {<<i, link'[i]>> : i \in Present(link')},
              stayed |-> was.stayed \cap Present(link')]
  <2> DEFINE Seen2 == was.seen \cup {<<i, link'[i]>> : i \in Present(link')}
             Stay == was.stayed \cap Present(link')
  <2>1. Watched(link') = [attrs |-> was.attrs, done |-> was.done, reported |-> was.reported,
                          left |-> was.left, seen |-> Seen2, stayed |-> Stay]
    BY WatchedIs DEF CommandIInv
  <2>2. was' = [Watched(link') EXCEPT !.done = Watched(link').done \cup {w}]
    BY <1>1
  <2> HIDE DEF Seen2, Stay, w
  <2>3. was' = [attrs |-> was.attrs, done |-> was.done \cup {w}, reported |-> was.reported,
                left |-> was.left, seen |-> Seen2, stayed |-> Stay]
    BY <2>1, <2>2
  <2>4. was.done \cup {w} = {w}
    BY <1>2
  <2> QED
    BY <2>3, <2>4 DEF Seen2, Stay
<1>4. was'.done = {w} /\ was'.attrs = was.attrs /\ was'.left = was.left
  BY <1>3
<1>5. was' = [attrs |-> was'.attrs, done |-> was'.done, reported |-> was'.reported,
              left |-> was'.left, seen |-> was'.seen, stayed |-> was'.stayed]
  BY <1>3
<1>6. IsSequence(answers')
  <2>1. CASE answers' = Append(answers, Ack)
    BY <1>2, <2>1, NoAnswers, Appended
  <2>2. CASE \E r \in Reports(link', DoneTo(w)) : answers' = answers \o <<Reply(r), Ack>>
    <3>1. PICK r : answers' = << >> \o <<Reply(r), Ack>>
      BY <1>2, <2>2
    <3>2. answers' \in Seq({Reply(r), Ack})
      BY <3>1
    <3> QED
      BY <3>2, SeqIs
  <2> QED
    BY <2>1, <2>2 DEF KernelDoes
<1>7. command' = command
  BY <1>1 DEF command
<1>8. CommandTyped'
  BY <1>1, <1>4, <1>5, <1>6 DEF CommandIInv, CommandTyped
<1>9. SocketsAccounted' /\ Executing' /\ CountsOne' /\ SentAfresh' /\ ListedAll'
  BY <1>1, <1>4 DEF CommandIInv, SocketsAccounted, Executing, CountsOne, SentAfresh, ListedAll
<1>10. DoneOrRefused'
  BY <1>1, <1>2, <1>4, <1>7 DEF DoneOrRefused, IsDone
<1>11. kind' \notin Listings
  BY <1>1, ListingIs
<1>12. WatchedAll' /\ AnsweredInOrder' /\ ListedSoFar'
  BY <1>11 DEF WatchedAll, AnsweredInOrder, ListedSoFar
<1> QED
  BY <1>8, <1>9, <1>10, <1>12 DEF CommandIInv

LEMMA KernelBeginsListIInv == CommandIInv /\ KernelBeginsList => CommandIInv'
<1> SUFFICES ASSUME CommandIInv, KernelBeginsList PROVE CommandIInv'
  OBVIOUS
<1>1. /\ phase = "sent" /\ phase' = "recv" /\ command.dump /\ next' = 1
      /\ UNCHANGED <<link, kind, attrs, list, status, count, sock, lost, answers, was>>
  BY DEF KernelBeginsList, object
<1>2. answers = << >>
  BY <1>1 DEF CommandIInv, SentAfresh
<1>3. command' = command
  BY <1>1 DEF command
<1>4. CommandTyped'
  BY <1>1 DEF CommandIInv, CommandTyped
<1>5. SocketsAccounted' /\ Executing' /\ CountsOne' /\ SentAfresh' /\ ListedAll'
  BY <1>1 DEF CommandIInv, SocketsAccounted, Executing, CountsOne, SentAfresh, ListedAll
<1>6. DoneOrRefused'
  BY <1>1, <1>3 DEF DoneOrRefused
<1>7. WatchedAll'
  BY <1>1, <1>3 DEF CommandIInv, WatchedAll, Present
<1>8. AnsweredInOrder'
  BY <1>1, <1>2, NoAnswers DEF AnsweredInOrder
<1>9. ListedSoFar'
  <2> SUFFICES ASSUME kind \in Listings, NEW i \in was.stayed PROVE ~(i < 1)
    BY <1>1 DEF ListedSoFar
  <2>1. i \in Indices
    BY <1>1 DEF CommandIInv, WatchedAll, Present
  <2> QED
    BY <2>1 DEF Indices
<1> QED
  BY <1>4, <1>5, <1>6, <1>7, <1>8, <1>9 DEF CommandIInv

\* The kernel lists the next link that is there, or ends the list.
LEMMA KernelListsIInv == CommandIInv /\ KernelLists => CommandIInv'
<1> SUFFICES ASSUME CommandIInv, KernelLists PROVE CommandIInv'
  OBVIOUS
<1> DEFINE I == {i \in Indices : i >= next /\ link[i] # None}
           n == CHOOSE i \in I : \A j \in I : i <= j
           x == IF I = {} THEN Done ELSE Part(Report(link, Required, n))
<1>1. /\ next # 0 /\ UNCHANGED <<link, kind, attrs, list, phase, status, count, sock, lost, was>>
      /\ answers' = Append(answers, x) /\ next' = IF I = {} THEN 0 ELSE n + 1
  BY DEF KernelLists, object, exec
<1>2. I # {} => n \in I /\ n \in Nat /\ \A j \in I : n <= j
  <2> SUFFICES ASSUME I # {} PROVE n \in I /\ n \in Nat /\ \A j \in I : n <= j
    OBVIOUS
  <2>1. I \in SUBSET Nat
    BY CommandAssumption DEF Indices
  <2>2. \E i \in I : \A j \in I : i <= j
    <3>1. PICK k : k \in I
      OBVIOUS
    <3>2. k \in Nat
      BY <2>1, <3>1
    <3> QED
      BY <2>1, <3>1, SmallestIn
  <2> QED
    BY <2>1, <2>2
<1> HIDE DEF I, n, x
<1>3. IsSequence(answers) /\ next \in Nat /\ next' \in Nat
  BY <1>1, <1>2 DEF CommandIInv, CommandTyped
<1>4. /\ IsSequence(answers') /\ Len(answers') = Len(answers) + 1 /\ Len(answers) \in Nat
      /\ DOMAIN answers = 1..Len(answers) /\ DOMAIN answers' = 1..(Len(answers) + 1)
      /\ \A k \in DOMAIN answers : answers'[k] = answers[k]
      /\ answers'[Len(answers) + 1] = x
  BY <1>1, <1>3, Appended
<1>5. command' = command
  BY <1>1 DEF command
<1>6. CommandTyped'
  BY <1>1, <1>3, <1>4 DEF CommandIInv, CommandTyped
<1>7. SocketsAccounted' /\ Executing' /\ CountsOne' /\ SentAfresh' /\ ListedAll'
  BY <1>1 DEF CommandIInv, SocketsAccounted, Executing, CountsOne, SentAfresh, ListedAll
<1>8. DoneOrRefused'
  BY <1>1, <1>5 DEF CommandIInv, DoneOrRefused, IsDone
<1>9. WatchedAll'
  BY <1>1, <1>5 DEF CommandIInv, WatchedAll, Present
<1>10. ASSUME phase = "recv", kind \in Listings
       PROVE  /\ \A k \in DOMAIN answers : answers[k].type = "part"
                   /\ <<PartIndex(answers[k].w), PartName(answers[k].w)>> \in was.seen
              /\ I # {} => /\ x.type = "part" /\ PartIndex(x.w) = n /\ PartName(x.w) = link[n]
                           /\ <<n, link[n]>> \in was.seen
              /\ I = {} => x.type = "done"
  <2>1. \A k \in DOMAIN answers : answers[k].type = "part"
          /\ <<PartIndex(answers[k].w), PartName(answers[k].w)>> \in was.seen
    BY <1>1, <1>10 DEF CommandIInv, AnsweredInOrder
  <2>2. ASSUME I # {}
        PROVE  /\ x.type = "part" /\ PartIndex(x.w) = n /\ PartName(x.w) = link[n]
               /\ <<n, link[n]>> \in was.seen
    <3>1. x.type = "part" /\ x.w = Report(link, Required, n)
      BY <2>2 DEF x, Part
    <3>2. PartIndex(x.w) = n /\ PartName(x.w) = link[n]
      BY <1>10, <3>1, PartIs
    <3>3. n \in Present(link)
      BY <1>2, <1>10, <2>2, ListingIs DEF I, Present
    <3> QED
      BY <1>10, <3>1, <3>2, <3>3 DEF CommandIInv, WatchedAll
  <2>3. I = {} => x.type = "done"
    BY DEF x, Done
  <2> QED
    BY <2>1, <2>2, <2>3
<1>11. AnsweredInOrder'
  <2> SUFFICES ASSUME phase = "recv", kind \in Listings, NEW k \in DOMAIN answers'
               PROVE  /\ answers'[k].type \in {"error", "part", "done"}
                      /\ answers'[k].type = "part" =>
                           <<PartIndex(answers'[k].w), PartName(answers'[k].w)>> \in was.seen
                      /\ answers'[k].type = "done" => next' = 0 /\ k = Len(answers')
                      /\ answers'[k].type = "error" => next' = 0 /\ Len(answers') = 1
    BY <1>1, <1>5 DEF AnsweredInOrder, PartIndex, PartName
  <2>1. CASE k \in DOMAIN answers
    BY <1>4, <1>10, <2>1
  <2>2. CASE k = Len(answers) + 1
    BY <1>1, <1>4, <1>10, <2>2
  <2> QED
    BY <1>4, <2>1, <2>2
<1>12. ListedSoFar'
  <2> SUFFICES ASSUME phase = "recv", kind \in Listings, NEW i \in was.stayed, next' = 0 \/ i < next'
               PROVE  \/ i \in DOMAIN list
                      \/ \E k \in DOMAIN answers' : answers'[k].type = "part" /\ PartIndex(answers'[k].w) = i
    BY <1>1, <1>5 DEF ListedSoFar, PartIndex
  <2>1. i \in Indices /\ i \in Nat /\ link[i] # None
    BY ListingIs DEF CommandIInv, WatchedAll, Present, Indices
  <2>2. CASE i < next
    <3>1. \/ i \in DOMAIN list
          \/ \E k \in DOMAIN answers : answers[k].type = "part" /\ PartIndex(answers[k].w) = i
      BY <1>10, <2>2 DEF CommandIInv, ListedSoFar
    <3> QED
      BY <1>4, <3>1
  <2>3. CASE ~(i < next)
    <3>1. i \in I
      BY <1>3, <2>1, <2>3 DEF I
    <3>2. I # {} /\ n \in Nat /\ n <= i /\ i < n + 1
      BY <1>1, <1>2, <3>1
    <3>3. i = n
      BY <2>1, <3>2
    <3> QED
      BY <1>4, <1>10, <3>2, <3>3
  <2> QED
    BY <2>2, <2>3
<1> QED
  BY <1>6, <1>7, <1>8, <1>9, <1>11, <1>12 DEF CommandIInv

-----------------------------------------------------------------------------
(* What the others do to the links, and what RecvMsg reads.                *)

LEMMA OutsideIInv == CommandIInv /\ Outside => CommandIInv'
<1> SUFFICES ASSUME CommandIInv, Outside PROVE CommandIInv'
  OBVIOUS
<1>1. UNCHANGED <<kind, attrs, list, phase, status, count, sock, lost, answers, next>>
  BY DEF Outside, object, exec, io
<1>2. CASE phase = "idle"
  <2>1. was' = was
    BY <1>2 DEF Outside
  <2>2. CommandTyped'
    BY <1>1, <2>1 DEF CommandIInv, CommandTyped
  <2>3. SocketsAccounted'
    BY <1>1, <2>1 DEF CommandIInv, SocketsAccounted
  <2> QED
    BY <1>1, <1>2, <2>2, <2>3, IdleIInv DEF CommandIInv, CountsOne
<1>3. CASE phase # "idle"
  <2>1. was' = Watched(link')
    BY <1>3 DEF Outside
  <2>2. was' = [attrs |-> was.attrs, done |-> was.done, reported |-> was.reported, left |-> was.left,
                seen |-> was.seen \cup {<<i, link'[i]>> : i \in Present(link')},
                stayed |-> was.stayed \cap Present(link')]
    BY <2>1, WatchedIs DEF CommandIInv
  <2>3. was'.attrs = was.attrs /\ was'.done = was.done /\ was'.left = was.left
    BY <2>2
  <2>4. was'.seen = was.seen \cup {<<i, link'[i]>> : i \in Present(link')}
        /\ was'.stayed = was.stayed \cap Present(link')
    BY <2>2
  <2>5. was' = [attrs |-> was'.attrs, done |-> was'.done, reported |-> was'.reported,
                left |-> was'.left, seen |-> was'.seen, stayed |-> was'.stayed]
    BY <2>2
  <2>6. command' = command
    BY <1>1 DEF command
  <2>7. CommandTyped'
    BY <1>1, <2>3, <2>5 DEF CommandIInv, CommandTyped
  <2>8. SocketsAccounted' /\ Executing' /\ CountsOne'
    BY <1>1, <1>3, <2>3 DEF CommandIInv, SocketsAccounted, Executing, CountsOne
  <2>9. SentAfresh' /\ DoneOrRefused'
    BY <1>1, <2>3, <2>6 DEF CommandIInv, SentAfresh, DoneOrRefused, IsDone
  <2>10. ASSUME kind \in Listings
         PROVE  /\ \A i \in Present(link') : <<i, link'[i]>> \in was'.seen
                /\ was'.stayed \subseteq Present(link')
                /\ \A i \in DOMAIN list : <<i, list[i]>> \in was'.seen
    BY <1>3, <2>4, <2>10 DEF CommandIInv, WatchedAll
  <2>11. WatchedAll'
    BY <1>1, <2>6, <2>10 DEF WatchedAll, Present
  <2>12. was.seen \subseteq was'.seen /\ was'.stayed \subseteq was.stayed
    BY <2>4
  <2>13. AnsweredInOrder'
    BY <1>1, <2>6, <2>12 DEF CommandIInv, AnsweredInOrder, PartIndex, PartName
  <2>14. ListedSoFar'
    BY <1>1, <2>6, <2>12 DEF CommandIInv, ListedSoFar, PartIndex
  <2>15. ListedAll'
    BY <1>1, <2>12 DEF CommandIInv, ListedAll
  <2> QED
    BY <2>7, <2>8, <2>9, <2>11, <2>13, <2>14, <2>15 DEF CommandIInv
<1> QED
  BY <1>2, <1>3

\* One message ends the command, or does not; an error never makes it succeed.
LEMMA RecvIInv == CommandIInv /\ Recv => CommandIInv'
<1> SUFFICES ASSUME CommandIInv, Recv PROVE CommandIInv'
  OBVIOUS
<1> DEFINE h == Head(answers)
<1>1. /\ phase = "recv" /\ phase' = "wait" /\ answers # << >> /\ answers' = Tail(answers)
      /\ UNCHANGED <<link, kind, list, sock, lost, next>>
  BY DEF Recv, RecvError, RecvAck, RecvDone, RecvReply
<1>2. IsSequence(answers) /\ count = 0 /\ count \in Nat /\ status \in BOOLEAN
  BY <1>1 DEF CommandIInv, CommandTyped, CountsOne
<1>3. IsSequence(answers') /\ 1 \in DOMAIN answers /\ h = answers[1] /\ DOMAIN answers = 1..Len(answers)
  BY <1>1, <1>2, Taken1
<1>4. h.type # "part"
  BY DEF Recv
<1>5. \/ h.type = "error" /\ Ends("error", FALSE) /\ was' = was
      \/ h.type = "ack" /\ Ends("ack", TRUE) /\ was' = was
      \/ h.type = "done" /\ Ends("finish", TRUE) /\ was' = was
      \/ h.type = "reply" /\ was' = [was EXCEPT !.reported = h.w]
         /\ (Ends("valid", TRUE) \/ UNCHANGED <<status, count>>)
  BY DEF Recv, RecvError, RecvAck, RecvDone, RecvReply
<1>6. was' = [attrs |-> was.attrs, done |-> was.done, reported |-> was'.reported, left |-> was.left,
              seen |-> was.seen, stayed |-> was.stayed]
  <2>1. CASE was' = was
    BY <2>1 DEF CommandIInv, CommandTyped
  <2>2. CASE was' = [was EXCEPT !.reported = h.w]
    <3> DEFINE a == was.attrs
               d == was.done
               r == was.reported
               n == was.left
               s == was.seen
               t == was.stayed
    <3>1. was = [attrs |-> a, done |-> d, reported |-> r, left |-> n, seen |-> s, stayed |-> t]
      BY DEF CommandIInv, CommandTyped
    <3> HIDE DEF a, d, r, n, s, t, h
    <3>2. was' = [attrs |-> a, done |-> d, reported |-> h.w, left |-> n, seen |-> s, stayed |-> t]
      BY <2>2, <3>1
    <3>3. was'.reported = h.w
      BY <3>2
    <3> QED
      BY <3>2, <3>3 DEF a, d, r, n, s, t
  <2> QED
    BY <1>5, <2>1, <2>2
<1>7. was'.attrs = was.attrs /\ was'.done = was.done /\ was'.left = was.left /\ was'.seen = was.seen
      /\ was'.stayed = was.stayed
  BY <1>6
<1>8. was' = [attrs |-> was'.attrs, done |-> was'.done, reported |-> was'.reported,
              left |-> was'.left, seen |-> was'.seen, stayed |-> was'.stayed]
  BY <1>6, <1>7
<1> HIDE DEF h
<1>9. status' \in BOOLEAN /\ count' \in Nat /\ count' <= 1 /\ (h.type = "error" => status' = FALSE)
  <2>1. CASE h.type = "error" /\ Ends("error", FALSE)
    <3>1. status' = FALSE /\ count' = count + 1
      BY <2>1 DEF Ends
    <3>2. status' \in BOOLEAN
      BY <3>1
    <3>3. count' \in Nat /\ count' <= 1
      BY <1>2, <3>1
    <3> QED
      BY <3>1, <3>2, <3>3
  <2>2. CASE h.type # "error" /\ \E cb \in {"ack", "finish", "valid"} : Ends(cb, TRUE)
    <3>1. PICK cb \in {"ack", "finish", "valid"} : Ends(cb, TRUE)
      BY <2>2
    <3>2. (status' = TRUE /\ count' = count + 1) \/ UNCHANGED <<status, count>>
      BY <3>1 DEF Ends
    <3>3. status' \in BOOLEAN
      BY <1>2, <3>2
    <3>4. count' \in Nat /\ count' <= 1
      BY <1>2, <3>2
    <3> QED
      BY <2>2, <3>3, <3>4
  <2>3. CASE h.type # "error" /\ UNCHANGED <<status, count>>
    <3>1. status' \in BOOLEAN /\ count' = 0
      BY <1>2, <2>3
    <3> QED
      BY <2>3, <3>1
  <2> QED
    BY <1>5, <2>1, <2>2, <2>3
<1>10. command' = command
  BY <1>1 DEF command
<1>11. CommandTyped'
  BY <1>1, <1>3, <1>7, <1>8, <1>9 DEF CommandIInv, CommandTyped
<1>12. SocketsAccounted' /\ Executing' /\ CountsOne' /\ SentAfresh'
  BY <1>1, <1>7, <1>9 DEF CommandIInv, SocketsAccounted, Executing, CountsOne, SentAfresh
<1>13. DoneOrRefused'
  BY <1>1, <1>3, <1>7, <1>9, <1>10 DEF CommandIInv, DoneOrRefused, IsDone
<1>14. WatchedAll'
  BY <1>1, <1>7, <1>10 DEF CommandIInv, WatchedAll, Present
<1>15. AnsweredInOrder' /\ ListedSoFar'
  BY <1>1 DEF AnsweredInOrder, ListedSoFar
<1>16. ListedAll'
  <2> SUFFICES ASSUME kind \in Listings, count' = 1, status' PROVE was.stayed \subseteq DOMAIN list
    BY <1>1, <1>7 DEF ListedAll
  <2>1. h.type = "done"
    BY <1>1, <1>3, <1>4, <1>9 DEF CommandIInv, AnsweredInOrder
  <2>2. next = 0 /\ Len(answers) = 1
    BY <1>1, <1>3, <2>1 DEF CommandIInv, AnsweredInOrder
  <2>3. \A k \in DOMAIN answers : answers[k].type = "done"
    BY <1>3, <2>1, <2>2
  <2> QED
    BY <1>1, <2>2, <2>3 DEF CommandIInv, ListedSoFar
<1> QED
  BY <1>11, <1>12, <1>13, <1>14, <1>15, <1>16 DEF CommandIInv

\* A part of a list goes into it.
LEMMA RecvPartIInv == CommandIInv /\ RecvPart => CommandIInv'
<1> SUFFICES ASSUME CommandIInv, RecvPart PROVE CommandIInv'
  OBVIOUS
<1> DEFINE w == Head(answers).w
<1>1. /\ phase = "recv" /\ answers # << >> /\ Head(answers).type = "part" /\ answers' = Tail(answers)
      /\ UNCHANGED <<link, kind, attrs, phase, status, count, sock, lost, next, was>>
      /\ list' = IF command.reads = << >> THEN list
                 ELSE Over(Entry(w[command.reads[1].id].val, w[command.reads[2].id].val), list)
  BY DEF RecvPart, exec
<1>2. /\ IsSequence(answers') /\ Len(answers) \in Nat /\ Len(answers) > 0 /\ Len(answers') = Len(answers) - 1
      /\ DOMAIN answers = 1..Len(answers) /\ DOMAIN answers' = 1..(Len(answers) - 1)
      /\ \A k \in DOMAIN answers' : answers'[k] = answers[k + 1]
      /\ Head(answers) = answers[1]
  BY <1>1, Taken1 DEF CommandIInv, CommandTyped
<1>3. command' = command
  BY <1>1 DEF command
<1>4. CommandTyped'
  BY <1>1, <1>2 DEF CommandIInv, CommandTyped
<1>5. SocketsAccounted' /\ Executing' /\ CountsOne' /\ SentAfresh' /\ ListedAll'
  BY <1>1 DEF CommandIInv, SocketsAccounted, Executing, CountsOne, SentAfresh, ListedAll
<1>6. DoneOrRefused'
  <2>1. \A k \in DOMAIN answers' : k + 1 \in DOMAIN answers /\ answers'[k] = answers[k + 1]
    BY <1>2
  <2> QED
    BY <1>1, <1>3, <2>1 DEF CommandIInv, DoneOrRefused, IsDone
<1>7. ASSUME kind \in Listings
      PROVE  /\ DOMAIN list' = DOMAIN list \cup {PartIndex(w)}
             /\ \A i \in DOMAIN list' : <<i, list'[i]>> \in was.seen
  <2>1. list' = Over(Entry(PartIndex(w), PartName(w)), list)
    BY <1>1, <1>7, ListingIs DEF PartIndex, PartName
  <2>2. DOMAIN list' = DOMAIN list \cup {PartIndex(w)}
    BY <2>1 DEF Over, Entry
  <2>3. \A i \in DOMAIN list' : list'[i] = IF i = PartIndex(w) THEN PartName(w) ELSE list[i]
    BY <2>1 DEF Over, Entry
  <2>4. <<PartIndex(w), PartName(w)>> \in was.seen
    BY <1>1, <1>2, <1>7 DEF CommandIInv, AnsweredInOrder
  <2>5. \A i \in DOMAIN list : <<i, list[i]>> \in was.seen
    BY <1>1, <1>7 DEF CommandIInv, WatchedAll
  <2> QED
    BY <2>2, <2>3, <2>4, <2>5
<1>8. WatchedAll'
  BY <1>1, <1>3, <1>7 DEF CommandIInv, WatchedAll, Present
<1>9. AnsweredInOrder'
  <2> SUFFICES ASSUME kind \in Listings, NEW k \in DOMAIN answers'
               PROVE  /\ answers'[k].type \in {"error", "part", "done"}
                      /\ answers'[k].type = "part" =>
                           <<PartIndex(answers'[k].w), PartName(answers'[k].w)>> \in was.seen
                      /\ answers'[k].type = "done" => next = 0 /\ k = Len(answers')
                      /\ answers'[k].type = "error" => next = 0 /\ Len(answers') = 1
    BY <1>1, <1>3 DEF AnsweredInOrder, PartIndex, PartName
  <2>1. k + 1 \in DOMAIN answers /\ answers'[k] = answers[k + 1] /\ Len(answers) # 1 /\ k \in Nat
    BY <1>2
  <2>2. /\ answers[k + 1].type \in {"error", "part", "done"}
        /\ answers[k + 1].type = "part" =>
             <<PartIndex(answers[k + 1].w), PartName(answers[k + 1].w)>> \in was.seen
        /\ answers[k + 1].type = "done" => next = 0 /\ k + 1 = Len(answers)
        /\ answers[k + 1].type = "error" => next = 0 /\ Len(answers) = 1
    BY <1>1, <2>1 DEF CommandIInv, AnsweredInOrder
  <2> QED
    BY <1>2, <2>1, <2>2
<1>10. ListedSoFar'
  <2> SUFFICES ASSUME kind \in Listings, NEW i \in was.stayed, next = 0 \/ i < next,
                      ~ \E k \in DOMAIN answers' : answers'[k].type = "error"
               PROVE  \/ i \in DOMAIN list'
                      \/ \E k \in DOMAIN answers' : answers'[k].type = "part" /\ PartIndex(answers'[k].w) = i
    BY <1>1, <1>3 DEF ListedSoFar, PartIndex
  <2>1. \A k \in DOMAIN answers : k # 1 => k - 1 \in DOMAIN answers' /\ answers'[k - 1] = answers[k]
    BY <1>2
  <2>2. ~ \E k \in DOMAIN answers : answers[k].type = "error"
    BY <1>1, <1>2, <2>1
  <2>3. \/ i \in DOMAIN list
        \/ \E k \in DOMAIN answers : answers[k].type = "part" /\ PartIndex(answers[k].w) = i
    BY <1>1, <2>2 DEF CommandIInv, ListedSoFar
  <2>4. CASE i \in DOMAIN list
    BY <1>7, <2>4
  <2>5. ASSUME NEW k \in DOMAIN answers, answers[k].type = "part", PartIndex(answers[k].w) = i
        PROVE  \/ i \in DOMAIN list'
               \/ \E m \in DOMAIN answers' : answers'[m].type = "part" /\ PartIndex(answers'[m].w) = i
    <3>1. CASE k = 1
      BY <1>2, <1>7, <2>5, <3>1
    <3>2. CASE k # 1
      BY <2>1, <2>5, <3>2
    <3> QED
      BY <3>1, <3>2
  <2> QED
    BY <2>3, <2>4, <2>5
<1> QED
  BY <1>4, <1>5, <1>6, <1>8, <1>9, <1>10 DEF CommandIInv

-----------------------------------------------------------------------------
LEMMA CommandNextIInv == CommandIInv /\ [CommandNext]_cmdvars => CommandIInv'
<1> SUFFICES ASSUME CommandIInv, [CommandNext]_cmdvars PROVE CommandIInv'
  OBVIOUS
<1>1. ASSUME NEW k \in Kinds, NEW v \in Vals, NEW i, New(k, i, v, {}) \/ New(k, i, v, Others(Commands[k]))
      PROVE  CommandIInv'
  BY <1>1, NewIInv
<1>2. CASE Exec
  BY <1>2, UnguardedIInv, OpenedIInv, SendMsgIInv, RecvIInv, RecvPartIInv, RecvFailsIInv, FinishIInv, RouteIInv
     DEF Exec
<1>3. CASE Kernel
  BY <1>3, KernelRefusesIInv, KernelDoesIInv, KernelBeginsListIInv, KernelListsIInv DEF Kernel
<1> QED
  BY <1>1, <1>2, <1>3, DeleteIInv, OutsideIInv, StutterIInv DEF CommandNext

THEOREM CommandInvariance == CommandSpec => []CommandIInv
  BY CommandInitIInv, CommandNextIInv, PTL DEF CommandSpec

\* Every socket that the executions of an object open is closed, but for one of
\* each execution that returned false with its socket open.
THEOREM SocketsCounted == CommandSpec => []SocketsAccounted
<1>1. CommandIInv => SocketsAccounted
  BY DEF CommandIInv
<1> QED
  BY <1>1, CommandInvariance, PTL

\* An execution returns from its wait for the end, and with what the callback
\* that ended it made of the status.
LEMMA ReturnedTrue ==
  ASSUME CommandIInv, [CommandNext]_cmdvars, NEW K, Returned(K)
  PROVE  phase = "wait" /\ count = 1 /\ status /\ kind \in K /\ UNCHANGED <<kind, list>>
<1>1. phase = "wait" /\ phase' = "idle" /\ ret' = TRUE /\ kind \in K
  BY DEF Returned
<1>2. Finish
  BY <1>1 DEF CommandIInv, Executing, CommandNext, New, Delete, Exec, Kernel, Outside, Unguarded, Opened, Enter,
     SendMsg, Recv, RecvPart, RecvFails, RouteUnconnected, RouteFails, RouteDoes, RouteLists, KernelRefuses,
     KernelDoes, KernelBeginsList, KernelLists, cmdvars, exec
<1>3. count > 0 /\ status
  BY <1>1, <1>2 DEF Finish, ReturnOpen, ReturnWith
<1>4. count = 1
  BY <1>3 DEF CommandIInv, CommandTyped, CountsOne
<1> QED
  BY <1>1, <1>2, <1>3, <1>4 DEF Finish, object

\* A list that returns true has every interface, or phy, that was there all the
\* time, and none but with a name that it had meanwhile.
THEOREM Seen == CommandSpec => ListIsSeen
<1>1. ASSUME CommandIInv, [CommandNext]_cmdvars, Returned({"ListInterfaces", "ListPhys"})
      PROVE  was.stayed \subseteq DOMAIN list /\ \A i \in DOMAIN list : <<i, list[i]>> \in was.seen
  <2>1. phase = "wait" /\ count = 1 /\ status /\ kind \in Listings
    BY <1>1, ReturnedTrue DEF Listings
  <2> QED
    BY <1>1, <2>1 DEF CommandIInv, ListedAll, WatchedAll
<1> QED
  BY <1>1, CommandInvariance, PTL DEF CommandSpec, ListIsSeen

-----------------------------------------------------------------------------
\* The message of a command has the attributes that go into it as they are, but
\* for the centre frequencies.
LEMMA OnlySetPhy ==
  ASSUME kind \in DOMAIN Nl80211Commands
  PROVE  kind # "SetPhy" => command.cmd # "SET_WIPHY"
<1>1. command = Nl80211Commands[kind]
  BY IsNl80211
<1>2. /\ Nl80211Commands["GetInterface"].cmd = "GET_INTERFACE" /\ Nl80211Commands["GetPhy"].cmd = "GET_WIPHY"
      /\ Nl80211Commands["GetStation"].cmd = "GET_STATION"
  BY DEF Nl80211Commands, GetInterfaceCommand, GetPhyCommand, GetStationCommand, Execs
<1>3. /\ Nl80211Commands["ListInterfaces"].cmd = "GET_INTERFACE" /\ Nl80211Commands["ListPhys"].cmd = "GET_WIPHY"
      /\ Nl80211Commands["ListStations"].cmd = "GET_STATION"
  BY DEF Nl80211Commands, ListInterfacesCommand, ListPhysCommand, ListStationsCommand, Listing, Execs
<1>4. /\ Nl80211Commands["NewInterface"].cmd = "NEW_INTERFACE" /\ Nl80211Commands["DelInterface"].cmd = "DEL_INTERFACE"
      /\ Nl80211Commands["NewStation"].cmd = "NEW_STATION" /\ Nl80211Commands["DelStation"].cmd = "DEL_STATION"
  BY DEF Nl80211Commands, NewInterfaceCommand, DelInterfaceCommand, NewStationCommand, DelStationCommand, Execs
<1>5. /\ Nl80211Commands["SetStation"].cmd = "SET_STATION" /\ Nl80211Commands["SetInterface"].cmd = "SET_INTERFACE"
      /\ Nl80211Commands["StartAp"].cmd = "START_AP" /\ Nl80211Commands["StopAp"].cmd = "STOP_AP"
      /\ Nl80211Commands["SetBeacon"].cmd = "SET_BEACON" /\ Nl80211Commands["Frame"].cmd = "FRAME"
  BY DEF Nl80211Commands, SetStationCommand, SetInterfaceCommand, StartApCommand, StopApCommand, SetBeaconCommand,
     FrameCommand, Execs
<1>6. kind \in {"GetInterface", "GetPhy", "GetStation", "ListInterfaces", "ListPhys", "ListStations", "NewInterface",
                "DelInterface", "NewStation", "DelStation", "SetStation", "SetInterface", "SetPhy", "StartAp",
                "StopAp", "SetBeacon", "Frame"}
  BY DEF Nl80211Commands
<1> QED
  BY <1>1, <1>2, <1>3, <1>4, <1>5, <1>6

\* Among what SetPhy sends only the centre frequencies have the first's identifier.
LEMMA SetPhyApart ==
  ASSUME kind = "SetPhy", NEW a \in command.puts \ {CenterFrequency1Attribute, CenterFrequency2Attribute}
  PROVE  a.id # CenterFrequency1Attribute.id
<1>1. command = SetPhyCommand
  BY IsNl80211 DEF Nl80211Commands
<1>2. command.puts = SetPhyMembers \ {IfNameAttribute}
  BY <1>1 DEF SetPhyCommand, Execs
<1>3. a \in {IfIndexAttribute, FrequencyAttribute, ChannelWidthAttribute, TxPowerModeAttribute, TxPowerLevelAttribute,
             PhyIndexAttribute, PhyNameAttribute}
  BY <1>2 DEF SetPhyMembers, If, Tuned
<1> QED
  BY <1>3 DEF CenterFrequency1Attribute, IfIndexAttribute, FrequencyAttribute, ChannelWidthAttribute,
     TxPowerModeAttribute, TxPowerLevelAttribute, PhyIndexAttribute, PhyNameAttribute, Number, Text, AttributeClass

LEMMA PutIs ==
  ASSUME NEW t, NEW A, NEW a \in A, IsValid(t, a)
  PROVE  IsValid(PutAll(t, A), a) /\ PutAll(t, A)[a.id] = t[a.id]
BY DEF PutAll, IsValid

LEMMA SentAsSet ==
  ASSUME kind \in DOMAIN Nl80211Commands
  PROVE  AsSet(Message(command, was.attrs), command.puts \ UncertainCenters)
<1> DEFINE t == was.attrs
           w == Message(command, t)
<1> SUFFICES ASSUME NEW a \in command.puts \ UncertainCenters, IsValid(t, a)
             PROVE  IsValid(w, a) /\ w[a.id] = t[a.id]
  BY DEF AsSet
<1>1. CASE kind = "SetPhy" /\ command.cmd = "SET_WIPHY" /\ IsValid(t, CenterFrequency2Attribute)
  <2>1. a \in command.puts \ {CenterFrequency1Attribute, CenterFrequency2Attribute}
    BY <1>1 DEF UncertainCenters
  <2>2. a.id # CenterFrequency1Attribute.id
    BY <1>1, <2>1, SetPhyApart
  <2> DEFINE p == PutAll(t, command.puts \ {CenterFrequency2Attribute})
             c == Entry(CenterFrequency1Attribute.id, t[CenterFrequency2Attribute.id])
  <2>3. IsValid(p, a) /\ p[a.id] = t[a.id]
    BY <2>1, PutIs
  <2>4. w = Over(c, p)
    BY <1>1 DEF Message
  <2>5. DOMAIN c = {CenterFrequency1Attribute.id}
    BY DEF Entry
  <2> HIDE DEF p, c, w
  <2> QED
    BY <2>2, <2>3, <2>4, <2>5 DEF Over, IsValid
<1>2. CASE w = PutAll(t, Puts(command, t)) /\ a \in Puts(command, t)
  BY <1>2, PutIs
<1>3. CASE kind = "SetPhy" /\ ~(command.cmd = "SET_WIPHY" /\ IsValid(t, CenterFrequency2Attribute))
  <2>1. command.cmd = "SET_WIPHY"
    BY <1>3, IsNl80211 DEF Nl80211Commands, SetPhyCommand, Execs
  <2>2. w = PutAll(t, Puts(command, t))
    BY <1>3 DEF Message
  <2>3. Puts(command, t) = command.puts
    BY <2>1 DEF Puts
  <2> QED
    BY <1>2, <2>2, <2>3
<1>4. CASE kind # "SetPhy"
  <2>1. command.cmd # "SET_WIPHY"
    BY <1>4, OnlySetPhy
  <2>2. w = PutAll(t, Puts(command, t))
    BY <2>1 DEF Message
  <2>3. a \in Puts(command, t)
    BY <1>4 DEF UncertainCenters
  <2> QED
    BY <1>2, <2>2, <2>3
<1> QED
  BY <1>1, <1>3, <1>4, IsNl80211 DEF Nl80211Commands, SetPhyCommand, Execs

\* A command other than a list that returns true was done by the kernel, in this
\* execution and as the client set its attributes.
THEOREM TrueIsDone == CommandSpec => TrueMeansDone
<1> DEFINE K == {k \in DOMAIN Nl80211Commands : ~Commands[k].dump}
<1>1. ASSUME CommandIInv, [CommandNext]_cmdvars, Returned(K)
      PROVE  \E w \in was.done : AsSet(w, command.puts \ UncertainCenters)
  <2>1. phase = "wait" /\ count = 1 /\ status /\ kind \in K
    BY <1>1, ReturnedTrue
  <2>2. kind \in DOMAIN Nl80211Commands /\ ~command.dump
    BY <2>1 DEF command
  <2>3. was.done = {Message(command, was.attrs)}
    BY <1>1, <2>1, <2>2 DEF CommandIInv, DoneOrRefused, IsDone
  <2> QED
    BY <2>2, <2>3, SentAsSet
<1> QED
  BY <1>1, CommandInvariance, PTL DEF CommandSpec, TrueMeansDone

-----------------------------------------------------------------------------
(* What the client reads of an answer.                                     *)

\* What the answers to a command of nl80211 have, told apart by the identifiers.
Answerable ==
  {PhyIndexAttribute, PhyDevAttribute, PhyNameAttribute, PhyBandsAttribute, IfIndexAttribute, IfNameAttribute,
   IfTypeAttribute, MacAttribute, SsidAttribute, FrameAttribute, CookieAttribute} \cup Tuned

LEMMA AnswerableApart == \A a, b \in Answerable : a.id = b.id => a = b
<1>1. /\ PhyIndexAttribute.id = "WIPHY" /\ PhyDevAttribute.id = "WDEV" /\ PhyNameAttribute.id = "WIPHY_NAME"
      /\ PhyBandsAttribute.id = "WIPHY_BANDS" /\ IfIndexAttribute.id = "IFINDEX" /\ IfNameAttribute.id = "IFNAME"
      /\ IfTypeAttribute.id = "IFTYPE" /\ MacAttribute.id = "MAC" /\ SsidAttribute.id = "SSID"
      /\ FrameAttribute.id = "FRAME" /\ CookieAttribute.id = "COOKIE"
  BY DEF PhyIndexAttribute, PhyDevAttribute, PhyNameAttribute, PhyBandsAttribute, IfIndexAttribute, IfNameAttribute,
     IfTypeAttribute, MacAttribute, SsidAttribute, FrameAttribute, CookieAttribute, Number, Text, Octets, NestedClass,
     AttributeClass
<1>2. /\ FrequencyAttribute.id = "WIPHY_FREQ" /\ ChannelWidthAttribute.id = "CHANNEL_WIDTH"
      /\ CenterFrequency1Attribute.id = "CENTER_FREQ1" /\ CenterFrequency2Attribute.id = "CENTER_FREQ2"
      /\ TxPowerModeAttribute.id = "WIPHY_TX_POWER_SETTING" /\ TxPowerLevelAttribute.id = "WIPHY_TX_POWER_LEVEL"
  BY DEF FrequencyAttribute, ChannelWidthAttribute, CenterFrequency1Attribute, CenterFrequency2Attribute,
     TxPowerModeAttribute, TxPowerLevelAttribute, Number, AttributeClass
<1> QED
  BY <1>1, <1>2 DEF Answerable, Tuned

LEMMA AnswerableIs ==
  ASSUME NEW a \in Answerable
  PROVE  /\ a.kind \in {"number", "text", "octets", "nested"}
         /\ a.kind = "nested" <=> a = PhyBandsAttribute
<1>1. /\ PhyIndexAttribute.kind = "number" /\ PhyDevAttribute.kind = "number" /\ PhyNameAttribute.kind = "text"
      /\ PhyBandsAttribute.kind = "nested" /\ IfIndexAttribute.kind = "number" /\ IfNameAttribute.kind = "text"
      /\ IfTypeAttribute.kind = "number" /\ MacAttribute.kind = "octets" /\ SsidAttribute.kind = "octets"
      /\ FrameAttribute.kind = "octets" /\ CookieAttribute.kind = "number"
  BY DEF PhyIndexAttribute, PhyDevAttribute, PhyNameAttribute, PhyBandsAttribute, IfIndexAttribute, IfNameAttribute,
     IfTypeAttribute, MacAttribute, SsidAttribute, FrameAttribute, CookieAttribute, Number, Text, Octets, NestedClass,
     AttributeClass
<1>2. \A b \in Tuned : b.kind = "number"
  BY DEF Tuned, FrequencyAttribute, ChannelWidthAttribute, CenterFrequency1Attribute, CenterFrequency2Attribute,
     TxPowerModeAttribute, TxPowerLevelAttribute, Number, AttributeClass
<1> QED
  BY <1>1, <1>2 DEF Answerable

\* A command takes its attributes from an answer one after the other.
LEMMA TakesAnswerable ==
  ASSUME kind \in DOMAIN Nl80211Commands
  PROVE  /\ Required \cup command.may \subseteq Answerable
         /\ \A n \in DOMAIN command.reads : n \in Nat /\ 1..n \subseteq DOMAIN command.reads
<1> DEFINE Fits(c) == /\ \E S : c.reads \in Seq(S) /\ S \subseteq Answerable
                      /\ c.may \subseteq Answerable
<1>1. \A c : c.reads = << >> /\ c.may = {} => Fits(c)
  <2>1. << >> \in Seq({})
    OBVIOUS
  <2> QED
    BY <2>1
<1>2. \A c, x, y : c.reads = <<x, y>> /\ c.may = {} /\ x \in Answerable /\ y \in Answerable => Fits(c)
  <2>1. \A x, y : <<x, y>> \in Seq({x, y})
    OBVIOUS
  <2> QED
    BY <2>1
<1>3. Fits(GetInterfaceCommand)
  <2>1. /\ GetInterfaceCommand.reads = <<PhyIndexAttribute, PhyDevAttribute, IfIndexAttribute, IfNameAttribute,
                                         IfTypeAttribute, MacAttribute>>
        /\ GetInterfaceCommand.may = {SsidAttribute} \cup Tuned
    BY DEF GetInterfaceCommand, GetInterfaceTakes, Takes, Execs
  <2>2. GetInterfaceCommand.reads \in Seq(Answerable)
    BY <2>1 DEF Answerable
  <2> QED
    BY <2>1, <2>2 DEF Answerable
<1>4. Fits(GetPhyCommand)
  <2>1. GetPhyCommand.reads = <<PhyIndexAttribute, PhyNameAttribute, PhyBandsAttribute>> /\ GetPhyCommand.may = {}
    BY DEF GetPhyCommand, GetPhyTakes, Takes, Execs
  <2>2. GetPhyCommand.reads \in Seq(Answerable)
    BY <2>1 DEF Answerable
  <2> QED
    BY <2>1, <2>2
<1>5. Fits(NewInterfaceCommand)
  <2>1. NewInterfaceCommand.reads = <<PhyIndexAttribute, IfIndexAttribute, IfNameAttribute, IfTypeAttribute>>
        /\ NewInterfaceCommand.may = {}
    BY DEF NewInterfaceCommand, NewInterfaceTakes, Takes, Execs
  <2>2. NewInterfaceCommand.reads \in Seq(Answerable)
    BY <2>1 DEF Answerable
  <2> QED
    BY <2>1, <2>2
<1>6. Fits(FrameCommand)
  <2>1. FrameCommand.reads = << >> /\ FrameCommand.may = FrameMembers
    BY DEF FrameCommand, FrameTakes, Takes, Execs
  <2>2. << >> \in Seq({})
    OBVIOUS
  <2>3. FrameMembers \subseteq Answerable
    BY DEF FrameMembers, If, Answerable, Tuned
  <2> HIDE DEF Answerable
  <2> QED
    BY <2>1, <2>2, <2>3
<1>7. /\ \A c \in {GetStationCommand, NewStationCommand, SetStationCommand, ListInterfacesCommand} :
           c.reads = <<IfIndexAttribute, IfNameAttribute>> /\ c.may = {}
      /\ ListPhysCommand.reads = <<PhyIndexAttribute, PhyNameAttribute>> /\ ListPhysCommand.may = {}
  BY DEF GetStationCommand, GetStationTakes, NewStationCommand, NewStationTakes, SetStationCommand, SetStationTakes,
     ListInterfacesCommand, ListInterfacesTakes, ListPhysCommand, ListPhysTakes, Identified, Takes, Execs, Listing
<1>8. \A c \in {ListStationsCommand, DelInterfaceCommand, DelStationCommand, SetInterfaceCommand, SetPhyCommand,
                StartApCommand, StopApCommand, SetBeaconCommand} : c.reads = << >> /\ c.may = {}
  <2>1. Acked.reads = << >> /\ Acked.may = {}
    BY DEF Acked, Takes
  <2>2. \A cmd, M, P : Execs(cmd, M, P, Acked).reads = << >> /\ Execs(cmd, M, P, Acked).may = {}
    BY <2>1 DEF Execs
  <2>3. \A cmd, M, P : LET c == Execs(cmd, M, P, Acked) IN
          /\ [c EXCEPT !.resets = FALSE].reads = << >> /\ [c EXCEPT !.resets = FALSE].may = {}
          /\ [c EXCEPT !.guard = {}].reads = << >> /\ [c EXCEPT !.guard = {}].may = {}
    BY <2>1 DEF Execs
  <2>4. ListStationsCommand.reads = << >> /\ ListStationsCommand.may = {}
    BY DEF ListStationsCommand, ListStationsTakes, Listing, Execs, Takes
  <2>5. \A c \in {DelInterfaceCommand, SetPhyCommand, StartApCommand} : c.reads = << >> /\ c.may = {}
    BY <2>2 DEF DelInterfaceCommand, DelInterfaceTakes, SetPhyCommand, SetPhyTakes, StartApCommand, StartApTakes
  <2>6. \A c \in {DelStationCommand, SetBeaconCommand, SetInterfaceCommand, StopApCommand} :
          c.reads = << >> /\ c.may = {}
    BY <2>3 DEF DelStationCommand, DelStationTakes, SetBeaconCommand, SetBeaconTakes, SetInterfaceCommand,
       SetInterfaceTakes, StopApCommand, StopApTakes
  <2> QED
    BY <2>4, <2>5, <2>6
<1>9. {IfIndexAttribute, IfNameAttribute, PhyIndexAttribute, PhyNameAttribute} \subseteq Answerable
  BY DEF Answerable
<1> HIDE DEF Fits
<1>10. \A c \in {GetStationCommand, NewStationCommand, SetStationCommand, ListInterfacesCommand, ListPhysCommand} : Fits(c)
  BY <1>2, <1>7, <1>9
<1>11. \A c \in {ListStationsCommand, DelInterfaceCommand, DelStationCommand, SetInterfaceCommand, SetPhyCommand,
                 StartApCommand, StopApCommand, SetBeaconCommand} : Fits(c)
  BY <1>1, <1>8
<1>12. command \in {GetInterfaceCommand, GetPhyCommand, GetStationCommand, ListInterfacesCommand, ListPhysCommand,
                    ListStationsCommand, NewInterfaceCommand, DelInterfaceCommand, NewStationCommand, DelStationCommand,
                    SetStationCommand, SetInterfaceCommand, SetPhyCommand, StartApCommand, StopApCommand,
                    SetBeaconCommand, FrameCommand}
  BY IsNl80211 DEF Nl80211Commands
<1>13. Fits(command)
  BY <1>3, <1>4, <1>5, <1>6, <1>10, <1>11, <1>12
<1>14. PICK S : command.reads \in Seq(S) /\ S \subseteq Answerable
  BY <1>13 DEF Fits
<1>15. /\ \A n \in DOMAIN command.reads : command.reads[n] \in S
       /\ DOMAIN command.reads = 1..Len(command.reads) /\ Len(command.reads) \in Nat
  BY <1>14
<1> QED
  BY <1>13, <1>14, <1>15 DEF Fits, Required

\* What the kernel reports of an attribute is as its class reads it.
LEMMA ReportsWell ==
  ASSUME kind \in DOMAIN Nl80211Commands, NEW l, NEW i, NEW r \in Reports(l, i),
         NEW a \in Required \cup command.may, IsValid(r, a)
  PROVE  AsReported(a, r[a.id])
<1>1. PICK A : A \subseteq Required \cup command.may /\ r = Report(l, A, i)
  BY DEF Reports
<1>2. \A x \in A : x.id = a.id => x = a
  BY <1>1, TakesAnswerable, AnswerableApart
<1>3. r = [id \in {x.id : x \in A} |-> Reported(l, CHOOSE x \in A : x.id = id, i)]
  BY <1>1 DEF Report
<1>4. a \in A
  BY <1>2, <1>3 DEF IsValid
<1>5. (CHOOSE x \in A : x.id = a.id) = a
  BY <1>2, <1>4
<1>6. r[a.id] = Reported(l, a, i)
  BY <1>3, <1>4, <1>5
<1>7. /\ PhyBandsAttribute.kind = "nested" /\ LinkOper.kind = "number" /\ LinkCarrier.kind = "number"
      /\ \A x \in {IfIndexAttribute, PhyIndexAttribute, LinkIndex} : x.kind = "number" /\ x.width = 4
      /\ LinkOper.width = 1 /\ LinkCarrier.width = 1
  BY DEF PhyBandsAttribute, LinkOper, LinkCarrier, IfIndexAttribute, PhyIndexAttribute, LinkIndex, Number, NestedClass,
     AttributeClass
<1>8. \A n, v : Data(n, v).len = n /\ Data(n, v).val = v
  BY DEF Data
<1>9. CASE a \in {IfIndexAttribute, PhyIndexAttribute, LinkIndex}
  BY <1>6, <1>7, <1>8, <1>9 DEF Reported, AsReported
<1>10. CASE a = PhyBandsAttribute
  BY <1>6, <1>7, <1>8, <1>10 DEF Reported, AsReported
<1>11. CASE a \in {LinkOper, LinkCarrier}
  <2>1. a # PhyBandsAttribute /\ a \notin {IfIndexAttribute, PhyIndexAttribute, LinkIndex} /\ a.width = 1
    BY <1>7, <1>11
  <2>2. \E v : Reported(l, a, i) = Data(1, v)
    BY <1>11, <2>1 DEF Reported
  <2> QED
    BY <1>6, <1>8, <2>1, <2>2 DEF AsReported
<1>12. CASE a \notin {IfIndexAttribute, PhyIndexAttribute, LinkIndex, PhyBandsAttribute, LinkOper, LinkCarrier}
  BY <1>6, <1>8, <1>12 DEF Reported, AsReported, KernelWidth
<1> QED
  BY <1>9, <1>10, <1>11, <1>12

\* An answer that has all that the command needs is read as it is.
LEMMA ReadIs ==
  ASSUME kind \in DOMAIN Nl80211Commands, NEW t, NEW w, Complete(command, w),
         NEW a \in Required \cup command.may, IsValid(w, a)
  PROVE  IsValid(Read(command, t, w), a) /\ Read(command, t, w)[a.id] = Decoded(t, w, a)
<1> DEFINE Z == Taken(command, w)
<1>1. a \in Z
  <2>1. \A n \in DOMAIN command.reads : \A k \in 1..n : IsValid(w, command.reads[k])
    BY TakesAnswerable DEF Complete
  <2> QED
    BY <2>1 DEF Taken, Required
<1>2. Z \subseteq Required \cup command.may
  BY DEF Taken, Required
<1>3. \A x \in Z : x.id = a.id => x = a
  BY <1>2, TakesAnswerable, AnswerableApart
<1>4. (CHOOSE x \in Z : x.id = a.id) = a
  BY <1>1, <1>3
<1> DEFINE f == [id \in {x.id : x \in Z} |-> Decoded(t, w, CHOOSE x \in Z : x.id = id)]
<1>5. Read(command, t, w) = Over(f, t)
  BY DEF Read
<1>6. a.id \in DOMAIN f /\ f[a.id] = Decoded(t, w, a)
  BY <1>1, <1>4
<1> HIDE DEF f, Z
<1> QED
  BY <1>5, <1>6 DEF Over, IsValid

\* An array is read from 0 up to its end, or to as many as are read.
LEMMA ListedIs ==
  ASSUME NEW w, IsArray(w)
  PROVE  LET L == {n \in DOMAIN w : n < MaxMembers} IN
         Listed(w) \in Nat /\ Cardinality(L) = Listed(w) /\ L = 0..(Listed(w) - 1)
<1> DEFINE c == Cardinality(DOMAIN w)
           m == IF c < 16 THEN c ELSE 16
           L == {n \in DOMAIN w : n < MaxMembers}
<1>1. c \in Nat /\ DOMAIN w = 0..(c - 1)
  BY FS_CardinalityType DEF IsArray
<1> HIDE DEF c
<1>2. L = 0..(m - 1) /\ m \in Nat
  BY <1>1 DEF MaxMembers
<1>3. Cardinality(L) = m
  <2>1. \A k \in Nat : Cardinality(0..(k - 1)) = k
    <3> TAKE k \in Nat
    <3>1. Cardinality(0..(k - 1)) = IF 0 > k - 1 THEN 0 ELSE (k - 1) - 0 + 1
      BY FS_Interval
    <3> QED
      BY <3>1
  <2> HIDE DEF L, m
  <2> QED
    BY <1>2, <2>1
<1>4. m \in Consecutive(w) /\ \A k \in Consecutive(w) : k <= m
  <2>1. m \in 0..16 /\ \A k \in 0..(m - 1) : k \in DOMAIN w
    BY <1>1
  <2>2. ASSUME NEW k \in Consecutive(w), ~(k <= m) PROVE FALSE
    <3>1. k \in 0..16 /\ \A j \in 0..(k - 1) : j \in DOMAIN w
      BY <2>2 DEF Consecutive, MaxMembers
    <3>2. c < k
      BY <1>1, <2>2, <3>1
    <3>3. c \in DOMAIN w
      BY <1>1, <3>1, <3>2
    <3> QED
      BY <1>1, <3>3
  <2> QED
    BY <2>1, <2>2 DEF Consecutive, MaxMembers
<1>5. \A k \in Consecutive(w) : k \in Int
  BY DEF Consecutive, MaxMembers
<1>6. Listed(w) = m
  <2>1. \A n \in Consecutive(w) : (\A k \in Consecutive(w) : k <= n) => n = m
    BY <1>2, <1>4, <1>5
  <2> HIDE DEF m
  <2> QED
    BY <1>4, <2>1 DEF Listed
<1> QED
  BY <1>2, <1>3, <1>6

LEMMA BandIsRead ==
  ASSUME NEW old, NEW b \in Bands \cap DOMAIN PhyReport
  PROVE  BandRead(PhyBandAttribute(old, PhyReport[b].val), PhyReport[b].val)
<1> DEFINE w == PhyReport[b].val
           freqs == w[FreqsClass.id].val
           rates == w[RatesClass.id].val
           band == PhyBandAttribute(old, w)
           F == {n \in DOMAIN freqs : n < MaxMembers}
           R == {n \in DOMAIN rates : n < MaxMembers}
<1>1. /\ IsValid(w, FreqsClass) /\ IsArray(freqs) /\ \A n \in DOMAIN freqs : HasNumber(freqs[n].val, FreqClass)
      /\ IsValid(w, RatesClass) /\ IsArray(rates)
      /\ \A n \in DOMAIN rates : /\ HasNumber(rates[n].val, RateClass)
                                 /\ rates[n].val[RateClass.id].val \in Nat /\ rates[n].val[RateClass.id].val % 5 = 0
  BY PhyAssumption
<1>2. Value(w, FreqsClass) = freqs /\ Value(w, RatesClass) = rates
  BY <1>1 DEF Value, FreqsClass, RatesClass, NestedClass, AttributeClass
<1>3. band.freqs = FreqsAttribute(freqs) /\ band.rates = RatesAttribute(rates)
  BY <1>1, <1>2 DEF PhyBandAttribute
<1>4. /\ Listed(freqs) \in Nat /\ Cardinality(F) = Listed(freqs) /\ F = 0..(Listed(freqs) - 1)
      /\ Listed(rates) \in Nat /\ Cardinality(R) = Listed(rates) /\ R = 0..(Listed(rates) - 1)
  BY <1>1, ListedIs
<1>5. /\ \A x : HasNumber(x, FreqClass) => Value(x, FreqClass) = x[FreqClass.id].val
      /\ \A x : HasNumber(x, RateClass) => Value(x, RateClass) = x[RateClass.id].val
      /\ \A x : Value(x, DisabledClass) = (DisabledClass.id \in DOMAIN x)
  BY DEF HasNumber, Value, IsValid, FreqClass, RateClass, DisabledClass, Number, Flag, AttributeClass
<1>a. /\ \A n \in F : n \in DOMAIN freqs
      /\ \A n \in R : n \in DOMAIN rates
  OBVIOUS
<1> HIDE DEF w, freqs, rates, band, F, R
<1>6. /\ band.freqs = [n \in 1..Listed(freqs) |-> FreqAttribute(freqs[n - 1].val)]
      /\ band.rates = [n \in 1..Listed(rates) |-> RateAttribute(rates[n - 1].val)]
  BY <1>3 DEF FreqsAttribute, RatesAttribute
<1>7. Len(band.freqs) = Cardinality(F) /\ Len(band.rates) = Cardinality(R)
  <2>1. ASSUME NEW S, NEW n \in Nat, NEW f \in [1..n -> S] PROVE Len(f) = n
    <3>1. f \in Seq(S)
      BY SeqDef
    <3>2. Len(f) \in Nat /\ 1..Len(f) = 1..n
      BY <3>1, LenProperties
    <3>3. \A i, k \in Nat : i < k => k \in 1..k /\ k \notin 1..i
      OBVIOUS
    <3> QED
      BY <3>2, <3>3
  <2>2. \A x : x \in [1..Listed(freqs) -> {x[k] : k \in 1..Listed(freqs)}]
               => Len(x) = Listed(freqs)
    BY <1>4, <2>1
  <2>3. \A x : x \in [1..Listed(rates) -> {x[k] : k \in 1..Listed(rates)}]
               => Len(x) = Listed(rates)
    BY <1>4, <2>1
  <2>4. /\ band.freqs \in [1..Listed(freqs) -> {band.freqs[k] : k \in 1..Listed(freqs)}]
        /\ band.rates \in [1..Listed(rates) -> {band.rates[k] : k \in 1..Listed(rates)}]
    BY <1>6
  <2> QED
    BY <1>4, <2>2, <2>3, <2>4
<1>8. ASSUME NEW n \in F
      PROVE  /\ band.freqs[n + 1].freq = freqs[n].val[FreqClass.id].val
             /\ band.freqs[n + 1].disabled = (DisabledClass.id \in DOMAIN freqs[n].val)
  <2>1. n + 1 \in 1..Listed(freqs) /\ (n + 1) - 1 = n /\ n \in DOMAIN freqs
    BY <1>4, <1>a
  <2>2. band.freqs[n + 1] = FreqAttribute(freqs[n].val)
    BY <1>6, <2>1
  <2> QED
    BY <1>1, <1>5, <2>1, <2>2 DEF FreqAttribute
<1>9. ASSUME NEW n \in R
      PROVE  5 * band.rates[n + 1] = rates[n].val[RateClass.id].val
  <2>1. n + 1 \in 1..Listed(rates) /\ (n + 1) - 1 = n /\ n \in DOMAIN rates
    BY <1>4, <1>a
  <2>2. band.rates[n + 1] = RateAttribute(rates[n].val)
    BY <1>6, <2>1
  <2>3. Value(rates[n].val, RateClass) = rates[n].val[RateClass.id].val
    BY <1>1, <1>5, <2>1
  <2>4. ASSUME NEW v \in Nat, v % 5 = 0 PROVE 5 * ((v * 100) \div 500) = v
    <3>1. v = 5 * (v \div 5) /\ v \div 5 \in Nat
      BY <2>4
    <3>2. \A m \in Nat : ((5 * m) * 100) \div 500 = m
      OBVIOUS
    <3> QED
      BY <3>1, <3>2
  <2> QED
    BY <1>1, <2>1, <2>2, <2>3, <2>4 DEF RateAttribute
<1> QED
  BY <1>7, <1>8, <1>9 DEF BandRead, w, freqs, rates, band, F, R

-----------------------------------------------------------------------------
\* Reading depends on the command, its attributes and what was reported.
LEMMA SameRead ==
  ASSUME UNCHANGED <<kind, attrs>>, was'.reported = was.reported
  PROVE  ReadAsReported' <=> ReadAsReported
BY DEF ReadAsReported, Required, command

LEMMA IdleRead ==
  ASSUME phase' \notin {"send", "sent", "recv", "wait"}
  PROVE  RepliesWell' /\ ReadSoFar'
BY DEF RepliesWell, ReadSoFar

\* Until the kernel answers nothing is reported.
LEMMA OpenedRead ==
  ASSUME ReadIInv, Opened \/ SendMsg
  PROVE  RepliesWell' /\ ReadSoFar'
<1>1. CASE phase' = "idle"
  BY <1>1, IdleRead
<1>2. CASE phase' # "idle"
  <2>1. phase' \in {"send", "sent"} /\ was'.reported = Empty
    <3>1. CASE Opened
      BY <1>2, <3>1 DEF Opened, ReturnOpen, ReturnWith, Began
    <3>2. CASE SendMsg
      BY <1>2, <3>2 DEF SendMsg, ReturnOpen, ReturnWith, ReadIInv, ReadSoFar
    <3> QED
      BY <3>1, <3>2
  <2> QED
    BY <2>1 DEF RepliesWell, ReadSoFar
<1> QED
  BY <1>1, <1>2

\* The first answer of the kernel: an error, an acknowledgement or what it reports.
LEMMA KernelAnswersRead ==
  ASSUME ReadIInv, KernelRefuses \/ KernelDoes \/ KernelBeginsList
  PROVE  RepliesWell' /\ ReadSoFar'
<1>1. phase = "sent" /\ phase' = "recv" /\ UNCHANGED <<kind, attrs>>
  BY DEF KernelRefuses, KernelDoes, KernelBeginsList, object
<1>2. answers = << >> /\ kind \in DOMAIN Nl80211Commands /\ was.reported = Empty /\ CommandTyped
  BY <1>1 DEF ReadIInv, CommandIInv, SentAfresh, Executing, ReadSoFar
<1>3. was'.reported = was.reported
  <2>1. CASE was' = was
    BY <2>1
  <2>2. CASE KernelDoes
    <3>1. \E D : was' = [Watched(link') EXCEPT !.done = D]
      BY <2>2 DEF KernelDoes
    <3>2. Watched(link').reported = was.reported /\ DOMAIN Watched(link') =
            {"attrs", "done", "reported", "left", "seen", "stayed"}
      BY <1>2, WatchedIs
    <3>3. PICK D : was' = [Watched(link') EXCEPT !.done = D]
      BY <3>1
    <3> QED
      BY <3>2, <3>3
  <2> QED
    BY <2>1, <2>2 DEF KernelRefuses, KernelBeginsList
<1>4. command' = command /\ Required' = Required
  BY <1>1 DEF command, Required
<1>5. ReadSoFar'
  BY <1>1, <1>2, <1>3 DEF ReadSoFar
<1>6. ASSUME NEW k \in DOMAIN answers', answers'[k].type = "reply", NEW a \in Required \cup command.may,
             IsValid(answers'[k].w, a)
      PROVE  AsReported(a, answers'[k].w[a.id])
  <2>1. CASE \E x \in {Error, Ack} : answers' = Append(answers, x)
    <3>1. PICK x \in {Error, Ack} : answers' = Append(<< >>, x)
      BY <1>2, <2>1
    <3>2. k = 1 /\ answers'[1] = x
      BY <3>1, <1>6, NoAnswers, Appended
    <3> QED
      BY <3>1, <3>2, <1>6 DEF Error, Ack
  <2>2. CASE \E i : \E r \in Reports(link', i) : answers' = answers \o <<Reply(r), Ack>>
    <3>1. PICK i : \E r \in Reports(link', i) : answers' = << >> \o <<Reply(r), Ack>>
      BY <1>2, <2>2
    <3>2. PICK r \in Reports(link', i) : answers' = << >> \o <<Reply(r), Ack>>
      BY <3>1
    <3>3. k \in 1..2 /\ answers'[1] = Reply(r) /\ answers'[2] = Ack
      <4>1. answers' = <<Reply(r), Ack>>
        BY <3>2
      <4> QED
        BY <4>1, <1>6
    <3>4. answers'[k].w = r
      BY <3>3, <1>6 DEF Reply, Ack
    <3> QED
      BY <3>4, <1>2, <1>6, ReportsWell
  <2>3. CASE answers' = answers
    BY <1>2, <1>6, <2>3, NoAnswers
  <2> QED
    BY <2>1, <2>2, <2>3 DEF KernelRefuses, KernelDoes, KernelBeginsList
<1> QED
  BY <1>4, <1>5, <1>6 DEF RepliesWell

\* What else changes while a command waits, or reads a list: no reply comes.
LEMMA MeanwhileRead ==
  ASSUME ReadIInv, KernelLists \/ RecvPart \/ Outside \/ UNCHANGED cmdvars
  PROVE  RepliesWell' /\ ReadSoFar'
<1>1. UNCHANGED <<kind, attrs, phase, count>>
  BY DEF KernelLists, RecvPart, Outside, cmdvars, object, exec
<1>2. CASE phase = "idle"
  BY <1>1, <1>2, IdleRead
<1>3. CASE phase # "idle"
  <2>1. was'.reported = was.reported
    BY <1>3, WatchedIs DEF KernelLists, RecvPart, Outside, cmdvars, ReadIInv, CommandIInv
  <2>2. ReadSoFar'
    BY <1>1, <2>1, SameRead DEF ReadIInv, ReadSoFar
  <2>3. \A j \in DOMAIN answers' :
           answers'[j].type = "reply" => \E k \in DOMAIN answers : answers'[j] = answers[k]
    <3>1. IsSequence(answers)
      BY DEF ReadIInv, CommandIInv, CommandTyped
    <3>2. CASE \E x : answers' = Append(answers, x) /\ x.type # "reply"
      <4>1. PICK x : answers' = Append(answers, x) /\ x.type # "reply"
        BY <3>2
      <4>2. /\ DOMAIN answers = 1..Len(answers) /\ DOMAIN answers' = 1..(Len(answers) + 1) /\ Len(answers) \in Nat
            /\ \A k \in DOMAIN answers : answers'[k] = answers[k]
            /\ answers'[Len(answers) + 1] = x
        BY <3>1, <4>1, Appended
      <4>3. \A j \in DOMAIN answers' : j \in DOMAIN answers \/ j = Len(answers) + 1
        BY <4>2
      <4> QED
        BY <4>1, <4>2, <4>3
    <3>3. CASE answers # << >> /\ answers' = Tail(answers)
      <4>1. /\ Len(answers) \in Nat /\ DOMAIN answers = 1..Len(answers) /\ DOMAIN answers' = 1..(Len(answers) - 1)
            /\ \A k \in DOMAIN answers' : answers'[k] = answers[k + 1]
        BY <3>1, <3>3, Taken1
      <4>2. \A j \in DOMAIN answers' : j + 1 \in DOMAIN answers
        BY <4>1
      <4> QED
        BY <4>1, <4>2
    <3>4. CASE answers' = answers
      BY <3>4
    <3>5. KernelLists => \E x : answers' = Append(answers, x) /\ x.type # "reply"
      BY DEF KernelLists, Done, Part
    <3> QED
      BY <3>2, <3>3, <3>4, <3>5 DEF RecvPart, Outside, cmdvars, io
  <2>4. command' = command /\ Required' = Required
    BY <1>1 DEF command, Required
  <2>5. RepliesWell'
    BY <1>1, <2>3, <2>4 DEF ReadIInv, RepliesWell
  <2> QED
    BY <2>2, <2>5
<1> QED
  BY <1>2, <1>3

\* What an answer of that form makes of the attributes.
LEMMA ReplyRead ==
  ASSUME kind \in DOMAIN Nl80211Commands, NEW t, NEW w, Complete(command, w),
         \A a \in Required \cup command.may : IsValid(w, a) => AsReported(a, w[a.id]),
         NEW a \in (Required \cup command.may) \ {PhyDevAttribute}, IsValid(w, a)
  PROVE  IF a = PhyBandsAttribute
           THEN \A b \in Bands \cap DOMAIN PhyReport :
                  BandRead(Value(Read(command, t, w), a)[b], w[a.id].val[b].val)
           ELSE Value(Read(command, t, w), a) = w[a.id].val
<1> DEFINE r == Read(command, t, w)
<1>1. IsValid(r, a) /\ r[a.id] = Decoded(t, w, a) /\ AsReported(a, w[a.id])
  BY ReadIs
<1>2. a \in Answerable
  BY TakesAnswerable
<1> HIDE DEF r
<1>3. CASE a = PhyBandsAttribute
  <2>1. a.kind = "nested" /\ w[a.id].val = PhyReport
    BY <1>1, <1>2, <1>3, AnswerableIs DEF AsReported
  <2> DEFINE old == IF IsValid(t, a) THEN t[a.id].val ELSE Empty
  <2>2. r[a.id] = Data(0, PhyBands(old, PhyReport))
    BY <1>1, <2>1 DEF Decoded
  <2>3. Value(r, a) = PhyBands(old, PhyReport)
    BY <1>1, <2>1, <2>2 DEF Value, Data
  <2> HIDE DEF old
  <2>4. ASSUME NEW b \in Bands \cap DOMAIN PhyReport
        PROVE  BandRead(Value(r, a)[b], PhyReport[b].val)
    <3> DEFINE o == IF b \in DOMAIN old THEN old[b] ELSE NewBand
    <3>1. PhyBands(old, PhyReport)[b] = PhyBandAttribute(o, PhyReport[b].val)
      BY DEF PhyBands
    <3> HIDE DEF o
    <3> QED
      BY <2>3, <3>1, BandIsRead
  <2> QED
    BY <1>3, <2>1, <2>4 DEF r
<1>4. CASE a # PhyBandsAttribute
  <2>1. a.kind # "nested" /\ a.kind # "flag"
    BY <1>2, <1>4, AnswerableIs
  <2>2. r[a.id] = w[a.id]
    BY <1>1, <2>1 DEF Decoded
  <2>3. a.kind = "number" => w[a.id].len = a.width
    BY <1>1 DEF AsReported
  <2>4. Value(r, a) = w[a.id].val
    BY <1>1, <2>1, <2>2, <2>3 DEF Value
  <2> QED
    BY <1>4, <2>4 DEF r
<1> QED
  BY <1>3, <1>4

LEMMA RecvRead ==
  ASSUME ReadIInv, Recv
  PROVE  RepliesWell' /\ ReadSoFar'
<1> DEFINE h == Head(answers)
<1>1. phase = "recv" /\ phase' = "wait" /\ answers # << >> /\ kind' = kind
  BY DEF Recv
<1>2. /\ count = 0 /\ was.reported = Empty /\ kind \in DOMAIN Nl80211Commands /\ CommandTyped
  BY <1>1 DEF ReadIInv, CommandIInv, CountsOne, Executing, ReadSoFar
<1>3. 1 \in DOMAIN answers /\ h = answers[1]
  BY <1>1, <1>2, Taken1 DEF CommandTyped
<1>4. command' = command /\ Required' = Required
  BY <1>1 DEF command, Required
<1>5. CASE was' = was
  <2>1. \A a : ~IsValid(was'.reported, a)
    BY <1>2, <1>5, NoAnswers DEF IsValid, Empty
  <2>2. ReadAsReported'
    BY <2>1 DEF ReadAsReported, IsValid
  <2> QED
    BY <1>1, <2>2 DEF RepliesWell, ReadSoFar
<1>6. CASE RecvReply /\ Complete(command, h.w)
  <2>1. h.type = "reply" /\ attrs' = Read(command, attrs, h.w) /\ was' = [was EXCEPT !.reported = h.w]
    BY <1>6 DEF RecvReply
  <2>2. "reported" \in DOMAIN was
    BY <1>2 DEF CommandTyped
  <2>3. was'.reported = h.w
    BY <2>1, <2>2
  <2>4. \A a \in Required \cup command.may : IsValid(h.w, a) => AsReported(a, h.w[a.id])
    BY <1>1, <1>3, <2>1 DEF ReadIInv, RepliesWell
  <2> HIDE DEF h
  <2>5. \A a \in (Required \cup command.may) \ {PhyDevAttribute} : IsValid(h.w, a) =>
          IF a = PhyBandsAttribute
            THEN \A b \in Bands \cap DOMAIN PhyReport :
                   BandRead(Value(attrs', a)[b], h.w[a.id].val[b].val)
            ELSE Value(attrs', a) = h.w[a.id].val
    BY <1>2, <1>6, <2>1, <2>4, ReplyRead
  <2>6. ReadAsReported'
    BY <1>4, <2>3, <2>5 DEF ReadAsReported
  <2> QED
    BY <1>1, <2>6 DEF RepliesWell, ReadSoFar
<1>7. CASE count' = count
  BY <1>1, <1>2, <1>7 DEF RepliesWell, ReadSoFar
<1> QED
  BY <1>5, <1>6, <1>7 DEF Recv, RecvError, RecvAck, RecvDone, RecvReply

LEMMA NextRead == ReadIInv /\ [CommandNext]_cmdvars => ReadIInv'
<1> SUFFICES ASSUME ReadIInv, [CommandNext]_cmdvars PROVE RepliesWell' /\ ReadSoFar'
  BY CommandNextIInv DEF ReadIInv
<1>1. CASE Exec
  <2>1. CASE Unguarded \/ RecvFails \/ Finish \/ RouteUnconnected \/ RouteFails \/ RouteDoes \/ RouteLists
    <3>1. phase' = "idle"
      BY <2>1 DEF Unguarded, RecvFails, Finish, RouteUnconnected, RouteFails, RouteDoes, RouteLists, ReturnOpen, ReturnWith
    <3> QED
      BY <3>1, IdleRead
  <2> QED
    BY <1>1, <2>1, OpenedRead, RecvRead, MeanwhileRead DEF Exec
<1>2. CASE Kernel
  BY <1>2, KernelAnswersRead, MeanwhileRead DEF Kernel
<1>3. CASE Outside \/ UNCHANGED cmdvars
  BY <1>3, MeanwhileRead
<1>4. CASE Delete
  BY <1>4, IdleRead DEF Delete
<1>5. ASSUME NEW k \in Kinds, NEW v \in Vals, NEW i, New(k, i, v, {}) \/ New(k, i, v, Others(Commands[k]))
      PROVE  RepliesWell' /\ ReadSoFar'
  <2>1. phase' = "idle"
    BY <1>5 DEF New, exec, ReadIInv, CommandIInv, Executing
  <2> QED
    BY <2>1, IdleRead
<1> QED
  BY <1>1, <1>2, <1>3, <1>4, <1>5 DEF CommandNext

\* What the kernel reported reads as reported after a command that returns true,
\* whatever the links, their values and the bands of the phy: an answer in part
\* never counts for a whole one, nor one to another execution.
THEOREM ReadAsTold == CommandSpec => ReadIsKernels
<1>1. CommandInit => ReadIInv
  BY CommandInitIInv DEF CommandInit, ReadIInv, RepliesWell, ReadSoFar
<1>2. CommandSpec => []ReadIInv
  BY <1>1, NextRead, PTL DEF CommandSpec
<1>3. ASSUME ReadIInv, [CommandNext]_cmdvars, Returned(DOMAIN Nl80211Commands)
      PROVE  ReadAsReported
  <2>1. phase = "wait" /\ count = 1
    BY <1>3, ReturnedTrue DEF ReadIInv
  <2> QED
    BY <1>3, <2>1 DEF ReadIInv, ReadSoFar
<1> QED
  BY <1>2, <1>3, PTL DEF CommandSpec, ReadIsKernels

-----------------------------------------------------------------------------
\* A client of commands and of an interface uses commands as Command has them.
THEOREM WirelessCommands == WirelessSpec => CommandSpec
<1>1. WirelessInit => CommandInit
  BY DEF WirelessInit
<1>2. [WirelessNext]_allvars => [CommandNext]_cmdvars
  BY DEF WirelessNext, allvars
<1> QED
  BY <1>1, <1>2, PTL DEF WirelessSpec, CommandSpec

-----------------------------------------------------------------------------
(***************************************************************************)
(* The client of an interface: what a Commit that returns true leaves of   *)
(* the radio. First what its commands do to the radio, and what is read of *)
(* it; then that what is staged is either sent or on the radio already.    *)
(***************************************************************************)

\* What a step leaves of the radio.
Alters(r, s, F) == Tune!IsRadio(s) /\ \A f \in Tune!RadioFields \ F : s[f] = r[f]

LEMMA AppliedIs ==
  ASSUME NEW r, Tune!IsRadio(r)
  PROVE  /\ Alters(r, Tune!Applied(r, "opmode"), {"type"})
         /\ Tune!Applied(r, "opmode").type = Tune!opmode2nl(staged.opmode)
         /\ Alters(r, Tune!Applied(r, "promode"), {"promisc"})
         /\ Tune!Applied(r, "promode").promisc = (staged.promode = "ENABLED")
         /\ Alters(r, Tune!Applied(r, "admin"), {"up", "freq", "width", "cf1"})
         /\ Tune!Applied(r, "admin").up = (staged.admin = "UP")
         /\ staged.admin = "UP" => Alters(r, Tune!Applied(r, "admin"), {"up"})
         /\ Alters(r, Tune!Applied(r, "channel"), {"freq", "width", "cf1"})
         /\ Tune!Applied(r, "channel").freq = Tune!ChannelSent.freq
         /\ Tune!Applied(r, "channel").width = Tune!ChannelSent.width
         /\ Alters(r, Tune!Applied(r, "power"), {"power"})
         /\ Tune!Applied(r, "power").power = staged.power
<1>1. DOMAIN r = {"type", "up", "promisc", "freq", "width", "cf1", "power"} /\ r.up \in BOOLEAN /\ r.promisc \in BOOLEAN
  BY DEF Tune!IsRadio, Tune!RadioFields
<1>2. /\ Alters(r, Tune!Applied(r, "opmode"), {"type"})
      /\ Tune!Applied(r, "opmode").type = Tune!opmode2nl(staged.opmode)
  BY <1>1 DEF Alters, Tune!IsRadio, Tune!RadioFields, Tune!Applied
<1>3. /\ Alters(r, Tune!Applied(r, "promode"), {"promisc"})
      /\ Tune!Applied(r, "promode").promisc = (staged.promode = "ENABLED")
  BY <1>1 DEF Alters, Tune!IsRadio, Tune!RadioFields, Tune!Applied
<1>4. Tune!Applied(r, "admin") = Tune!WithAdmin(r, staged.admin = "UP")
  BY DEF Tune!Applied
<1>5. /\ Alters(r, Tune!Applied(r, "channel"), {"freq", "width", "cf1"})
      /\ Tune!Applied(r, "channel").freq = Tune!ChannelSent.freq
      /\ Tune!Applied(r, "channel").width = Tune!ChannelSent.width
  BY <1>1 DEF Alters, Tune!IsRadio, Tune!RadioFields, Tune!Applied
<1>6. /\ Alters(r, Tune!Applied(r, "power"), {"power"})
      /\ Tune!Applied(r, "power").power = staged.power
  BY <1>1 DEF Alters, Tune!IsRadio, Tune!RadioFields, Tune!Applied
<1>7. /\ Alters(r, Tune!Applied(r, "admin"), {"up", "freq", "width", "cf1"})
      /\ Tune!Applied(r, "admin").up = (staged.admin = "UP")
      /\ staged.admin = "UP" => Alters(r, Tune!Applied(r, "admin"), {"up"})
  <2>1. CASE staged.admin = "UP"
    <3>1. Tune!Applied(r, "admin") = [r EXCEPT !.up = TRUE]
      BY <1>4, <2>1 DEF Tune!WithAdmin
    <3>2. Alters(r, Tune!Applied(r, "admin"), {"up"}) /\ Tune!Applied(r, "admin").up = TRUE
      BY <1>1, <3>1 DEF Alters, Tune!IsRadio, Tune!RadioFields
    <3>3. Alters(r, Tune!Applied(r, "admin"), {"up", "freq", "width", "cf1"})
      BY <3>2 DEF Alters
    <3> QED
      BY <2>1, <3>2, <3>3
  <2>2. CASE staged.admin # "UP"
    <3>1. Tune!Applied(r, "admin") = [r EXCEPT !.up = FALSE, !.freq = 0, !.width = 0, !.cf1 = 0]
      BY <1>4, <2>2 DEF Tune!WithAdmin
    <3>2. Alters(r, Tune!Applied(r, "admin"), {"up", "freq", "width", "cf1"}) /\ Tune!Applied(r, "admin").up = FALSE
      BY <1>1, <3>1 DEF Alters, Tune!IsRadio, Tune!RadioFields
    <3> QED
      BY <2>2, <3>2
  <2> QED
    BY <2>1, <2>2
<1> QED
  BY <1>2, <1>3, <1>5, <1>6, <1>7

\* A command that succeeds makes its change of the radio.
Made1(r, c) == IF c \in Tune!Made THEN Tune!Applied(r, c) ELSE r

LEMMA ExecutedIs ==
  ASSUME NEW R, Tune!Executed(R).ok
  PROVE  /\ Tune!Executed(R).radio =
              Made1(Made1(Made1(Made1(Made1(radio, "opmode"), "promode"), "admin"), "channel"), "power")
         /\ Tune!Made = Tune!Due
         /\ "opmode" \in Tune!Made => \E m \in DOMAIN Tune!Types : Tune!Types[m] = Tune!opmode2nl(staged.opmode)
<1> DEFINE do(s, c) ==
             IF c \notin Tune!Made THEN s
             ELSE IF c \notin R /\ Tune!Accepts(s.radio, c) THEN [s EXCEPT !.radio = Tune!Applied(@, c)]
             ELSE [s EXCEPT !.ok = FALSE]
           s0 == [radio |-> radio, ok |-> (Tune!Made = Tune!Due)]
           s1 == do(s0, "opmode")
           s2 == do(s1, "promode")
           s3 == do(s2, "admin")
           s4 == do(s3, "channel")
           s5 == do(s4, "power")
<1>1. Tune!Executed(R) = s5
  BY DEF Tune!Executed
<1>2. ASSUME NEW s, DOMAIN s = {"radio", "ok"}, NEW c
      PROVE  /\ DOMAIN do(s, c) = {"radio", "ok"}
             /\ do(s, c).ok => /\ s.ok /\ do(s, c).radio = Made1(s.radio, c)
                               /\ c \in Tune!Made => Tune!Accepts(s.radio, c)
  <2>1. CASE c \notin Tune!Made
    BY <1>2, <2>1 DEF Made1
  <2>2. CASE c \in Tune!Made /\ c \notin R /\ Tune!Accepts(s.radio, c)
    <3>1. do(s, c) = [s EXCEPT !.radio = Tune!Applied(@, c)]
      BY <2>2
    <3> QED
      BY <1>2, <2>2, <3>1 DEF Made1
  <2>3. CASE c \in Tune!Made /\ ~(c \notin R /\ Tune!Accepts(s.radio, c))
    <3>1. do(s, c) = [s EXCEPT !.ok = FALSE]
      BY <2>3
    <3> QED
      BY <1>2, <3>1
  <2> QED
    BY <2>1, <2>2, <2>3
<1>3. DOMAIN s0 = {"radio", "ok"} /\ s0.radio = radio /\ s0.ok = (Tune!Made = Tune!Due)
  OBVIOUS
<1> HIDE DEF do, s0
<1>4. /\ DOMAIN s1 = {"radio", "ok"} /\ DOMAIN s2 = {"radio", "ok"} /\ DOMAIN s3 = {"radio", "ok"}
      /\ DOMAIN s4 = {"radio", "ok"}
  BY <1>2, <1>3
<1> HIDE DEF s5
<1>5. s5.ok
  BY <1>1
<1>6. s4.ok /\ s5.radio = Made1(s4.radio, "power")
  BY <1>2, <1>4, <1>5 DEF s5
<1> HIDE DEF s4
<1>7. s3.ok /\ s4.radio = Made1(s3.radio, "channel")
  BY <1>2, <1>4, <1>6 DEF s4
<1> HIDE DEF s3
<1>8. s2.ok /\ s3.radio = Made1(s2.radio, "admin")
  BY <1>2, <1>4, <1>7 DEF s3
<1> HIDE DEF s2
<1>9. s1.ok /\ s2.radio = Made1(s1.radio, "promode")
  BY <1>2, <1>4, <1>8 DEF s2
<1> HIDE DEF s1
<1>10. /\ s0.ok /\ s1.radio = Made1(s0.radio, "opmode")
       /\ "opmode" \in Tune!Made => Tune!Accepts(s0.radio, "opmode")
  BY <1>2, <1>3, <1>9 DEF s1
<1>11. Tune!Made = Tune!Due
  BY <1>3, <1>10
<1>12. "opmode" \in Tune!Made => \E m \in DOMAIN Tune!Types : Tune!Types[m] = Tune!opmode2nl(staged.opmode)
  BY <1>10 DEF Tune!Accepts
<1>13. s5.radio = Made1(Made1(Made1(Made1(Made1(radio, "opmode"), "promode"), "admin"), "channel"), "power")
  BY <1>3, <1>6, <1>7, <1>8, <1>9, <1>10
<1> QED
  BY <1>1, <1>11, <1>12, <1>13

LEMMA Made1Is ==
  ASSUME NEW r, Tune!IsRadio(r)
  PROVE  /\ Alters(r, Made1(r, "opmode"), {"type"})
         /\ Made1(r, "opmode").type = IF "opmode" \in Tune!Made THEN Tune!opmode2nl(staged.opmode) ELSE r.type
         /\ Alters(r, Made1(r, "promode"), {"promisc"})
         /\ Made1(r, "promode").promisc = IF "promode" \in Tune!Made THEN staged.promode = "ENABLED" ELSE r.promisc
         /\ Alters(r, Made1(r, "admin"), {"up", "freq", "width", "cf1"})
         /\ Made1(r, "admin").up = IF "admin" \in Tune!Made THEN staged.admin = "UP" ELSE r.up
         /\ staged.admin = "UP" => Alters(r, Made1(r, "admin"), {"up"})
         /\ Alters(r, Made1(r, "channel"), {"freq", "width", "cf1"})
         /\ Made1(r, "channel").freq = IF "channel" \in Tune!Made THEN Tune!ChannelSent.freq ELSE r.freq
         /\ Made1(r, "channel").width = IF "channel" \in Tune!Made THEN Tune!ChannelSent.width ELSE r.width
         /\ Alters(r, Made1(r, "power"), {"power"})
         /\ Made1(r, "power").power = IF "power" \in Tune!Made THEN staged.power ELSE r.power
<1>1. \A F : Alters(r, r, F)
  BY DEF Alters
<1>2. /\ Alters(r, Made1(r, "opmode"), {"type"})
      /\ Made1(r, "opmode").type = IF "opmode" \in Tune!Made THEN Tune!opmode2nl(staged.opmode) ELSE r.type
  BY <1>1, AppliedIs DEF Made1
<1>3. /\ Alters(r, Made1(r, "promode"), {"promisc"})
      /\ Made1(r, "promode").promisc = IF "promode" \in Tune!Made THEN staged.promode = "ENABLED" ELSE r.promisc
  BY <1>1, AppliedIs DEF Made1
<1>4. /\ Alters(r, Made1(r, "admin"), {"up", "freq", "width", "cf1"})
      /\ Made1(r, "admin").up = IF "admin" \in Tune!Made THEN staged.admin = "UP" ELSE r.up
      /\ staged.admin = "UP" => Alters(r, Made1(r, "admin"), {"up"})
  BY <1>1, AppliedIs DEF Made1
<1>5. /\ Alters(r, Made1(r, "channel"), {"freq", "width", "cf1"})
      /\ Made1(r, "channel").freq = IF "channel" \in Tune!Made THEN Tune!ChannelSent.freq ELSE r.freq
      /\ Made1(r, "channel").width = IF "channel" \in Tune!Made THEN Tune!ChannelSent.width ELSE r.width
  BY <1>1, AppliedIs DEF Made1
<1>6. /\ Alters(r, Made1(r, "power"), {"power"})
      /\ Made1(r, "power").power = IF "power" \in Tune!Made THEN staged.power ELSE r.power
  BY <1>1, AppliedIs DEF Made1
<1> QED
  BY <1>2, <1>3, <1>4, <1>5, <1>6

\* What a Commit that succeeds leaves: what it makes, and the rest as it was.
LEMMA MadeIs ==
  ASSUME NEW R, Tune!Executed(R).ok, Tune!IsRadio(radio)
  PROVE  LET r == Tune!Executed(R).radio IN
         /\ Tune!IsRadio(r)
         /\ r.type = IF "opmode" \in Tune!Made THEN Tune!opmode2nl(staged.opmode) ELSE radio.type
         /\ r.promisc = IF "promode" \in Tune!Made THEN staged.promode = "ENABLED" ELSE radio.promisc
         /\ r.up = IF "admin" \in Tune!Made THEN staged.admin = "UP" ELSE radio.up
         /\ r.power = IF "power" \in Tune!Made THEN staged.power ELSE radio.power
         /\ staged.admin = "UP" \/ "admin" \notin Tune!Made =>
              /\ r.freq = IF "channel" \in Tune!Made THEN Tune!ChannelSent.freq ELSE radio.freq
              /\ r.width = IF "channel" \in Tune!Made THEN Tune!ChannelSent.width ELSE radio.width
<1> DEFINE r1 == Made1(radio, "opmode")
           r2 == Made1(r1, "promode")
           r3 == Made1(r2, "admin")
           r4 == Made1(r3, "channel")
           r5 == Made1(r4, "power")
<1>1. Tune!Executed(R).radio = r5
  BY ExecutedIs
<1>2. Alters(radio, r1, {"type"})
      /\ r1.type = IF "opmode" \in Tune!Made THEN Tune!opmode2nl(staged.opmode) ELSE radio.type
  BY Made1Is
<1>3. Tune!IsRadio(r1)
  BY <1>2 DEF Alters
<1> HIDE DEF r1
<1>4. Alters(r1, r2, {"promisc"})
      /\ r2.promisc = IF "promode" \in Tune!Made THEN staged.promode = "ENABLED" ELSE r1.promisc
  BY <1>3, Made1Is
<1>5. Tune!IsRadio(r2)
  BY <1>4 DEF Alters
<1> HIDE DEF r2
<1>6. Alters(r2, r3, {"up", "freq", "width", "cf1"}) /\ (staged.admin = "UP" => Alters(r2, r3, {"up"}))
      /\ r3.up = IF "admin" \in Tune!Made THEN staged.admin = "UP" ELSE r2.up
  BY <1>5, Made1Is
<1>7. Tune!IsRadio(r3) /\ ("admin" \notin Tune!Made => r3 = r2)
  BY <1>6 DEF Alters, Made1
<1> HIDE DEF r3
<1>8. Alters(r3, r4, {"freq", "width", "cf1"})
      /\ r4.freq = (IF "channel" \in Tune!Made THEN Tune!ChannelSent.freq ELSE r3.freq)
      /\ r4.width = IF "channel" \in Tune!Made THEN Tune!ChannelSent.width ELSE r3.width
  BY <1>7, Made1Is
<1>9. Tune!IsRadio(r4)
  BY <1>8 DEF Alters
<1> HIDE DEF r4
<1>10. Alters(r4, r5, {"power"}) /\ r5.power = IF "power" \in Tune!Made THEN staged.power ELSE r4.power
  BY <1>9, Made1Is
<1> HIDE DEF r5
<1>11. r5.type = r1.type
  BY <1>4, <1>6, <1>8, <1>10 DEF Alters, Tune!RadioFields
<1>12. r5.promisc = r2.promisc /\ r1.promisc = radio.promisc
  BY <1>2, <1>6, <1>8, <1>10 DEF Alters, Tune!RadioFields
<1>13. r5.up = r3.up /\ r2.up = radio.up
  BY <1>2, <1>4, <1>8, <1>10 DEF Alters, Tune!RadioFields
<1>14. r4.power = radio.power
  BY <1>2, <1>4, <1>6, <1>8 DEF Alters, Tune!RadioFields
<1>15. ASSUME staged.admin = "UP" \/ "admin" \notin Tune!Made
       PROVE  r3.freq = radio.freq /\ r3.width = radio.width
  BY <1>2, <1>4, <1>6, <1>7, <1>15 DEF Alters, Tune!RadioFields
<1>16. r5.freq = r4.freq /\ r5.width = r4.width
  BY <1>10 DEF Alters, Tune!RadioFields
<1>17. Tune!IsRadio(r5)
  BY <1>10 DEF Alters
<1>18. /\ r5.promisc = IF "promode" \in Tune!Made THEN staged.promode = "ENABLED" ELSE radio.promisc
       /\ r5.up = IF "admin" \in Tune!Made THEN staged.admin = "UP" ELSE radio.up
  BY <1>4, <1>6, <1>12, <1>13
<1>19. /\ r5.type = (IF "opmode" \in Tune!Made THEN Tune!opmode2nl(staged.opmode) ELSE radio.type)
       /\ r5.power = IF "power" \in Tune!Made THEN staged.power ELSE radio.power
  BY <1>2, <1>10, <1>11, <1>14
<1>20. ASSUME staged.admin = "UP" \/ "admin" \notin Tune!Made
       PROVE  /\ r5.freq = (IF "channel" \in Tune!Made THEN Tune!ChannelSent.freq ELSE radio.freq)
              /\ r5.width = IF "channel" \in Tune!Made THEN Tune!ChannelSent.width ELSE radio.width
  BY <1>8, <1>15, <1>16, <1>20
<1> QED
  BY <1>1, <1>17, <1>18, <1>19, <1>20

\* The message of a channel has the frequency and the width that are staged.
LEMMA SentIs ==
  Tune!ChannelSent.freq = staged.freq /\ Tune!ChannelSent.width = Tune!htmode2nl(staged.htmode)
<1> DEFINE t == Tune!SetChannelAttrs
           w == Tune!Message(Tune!SetPhyCommand, t)
           F == Tune!FrequencyAttribute
           W == Tune!ChannelWidthAttribute
           C == Tune!CenterFrequency1Attribute
           D == Tune!CenterFrequency2Attribute
           P == Tune!SetPhyCommand.puts
<1>1. /\ F.id = "WIPHY_FREQ" /\ W.id = "CHANNEL_WIDTH" /\ C.id = "CENTER_FREQ1" /\ D.id = "CENTER_FREQ2"
      /\ F.kind = "number" /\ W.kind = "number" /\ F.width = 4 /\ W.width = 4
  BY DEF Tune!FrequencyAttribute, Tune!ChannelWidthAttribute, Tune!CenterFrequency1Attribute,
     Tune!CenterFrequency2Attribute, Tune!Number, Tune!AttributeClass
<1>2. P = Tune!SetPhyMembers \ {Tune!IfNameAttribute} /\ Tune!SetPhyCommand.cmd = "SET_WIPHY"
  BY DEF Tune!SetPhyCommand, Tune!Execs
<1>3. F \in P /\ W \in P
  <2>1. Tune!IfNameAttribute.id = "IFNAME"
    BY DEF Tune!IfNameAttribute, Tune!Text, Tune!AttributeClass
  <2>2. F # Tune!IfNameAttribute /\ W # Tune!IfNameAttribute
    BY <1>1, <2>1
  <2>3. F \in Tune!Tuned /\ W \in Tune!Tuned
    BY DEF Tune!Tuned
  <2> QED
    BY <1>2, <2>2, <2>3 DEF Tune!SetPhyMembers
<1>4. /\ F.id \in DOMAIN t /\ t[F.id] = Tune!Data(4, staged.freq)
      /\ W.id \in DOMAIN t /\ t[W.id] = Tune!Data(4, Tune!htmode2nl(staged.htmode))
  <2>1. Tune!IfIndexAttribute.id = "IFINDEX" /\ Tune!PhyIndexAttribute.id = "WIPHY"
    BY DEF Tune!IfIndexAttribute, Tune!PhyIndexAttribute, Tune!Number, Tune!AttributeClass
  <2>2. ASSUME NEW id, NEW d, NEW f, NEW x
        PROVE  /\ x \in DOMAIN Tune!Over(Tune!Entry(id, d), f) <=> x = id \/ x \in DOMAIN f
               /\ x = id => Tune!Over(Tune!Entry(id, d), f)[x] = d
               /\ x # id /\ x \in DOMAIN f => Tune!Over(Tune!Entry(id, d), f)[x] = f[x]
    BY DEF Tune!Over, Tune!Entry
  <2> DEFINE e5 == IF staged.htmode \in {"HT40", "VHT40", "VHT80", "VHT80+80", "VHT160"}
                     THEN Tune!Entry(D.id, Tune!Data(4, staged.cf2)) ELSE Tune!Empty
             e4 == Tune!Over(Tune!Entry(W.id, Tune!Data(4, Tune!htmode2nl(staged.htmode))), e5)
             e3 == Tune!Over(Tune!Entry(C.id, Tune!Data(4, staged.freq)), e4)
             e2 == Tune!Over(Tune!Entry(F.id, Tune!Data(4, staged.freq)), e3)
             e1 == Tune!Over(Tune!Entry(Tune!PhyIndexAttribute.id, Tune!Data(4, 0)), e2)
  <2>3. t = Tune!Over(Tune!Entry(Tune!IfIndexAttribute.id, Tune!Data(4, 1)), e1)
    BY DEF Tune!SetChannelAttrs
  <2> HIDE DEF e5, t, F, W, C, D
  <2>4. W.id \in DOMAIN e4 /\ e4[W.id] = Tune!Data(4, Tune!htmode2nl(staged.htmode))
    BY <2>2
  <2> HIDE DEF e4
  <2>5. W.id \in DOMAIN e3 /\ e3[W.id] = e4[W.id]
    BY <1>1, <2>2, <2>4
  <2> HIDE DEF e3
  <2>6. W.id \in DOMAIN e2 /\ e2[W.id] = e3[W.id] /\ F.id \in DOMAIN e2 /\ e2[F.id] = Tune!Data(4, staged.freq)
    BY <1>1, <2>2, <2>5
  <2> HIDE DEF e2
  <2>7. W.id \in DOMAIN e1 /\ e1[W.id] = e2[W.id] /\ F.id \in DOMAIN e1 /\ e1[F.id] = e2[F.id]
    BY <1>1, <2>1, <2>2, <2>6
  <2> HIDE DEF e1
  <2>8. W.id \in DOMAIN t /\ t[W.id] = e1[W.id] /\ F.id \in DOMAIN t /\ t[F.id] = e1[F.id]
    BY <1>1, <2>1, <2>2, <2>3, <2>7
  <2> QED
    BY <2>4, <2>5, <2>6, <2>7, <2>8
<1> HIDE DEF t
<1>5. ASSUME NEW a \in {F, W}
      PROVE  a.id \in DOMAIN w /\ w[a.id] = t[a.id]
  <2>1. a \in P /\ a # D /\ a.id # C.id /\ Tune!IsValid(t, a)
    BY <1>1, <1>3, <1>4 DEF Tune!IsValid
  <2>2. \A Q : a \in Q => a.id \in DOMAIN Tune!PutAll(t, Q) /\ Tune!PutAll(t, Q)[a.id] = t[a.id]
    BY <2>1 DEF Tune!PutAll
  <2>3. CASE Tune!IsValid(t, D)
    <3>1. w = Tune!Over(Tune!Entry(C.id, t[D.id]), Tune!PutAll(t, P \ {D}))
      BY <1>2, <2>3 DEF Tune!Message
    <3>2. a \in P \ {D}
      BY <2>1
    <3> HIDE DEF C, D, P, F, W, w
    <3> QED
      BY <2>1, <2>2, <3>1, <3>2 DEF Tune!Over, Tune!Entry
  <2>4. CASE ~Tune!IsValid(t, D)
    <3>1. w = Tune!PutAll(t, Tune!Puts(Tune!SetPhyCommand, t))
      BY <2>4 DEF Tune!Message
    <3>2. Tune!Puts(Tune!SetPhyCommand, t) = P
      BY <1>2 DEF Tune!Puts
    <3> HIDE DEF P, w
    <3> QED
      BY <2>1, <2>2, <3>1, <3>2
  <2> QED
    BY <2>3, <2>4
<1>6. Tune!ChannelSent.freq = Tune!Value(w, F) /\ Tune!ChannelSent.width = Tune!Value(w, W)
  <2> DEFINE v(c) == Tune!Value(w, c)
  <2>1. Tune!ChannelSent = [freq |-> v(F), width |-> v(W), cf1 |-> v(C)]
    BY DEF Tune!ChannelSent, t
  <2> HIDE DEF v
  <2>2. Tune!ChannelSent.freq = v(F) /\ Tune!ChannelSent.width = v(W)
    BY <2>1
  <2> QED
    BY <2>2 DEF v
<1> HIDE DEF w, F, W
<1>7. \A n, v : Tune!Data(n, v).len = n /\ Tune!Data(n, v).val = v
  BY DEF Tune!Data
<1> QED
  BY <1>1, <1>4, <1>5, <1>6, <1>7 DEF Tune!Value, Tune!IsValid

-----------------------------------------------------------------------------
\* The modes and channels on their way to the kernel and back.
LEMMA WidthBack ==
  ASSUME NEW m \in Tune!Texts.htmode
  PROVE  Tune!nl2htmode(Tune!htmode2nl(m)) = Tune!Alike(m)
<1>1. m \in {"HT20", "HT40", "VHT20", "VHT40", "VHT80", "VHT80+80", "VHT160"}
  BY DEF Tune!Texts
<1>2. Tune!htmode2nl(m) = CASE m \in {"HT20", "VHT20"} -> 1 [] m \in {"HT40", "VHT40"} -> 2 [] m = "VHT80" -> 3
                            [] m = "VHT80+80" -> 4 [] OTHER -> 5
  BY <1>1 DEF Tune!htmode2nl, Tune!Width80P80
<1>3. /\ Tune!nl2htmode(1) = "HT20" /\ Tune!nl2htmode(2) = "HT40" /\ Tune!nl2htmode(3) = "VHT80"
      /\ Tune!nl2htmode(4) = "VHT80+80" /\ Tune!nl2htmode(5) = "VHT160"
  BY DEF Tune!nl2htmode
<1> QED
  BY <1>1, <1>2, <1>3 DEF Tune!Alike

LEMMA ModeBack ==
  ASSUME NEW m \in DOMAIN Tune!Types
  PROVE  Tune!nl2opmode(Tune!Types[m]) = m
<1>1. \A k, n \in DOMAIN Tune!Types : Tune!Types[k] = Tune!Types[n] => k = n
  BY DEF Tune!Types
<1>2. (CHOOSE k \in DOMAIN Tune!Types : Tune!Types[k] = Tune!Types[m]) = m
  BY <1>1
<1> QED
  BY <1>2 DEF Tune!nl2opmode

LEMMA ChannelBack ==
  ASSUME NEW c \in Nat, Tune!chan2freq(c) # 0
  PROVE  Tune!freq2chan(Tune!chan2freq(c)) = c
<1> DEFINE R == {r \in Tune!Ranges : 5 * (c - r.chan) \in 0..(r.top - r.freq) /\ c \notin {34, 35}}
           x == CHOOSE r \in R : TRUE
           f == x.freq + 5 * (c - x.chan)
           S == {r \in Tune!Ranges : f \in r.freq..r.top}
           y == CHOOSE r \in S : TRUE
<1>1. Tune!chan2freq(c) = IF R = {} THEN 0 ELSE f
  BY DEF Tune!chan2freq
<1>2. R # {}
  BY <1>1
<1>3. x \in R
  BY <1>2
<1>4. Tune!chan2freq(c) = f
  BY <1>1, <1>2
<1>5. Tune!freq2chan(f) = IF S = {} THEN 0 ELSE y.chan + ((f - y.freq) \div 5)
  BY DEF Tune!freq2chan, Tune!Channel
<1>6. \A r \in Tune!Ranges : r.freq \in Nat /\ r.top \in Nat /\ r.chan \in Nat
  BY DEF Tune!Ranges
<1>7. \A r, s \in Tune!Ranges : r = s \/ r.top < s.freq \/ s.top < r.freq
  BY DEF Tune!Ranges
<1> HIDE DEF x
<1>8. x \in Tune!Ranges /\ 5 * (c - x.chan) \in 0..(x.top - x.freq)
  BY <1>3
<1>9. f \in x.freq..x.top
  BY <1>6, <1>8
<1>10. S = {x}
  BY <1>6, <1>7, <1>8, <1>9
<1>11. y = x
  BY <1>10
<1> HIDE DEF y, S, R
<1>12. f - x.freq = 5 * (c - x.chan) /\ c - x.chan \in Int
  BY <1>6, <1>8
<1>13. \A d \in Int : (5 * d) \div 5 = d
  OBVIOUS
<1>14. (f - x.freq) \div 5 = c - x.chan
  BY <1>12, <1>13
<1>15. Tune!freq2chan(f) = x.chan + ((f - x.freq) \div 5)
  BY <1>5, <1>10, <1>11
<1> QED
  BY <1>4, <1>6, <1>8, <1>14, <1>15

\* What the kernel tells of the radio.
LEMMA ToldIs ==
  ASSUME NEW r
  PROVE  LET w == Tune!Told(r) IN
         /\ Tune!Value(w, Tune!IfTypeAttribute) = r.type
         /\ Tune!IsValid(w, Tune!ChannelWidthAttribute) <=> Tune!OnChannel(r)
         /\ Tune!OnChannel(r) => Tune!Value(w, Tune!ChannelWidthAttribute) = r.width
         /\ Tune!Value(w, Tune!FrequencyAttribute) = IF Tune!OnChannel(r) THEN r.freq ELSE 0
         /\ Tune!Value(w, Tune!TxPowerLevelAttribute) = IF r.up THEN r.power ELSE 0
<1> DEFINE w == Tune!Told(r)
           Z == Tune!IfTypeAttribute
           F == Tune!FrequencyAttribute
           W == Tune!ChannelWidthAttribute
           C == Tune!CenterFrequency1Attribute
           P == Tune!TxPowerLevelAttribute
           e3 == Tune!Over(Tune!Entry(W.id, Tune!Data(4, r.width)), Tune!Entry(C.id, Tune!Data(4, r.cf1)))
           e2 == IF Tune!OnChannel(r) THEN Tune!Over(Tune!Entry(F.id, Tune!Data(4, r.freq)), e3) ELSE Tune!Empty
           p == IF r.up THEN Tune!Entry(P.id, Tune!Data(4, r.power)) ELSE Tune!Empty
           e1 == Tune!Over(e2, p)
<1>1. /\ Z.id = "IFTYPE" /\ F.id = "WIPHY_FREQ" /\ W.id = "CHANNEL_WIDTH" /\ C.id = "CENTER_FREQ1"
      /\ P.id = "WIPHY_TX_POWER_LEVEL"
      /\ \A a \in {Z, F, W, P} : a.kind = "number" /\ a.width = 4 /\ a.default = 0
  BY DEF Tune!IfTypeAttribute, Tune!FrequencyAttribute, Tune!ChannelWidthAttribute, Tune!CenterFrequency1Attribute,
     Tune!TxPowerLevelAttribute, Tune!Number, Tune!AttributeClass
<1>2. w = Tune!Over(Tune!Entry(Z.id, Tune!Data(4, r.type)), e1)
  BY DEF Tune!Told
<1>3. Tune!Empty = << >> /\ DOMAIN Tune!Empty = {}
  BY NoAnswers DEF Tune!Empty
<1> HIDE DEF w, Z, F, W, C, P
<1>4. ASSUME NEW id, NEW d, NEW x
      PROVE  (x \in DOMAIN Tune!Entry(id, d) <=> x = id) /\ Tune!Entry(id, d)[id] = d
  BY DEF Tune!Entry
<1>5. ASSUME NEW f, NEW g, NEW x
      PROVE  /\ x \in DOMAIN Tune!Over(f, g) <=> x \in DOMAIN f \/ x \in DOMAIN g
             /\ x \in DOMAIN f => Tune!Over(f, g)[x] = f[x]
             /\ x \notin DOMAIN f /\ x \in DOMAIN g => Tune!Over(f, g)[x] = g[x]
  BY DEF Tune!Over
<1>6. /\ \A x : x \in DOMAIN e3 <=> x = W.id \/ x = C.id
      /\ e3[W.id] = Tune!Data(4, r.width)
  <2>1. ASSUME NEW x PROVE x \in DOMAIN e3 <=> x = W.id \/ x = C.id
    BY <1>4, <1>5
  <2>2. e3[W.id] = Tune!Data(4, r.width)
    BY <1>4, <1>5
  <2> HIDE DEF e3
  <2> QED
    BY <2>1, <2>2
<1> HIDE DEF e3
<1>7. /\ Tune!OnChannel(r) => /\ \A x : x \in DOMAIN e2 <=> x \in {F.id, W.id, C.id}
                              /\ e2[W.id] = e3[W.id] /\ e2[F.id] = Tune!Data(4, r.freq)
      /\ ~Tune!OnChannel(r) => \A x : x \notin DOMAIN e2
  <2>1. ASSUME ~Tune!OnChannel(r) PROVE \A x : x \notin DOMAIN e2
    BY <1>3, <2>1
  <2>2. ASSUME Tune!OnChannel(r)
        PROVE  /\ \A x : x \in DOMAIN e2 <=> x \in {F.id, W.id, C.id}
               /\ e2[W.id] = e3[W.id] /\ e2[F.id] = Tune!Data(4, r.freq)
    <3>1. e2 = Tune!Over(Tune!Entry(F.id, Tune!Data(4, r.freq)), e3)
      BY <2>2
    <3> HIDE DEF e2
    <3>2. ASSUME NEW x PROVE x \in DOMAIN e2 <=> x \in {F.id, W.id, C.id}
      BY <1>4, <1>5, <1>6, <3>1
    <3>3. e2[F.id] = Tune!Data(4, r.freq)
      BY <1>4, <1>5, <3>1
    <3>4. e2[W.id] = e3[W.id]
      BY <1>1, <1>4, <1>5, <1>6, <3>1
    <3> QED
      BY <3>2, <3>3, <3>4
  <2> HIDE DEF e2
  <2> QED
    BY <2>1, <2>2
<1>8. /\ r.up => (\A x : x \in DOMAIN p <=> x = P.id) /\ p[P.id] = Tune!Data(4, r.power)
      /\ ~r.up => \A x : x \notin DOMAIN p
  BY <1>3, <1>4
<1> HIDE DEF e2, p
<1>9. /\ \A x : x \in DOMAIN e1 <=> x \in DOMAIN e2 \/ x \in DOMAIN p
      /\ Tune!OnChannel(r) => e1[F.id] = e2[F.id] /\ e1[W.id] = e2[W.id]
      /\ r.up => e1[P.id] = p[P.id]
  <2>1. ASSUME NEW x PROVE x \in DOMAIN e1 <=> x \in DOMAIN e2 \/ x \in DOMAIN p
    BY <1>5
  <2>2. ASSUME Tune!OnChannel(r) PROVE e1[F.id] = e2[F.id] /\ e1[W.id] = e2[W.id]
    BY <1>5, <1>7, <2>2
  <2>3. ASSUME r.up PROVE e1[P.id] = p[P.id]
    <3>1. P.id \notin DOMAIN e2
      BY <1>1, <1>7
    <3>2. P.id \in DOMAIN p
      BY <1>8, <2>3
    <3> QED
      BY <1>5, <3>1, <3>2
  <2> HIDE DEF e1
  <2> QED
    BY <2>1, <2>2, <2>3
<1> HIDE DEF e1
<1>10. /\ \A x : x \in DOMAIN w <=> x = Z.id \/ x \in DOMAIN e1
       /\ w[Z.id] = Tune!Data(4, r.type)
       /\ \A x \in DOMAIN e1 : x # Z.id => w[x] = e1[x]
  <2> DEFINE t == Tune!Entry(Z.id, Tune!Data(4, r.type))
  <2>1. (\A x : x \in DOMAIN t <=> x = Z.id) /\ t[Z.id] = Tune!Data(4, r.type)
    BY <1>4
  <2>2. w = Tune!Over(t, e1)
    BY <1>2
  <2> HIDE DEF t
  <2>3. ASSUME NEW x
        PROVE  /\ x \in DOMAIN w <=> x = Z.id \/ x \in DOMAIN e1
               /\ x \in DOMAIN e1 /\ x # Z.id => w[x] = e1[x]
    BY <1>5, <2>1, <2>2
  <2>4. w[Z.id] = Tune!Data(4, r.type)
    BY <1>5, <2>1, <2>2
  <2> QED
    BY <2>3, <2>4
<1>11. \A v : Tune!Data(4, v).len = 4 /\ Tune!Data(4, v).val = v
  BY DEF Tune!Data
<1>12. ASSUME NEW a \in {Z, F, W, P}
       PROVE  /\ a.id \notin DOMAIN w => Tune!Value(w, a) = 0
              /\ \A v : a.id \in DOMAIN w /\ w[a.id] = Tune!Data(4, v) => Tune!Value(w, a) = v
  BY <1>1, <1>11 DEF Tune!Value, Tune!IsValid
<1>13. Tune!Value(w, Z) = r.type
  BY <1>10, <1>12
<1>14. (W.id \in DOMAIN w <=> Tune!OnChannel(r)) /\ (F.id \in DOMAIN w <=> Tune!OnChannel(r))
  BY <1>1, <1>7, <1>8, <1>9, <1>10
<1>15. Tune!OnChannel(r) => Tune!Value(w, W) = r.width /\ Tune!Value(w, F) = r.freq
  BY <1>1, <1>6, <1>7, <1>9, <1>10, <1>12
<1>16. ~Tune!OnChannel(r) => Tune!Value(w, F) = 0
  BY <1>12, <1>14
<1>17. P.id \in DOMAIN w <=> r.up
  BY <1>1, <1>7, <1>8, <1>9, <1>10
<1>18. r.up => Tune!Value(w, P) = r.power
  BY <1>1, <1>8, <1>9, <1>10, <1>12
<1>19. ~r.up => Tune!Value(w, P) = 0
  BY <1>12, <1>17
<1> QED
  BY <1>13, <1>14, <1>15, <1>16, <1>18, <1>19 DEF Tune!IsValid, w, Z, F, W, P

LEMMA AnswersAre ==
  ASSUME NEW r, Tune!IsRadio(r)
  PROVE  LET s == Tune!Answers(r) IN
         /\ DOMAIN s = {"opmode", "htmode", "freq", "cf1", "cf2", "power", "admin"}
         /\ s.opmode = Tune!Shows(r).opmode /\ s.admin = Tune!Shows(r).admin
         /\ s.htmode \in {"ERR", Tune!Shows(r).htmode}
         /\ s.freq \in {0, Tune!Shows(r).freq} /\ s.power \in {0, Tune!Shows(r).power}
<1>1. /\ Tune!Shows(r).opmode = Tune!nl2opmode(r.type)
      /\ Tune!Shows(r).admin = (IF r.up THEN "UP" ELSE "DOWN")
      /\ Tune!Shows(r).htmode = Tune!nl2htmode(r.width)
      /\ Tune!Shows(r).freq = r.freq /\ Tune!Shows(r).power = r.power
  BY DEF Tune!Shows
<1> DEFINE w == Tune!Told(r)
           h == IF Tune!IsValid(w, Tune!ChannelWidthAttribute)
                  THEN Tune!nl2htmode(Tune!Value(w, Tune!ChannelWidthAttribute)) ELSE "ERR"
<1>2. /\ DOMAIN Tune!Answers(r) = {"opmode", "htmode", "freq", "cf1", "cf2", "power", "admin"}
      /\ Tune!Answers(r).opmode = Tune!nl2opmode(Tune!Value(w, Tune!IfTypeAttribute))
      /\ Tune!Answers(r).htmode = h
      /\ Tune!Answers(r).freq = Tune!Value(w, Tune!FrequencyAttribute)
      /\ Tune!Answers(r).power = Tune!Value(w, Tune!TxPowerLevelAttribute)
      /\ Tune!Answers(r).admin = (IF r.up THEN "UP" ELSE "DOWN")
  BY DEF Tune!Answers
<1>3. /\ Tune!Value(w, Tune!IfTypeAttribute) = r.type
      /\ Tune!Value(w, Tune!FrequencyAttribute) \in {0, r.freq}
      /\ Tune!Value(w, Tune!TxPowerLevelAttribute) \in {0, r.power}
  BY ToldIs
<1>4. h \in {"ERR", Tune!nl2htmode(r.width)}
  BY ToldIs
<1> HIDE DEF h, w
<1> QED
  BY <1>1, <1>2, <1>3, <1>4

LEMMA RefreshedIs ==
  ASSUME NEW r, Tune!IsRadio(r), Tune!IsConfig(staged), Tune!IsConfig(working)
  PROVE  /\ Tune!IsConfig(Tune!Refreshed(r))
         /\ Tune!Refreshed(r).promode = working.promode
         /\ \A a \in DOMAIN Tune!Shows(r) \ {"promode"} :
              a \in Tune!Unanswered(r) \/ Tune!Refreshed(r)[a] \in {Tune!Default[a], Tune!Shows(r)[a]}
<1> DEFINE c == Tune!Refreshed(r)
           N == {"opmode", "htmode", "promode", "admin"}
<1>1. /\ Tune!Settings = {"opmode", "htmode", "freq", "cf1", "cf2", "power", "promode", "admin"}
      /\ DOMAIN Tune!Texts = N
      /\ DOMAIN Tune!Shows(r) = {"opmode", "promode", "admin", "htmode", "freq", "power"}
  BY DEF Tune!Settings, Tune!Default, Tune!Texts, Tune!Shows
<1>2. /\ DOMAIN c = Tune!Settings /\ c.promode = working.promode
      /\ \A a \in Tune!Settings \ {"promode"} :
           c[a] = Tune!Stored(a, IF a \in Tune!Unanswered(r) THEN staged[a] ELSE Tune!Answers(r)[a])
  BY <1>1 DEF Tune!Refreshed
<1>3. \A a, v : Tune!Stored(a, v) \in {v, Tune!Default[a]}
                /\ (a \in N => Tune!Stored(a, v) \in Tune!Texts[a] \cup {Tune!Default[a]})
  BY <1>1 DEF Tune!Stored
<1> HIDE DEF c
<1>4. Tune!IsConfig(c)
  BY <1>1, <1>2, <1>3 DEF Tune!IsConfig
<1>5. ASSUME NEW a \in {"opmode", "admin", "htmode", "freq", "power"}, a \notin Tune!Unanswered(r)
      PROVE  c[a] \in {Tune!Default[a], Tune!Shows(r)[a]}
  <2>1. Tune!Answers(r)[a] # IF a \in N THEN "ERR" ELSE 0
    BY <1>1, <1>5, AnswersAre DEF Tune!Unanswered
  <2>2. Tune!Answers(r)[a] = Tune!Shows(r)[a]
    BY <1>5, <2>1, AnswersAre
  <2>3. c[a] \in {Tune!Answers(r)[a], Tune!Default[a]}
    BY <1>1, <1>2, <1>3, <1>5
  <2> QED
    BY <2>2, <2>3
<1> QED
  BY <1>1, <1>2, <1>4, <1>5 DEF c

\* What is staged and pending is on the radio after a Commit that succeeded.
LEMMA CommitShows ==
  ASSUME NEW R, Tune!Executed(R).ok, TuneIInv, sure,
         NEW a \in {"opmode", "promode", "admin", "htmode", "freq", "power"}, Tune!Pending(a)
  PROVE  Tune!Shows(Tune!Executed(R).radio)[a] = IF a = "htmode" THEN Tune!Alike(staged[a]) ELSE staged[a]
<1> DEFINE r == Tune!Executed(R).radio
           chans == {"htmode", "freq", "cf1", "cf2"}
<1>1. Tune!IsRadio(radio) /\ Tune!IsConfig(staged) /\ Tune!WorkingShown
  BY DEF TuneIInv, Tune!TuneIInv, Tune!TuneTyped
<1>2. /\ Tune!Default.opmode = "STA" /\ Tune!Default.promode = "NONE" /\ Tune!Default.admin = "NONE"
      /\ Tune!Default.htmode = "NONE" /\ Tune!Default.freq = 0 /\ Tune!Default.power = 0
  BY DEF Tune!Default
<1>3. /\ staged.opmode \in {"STA", "AP", "ADHOC", "MONITOR", "MESH"}
      /\ staged.htmode \in Tune!Texts.htmode \cup {"NONE"}
      /\ staged.promode \in {"ENABLED", "DISABLED", "NONE"} /\ staged.admin \in {"UP", "DOWN", "NONE"}
  BY <1>1, <1>2 DEF Tune!IsConfig, Tune!Texts
<1>4. \A s : /\ DOMAIN Tune!Shows(s) = {"opmode", "promode", "admin", "htmode", "freq", "power"}
             /\ Tune!Shows(s).opmode = Tune!nl2opmode(s.type)
             /\ Tune!Shows(s).promode = (IF s.promisc THEN "ENABLED" ELSE "DISABLED")
             /\ Tune!Shows(s).admin = (IF s.up THEN "UP" ELSE "DOWN")
             /\ Tune!Shows(s).htmode = Tune!nl2htmode(s.width)
             /\ Tune!Shows(s).freq = s.freq /\ Tune!Shows(s).power = s.power
  BY DEF Tune!Shows
<1>5. /\ r.type = (IF "opmode" \in Tune!Made THEN Tune!opmode2nl(staged.opmode) ELSE radio.type)
      /\ r.promisc = (IF "promode" \in Tune!Made THEN staged.promode = "ENABLED" ELSE radio.promisc)
      /\ r.up = (IF "admin" \in Tune!Made THEN staged.admin = "UP" ELSE radio.up)
      /\ r.power = (IF "power" \in Tune!Made THEN staged.power ELSE radio.power)
      /\ staged.admin = "UP" =>
           /\ r.freq = (IF "channel" \in Tune!Made THEN staged.freq ELSE radio.freq)
           /\ r.width = (IF "channel" \in Tune!Made THEN Tune!htmode2nl(staged.htmode) ELSE radio.width)
  BY <1>1, MadeIs, SentIs
<1>6. /\ Tune!Made = Tune!Due
      /\ "opmode" \in Tune!Made => \E m \in DOMAIN Tune!Types : Tune!Types[m] = Tune!opmode2nl(staged.opmode)
  BY ExecutedIs
<1>7. /\ "opmode" \in Tune!Due <=> Tune!Differs("opmode") /\ working.admin # "UP"
      /\ "promode" \in Tune!Due <=> Tune!Differs("promode")
      /\ "admin" \in Tune!Due <=> Tune!Differs("admin")
      /\ "power" \in Tune!Due <=> Tune!Differs("power") /\ staged.admin = "UP"
      /\ "channel" \in Tune!Due <=> (\E c \in chans : Tune!Differs(c)) /\ staged.admin = "UP"
  BY DEF Tune!Due, Tune!ChannelSettings
<1>8. \A c : Tune!Differs(c) <=> staged[c] # Tune!Default[c] /\ staged[c] # working[c]
  BY DEF Tune!Differs
<1>9. /\ staged[a] # Tune!Default[a] /\ ~(a \in copied /\ staged[a] = working[a])
      /\ a = "opmode" => working.admin # "UP"
      /\ a \in {"htmode", "freq", "power"} => staged.admin = "UP"
  BY DEF Tune!Pending
<1>10. working.promode = "NONE"
       /\ (a # "promode" /\ staged[a] = working[a] => working[a] = Tune!Shows(radio)[a])
  BY <1>1, <1>2, <1>4, <1>9 DEF Tune!WorkingShown
<1> HIDE DEF r
<1>11. CASE a = "opmode"
  <2>1. CASE staged.opmode = working.opmode
    BY <1>4, <1>5, <1>6, <1>7, <1>8, <1>10, <1>11, <2>1 DEF r
  <2>2. CASE staged.opmode # working.opmode
    <3>1. "opmode" \in Tune!Made
      BY <1>6, <1>7, <1>8, <1>9, <1>11, <2>2
    <3>2. staged.opmode \in DOMAIN Tune!Types
      <4>1. DOMAIN Tune!Types = {"ADHOC", "STA", "AP", "MONITOR"} /\ \A m \in DOMAIN Tune!Types : Tune!Types[m] # 0
        BY DEF Tune!Types
      <4> QED
        BY <1>6, <3>1, <4>1 DEF Tune!opmode2nl
    <3>3. r.type = Tune!Types[staged.opmode]
      BY <1>5, <3>1, <3>2 DEF Tune!opmode2nl
    <3> QED
      BY <1>4, <1>11, <3>2, <3>3, ModeBack DEF r
  <2> QED
    BY <2>1, <2>2
<1>12. CASE a = "promode"
  <2>1. "promode" \in Tune!Made
    BY <1>2, <1>6, <1>7, <1>8, <1>9, <1>10, <1>12
  <2>2. r.promisc = (staged.promode = "ENABLED") /\ staged.promode \in {"ENABLED", "DISABLED"}
    BY <1>2, <1>3, <1>5, <1>9, <1>12, <2>1
  <2> QED
    BY <1>4, <1>12, <2>2 DEF r
<1>13. CASE a = "admin"
  <2>1. CASE staged.admin = working.admin
    BY <1>4, <1>5, <1>6, <1>7, <1>8, <1>10, <1>13, <2>1 DEF r
  <2>2. CASE staged.admin # working.admin
    <3>1. "admin" \in Tune!Made
      BY <1>6, <1>7, <1>8, <1>9, <1>13, <2>2
    <3>2. r.up = (staged.admin = "UP") /\ staged.admin \in {"UP", "DOWN"}
      BY <1>2, <1>3, <1>5, <1>9, <1>13, <3>1
    <3> QED
      BY <1>4, <1>13, <3>2 DEF r
  <2> QED
    BY <2>1, <2>2
<1>14. CASE a = "htmode"
  <2>1. staged.admin = "UP" /\ staged.htmode \in Tune!Texts.htmode
    BY <1>2, <1>3, <1>9, <1>14
  <2>2. CASE "channel" \in Tune!Made
    <3>1. r.width = Tune!htmode2nl(staged.htmode)
      BY <1>5, <2>1, <2>2
    <3> QED
      BY <1>4, <1>14, <2>1, <3>1, WidthBack DEF r
  <2>3. CASE "channel" \notin Tune!Made
    <3>1. staged.htmode = working.htmode
      BY <1>6, <1>7, <1>8, <1>9, <1>14, <2>1, <2>3
    <3>2. r.width = radio.width
      BY <1>5, <2>1, <2>3
    <3>3. staged.htmode = Tune!nl2htmode(radio.width)
      BY <1>4, <1>10, <1>14, <3>1
    <3>4. \A n : Tune!nl2htmode(n) \notin {"VHT20", "VHT40"}
      BY DEF Tune!nl2htmode
    <3>5. Tune!Alike(staged.htmode) = staged.htmode
      BY <3>3, <3>4 DEF Tune!Alike
    <3> QED
      BY <1>4, <1>14, <3>2, <3>3, <3>5 DEF r
  <2> QED
    BY <2>2, <2>3
<1>15. CASE a = "freq"
  <2>1. r.freq = staged.freq
    <3>1. CASE staged.freq = working.freq
      BY <1>4, <1>5, <1>9, <1>10, <1>15, <3>1
    <3>2. CASE staged.freq # working.freq
      BY <1>5, <1>6, <1>7, <1>8, <1>9, <1>15, <3>2
    <3> QED
      BY <3>1, <3>2
  <2> QED
    BY <1>4, <1>15, <2>1 DEF r
<1>16. CASE a = "power"
  <2>1. r.power = staged.power
    <3>1. CASE staged.power = working.power
      BY <1>4, <1>5, <1>9, <1>10, <1>16, <3>1
    <3>2. CASE staged.power # working.power
      BY <1>5, <1>6, <1>7, <1>8, <1>9, <1>16, <3>2
    <3> QED
      BY <3>1, <3>2
  <2> QED
    BY <1>4, <1>16, <2>1 DEF r
<1> QED
  BY <1>11, <1>12, <1>13, <1>14, <1>15, <1>16

\* What no difference is a reason to change is on the radio as it was.
LEMMA CommitLeaves ==
  ASSUME NEW R, Tune!Executed(R).ok, TuneIInv,
         NEW a \in {"opmode", "promode", "admin", "htmode", "freq", "power"}, Tune!Untouched(a)
  PROVE  Tune!Shows(Tune!Executed(R).radio)[a] = Tune!Shows(radio)[a]
<1> DEFINE r == Tune!Executed(R).radio
<1>1. Tune!IsRadio(radio)
  BY DEF TuneIInv, Tune!TuneIInv, Tune!TuneTyped
<1>2. Tune!Made \subseteq Tune!Due
  BY DEF Tune!Made
<1>3. /\ r.type = (IF "opmode" \in Tune!Made THEN Tune!opmode2nl(staged.opmode) ELSE radio.type)
      /\ r.promisc = (IF "promode" \in Tune!Made THEN staged.promode = "ENABLED" ELSE radio.promisc)
      /\ r.up = (IF "admin" \in Tune!Made THEN staged.admin = "UP" ELSE radio.up)
      /\ r.power = (IF "power" \in Tune!Made THEN staged.power ELSE radio.power)
      /\ "admin" \notin Tune!Made /\ "channel" \notin Tune!Made =>
           r.freq = radio.freq /\ r.width = radio.width
  BY <1>1, MadeIs
<1>4. \A s : /\ Tune!Shows(s).opmode = Tune!nl2opmode(s.type)
             /\ Tune!Shows(s).promode = (IF s.promisc THEN "ENABLED" ELSE "DISABLED")
             /\ Tune!Shows(s).admin = (IF s.up THEN "UP" ELSE "DOWN")
             /\ Tune!Shows(s).htmode = Tune!nl2htmode(s.width)
             /\ Tune!Shows(s).freq = s.freq /\ Tune!Shows(s).power = s.power
  BY DEF Tune!Shows
<1> HIDE DEF r
<1>5. CASE a \in {"opmode", "promode", "admin", "power"}
  <2>1. ~Tune!Differs(a)
    BY <1>5 DEF Tune!Untouched, Tune!Causes
  <2>2. a \notin Tune!Made
    BY <1>2, <1>5, <2>1 DEF Tune!Due
  <2> QED
    BY <1>3, <1>4, <1>5, <2>2 DEF r
<1>6. CASE a \in {"htmode", "freq"}
  <2>1. \A c \in Tune!ChannelSettings \cup {"admin"} : ~Tune!Differs(c)
    BY <1>6 DEF Tune!Untouched, Tune!Causes
  <2>2. "admin" \notin Tune!Made /\ "channel" \notin Tune!Made
    BY <1>2, <2>1 DEF Tune!Due
  <2> QED
    BY <1>3, <1>4, <1>6, <2>2 DEF r
<1> QED
  BY <1>5, <1>6

LEMMA ClientsAsk ==
  WirelessAssumption =>
    /\ \A m \in Clients : \A c \in {m.offers} \cup m.configs :
         DOMAIN c \subseteq Tune!Settings
    /\ \A m \in Clients : "freq" \in DOMAIN m.offers => m.offers.freq \subseteq Nat
    /\ \A m \in Clients : \A c \in m.configs : "freq" \in DOMAIN c => c.freq \in Nat
    /\ \A r \in Radios : Tune!IsRadio(r)
    /\ Radios # {} /\ Clients # {}
BY DEF WirelessAssumption

\* A value that a client gives is stored as one of the configuration.
LEMMA GivenIs ==
  ASSUME NEW a, NEW v
  PROVE  /\ a \in DOMAIN Tune!Texts => Tune!Given(a, v) \in Tune!Texts[a] \cup {Tune!Default[a]}
         /\ Tune!Given("freq", v) = Tune!chan2freq(v)
<1>1. "freq" \notin DOMAIN Tune!Texts
  BY DEF Tune!Texts
<1>2. \A u : a \in DOMAIN Tune!Texts => Tune!Stored(a, u) \in Tune!Texts[a] \cup {Tune!Default[a]}
  BY DEF Tune!Stored
<1>3. \A u : Tune!Stored("freq", u) = u
  BY <1>1 DEF Tune!Stored
<1> QED
  BY <1>2, <1>3 DEF Tune!Given

\* Whatever becomes of its commands, a Commit leaves a radio.
LEMMA LeavesRadio ==
  ASSUME NEW R, Tune!IsRadio(radio)
  PROVE  Tune!IsRadio(Tune!Executed(R).radio)
<1> DEFINE do(s, c) ==
             IF c \notin Tune!Made THEN s
             ELSE IF c \notin R /\ Tune!Accepts(s.radio, c) THEN [s EXCEPT !.radio = Tune!Applied(@, c)]
             ELSE [s EXCEPT !.ok = FALSE]
           s0 == [radio |-> radio, ok |-> (Tune!Made = Tune!Due)]
           Is(s) == DOMAIN s = {"radio", "ok"} /\ Tune!IsRadio(s.radio)
<1>1. Tune!Executed(R) = do(do(do(do(do(s0, "opmode"), "promode"), "admin"), "channel"), "power")
  BY DEF Tune!Executed
<1>2. ASSUME NEW r, Tune!IsRadio(r), NEW c \in {"opmode", "promode", "admin", "channel", "power"}
      PROVE  Tune!IsRadio(Tune!Applied(r, c))
  BY <1>2, AppliedIs DEF Alters
<1>3. ASSUME NEW s, Is(s), NEW c \in {"opmode", "promode", "admin", "channel", "power"}
      PROVE  Is(do(s, c))
  <2>1. CASE c \notin Tune!Made
    BY <1>3, <2>1
  <2>2. CASE c \in Tune!Made /\ c \notin R /\ Tune!Accepts(s.radio, c)
    <3>1. do(s, c) = [s EXCEPT !.radio = Tune!Applied(@, c)]
      BY <2>2
    <3>2. Tune!IsRadio(Tune!Applied(s.radio, c))
      BY <1>2, <1>3
    <3> QED
      BY <1>3, <3>1, <3>2
  <2>3. CASE c \in Tune!Made /\ ~(c \notin R /\ Tune!Accepts(s.radio, c))
    <3>1. do(s, c) = [s EXCEPT !.ok = FALSE]
      BY <2>3
    <3> QED
      BY <1>3, <3>1
  <2> QED
    BY <2>1, <2>2, <2>3
<1>4. Is(s0)
  OBVIOUS
<1> HIDE DEF do, s0
<1>5. Is(do(do(do(do(do(s0, "opmode"), "promode"), "admin"), "channel"), "power"))
  <2> HIDE DEF Is
  <2>1. Is(do(do(s0, "opmode"), "promode"))
    BY <1>3, <1>4
  <2>2. Is(do(do(do(do(s0, "opmode"), "promode"), "admin"), "channel"))
    BY <1>3, <2>1
  <2> QED
    BY <1>3, <2>2
<1> QED
  BY <1>1, <1>5

LEMMA CommitDoingKeeps ==
  ASSUME NEW R, NEW came, TuneIInv, Tune!CommitDoing(R, came)
  PROVE  TuneIInv'
<1> DEFINE s == Tune!Executed(R)
<1>1. radio' = s.radio /\ client' = client
  BY DEF Tune!CommitDoing
<1>2. Tune!TuneTyped /\ Tune!ChannelStaged /\ Tune!WorkingShown /\ Tune!IsRadio(s.radio)
  BY LeavesRadio DEF TuneIInv, Tune!TuneIInv, Tune!TuneTyped
<1>3. CASE s.ok /\ came
  <2>1. /\ working' = Tune!Refreshed(s.radio) /\ staged' = working' /\ copied' = Tune!Unanswered(s.radio)
        /\ channel' = 0
    BY <1>3 DEF Tune!CommitDoing
  <2>2. /\ Tune!IsConfig(working') /\ working'.promode = working.promode
        /\ \A a \in DOMAIN Tune!Shows(radio') \ {"promode"} :
             a \in copied' \/ working'[a] \in {Tune!Default[a], Tune!Shows(radio')[a]}
    BY <1>1, <1>2, <2>1, RefreshedIs DEF Tune!TuneTyped
  <2>3. Tune!TuneTyped'
    BY <1>1, <1>2, <2>1, <2>2 DEF Tune!TuneTyped
  <2>4. Tune!ChannelStaged'
    BY <2>1 DEF Tune!ChannelStaged
  <2>5. Tune!WorkingShown'
    BY <1>2, <2>2 DEF Tune!WorkingShown
  <2> QED
    BY <2>3, <2>4, <2>5 DEF TuneIInv, Tune!TuneIInv
<1>4. CASE ~(s.ok /\ came)
  <2>1. ~sure' /\ UNCHANGED <<staged, working, channel, copied>>
    BY <1>4 DEF Tune!CommitDoing, Tune!config
  <2>2. Tune!TuneTyped' /\ Tune!ChannelStaged'
    BY <1>1, <1>2, <2>1 DEF Tune!TuneTyped, Tune!ChannelStaged
  <2>3. Tune!WorkingShown'
    BY <1>2, <2>1 DEF Tune!WorkingShown
  <2> QED
    BY <2>2, <2>3 DEF TuneIInv, Tune!TuneIInv
<1> QED
  BY <1>3, <1>4

LEMMA TuneStep ==
  ASSUME TuneIInv, Tune!Next
  PROVE  TuneIInv'
<1>0. Tune!TuneTyped /\ Tune!ChannelStaged /\ Tune!WorkingShown
  BY DEF TuneIInv, Tune!TuneIInv
<1>00. /\ DOMAIN Tune!Texts = {"opmode", "htmode", "promode", "admin"}
       /\ Tune!Settings = {"opmode", "htmode", "freq", "cf1", "cf2", "power", "promode", "admin"}
  BY DEF Tune!Texts, Tune!Settings, Tune!Default
<1>1. ASSUME NEW a \in DOMAIN client.offers, NEW v \in client.offers[a], Tune!Ask(a, v)
      PROVE  TuneIInv'
  <2>1. /\ staged' = [staged EXCEPT ![a] = Tune!Given(a, v)]
        /\ channel' = (IF a = "freq" THEN v ELSE channel)
        /\ UNCHANGED <<client, radio, working, copied, sure>>
    BY <1>1 DEF Tune!Ask
  <2>2. a \in Tune!Settings /\ (a = "freq" => v \in Nat)
    BY <1>0, <1>1, WirelessAssumption, ClientsAsk DEF Tune!TuneTyped
  <2>3. Tune!IsConfig(staged')
    BY <1>0, <2>1, GivenIs DEF Tune!TuneTyped, Tune!IsConfig
  <2>4. Tune!TuneTyped'
    BY <1>0, <2>1, <2>3 DEF Tune!TuneTyped
  <2>5. Tune!ChannelStaged'
    <3>1. CASE a = "freq"
      BY <1>0, <1>00, <2>1, <2>2, <3>1, GivenIs DEF Tune!ChannelStaged, Tune!TuneTyped, Tune!IsConfig
    <3>2. CASE a # "freq"
      BY <1>0, <1>00, <2>1, <3>2 DEF Tune!ChannelStaged, Tune!TuneTyped, Tune!IsConfig
    <3> QED
      BY <3>1, <3>2
  <2>6. Tune!WorkingShown'
    BY <1>0, <2>1 DEF Tune!WorkingShown
  <2> QED
    BY <2>4, <2>5, <2>6 DEF TuneIInv, Tune!TuneIInv
<1>2. ASSUME NEW c \in client.configs, Tune!SetConfig(c)
      PROVE  TuneIInv'
  <2>1. /\ staged' = [a \in Tune!Settings |-> IF a \in DOMAIN c THEN Tune!Given(a, c[a]) ELSE working[a]]
        /\ channel' = (IF "freq" \in DOMAIN c THEN c.freq ELSE 0)
        /\ UNCHANGED <<client, radio, working, copied, sure>>
    BY <1>2 DEF Tune!SetConfig
  <2>2. "freq" \in DOMAIN c => c.freq \in Nat
    BY <1>0, <1>2, WirelessAssumption, ClientsAsk DEF Tune!TuneTyped
  <2>3. Tune!IsConfig(staged')
    <3>1. DOMAIN staged' = Tune!Settings /\ \A a \in DOMAIN Tune!Texts : a \in Tune!Settings
      BY <1>00, <2>1
    <3>2. ASSUME NEW a \in DOMAIN Tune!Texts PROVE staged'[a] \in Tune!Texts[a] \cup {Tune!Default[a]}
      BY <1>0, <2>1, <3>1, GivenIs DEF Tune!TuneTyped, Tune!IsConfig
    <3> QED
      BY <3>1, <3>2 DEF Tune!IsConfig
  <2>4. Tune!TuneTyped'
    BY <1>0, <2>1, <2>3 DEF Tune!TuneTyped
  <2>5. Tune!ChannelStaged'
    BY <1>00, <2>1, <2>2, GivenIs DEF Tune!ChannelStaged
  <2>6. Tune!WorkingShown'
    BY <1>0, <2>1 DEF Tune!WorkingShown
  <2> QED
    BY <2>4, <2>5, <2>6 DEF TuneIInv, Tune!TuneIInv
<1>3. CASE Tune!Refresh
  <2>1. /\ working' = Tune!Refreshed(radio) /\ copied' = Tune!Unanswered(radio)
        /\ UNCHANGED <<client, radio, staged, channel>>
    BY <1>3 DEF Tune!Refresh
  <2>2. /\ Tune!IsConfig(working') /\ working'.promode = working.promode
        /\ \A a \in DOMAIN Tune!Shows(radio') \ {"promode"} :
             a \in copied' \/ working'[a] \in {Tune!Default[a], Tune!Shows(radio')[a]}
    BY <1>0, <2>1, RefreshedIs DEF Tune!TuneTyped
  <2>3. Tune!TuneTyped' /\ Tune!ChannelStaged'
    BY <1>0, <2>1, <2>2 DEF Tune!TuneTyped, Tune!ChannelStaged
  <2>4. Tune!WorkingShown'
    BY <1>0, <2>2 DEF Tune!WorkingShown
  <2> QED
    BY <2>3, <2>4 DEF TuneIInv, Tune!TuneIInv
<1>4. CASE Tune!Commit
  BY <1>4, CommitDoingKeeps DEF Tune!Commit
<1>5. CASE Tune!Outside
  <2>1. ~sure' /\ UNCHANGED <<client, staged, working, channel, copied>>
        /\ (radio' = Tune!WithAdmin(radio, ~radio.up) \/ radio' \in Radios)
    BY <1>5 DEF Tune!Outside, Tune!config
  <2>2. Tune!IsRadio(radio')
    <3>1. ASSUME NEW up \in BOOLEAN PROVE Tune!IsRadio(Tune!WithAdmin(radio, up))
      BY <1>0 DEF Tune!TuneTyped, Tune!IsRadio, Tune!RadioFields, Tune!WithAdmin
    <3>2. (~radio.up) \in BOOLEAN
      OBVIOUS
    <3> QED
      BY <2>1, <3>1, <3>2, WirelessAssumption, ClientsAsk
  <2>3. Tune!TuneTyped' /\ Tune!ChannelStaged'
    BY <1>0, <2>1, <2>2 DEF Tune!TuneTyped, Tune!ChannelStaged
  <2>4. Tune!WorkingShown'
    BY <1>0, <2>1 DEF Tune!WorkingShown
  <2> QED
    BY <2>3, <2>4 DEF TuneIInv, Tune!TuneIInv
<1> QED
  BY <1>1, <1>2, <1>3, <1>4, <1>5 DEF Tune!Next

LEMMA TuneStart == WirelessInit => TuneIInv
<1> SUFFICES ASSUME WirelessInit PROVE TuneIInv
  OBVIOUS
<1>1. /\ client \in Clients /\ radio \in Radios /\ staged = Tune!Default /\ working = Tune!Default
      /\ channel = 0 /\ sure = FALSE
  BY WirelessAssumption, ClientsAsk DEF WirelessInit, AtRest, Tune!Init
<1>2. Tune!IsConfig(Tune!Default)
  BY DEF Tune!IsConfig, Tune!Settings
<1>3. Tune!TuneTyped /\ Tune!ChannelStaged /\ Tune!WorkingShown
  BY <1>1, <1>2, WirelessAssumption, ClientsAsk DEF Tune!TuneTyped, Tune!ChannelStaged, Tune!WorkingShown
<1> QED
  BY <1>3 DEF TuneIInv, Tune!TuneIInv

\* TunesAsAsked: for any clients and radios, a Commit that returns true made the
\* radio what the client asked of it, where it can tell, and left it where it
\* cannot (Wireless, Tuning).
THEOREM Tunes == WirelessSpec => TunesAsAsked
<1>1. WirelessInit => TuneIInv
  BY TuneStart
<1>2. TuneIInv /\ [WirelessNext]_allvars => TuneIInv'
  <2> SUFFICES ASSUME TuneIInv, [WirelessNext]_allvars PROVE TuneIInv'
    OBVIOUS
  <2>1. CASE UNCHANGED tunes
    BY <2>1 DEF tunes, TuneIInv, Tune!TuneIInv, Tune!TuneTyped, Tune!ChannelStaged, Tune!WorkingShown
  <2>2. CASE Tune!Next
    BY <2>2, TuneStep
  <2> QED
    BY <2>1, <2>2 DEF WirelessNext, allvars
<1>3. TuneIInv /\ [WirelessNext]_allvars =>
        [Tune!ReturnsTrue =>
           /\ \A a \in DOMAIN Tune!Shows(radio') : Tune!Pending(a) =>
                Tune!Shows(radio')[a] = IF a = "htmode" THEN Tune!Alike(staged[a]) ELSE staged[a]
           /\ channel # 0 /\ Tune!Pending("freq") => Tune!freq2chan(radio'.freq) = channel
           /\ \A a \in DOMAIN Tune!Shows(radio') : Tune!Untouched(a) =>
                Tune!Shows(radio')[a] = Tune!Shows(radio)[a]]_(Tune!tvars)
  <2> SUFFICES ASSUME TuneIInv, Tune!ReturnsTrue
               PROVE  /\ \A a \in DOMAIN Tune!Shows(radio') : Tune!Pending(a) =>
                           Tune!Shows(radio')[a] = IF a = "htmode" THEN Tune!Alike(staged[a]) ELSE staged[a]
                      /\ channel # 0 /\ Tune!Pending("freq") => Tune!freq2chan(radio'.freq) = channel
                      /\ \A a \in DOMAIN Tune!Shows(radio') : Tune!Untouched(a) =>
                           Tune!Shows(radio')[a] = Tune!Shows(radio)[a]
    OBVIOUS
  <2>1. sure /\ sure' /\ \E R, came : Tune!CommitDoing(R, came)
    BY DEF Tune!ReturnsTrue, Tune!Commit
  <2>2. PICK R, came : Tune!CommitDoing(R, came)
    BY <2>1
  <2>3. radio' = Tune!Executed(R).radio /\ Tune!Executed(R).ok
    BY <2>1, <2>2 DEF Tune!CommitDoing
  <2>4. /\ DOMAIN Tune!Shows(radio') = {"opmode", "promode", "admin", "htmode", "freq", "power"}
        /\ Tune!Shows(radio').freq = radio'.freq
    BY DEF Tune!Shows
  <2>5. \A a \in DOMAIN Tune!Shows(radio') : Tune!Pending(a) =>
          Tune!Shows(radio')[a] = IF a = "htmode" THEN Tune!Alike(staged[a]) ELSE staged[a]
    BY <2>1, <2>3, <2>4, CommitShows
  <2>6. ASSUME channel # 0, Tune!Pending("freq") PROVE Tune!freq2chan(radio'.freq) = channel
    <3>1. channel \in Nat /\ staged.freq = Tune!chan2freq(channel)
      BY <2>6 DEF TuneIInv, Tune!TuneIInv, Tune!ChannelStaged
    <3>2. staged.freq # 0
      BY <2>6 DEF Tune!Pending, Tune!Default
    <3>3. radio'.freq = staged.freq
      BY <2>4, <2>5, <2>6
    <3> QED
      BY <3>1, <3>2, <3>3, ChannelBack
  <2>7. \A a \in DOMAIN Tune!Shows(radio') : Tune!Untouched(a) =>
          Tune!Shows(radio')[a] = Tune!Shows(radio)[a]
    BY <2>3, <2>4, CommitLeaves
  <2> QED
    BY <2>5, <2>6, <2>7
<1> QED
  BY <1>1, <1>2, <1>3, PTL DEF WirelessSpec, TunesAsAsked, Tune!TunesAsAsked
=============================================================================
