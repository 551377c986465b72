----------------------------- MODULE SocketProofs -----------------------------
(***************************************************************************)
(* Between the callers of Send and Recv and the kernel no packet is lost,  *)
(* doubled or overtaken, whatever the traffic: every Send is answered by   *)
(* one notification and every datagram received by one, in their order, up *)
(* to and after the destruction of the socket.                             *)
(***************************************************************************)
EXTENDS Socket, SequenceTheorems, TLAPS

USE DEF Threads

-----------------------------------------------------------------------------
(* Notifications and the order they are numbered in *)

LEMMA NoteFields ==
  /\ \A x \in SendNotes : x.of = "send" /\ x.id \in Nat
  /\ \A x \in PacketNotes : x.of = "packet" /\ x.id \in Nat
  /\ \A x \in EmptyNotes : x.of = "nothing" /\ x.id \in Nat
  /\ Nothing \in EmptyNotes /\ \A x \in SendNotes \cup PacketNotes : x # Nothing
  /\ \A x \in AllNotes : x.of \in {"send", "packet", "nothing"} /\ x.id \in Nat
<1>1. \A x \in SendNotes : x.of = "send" /\ x.id \in Nat
  BY DEF SendNotes, Sent
<1>2. \A x \in PacketNotes : x.of = "packet" /\ x.id \in Nat
  BY DEF PacketNotes, Received
<1>3. \A x \in EmptyNotes : x.of = "nothing" /\ x.id \in Nat
  BY DEF EmptyNotes, Nothing
<1>4. Nothing \in EmptyNotes /\ Nothing.of = "nothing"
  BY DEF EmptyNotes, Nothing
<1> QED
  BY <1>1, <1>2, <1>3, <1>4 DEF AllNotes

\* What Numbered says, a fact at a time.
LEMMA NumberedMeans ==
  ASSUME NEW s, NEW q, NEW n
  PROVE  Numbered(s, q, n) <=>
           /\ \A j, k \in DOMAIN q :
                q[j].of = s /\ q[k].of = s /\ j < k => q[j].id < q[k].id
           /\ \A k \in DOMAIN q : q[k].of = s => q[k].id \in 1..n
           /\ \A i \in 1..n : \E k \in DOMAIN q : q[k].of = s /\ q[k].id = i
<1> DEFINE K == {k \in DOMAIN q : q[k].of = s}
<1>1. Numbered(s, q, n) <=>
        (\A j, k \in K : j < k => q[j].id < q[k].id) /\ {q[k].id : k \in K} = 1..n
  BY DEF Numbered
<1>2. {q[k].id : k \in K} = 1..n <=>
        (\A k \in K : q[k].id \in 1..n) /\ (\A i \in 1..n : \E k \in K : q[k].id = i)
  <2> HIDE DEF K
  <2> QED
    OBVIOUS
<1>3. (\A j, k \in K : j < k => q[j].id < q[k].id) <=>
        \A j, k \in DOMAIN q : q[j].of = s /\ q[k].of = s /\ j < k => q[j].id < q[k].id
  OBVIOUS
<1> QED
  BY <1>1, <1>2, <1>3

LEMMA NumberedNext ==
  ASSUME NEW s, NEW q \in Seq(AllNotes), NEW n \in Nat, Numbered(s, q, n),
         NEW x \in AllNotes, x.of = s, x.id = n + 1
  PROVE  Numbered(s, Append(q, x), n + 1)
<1> DEFINE t == Append(q, x)  l == Len(q) + 1
<1>1. /\ DOMAIN t = DOMAIN q \cup {l} /\ t[l] = x /\ l \in Nat
      /\ \A k \in DOMAIN q : k \in Nat /\ k < l /\ t[k] = q[k]
  OBVIOUS
<1> HIDE DEF t, l
<1>2. \A j, k \in DOMAIN q : q[j].of = s /\ q[k].of = s /\ j < k => q[j].id < q[k].id
  BY NumberedMeans
<1>3. \A k \in DOMAIN q : q[k].of = s => q[k].id \in 1..n
  BY NumberedMeans
<1>4. \A i \in 1..n : \E k \in DOMAIN q : q[k].of = s /\ q[k].id = i
  BY NumberedMeans
<1>5. \A j, k \in DOMAIN t : t[j].of = s /\ t[k].of = s /\ j < k => t[j].id < t[k].id
  <2> SUFFICES ASSUME NEW j \in DOMAIN t, NEW k \in DOMAIN t,
                      t[j].of = s, t[k].of = s, j < k
               PROVE  t[j].id < t[k].id
    OBVIOUS
  <2>1. j \in DOMAIN q /\ t[j] = q[j]
    BY <1>1
  <2>2. CASE k = l
    BY <2>1, <2>2, <1>1, <1>3
  <2>3. CASE k \in DOMAIN q
    BY <2>1, <2>3, <1>1, <1>2
  <2> QED
    BY <2>2, <2>3, <1>1
<1>6. \A k \in DOMAIN t : t[k].of = s => t[k].id \in 1..(n + 1)
  BY <1>1, <1>3
<1>7. \A i \in 1..(n + 1) : \E k \in DOMAIN t : t[k].of = s /\ t[k].id = i
  <2> SUFFICES ASSUME NEW i \in 1..(n + 1)
               PROVE  \E k \in DOMAIN t : t[k].of = s /\ t[k].id = i
    OBVIOUS
  <2>1. CASE i = n + 1
    BY <2>1, <1>1
  <2>2. CASE i \in 1..n
    BY <2>2, <1>1, <1>4
  <2> QED
    BY <2>1, <2>2
<1> QED
  BY <1>5, <1>6, <1>7, NumberedMeans DEF t

LEMMA NumberedOther ==
  ASSUME NEW s, NEW q \in Seq(AllNotes), NEW n \in Int, Numbered(s, q, n),
         NEW x \in AllNotes, x.of # s
  PROVE  Numbered(s, Append(q, x), n)
<1> DEFINE t == Append(q, x)  l == Len(q) + 1
<1>1. /\ DOMAIN t = DOMAIN q \cup {l} /\ t[l] = x
      /\ \A k \in DOMAIN q : t[k] = q[k]
  OBVIOUS
<1> HIDE DEF t, l
<1>2. \A j, k \in DOMAIN q : q[j].of = s /\ q[k].of = s /\ j < k => q[j].id < q[k].id
  BY NumberedMeans
<1>3. \A k \in DOMAIN q : q[k].of = s => q[k].id \in 1..n
  BY NumberedMeans
<1>4. \A i \in 1..n : \E k \in DOMAIN q : q[k].of = s /\ q[k].id = i
  BY NumberedMeans
<1>5. \A k \in DOMAIN t : t[k].of = s => k \in DOMAIN q /\ t[k] = q[k]
  BY <1>1
<1>6. \A i \in 1..n : \E k \in DOMAIN t : t[k].of = s /\ t[k].id = i
  BY <1>1, <1>4
<1> QED
  BY <1>2, <1>3, <1>5, <1>6, NumberedMeans DEF t

\* Recv moves a notification, or drops one that says nothing.
LEMMA MovedOut ==
  ASSUME NEW g \in Seq(AllNotes), NEW r \in Seq(AllNotes), r # << >>
  PROVE  Append(g, Head(r)) \o Tail(r) = g \o r
<1>1. r = <<Head(r)>> \o Tail(r) /\ Tail(r) \in Seq(AllNotes) /\ Head(r) \in AllNotes
  OBVIOUS
<1>2. Append(g, Head(r)) = g \o <<Head(r)>>
  BY <1>1, AppendIsConcat
<1>3. (g \o <<Head(r)>>) \o Tail(r) = g \o (<<Head(r)>> \o Tail(r))
  BY <1>1, ConcatAssociative
<1> QED
  BY <1>1, <1>2, <1>3

LEMMA NumberedDropped ==
  ASSUME NEW s, NEW g \in Seq(AllNotes), NEW r \in Seq(AllNotes), r # << >>,
         Head(r).of # s, NEW n, Numbered(s, g \o r, n)
  PROVE  Numbered(s, g \o Tail(r), n)
<1> DEFINE q == g \o r  t == g \o Tail(r)  l == Len(g) + 1
<1>1. /\ q \in Seq(AllNotes) /\ Len(q) = Len(g) + Len(r) /\ l \in DOMAIN q /\ q[l] = Head(r)
      /\ t \in Seq(AllNotes) /\ Len(t) = Len(q) - 1
      /\ \A k \in 1..Len(g) : q[k] = g[k] /\ t[k] = g[k]
      /\ \A k \in DOMAIN t : k >= l => t[k] = Tail(r)[k - Len(g)] /\ q[k + 1] = r[k + 1 - Len(g)]
  OBVIOUS
<1>2. \A k \in DOMAIN t : k >= l => t[k] = q[k + 1]
  BY <1>1
<1>3. \A k \in DOMAIN t : k < l => t[k] = q[k]
  BY <1>1
<1>4. l \in Nat /\ DOMAIN t = 1..(Len(q) - 1) /\ DOMAIN q = 1..Len(q) /\ Len(q) \in Nat
  BY <1>1
<1>5. q[l].of # s
  BY <1>1
<1>6. Numbered(s, q, n)
  OBVIOUS
<1> HIDE DEF q, t, l
<1>7. \A j, k \in DOMAIN q : q[j].of = s /\ q[k].of = s /\ j < k => q[j].id < q[k].id
  BY <1>6, NumberedMeans
<1>8. \A k \in DOMAIN q : q[k].of = s => q[k].id \in 1..n
  BY <1>6, NumberedMeans
<1>9. \A i \in 1..n : \E k \in DOMAIN q : q[k].of = s /\ q[k].id = i
  BY <1>6, NumberedMeans
<1> DEFINE f(k) == IF k < l THEN k ELSE k + 1
<1>10. \A k \in DOMAIN t : f(k) \in DOMAIN q /\ t[k] = q[f(k)]
  BY <1>2, <1>3, <1>4
<1>11. \A j, k \in DOMAIN t : j < k => f(j) < f(k)
  BY <1>4
<1>12. \A k \in DOMAIN q : k # l => \E j \in DOMAIN t : f(j) = k
  <2> SUFFICES ASSUME NEW k \in DOMAIN q, k # l PROVE \E j \in DOMAIN t : f(j) = k
    OBVIOUS
  <2>1. CASE k < l
    <3>1. l \in DOMAIN q
      BY <1>1
    <3>2. k \in DOMAIN t /\ f(k) = k
      BY <2>1, <3>1, <1>4
    <3> QED
      BY <3>2
  <2>2. CASE k > l
    <3>1. k \in Nat /\ k <= Len(q) /\ l \in Nat /\ l >= 1
      BY <1>1, <1>4
    <3>2. k - 1 \in 1..(Len(q) - 1) /\ ~(k - 1 < l) /\ (k - 1) + 1 = k
      BY <2>2, <3>1, <1>4
    <3> QED
      BY <3>2, <1>4
  <2> QED
    BY <2>1, <2>2, <1>4
<1> HIDE DEF f
<1>13. \A j, k \in DOMAIN t : t[j].of = s /\ t[k].of = s /\ j < k => t[j].id < t[k].id
  BY <1>7, <1>10, <1>11
<1>14. \A k \in DOMAIN t : t[k].of = s => t[k].id \in 1..n
  BY <1>8, <1>10
<1>15. \A i \in 1..n : \E k \in DOMAIN t : t[k].of = s /\ t[k].id = i
  BY <1>5, <1>9, <1>10, <1>12
<1>16. Numbered(s, t, n)
  BY <1>13, <1>14, <1>15, NumberedMeans
<1> QED
  BY <1>16 DEF t

\* What Tail takes.
LEMMA TailIs ==
  ASSUME NEW S, NEW q \in Seq(S), q # << >>
  PROVE  /\ Tail(q) \in Seq(S) /\ Len(q) \in Nat /\ Len(q) > 0 /\ Len(Tail(q)) = Len(q) - 1
         /\ Head(q) = q[1] /\ Head(q) \in S /\ 1 \in DOMAIN q
         /\ \A k \in DOMAIN Tail(q) : k \in Nat /\ k + 1 \in DOMAIN q /\ Tail(q)[k] = q[k + 1]
<1>1. Len(q) \in Nat /\ Len(q) > 0 /\ DOMAIN q = 1..Len(q)
  OBVIOUS
<1>2. Tail(q) \in Seq(S) /\ Len(Tail(q)) = Len(q) - 1
  OBVIOUS
<1>3. DOMAIN Tail(q) = 1..(Len(q) - 1)
  BY <1>1, <1>2
<1>4. \A k \in DOMAIN Tail(q) : Tail(q)[k] = q[k + 1]
  BY <1>1, <1>3
<1>5. 1 \in DOMAIN q /\ \A k \in DOMAIN Tail(q) : k \in Nat /\ k + 1 \in DOMAIN q
  BY <1>1, <1>3
<1>6. Head(q) = q[1] /\ Head(q) \in S
  BY <1>5
<1> QED
  BY <1>1, <1>2, <1>4, <1>5, <1>6

-----------------------------------------------------------------------------
(* The invariant, step by step *)

LEMMA OutNotes == Typed => Out \in Seq(AllNotes)
BY DEF Typed, Out

\* What is put on rxq is last of all that is given, or waits for Recv.
LEMMA OutAppend ==
  ASSUME NEW g \in Seq(AllNotes), NEW r \in Seq(AllNotes), NEW x \in AllNotes
  PROVE  g \o Append(r, x) = Append(g \o r, x) /\ g \o r \in Seq(AllNotes)
<1>1. Append(r, x) = r \o <<x>> /\ <<x>> \in Seq(AllNotes) /\ g \o r \in Seq(AllNotes)
  BY AppendIsConcat
<1>2. Append(g \o r, x) = (g \o r) \o <<x>>
  BY <1>1, AppendIsConcat
<1>3. (g \o r) \o <<x>> = g \o (r \o <<x>>)
  BY <1>1, ConcatAssociative
<1> QED
  BY <1>1, <1>2, <1>3

LEMMA InitIInv == Init => IInv
<1> SUFFICES ASSUME Init PROVE IInv
  OBVIOUS
<1>1. \A S : << >> \in Seq(S) /\ Len(<< >>) = 0
  OBVIOUS
<1>2. Out = << >>
  BY DEF Init, Out
<1>3. TakenSends = 0 /\ TakenPackets = 0
  <2>1. \A k, l \in Nat : k = l => k - l = 0
    OBVIOUS
  <2>2. sent = 0 /\ arrived = 0 /\ Len(txq) = 0 /\ Len(wire) = 0
    BY <1>1 DEF Init
  <2> QED
    BY <2>1, <2>2 DEF TakenSends, TakenPackets
<1>4. Typed
  BY <1>1, NoteFields DEF Init, Typed, AllNotes
<1>5. AtWork
  BY DEF Init, AtWork, HasData
<1>6. \A s : Numbered(s, << >>, 0)
  BY DEF Numbered
<1>9. Counted
  BY <1>3, NoteFields DEF Counted, Init
<1>7. EverySendOnce
  BY <1>2, <1>3, <1>6 DEF EverySendOnce, Init
<1>8. EveryPacketOnce
  BY <1>2, <1>3, <1>6, NoteFields DEF EveryPacketOnce, Init
<1> QED
  BY <1>3, <1>4, <1>5, <1>7, <1>8, <1>9 DEF IInv

\* What moves no notification and no datagram.
LEMMA NothingMoves ==
  ASSUME Counted, EverySendOnce, EveryPacketOnce,
         UNCHANGED <<kind, hand, wire, arrived, txq, rxq, given, sent>>
  PROVE  Counted' /\ EverySendOnce' /\ EveryPacketOnce'
<1>1. Out' = Out /\ TakenSends' = TakenSends /\ TakenPackets' = TakenPackets
  BY DEF Out, TakenSends, TakenPackets
<1> QED
  BY <1>1 DEF Counted, EverySendOnce, EveryPacketOnce

\* The owner within Bind and the destructor, and what asks the threads to end.
LEMMA OwnerIInv ==
  ASSUME IInv,
         \/ Bind \/ StartRx \/ StartTx \/ SetAddress \/ Destroy \/ InterfaceDown
         \/ \E t \in Threads : Join(t) \/ Signal(t)
  PROVE  IInv'
<1>1. UNCHANGED <<kind, hand, wire, arrived, txq, rxq, given, sent, ready>>
  BY DEF Bind, StartRx, StartTx, SetAddress, Destroy, InterfaceDown, Join, Signal,
         owner, threads, net, queues
<1>2. /\ addr' \in {"other", "own"} /\ err' \in BOOLEAN
      /\ run' \in [Threads -> {"none", "poll", "work", "done"}]
  BY DEF Bind, StartRx, StartTx, SetAddress, Destroy, InterfaceDown, Join, Signal,
         threads, net, queues, owner, IInv, Typed
<1>3. Typed'
  BY <1>1, <1>2 DEF IInv, Typed
<1>4. AtWork'
  <2>1. \A t \in Threads : run'[t] # run[t] => run[t] \in {"none", "done"} /\ run'[t] \in {"none", "poll"}
    BY DEF Bind, StartRx, StartTx, SetAddress, Destroy, InterfaceDown, Join, Signal,
           threads, net, queues, owner, IInv, Typed, AtWork
  <2>2. kind = "loop" => run'["rx"] = "none" /\ stage' # "startRx"
    BY DEF Bind, StartRx, StartTx, SetAddress, Destroy, InterfaceDown, Join, Signal, AfterStop,
           threads, net, queues, owner, IInv, Typed, AtWork
  <2>3. /\ stage' \in {"new", "startRx"} => run'["rx"] = "none"
        /\ stage' \in {"new", "startRx", "startTx"} => run'["tx"] = "none"
    BY DEF Bind, StartRx, StartTx, SetAddress, Destroy, InterfaceDown, Join, Signal, AfterStop,
           threads, net, queues, owner, IInv, Typed, AtWork
  <2> QED
    BY <1>1, <2>1, <2>2, <2>3 DEF IInv, AtWork, HasData
<1> QED
  BY <1>1, <1>3, <1>4, NothingMoves DEF IInv

\* What the threads do between two notifications.
LEMMA LoopIInv ==
  ASSUME IInv, NEW t \in Threads, Poll(t) \/ Exit(t)
  PROVE  IInv'
<1>1. UNCHANGED <<owner, hand, net, queues>>
  BY DEF Poll, Exit
<1>2. UNCHANGED <<kind, stage, addr, err, hand, wire, arrived, txq, rxq, given, sent>>
  BY <1>1 DEF owner, net, queues
<1>3. CASE Poll(t)
  <2>1. /\ run' = [run EXCEPT ![t] = "work"] /\ run[t] = "poll"
        /\ ready' = [ready EXCEPT ![t] = Readable(t)]
    BY <1>3 DEF Poll
  <2>2. Readable(t) \subseteq {"exit", "data"} /\ ("data" \in Readable(t) => Data(t))
    BY DEF Readable
  <2>3. Typed'
    BY <1>2, <2>1, <2>2 DEF IInv, Typed
  <2>4. hand[t] = Nothing
    BY <2>1 DEF IInv, AtWork, HasData
  <2>5. HasData(t)' => Data(t)
    BY <2>1, <2>2 DEF HasData, IInv, Typed
  <2>6. \A u \in Threads : u # t => (HasData(u)' <=> HasData(u))
    BY <2>1 DEF HasData, IInv, Typed
  <2>7. AtWork'
    BY <1>2, <2>1, <2>4, <2>5, <2>6 DEF IInv, AtWork, Data, Typed
  <2> QED
    BY <1>2, <2>3, <2>7, NothingMoves DEF IInv
<1>4. CASE Exit(t)
  <2>1. /\ run' = [run EXCEPT ![t] = IF "exit" \in ready[t] THEN "done" ELSE "poll"]
        /\ ready' = [ready EXCEPT ![t] = {}] /\ run[t] = "work" /\ ready[t] = {"exit"}
    BY <1>4 DEF Exit, PassEnds
  <2>2. Typed'
    BY <1>2, <2>1 DEF IInv, Typed
  <2>3. hand[t] = Nothing
    BY <2>1 DEF IInv, AtWork, HasData
  <2>4. ~HasData(t)'
    BY <2>1 DEF HasData, IInv, Typed
  <2>5. \A u \in Threads : u # t => (HasData(u)' <=> HasData(u))
    BY <2>1 DEF HasData, IInv, Typed
  <2>6. AtWork'
    BY <1>2, <2>1, <2>3, <2>4, <2>5 DEF IInv, AtWork, Typed
  <2> QED
    BY <1>2, <2>2, <2>6, NothingMoves DEF IInv
<1> QED
  BY <1>3, <1>4

\* The other facts about a step of the one thread in hand.
LEMMA OthersWork ==
  ASSUME IInv, NEW t \in Threads, HasData(t), PassEnds(t), hand' = [hand EXCEPT ![t] = Nothing],
         UNCHANGED <<kind, stage>>, wire' = wire, txq' = txq
  PROVE  /\ AtWork'
         /\ run' \in [Threads -> {"none", "poll", "work", "done"}]
         /\ ready' \in [Threads -> SUBSET {"exit", "data"}]
         /\ hand'[t] = Nothing /\ \A u \in Threads : u # t => hand'[u] = hand[u]
<1>1. /\ run' = [run EXCEPT ![t] = IF "exit" \in ready[t] THEN "done" ELSE "poll"]
      /\ ready' = [ready EXCEPT ![t] = {}] /\ run[t] = "work"
  BY DEF PassEnds, HasData
<1>2. /\ run' \in [Threads -> {"none", "poll", "work", "done"}]
      /\ ready' \in [Threads -> SUBSET {"exit", "data"}]
  BY <1>1 DEF IInv, Typed
<1>3. hand'[t] = Nothing /\ \A u \in Threads : u # t => hand'[u] = hand[u]
  BY DEF IInv, Typed
<1>4. ~HasData(t)'
  BY <1>1 DEF HasData, IInv, Typed
<1>5. \A u \in Threads : u # t => (HasData(u)' <=> HasData(u))
  BY <1>1 DEF HasData, IInv, Typed
<1>6. AtWork'
  BY <1>1, <1>3, <1>4, <1>5 DEF IInv, AtWork, Typed
<1> QED
  BY <1>2, <1>3, <1>6

LEMMA SendIInv ==
  ASSUME IInv, Send
  PROVE  IInv'
<1> DEFINE x == Sent("ERR", sent + 1)  l == Len(txq) + 1
<1>1. /\ UNCHANGED <<kind, stage, addr, run, ready, hand, err, wire, arrived, rxq, given>>
      /\ sent' = sent + 1 /\ txq' = Append(txq, x)
  BY DEF Send, owner, threads, net
<1>2. x \in SendNotes /\ x.id = sent + 1
  BY DEF SendNotes, Sent, IInv, Typed
<1> HIDE DEF x
<1>3. /\ txq' \in Seq(SendNotes) /\ DOMAIN txq' = DOMAIN txq \cup {l} /\ txq'[l] = x
      /\ l \in Nat /\ Len(txq') = l /\ \A k \in DOMAIN txq : txq'[k] = txq[k]
  BY <1>1, <1>2 DEF IInv, Typed
<1>4. TakenSends' = TakenSends /\ sent + 1 = TakenSends + l
  BY <1>1, <1>3 DEF TakenSends, IInv, Typed
<1> HIDE DEF l
<1>5. Out' = Out /\ TakenPackets' = TakenPackets
  BY <1>1 DEF Out, TakenPackets
<1>6. Typed'
  BY <1>1, <1>3 DEF IInv, Typed
<1>7. AtWork'
  <2>1. txq' # << >>
    BY <1>3
  <2> QED
    BY <2>1, <1>1 DEF IInv, AtWork, HasData
<1>8. EverySendOnce'
  BY <1>1, <1>2, <1>3, <1>4, <1>5 DEF IInv, EverySendOnce
<1>9. EveryPacketOnce' /\ Counted'
  BY <1>1, <1>4, <1>5 DEF IInv, EveryPacketOnce, Counted
<1> QED
  BY <1>6, <1>7, <1>8, <1>9 DEF IInv

LEMMA ArriveIInv ==
  ASSUME IInv, Arrive
  PROVE  IInv'
<1> DEFINE l == Len(wire) + 1
<1>1. PICK e \in BOOLEAN : wire' = Append(wire, [id |-> arrived + 1, empty |-> e])
  BY DEF Arrive
<1>2. /\ UNCHANGED <<kind, stage, addr, run, ready, hand, err, txq, rxq, given, sent>>
      /\ kind # "loop" /\ arrived' = arrived + 1
  BY DEF Arrive, owner, threads, queues
<1>3. /\ wire' \in Seq([id : Nat, empty : BOOLEAN]) /\ DOMAIN wire' = DOMAIN wire \cup {l}
      /\ wire'[l].id = arrived + 1 /\ l \in Nat /\ Len(wire') = l
      /\ \A k \in DOMAIN wire : wire'[k] = wire[k]
  BY <1>1, <1>2 DEF IInv, Typed
<1>4. TakenPackets' = TakenPackets /\ arrived + 1 = TakenPackets + l
  <2>1. wire \in Seq([id : Nat, empty : BOOLEAN]) /\ arrived \in Nat
    BY DEF IInv, Typed
  <2>2. Len(wire) \in Nat
    BY <2>1
  <2> QED
    BY <2>1, <2>2, <1>2, <1>3 DEF TakenPackets
<1> HIDE DEF l
<1>5. Out' = Out /\ TakenSends' = TakenSends
  BY <1>2 DEF Out, TakenSends
<1>6. Typed'
  BY <1>2, <1>3 DEF IInv, Typed
<1>7. AtWork'
  <2>1. wire' # << >>
    BY <1>3
  <2> QED
    BY <2>1, <1>2 DEF IInv, AtWork, HasData
<1>8. EverySendOnce' /\ Counted'
  BY <1>2, <1>4, <1>5 DEF IInv, EverySendOnce, Counted
<1>9. EveryPacketOnce'
  BY <1>2, <1>3, <1>4, <1>5 DEF IInv, EveryPacketOnce
<1> QED
  BY <1>6, <1>7, <1>8, <1>9 DEF IInv

LEMMA RecvIInv ==
  ASSUME IInv, Recv
  PROVE  IInv'
<1>1. /\ UNCHANGED <<kind, stage, addr, run, ready, hand, err, wire, arrived, txq, sent>>
      /\ rxq # << >> /\ rxq' = Tail(rxq)
      /\ given' = IF Head(rxq).of = "nothing" THEN given ELSE Append(given, Head(rxq))
  BY DEF Recv, owner, threads, net
<1>2. TakenSends' = TakenSends /\ TakenPackets' = TakenPackets
  BY <1>1 DEF TakenSends, TakenPackets
<1>3. /\ rxq \in Seq(AllNotes) /\ given \in Seq(AllNotes) /\ Head(rxq) \in AllNotes
      /\ rxq' \in Seq(AllNotes) /\ given' \in Seq(AllNotes)
  BY <1>1 DEF IInv, Typed
<1>4. ASSUME NEW s \in {"send", "packet"}, NEW n, Numbered(s, Out, n)
      PROVE  Numbered(s, Out', n)
  <2>1. CASE Head(rxq).of = "nothing"
    <3>1. Head(rxq).of # s
      BY <2>1
    <3>2. Out' = given \o Tail(rxq)
      BY <1>1, <2>1 DEF Out
    <3> QED
      BY <3>1, <3>2, <1>1, <1>3, <1>4, NumberedDropped DEF Out
  <2>2. CASE Head(rxq).of # "nothing"
    BY <2>2, <1>1, <1>3, <1>4, MovedOut DEF Out
  <2> QED
    BY <2>1, <2>2
<1>5. Typed' /\ AtWork' /\ Counted'
  BY <1>1, <1>2, <1>3 DEF IInv, Typed, AtWork, HasData, Counted
<1>6. EverySendOnce' /\ EveryPacketOnce'
  BY <1>1, <1>2, <1>4 DEF IInv, EverySendOnce, EveryPacketOnce
<1> QED
  BY <1>5, <1>6 DEF IInv

\* Rx takes a datagram out of the kernel, or the error.
LEMMA RxRecvIInv ==
  ASSUME IInv, RxRecv
  PROVE  IInv'
<1>1. /\ UNCHANGED <<kind, stage, addr, run, ready, arrived, txq, rxq, given, sent>>
      /\ HasData("rx") /\ hand["rx"] = Nothing /\ err' = FALSE
  BY DEF RxRecv, owner, queues
<1>2. Out' = Out /\ TakenSends' = TakenSends
  BY <1>1 DEF Out, TakenSends
<1>3. /\ wire # << >> /\ wire \in Seq([id : Nat, empty : BOOLEAN]) /\ arrived \in Nat
      /\ hand \in [Threads -> AllNotes] /\ kind # "loop"
  BY <1>1 DEF IInv, AtWork, Typed, HasData
<1>4. \A u \in Threads : HasData(u)' <=> HasData(u)
  BY <1>1 DEF HasData
<1>5. CASE err
  <2> DEFINE x == [Nothing EXCEPT !.sub = "ERR"]
  <2>1. wire' = wire /\ hand' = [hand EXCEPT !["rx"] = x]
    BY <1>5, <1>1, <1>3 DEF RxRecv
  <2>2. x \in EmptyNotes /\ x.of = "nothing"
    BY DEF EmptyNotes, Nothing
  <2> HIDE DEF x
  <2>3. hand'["rx"] = x /\ hand'["tx"] = hand["tx"]
    BY <2>1, <1>3
  <2>4. TakenPackets' = TakenPackets
    BY <1>1, <2>1 DEF TakenPackets
  <2>5. Typed'
    BY <1>1, <2>1, <2>2, <2>3 DEF IInv, Typed, AllNotes
  <2>6. AtWork'
    BY <1>1, <1>3, <1>4, <2>1, <2>3 DEF IInv, AtWork
  <2>7. EverySendOnce' /\ Counted'
    BY <1>1, <1>2, <2>2, <2>3, <2>4 DEF IInv, EverySendOnce, Counted
  <2>8. EveryPacketOnce'
    BY <1>1, <1>2, <1>3, <2>1, <2>2, <2>3, <2>4, NoteFields DEF IInv, EveryPacketOnce
  <2> QED
    BY <2>5, <2>6, <2>7, <2>8 DEF IInv
<1>6. CASE ~err
  <2>1. PICK a \in AddrRead : hand' = [hand EXCEPT !["rx"] = Received(Head(wire).id, a)]
    BY <1>6 DEF RxRecv
  <2> DEFINE x == Received(Head(wire).id, a)
  <2>2. wire' = Tail(wire)
    BY <1>6 DEF RxRecv, Rest
  <2>3. /\ wire' \in Seq([id : Nat, empty : BOOLEAN]) /\ Len(wire') = Len(wire) - 1
        /\ Len(wire) \in Nat /\ Len(wire) > 0 /\ Head(wire) = wire[1] /\ 1 \in DOMAIN wire
        /\ Head(wire) \in [id : Nat, empty : BOOLEAN]
        /\ \A k \in DOMAIN wire' : k \in Nat /\ k + 1 \in DOMAIN wire /\ wire'[k] = wire[k + 1]
    BY <2>2, <1>3, TailIs
  <2>4. TakenPackets' = TakenPackets + 1 /\ TakenPackets \in Nat
    BY <1>1, <1>3, <2>3 DEF TakenPackets, IInv, Counted
  <2>5. wire[1].id = TakenPackets + 1 /\ Numbered("packet", Out, TakenPackets)
    BY <1>1, <1>3, <2>3, NoteFields DEF IInv, EveryPacketOnce
  <2>6. x \in PacketNotes /\ x.of = "packet" /\ x.id = TakenPackets + 1
    <3>1. a \in {"other", "own"}
      BY DEF AddrRead, IInv, Typed
    <3> QED
      BY <3>1, <2>3, <2>5 DEF PacketNotes, Received
  <2> HIDE DEF x
  <2>7. hand' = [hand EXCEPT !["rx"] = x]
    BY <2>1 DEF x
  <2>8. hand'["rx"] = x /\ hand'["tx"] = hand["tx"]
    BY <2>7, <1>3
  <2>9. Typed'
    BY <1>1, <2>3, <2>6, <2>7, <2>8 DEF IInv, Typed, AllNotes
  <2>10. AtWork'
    <3>1. x # Nothing
      BY <2>6, NoteFields
    <3> QED
      BY <3>1, <1>1, <1>3, <1>4, <2>8 DEF IInv, AtWork
  <2>11. EverySendOnce' /\ Counted'
    <3>1. TakenPackets + 1 \in Nat /\ TakenPackets + 1 > 0
      BY <2>4
    <3> QED
      BY <3>1, <1>1, <1>2, <2>4, <2>8 DEF IInv, EverySendOnce, Counted
  <2>12. EveryPacketOnce'
    <3>1. TakenPackets' - 1 = TakenPackets
      BY <2>4
    <3>2. \A k \in DOMAIN wire : wire[k].id = TakenPackets + k
      BY <1>3 DEF IInv, EveryPacketOnce
    <3>3. \A k \in DOMAIN wire' : wire'[k].id = TakenPackets' + k
      BY <3>2, <2>3, <2>4
    <3>4. ~(hand'["rx"].of = "nothing") /\ hand'["rx"].id = TakenPackets' /\ kind' # "loop"
      BY <1>1, <1>3, <2>4, <2>6, <2>8
    <3> QED
      BY <3>1, <3>3, <3>4, <2>5, <1>2 DEF EveryPacketOnce
  <2> QED
    BY <2>9, <2>10, <2>11, <2>12 DEF IInv
<1> QED
  BY <1>5, <1>6

\* Rx finds an empty datagram and notifies of nothing.
LEMMA RxEmptyIInv ==
  ASSUME IInv, RxEmpty
  PROVE  IInv'
<1>1. /\ UNCHANGED <<kind, stage, addr, exit, hand, err, wire, arrived, txq, given, sent>>
      /\ HasData("rx") /\ hand["rx"] = Nothing /\ PassEnds("rx")
      /\ rxq' \in {rxq, Append(rxq, Nothing)}
  BY DEF RxEmpty, owner, net
<1>2. /\ given \in Seq(AllNotes) /\ rxq \in Seq(AllNotes) /\ hand \in [Threads -> AllNotes]
      /\ Nothing \in AllNotes /\ Nothing.of = "nothing"
  BY NoteFields DEF IInv, Typed, AllNotes
<1>3. hand' = [hand EXCEPT !["rx"] = Nothing]
  BY <1>1, <1>2
<1>4. /\ AtWork'
      /\ run' \in [Threads -> {"none", "poll", "work", "done"}]
      /\ ready' \in [Threads -> SUBSET {"exit", "data"}]
  BY <1>1, <1>3, OthersWork
<1>5. Out \in Seq(AllNotes) /\ Out' \in {Out, Append(Out, Nothing)} /\ rxq' \in Seq(AllNotes)
  <2>1. CASE rxq' = rxq
    BY <2>1, <1>1, <1>2 DEF Out
  <2>2. CASE rxq' = Append(rxq, Nothing)
    <3>1. rxq' \in Seq(AllNotes)
      BY <2>2, <1>2
    <3>2. Out' = given \o Append(rxq, Nothing)
      BY <2>2, <1>1 DEF Out
    <3> QED
      BY <3>1, <3>2, <1>2, OutAppend DEF Out
  <2> QED
    BY <2>1, <2>2, <1>1
<1>6. TakenSends' = TakenSends /\ TakenPackets' = TakenPackets
  BY <1>1 DEF TakenSends, TakenPackets
<1>7. TakenSends \in Nat /\ TakenPackets \in Nat
  BY DEF IInv, Counted
<1>8. \A s \in {"send", "packet"}, n \in Int : Numbered(s, Out, n) => Numbered(s, Out', n)
  BY <1>2, <1>5, NumberedOther
<1>9. Typed'
  BY <1>1, <1>4, <1>5 DEF IInv, Typed
<1>10. EverySendOnce' /\ EveryPacketOnce' /\ Counted'
  <2>1. TakenSends - 1 \in Int /\ TakenPackets - 1 \in Int /\ TakenSends \in Int /\ TakenPackets \in Int
    BY <1>7
  <2> QED
    BY <2>1, <1>1, <1>6, <1>8 DEF IInv, EverySendOnce, EveryPacketOnce, Counted
<1> QED
  BY <1>4, <1>9, <1>10 DEF IInv

\* Rx notifies of the datagram, or of the error.
LEMMA RxPushIInv ==
  ASSUME IInv, RxPush
  PROVE  IInv'
<1> DEFINE x == hand["rx"]
<1>1. /\ UNCHANGED <<kind, stage, addr, exit, err, wire, arrived, txq, given, sent>>
      /\ x # Nothing /\ PassEnds("rx") /\ rxq' = Append(rxq, x)
      /\ hand' = [hand EXCEPT !["rx"] = Nothing]
  BY DEF RxPush, owner, net
<1>2. /\ given \in Seq(AllNotes) /\ rxq \in Seq(AllNotes) /\ hand \in [Threads -> AllNotes]
      /\ x \in PacketNotes \cup EmptyNotes /\ x \in AllNotes /\ Nothing \in AllNotes
      /\ HasData("rx")
  BY <1>1, NoteFields DEF IInv, Typed, AllNotes, AtWork
<1>3. kind # "loop"
  BY <1>2 DEF IInv, AtWork, HasData
<1>4. /\ AtWork'
      /\ run' \in [Threads -> {"none", "poll", "work", "done"}]
      /\ ready' \in [Threads -> SUBSET {"exit", "data"}]
      /\ hand'["rx"] = Nothing /\ hand'["tx"] = hand["tx"]
  BY <1>1, <1>2, OthersWork
<1>5. Out \in Seq(AllNotes) /\ Out' = Append(Out, x)
  BY <1>1, <1>2, OutAppend DEF Out
<1>6. TakenSends' = TakenSends /\ TakenPackets' = TakenPackets
  BY <1>1 DEF TakenSends, TakenPackets
<1>7. TakenSends \in Int /\ TakenSends - 1 \in Int /\ TakenPackets \in Nat
  BY DEF IInv, Counted
<1>8. x.of \in {"nothing", "packet"} /\ Nothing.of = "nothing"
  BY <1>2, NoteFields
<1>9. \A n \in Int : Numbered("send", Out, n) => Numbered("send", Out', n)
  BY <1>2, <1>5, <1>8, NumberedOther
<1>10. Typed'
  BY <1>1, <1>2, <1>4, NoteFields DEF IInv, Typed
<1>11. EverySendOnce'
  BY <1>1, <1>4, <1>6, <1>7, <1>9 DEF IInv, EverySendOnce
<1>12. Counted'
  BY <1>4, <1>6, <1>8 DEF IInv, Counted
<1>13. Numbered("packet", Out', TakenPackets)
  <2>1. CASE x.of = "nothing"
    <3>1. Numbered("packet", Out, TakenPackets)
      BY <2>1, <1>3 DEF IInv, EveryPacketOnce
    <3> QED
      BY <2>1, <3>1, <1>2, <1>5, <1>7, NumberedOther
  <2>2. CASE x.of = "packet"
    <3>1. Numbered("packet", Out, TakenPackets - 1) /\ x.id = TakenPackets
      BY <2>2, <1>3 DEF IInv, EveryPacketOnce
    <3>2. TakenPackets - 1 \in Nat /\ (TakenPackets - 1) + 1 = TakenPackets
      BY <2>2, <1>7 DEF IInv, Counted
    <3> HIDE DEF x
    <3>3. Numbered("packet", Append(Out, x), (TakenPackets - 1) + 1)
      BY <2>2, <3>1, <3>2, <1>2, <1>5, NumberedNext
    <3> QED
      BY <3>2, <3>3, <1>5
  <2> QED
    BY <2>1, <2>2, <1>8
<1>14. EveryPacketOnce'
  BY <1>1, <1>3, <1>4, <1>6, <1>8, <1>13 DEF IInv, EveryPacketOnce
<1> QED
  BY <1>4, <1>10, <1>11, <1>12, <1>14 DEF IInv

\* Tx takes a Send off its queue; a loop socket receives the packet at once.
LEMMA TxSendIInv ==
  ASSUME IInv, TxSend
  PROVE  IInv'
<1>1. PICK s \in Fates : hand' = [hand EXCEPT !["tx"] = Sent(s, Head(txq).id)]
  BY DEF TxSend
<1> DEFINE x == Sent(s, Head(txq).id)  y == Received(Head(txq).id, "own")
<1>2. /\ UNCHANGED <<kind, stage, addr, run, ready, wire, arrived, given, sent>>
      /\ HasData("tx") /\ hand["tx"] = Nothing /\ err' = FALSE /\ txq' = Tail(txq)
      /\ rxq' = IF kind = "loop" THEN Append(rxq, y) ELSE rxq
  BY DEF TxSend, owner, Popped, Looped
<1>3. /\ txq # << >> /\ txq \in Seq(SendNotes) /\ sent \in Nat /\ hand \in [Threads -> AllNotes]
      /\ given \in Seq(AllNotes) /\ rxq \in Seq(AllNotes)
  BY <1>2 DEF IInv, AtWork, Typed
<1>4. /\ txq' \in Seq(SendNotes) /\ Len(txq') = Len(txq) - 1
      /\ Len(txq) \in Nat /\ Len(txq) > 0 /\ Head(txq) = txq[1] /\ 1 \in DOMAIN txq
      /\ Head(txq) \in SendNotes
      /\ \A k \in DOMAIN txq' : k \in Nat /\ k + 1 \in DOMAIN txq /\ txq'[k] = txq[k + 1]
  BY <1>2, <1>3, TailIs
<1>5. TakenSends' = TakenSends + 1 /\ TakenSends \in Nat /\ TakenPackets' = TakenPackets
  BY <1>2, <1>3, <1>4 DEF TakenSends, TakenPackets, IInv, Counted
<1>6. Head(txq).id = TakenSends + 1 /\ Numbered("send", Out, TakenSends)
  BY <1>2, <1>4 DEF IInv, EverySendOnce
<1>7. /\ x \in SendNotes /\ x.of = "send" /\ x.id = TakenSends + 1 /\ x # Nothing
      /\ y \in PacketNotes /\ y.of = "packet" /\ y.id = TakenSends + 1
  <2>1. s \in {"SENT", "ERR"}
    BY DEF Fates
  <2>2. TakenSends + 1 \in Nat
    BY <1>5
  <2>3. x \in SendNotes /\ x.id = TakenSends + 1
    BY <2>1, <2>2, <1>6 DEF SendNotes, Sent
  <2>4. y \in PacketNotes /\ y.id = TakenSends + 1
    BY <2>2, <1>6 DEF PacketNotes, Received
  <2> QED
    BY <2>3, <2>4, NoteFields
<1> HIDE DEF x, y
<1>8. hand' = [hand EXCEPT !["tx"] = x]
  BY <1>1 DEF x
<1>9. hand'["tx"] = x /\ hand'["rx"] = hand["rx"] /\ x \in AllNotes /\ y \in AllNotes
  BY <1>3, <1>7, <1>8 DEF AllNotes
<1>10. Typed'
  <2>1. rxq' \in Seq(AllNotes)
    BY <1>2, <1>3, <1>9
  <2> QED
    BY <2>1, <1>2, <1>4, <1>7, <1>8, <1>9 DEF IInv, Typed
<1>11. AtWork'
  BY <1>2, <1>7, <1>9 DEF IInv, AtWork, HasData
<1>12. Counted'
  <2>1. TakenSends + 1 \in Nat /\ TakenSends + 1 > 0
    BY <1>5
  <2> QED
    BY <2>1, <1>5, <1>9 DEF IInv, Counted
<1>13. Out \in Seq(AllNotes) /\ Out' = IF kind = "loop" THEN Append(Out, y) ELSE Out
  BY <1>2, <1>3, <1>9, OutAppend DEF Out
<1>14. Numbered("send", Out', TakenSends)
  BY <1>5, <1>6, <1>7, <1>9, <1>13, NumberedOther
<1>15. EverySendOnce'
  <2>1. TakenSends' - 1 = TakenSends
    BY <1>5
  <2>2. \A k \in DOMAIN txq' : txq'[k].id = TakenSends' + k
    <3>1. \A k \in DOMAIN txq : txq[k].id = TakenSends + k
      BY DEF IInv, EverySendOnce
    <3> QED
      BY <3>1, <1>4, <1>5
  <2> QED
    BY <2>1, <2>2, <1>5, <1>7, <1>9, <1>14 DEF EverySendOnce
<1>16. EveryPacketOnce'
  <2>1. CASE kind = "loop"
    <3>1. Numbered("packet", Out, TakenSends)
      BY <2>1 DEF IInv, EveryPacketOnce
    <3>2. Numbered("packet", Out', TakenSends + 1)
      BY <2>1, <3>1, <1>5, <1>7, <1>9, <1>13, NumberedNext
    <3> QED
      BY <2>1, <3>2, <1>2, <1>5 DEF EveryPacketOnce
  <2>2. CASE kind # "loop"
    BY <2>2, <1>2, <1>5, <1>9, <1>13 DEF IInv, EveryPacketOnce
  <2> QED
    BY <2>1, <2>2
<1> QED
  BY <1>10, <1>11, <1>12, <1>15, <1>16 DEF IInv

\* Tx notifies of the fate of a Send.
LEMMA TxPushIInv ==
  ASSUME IInv, TxPush
  PROVE  IInv'
<1> DEFINE x == hand["tx"]
<1>1. /\ UNCHANGED <<kind, stage, addr, exit, err, wire, arrived, txq, given, sent>>
      /\ x # Nothing /\ PassEnds("tx") /\ rxq' = Append(rxq, x)
      /\ hand' = [hand EXCEPT !["tx"] = Nothing]
  BY DEF TxPush, owner, net, Told
<1>2. /\ given \in Seq(AllNotes) /\ rxq \in Seq(AllNotes) /\ hand \in [Threads -> AllNotes]
      /\ x \in SendNotes /\ x \in AllNotes /\ Nothing \in AllNotes
      /\ HasData("tx") /\ x.of = "send"
  BY <1>1, NoteFields DEF IInv, Typed, AllNotes, AtWork
<1>3. /\ AtWork'
      /\ run' \in [Threads -> {"none", "poll", "work", "done"}]
      /\ ready' \in [Threads -> SUBSET {"exit", "data"}]
      /\ hand'["tx"] = Nothing /\ hand'["rx"] = hand["rx"]
  BY <1>1, <1>2, OthersWork
<1>4. Out \in Seq(AllNotes) /\ Out' = Append(Out, x)
  BY <1>1, <1>2, OutAppend DEF Out
<1>5. TakenSends' = TakenSends /\ TakenPackets' = TakenPackets
  BY <1>1 DEF TakenSends, TakenPackets
<1>6. /\ TakenPackets \in Int /\ TakenPackets - 1 \in Int /\ TakenSends \in Nat
      /\ TakenSends - 1 \in Nat /\ (TakenSends - 1) + 1 = TakenSends
  BY <1>1 DEF IInv, Counted
<1>7. \A n \in Int : Numbered("packet", Out, n) => Numbered("packet", Out', n)
  BY <1>2, <1>4, NumberedOther
<1>8. Numbered("send", Out', TakenSends)
  <2>1. Numbered("send", Out, TakenSends - 1) /\ x.id = TakenSends
    BY <1>1 DEF IInv, EverySendOnce
  <2> HIDE DEF x
  <2>2. Numbered("send", Append(Out, x), (TakenSends - 1) + 1)
    BY <2>1, <1>2, <1>4, <1>6, NumberedNext
  <2> QED
    BY <2>2, <1>4, <1>6
<1>9. Typed'
  BY <1>1, <1>2, <1>3, NoteFields DEF IInv, Typed
<1>10. EverySendOnce' /\ Counted'
  BY <1>1, <1>3, <1>5, <1>8 DEF IInv, EverySendOnce, Counted
<1>11. EveryPacketOnce'
  <2>1. TakenSends \in Int
    BY <1>6
  <2> QED
    BY <2>1, <1>1, <1>3, <1>5, <1>6, <1>7 DEF IInv, EveryPacketOnce
<1> QED
  BY <1>3, <1>9, <1>10, <1>11 DEF IInv

-----------------------------------------------------------------------------
\* The numbering of what Recv gave and of what waits holds in every state.
THEOREM Invariance == Spec => []IInv
<1>1. IInv /\ [Next]_vars => IInv'
  <2> SUFFICES ASSUME IInv, [Next]_vars PROVE IInv'
    OBVIOUS
  <2>1. CASE Owner
    BY <2>1, OwnerIInv DEF Owner
  <2>2. CASE User
    BY <2>2, OwnerIInv, SendIInv, RecvIInv DEF User
  <2>3. CASE Environment
    BY <2>3, OwnerIInv, ArriveIInv DEF Environment
  <2>4. CASE Rx
    BY <2>4, LoopIInv, RxRecvIInv, RxEmptyIInv, RxPushIInv DEF Rx
  <2>5. CASE Tx
    BY <2>5, LoopIInv, TxSendIInv, TxPushIInv DEF Tx
  <2>6. CASE UNCHANGED vars
    <3>1. UNCHANGED <<kind, stage, addr, run, ready, hand, wire, err, arrived, txq, rxq, given, sent>>
      BY <2>6 DEF vars, owner, threads, net, queues
    <3>2. Typed' /\ AtWork'
      BY <3>1 DEF IInv, Typed, AtWork, HasData
    <3> QED
      BY <3>1, <3>2, NothingMoves DEF IInv
  <2> QED
    BY <2>1, <2>2, <2>3, <2>4, <2>5, <2>6 DEF Next
<1> QED
  BY <1>1, InitIInv, PTL DEF Spec

\* Nothing is lost, doubled or overtaken: every Send is answered once, every
\* datagram and every packet a loop socket sent is received once, in order.
THEOREM NoPacketIsLost == Spec => []EveryOnce
<1>1. IInv => EveryOnce
  BY DEF IInv, EveryOnce
<1> QED
  BY <1>1, Invariance, PTL
=============================================================================
