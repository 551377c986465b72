-------------------------------- MODULE Socket --------------------------------
(***************************************************************************)
(* zSocket::Socket (lib/zSocket/Socket.cpp) with its implementations       *)
(* UnixSocket, UdpSocket, RawSocket and LoopSocket: Send puts a packet on  *)
(* a transmit queue; the Tx thread sends it and puts the notification of   *)
(* its fate on the receive queue; the Rx thread reads the descriptor and   *)
(* puts what it got there too; the socket handler's thread takes both with *)
(* Recv. A LoopSocket has no descriptor and no Rx thread.                  *)
(*                                                                         *)
(* Both threads run the "poll" loop of Thread. Each queue has one consumer *)
(* and is the channel of Fifo, which Queue implements.                     *)
(***************************************************************************)
EXTENDS Naturals, Sequences, SequencesExt

CONSTANTS
  Kinds,        \* the implementations: "unix", "udp", "raw", "loop"
  MaxTraffic,   \* bound on the calls of Send and the datagrams that arrive
  MaxIdle       \* bound on the length of rxq when Rx adds what says nothing

ASSUME SocketAssumption ==
  /\ Kinds \subseteq {"unix", "udp", "raw", "loop"}
  /\ MaxTraffic \in Nat /\ MaxIdle \in Nat

Threads == {"rx", "tx"}

\* A zSocket::Notification: of a Send or a packet, or with nothing in it; its
\* SUBTYPE; the number of the Send or packet; and its destination address.
Nothing == [of |-> "nothing", sub |-> "NONE", id |-> 0, dst |-> "other"]
Sent(s, i) == [of |-> "send", sub |-> s, id |-> i, dst |-> "peer"]
Received(i, a) == [of |-> "packet", sub |-> "RCVD", id |-> i, dst |-> a]

VARIABLES
  kind,        \* which implementation this is, which never changes
  stage,       \* where the owner is in Bind or the destructor
  addr,        \* _addr: "own", the address bound to, or any "other"
  run,         \* where the Run of each thread is
  exit,        \* the tokens of each thread's _exit
  ready,       \* what each thread's last Poll returned
  hand,        \* the notification each thread has in hand
  wire,        \* the datagrams that wait in the kernel; some are empty
  err,         \* an error is pending on the descriptor
  txq, rxq,
  given,       \* history: the notifications of Sends and packets that Recv gave
  sent, arrived

owner == <<kind, stage, addr>>
threads == <<run, exit, ready, hand>>
net == <<wire, err, arrived>>
queues == <<txq, rxq, given, sent>>
vars == <<owner, threads, net, queues>>

Init ==
  /\ kind \in Kinds
  /\ stage = "new"
  /\ addr = "other"
  /\ run = [t \in Threads |-> "none"]
  /\ exit = [t \in Threads |-> 0]
  /\ ready = [t \in Threads |-> {}]
  /\ hand = [t \in Threads |-> Nothing]
  /\ wire = << >> /\ arrived = 0 /\ err = FALSE
  /\ txq = << >> /\ rxq = << >> /\ given = << >>
  /\ sent = 0

(* Faults, see Mutex. *)
AskedNot(n) == n                                \* joined, but not stopped
DataEdge(t) ==                                  \* edge-triggered
  IF t = "rx" THEN Len(wire) = 1 /\ ~err ELSE txq # << >>
PoppedNot(q) == q                               \* Front without Pop
RestAll == wire                                 \* read with MSG_PEEK
ToldIfSent(q) ==                                \* errors are not notified
  IF hand["tx"].sub = "SENT" THEN Append(q, hand["tx"]) ELSE q

-----------------------------------------------------------------------------
(* The owner's Bind, Send and destructor. Unix and loop sockets know their *)
(* address before their threads run, the others after it. A bind(2) that   *)
(* fails leaves a socket that may be bound again: a stuttering step.       *)

AddressFirst == kind \in {"unix", "loop"}

Bind ==
  /\ stage = "new"
  /\ addr' = IF AddressFirst THEN "own" ELSE addr
  /\ stage' = IF kind = "loop" THEN "startTx" ELSE "startRx"
  /\ UNCHANGED <<kind, threads, net, queues>>

StartRx ==
  /\ stage = "startRx"
  /\ run' = [run EXCEPT !["rx"] = "poll"]
  /\ stage' = "startTx"
  /\ UNCHANGED <<kind, addr, exit, ready, hand, net, queues>>

StartTx ==
  /\ stage = "startTx"
  /\ run' = [run EXCEPT !["tx"] = "poll"]
  /\ stage' = IF addr = "own" THEN "open" ELSE "address"
  /\ UNCHANGED <<kind, addr, exit, ready, hand, net, queues>>

SetAddress ==
  /\ stage = "address"
  /\ addr' = "own"
  /\ stage' = "open"
  /\ UNCHANGED <<kind, threads, net, queues>>

\* An empty buffer is refused; any other is answered by Tx.
Send ==
  /\ stage \in {"new", "open"}
  /\ sent + arrived < MaxTraffic
  /\ sent' = sent + 1
  /\ txq' = Append(txq, Sent("ERR", sent + 1))
  /\ UNCHANGED <<owner, threads, net, rxq, given>>

\* The handler's thread, to which the owner registers the open socket.
Recv ==
  /\ stage = "open"
  /\ rxq # << >>
  /\ rxq' = Tail(rxq)
  /\ given' = IF Head(rxq).of = "nothing" THEN given ELSE Append(given, Head(rxq))
  /\ UNCHANGED <<owner, threads, net, txq, sent>>

\* The destructor stops Rx, then Tx, then closes the descriptor; its caller
\* has unregistered the socket from its handler.
Asked(n) == n + 1

Destroy ==
  /\ stage = "open"
  /\ LET t == IF kind = "loop" THEN "tx" ELSE "rx" IN
       /\ stage' = IF t = "rx" THEN "stopRx" ELSE "stopTx"
       /\ exit' = [exit EXCEPT ![t] = Asked(@)]
  /\ UNCHANGED <<kind, addr, run, ready, hand, net, queues>>

AfterStop(t) == IF t = "rx" THEN "stopTx" ELSE "closed"

Join(t) ==
  /\ stage = (IF t = "rx" THEN "stopRx" ELSE "stopTx")
  /\ run[t] = "done"
  /\ run' = [run EXCEPT ![t] = "none"]
  /\ stage' = AfterStop(t)
  /\ exit' = IF stage' = "stopTx" THEN [exit EXCEPT !["tx"] = Asked(@)] ELSE exit
  /\ UNCHANGED <<kind, addr, ready, hand, net, queues>>

-----------------------------------------------------------------------------
(* The network, and a signal that asks a thread to exit. The descriptor of *)
(* a raw socket has an error pending when its interface went down.         *)

Arrive ==
  /\ kind # "loop"
  /\ stage \notin {"new", "closed"}
  /\ sent + arrived < MaxTraffic
  /\ arrived' = arrived + 1
  /\ \E e \in BOOLEAN : wire' = Append(wire, [id |-> arrived + 1, empty |-> e])
  /\ UNCHANGED <<owner, threads, err, queues>>

InterfaceDown ==
  /\ kind = "raw"
  /\ ~err
  /\ stage = "open" /\ Len(rxq) < MaxIdle
  /\ err' = TRUE
  /\ UNCHANGED <<owner, threads, wire, arrived, queues>>

Signal(t) ==
  /\ run[t] \in {"poll", "work"}
  /\ exit[t] = 0
  /\ exit' = [exit EXCEPT ![t] = 1]
  /\ UNCHANGED <<owner, run, ready, hand, net, queues>>

-----------------------------------------------------------------------------
(* The loops of Rx and Tx. Poll returns with whatever is readable; with an *)
(* error pending the descriptor's revents are not POLLIN and Rx skips it.  *)

Data(t) == IF t = "rx" THEN wire # << >> /\ ~err ELSE txq # << >>
Readable(t) ==
  {r \in {"exit", "data"} : (r = "exit" /\ exit[t] > 0) \/ (r = "data" /\ Data(t))}

Taken(t, r) == IF "exit" \in r THEN [exit EXCEPT ![t] = @ - 1] ELSE exit

Poll(t) ==
  /\ run[t] = "poll"
  /\ Readable(t) # {}
  /\ ready' = [ready EXCEPT ![t] = Readable(t)]
  /\ exit' = Taken(t, Readable(t))
  /\ run' = [run EXCEPT ![t] = "work"]
  /\ UNCHANGED <<owner, hand, net, queues>>

\* The end of a pass over the descriptors.
PassEnds(t) ==
  /\ run' = [run EXCEPT ![t] = IF "exit" \in ready[t] THEN "done" ELSE "poll"]
  /\ ready' = [ready EXCEPT ![t] = {}]

Exit(t) ==
  /\ run[t] = "work"
  /\ ready[t] = {"exit"}
  /\ PassEnds(t)
  /\ UNCHANGED <<owner, exit, hand, net, queues>>

HasData(t) == run[t] = "work" /\ "data" \in ready[t]

\* While SetAddress assigns _addr a reader gets the new one, or something else.
AddrRead == IF stage = "address" THEN {"other", "own"} ELSE {addr}

\* recv(): FIONREAD, then recvfrom. An empty datagram counts 0 bytes, which is
\* taken for none; it is not read, and the notification says nothing. An error
\* that came up after the Poll is returned, and cleared, by recvfrom.
Rest == Tail(wire)

RxRecv ==
  /\ HasData("rx") /\ hand["rx"] = Nothing
  /\ ~Head(wire).empty
  /\ IF err
       THEN hand' = [hand EXCEPT !["rx"].sub = "ERR"] /\ wire' = wire
       ELSE /\ \E a \in AddrRead : hand' = [hand EXCEPT !["rx"] = Received(Head(wire).id, a)]
            /\ wire' = Rest
  /\ err' = FALSE
  /\ UNCHANGED <<owner, run, exit, ready, arrived, queues>>

RxEmpty ==
  /\ HasData("rx") /\ hand["rx"] = Nothing
  /\ Head(wire).empty
  /\ rxq' = IF Len(rxq) < MaxIdle THEN Append(rxq, Nothing) ELSE rxq
  /\ PassEnds("rx")
  /\ UNCHANGED <<owner, exit, hand, net, txq, given, sent>>

RxPush ==
  /\ hand["rx"] # Nothing
  /\ rxq' = Append(rxq, hand["rx"])
  /\ hand' = [hand EXCEPT !["rx"] = Nothing]
  /\ PassEnds("rx")
  /\ UNCHANGED <<owner, exit, net, txq, given, sent>>

\* TryWait, Front, Pop and send(): sendto, which fails at least if an error is
\* pending, or a loop socket's, which puts the packet on rxq and leaves the
\* subtype of the notification as Send made it. What comes back has the two
\* addresses of the Send swapped; only Rx reads the address of the socket.
Fates ==
  IF kind = "loop" \/ err THEN {"ERR"} ELSE {"SENT", "ERR"}
Popped(q) == Tail(q)
Looped(q) == Append(q, Received(Head(txq).id, "own"))

TxSend ==
  /\ HasData("tx") /\ hand["tx"] = Nothing
  /\ \E s \in Fates : hand' = [hand EXCEPT !["tx"] = Sent(s, Head(txq).id)]
  /\ txq' = Popped(txq)
  /\ rxq' = IF kind = "loop" THEN Looped(rxq) ELSE rxq
  /\ err' = FALSE
  /\ UNCHANGED <<owner, run, exit, ready, wire, arrived, given, sent>>

Told(q) == Append(q, hand["tx"])

TxPush ==
  /\ hand["tx"] # Nothing
  /\ rxq' = Told(rxq)
  /\ hand' = [hand EXCEPT !["tx"] = Nothing]
  /\ PassEnds("tx")
  /\ UNCHANGED <<owner, exit, net, txq, given, sent>>

Owner == Bind \/ StartRx \/ StartTx \/ SetAddress \/ \E t \in Threads : Join(t)
User == Send \/ Recv \/ Destroy
Environment == Arrive \/ InterfaceDown \/ \E t \in Threads : Signal(t)
Rx == Poll("rx") \/ Exit("rx") \/ RxRecv \/ RxEmpty \/ RxPush
Tx == Poll("tx") \/ Exit("tx") \/ TxSend \/ TxPush

Next == Owner \/ User \/ Environment \/ Rx \/ Tx

Spec == Init /\ [][Next]_vars

\* The threads are scheduled, and the owner within a call. Nobody has to send,
\* to receive or to destroy the socket.
FairSpec == Spec /\ WF_vars(Owner) /\ WF_vars(Rx) /\ WF_vars(Tx)

-----------------------------------------------------------------------------
Notes == {Nothing, [Nothing EXCEPT !.sub = "ERR"]}
           \cup {Sent(s, i) : s \in {"SENT", "ERR"}, i \in 1..MaxTraffic}
           \cup {Received(i, a) : i \in 1..MaxTraffic, a \in {"other", "own"}}

TypeOK ==
  /\ kind \in Kinds
  /\ stage \in {"new", "startRx", "startTx", "address", "open", "stopRx", "stopTx", "closed"}
  /\ addr \in {"other", "own"}
  /\ run \in [Threads -> {"none", "poll", "work", "done"}]
  /\ exit \in [Threads -> Nat]
  /\ ready \in [Threads -> SUBSET {"exit", "data"}]
  /\ hand \in [Threads -> Notes]
  /\ wire \in Seq([id : 1..MaxTraffic, empty : BOOLEAN])
  /\ err \in BOOLEAN
  /\ txq \in Seq(Notes) /\ rxq \in Seq(Notes) /\ given \in Seq(Notes)
  /\ sent \in 0..MaxTraffic /\ arrived \in 0..MaxTraffic

\* The notifications of sort s in q are those numbered 1 to n, in this order.
Numbered(s, q, n) ==
  LET K == {k \in DOMAIN q : q[k].of = s} IN
  /\ \A j, k \in K : j < k => q[j].id < q[k].id
  /\ {q[k].id : k \in K} = 1..n

Out == given \o rxq

\* Every Send is answered by one notification, in the order of the Sends, or is
\* still on its way to one (Socket.cpp:116-164, the Runs of Tx).
TakenSends == sent - Len(txq)
EverySendOnce ==
  LET h == hand["tx"] IN
  /\ IF h = Nothing
       THEN Numbered("send", Out, TakenSends)
       ELSE Numbered("send", Out, TakenSends - 1) /\ h.of = "send" /\ h.id = TakenSends
  /\ \A k \in DOMAIN txq : txq[k].id = TakenSends + k

\* Every datagram is received once, in the order in which they arrived, or
\* still waits in the kernel (the Runs of Rx). A loop socket receives what it
\* sent (LoopSocket.cpp:110).
TakenPackets == arrived - Len(wire)
EveryPacketOnce ==
  LET h == hand["rx"] IN
  IF kind = "loop" THEN Numbered("packet", Out, TakenSends)
  ELSE /\ IF h.of = "nothing"
            THEN Numbered("packet", Out, TakenPackets)
            ELSE Numbered("packet", Out, TakenPackets - 1) /\ h.id = TakenPackets
       /\ \A k \in DOMAIN wire : wire[k].id = TakenPackets + k

\* Nothing is lost, doubled or overtaken between the callers of Send and Recv
\* and the kernel.
EveryOnce == EverySendOnce /\ EveryPacketOnce

\* Recv gave the notification of Send or datagram i, or will at its next calls.
Answered(s, i) == \E n \in ToSet(Out) : n.of = s /\ n.id = i
Runs(t) == run[t] \in {"poll", "work"}

\* Every Send is answered unless Tx is asked to end first.
SendAnswered ==
  Runs("tx") ~> (~Runs("tx") \/ \A i \in 1..sent : Answered("send", i))

\* Every datagram that arrived is received, unless Rx is asked to end, an error
\* stays pending on the descriptor or an empty datagram came before it: those
\* two keep Rx from reading for good.
Blocked == err \/ (wire # << >> /\ Head(wire).empty)
PacketReceived ==
  Runs("rx") ~> (~Runs("rx") \/ Blocked \/ \A i \in 1..arrived : Answered("packet", i))

\* The destructor returns.
DestroyReturns == stage = "stopRx" ~> stage = "closed"

(***************************************************************************)
(* The inductive invariant behind EveryOnce.                               *)
(***************************************************************************)
SendNotes == {Sent(x, i) : x \in {"SENT", "ERR"}, i \in Nat}
PacketNotes == {Received(i, a) : i \in Nat, a \in {"other", "own"}}
EmptyNotes == {Nothing, [Nothing EXCEPT !.sub = "ERR"]}
AllNotes == SendNotes \cup PacketNotes \cup EmptyNotes

Typed ==
  /\ addr \in {"other", "own"} /\ err \in BOOLEAN
  /\ run \in [Threads -> {"none", "poll", "work", "done"}]
  /\ ready \in [Threads -> SUBSET {"exit", "data"}]
  /\ hand \in [Threads -> AllNotes]
  /\ hand["tx"] \in SendNotes \cup {Nothing} /\ hand["rx"] \in PacketNotes \cup EmptyNotes
  /\ wire \in Seq([id : Nat, empty : BOOLEAN])
  /\ txq \in Seq(SendNotes) /\ rxq \in Seq(AllNotes) /\ given \in Seq(AllNotes)
  /\ sent \in Nat /\ arrived \in Nat

\* A thread has something in hand only at work, and finds what its Poll said; a
\* loop socket has no Rx, and before StartRx and StartTx there is no thread.
AtWork ==
  /\ \A t \in Threads : hand[t] # Nothing => HasData(t)
  /\ HasData("rx") /\ hand["rx"] = Nothing => wire # << >>
  /\ HasData("tx") /\ hand["tx"] = Nothing => txq # << >>
  /\ kind = "loop" => wire = << >> /\ run["rx"] = "none" /\ stage # "startRx"
  /\ stage \in {"new", "startRx"} => run["rx"] = "none"
  /\ stage \in {"new", "startRx", "startTx"} => run["tx"] = "none"

\* No queue has more than was put on it.
Counted ==
  /\ TakenSends \in Nat /\ (hand["tx"] # Nothing => TakenSends > 0)
  /\ TakenPackets \in Nat /\ (hand["rx"].of = "packet" => TakenPackets > 0)

IInv == Typed /\ AtWork /\ Counted /\ EverySendOnce /\ EveryPacketOnce
=============================================================================
