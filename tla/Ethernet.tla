------------------------------ MODULE Ethernet ------------------------------
(***************************************************************************)
(* The 802.3 frame objects and the Notification made of what a raw socket  *)
(* received (lib/zSocket/ieee8023): the same life as that of a frame in    *)
(* Air, with other classes.  The class of an object is fixed, its subtype  *)
(* is not: Disassemble sets it to what the frame's type says and goes on   *)
(* only if that is the class's own.                                        *)
(*                                                                         *)
(* An address is 0 until it is set.  A payload is 0 if it is empty;        *)
(* whether it begins as an LLC header does is in sap.                      *)
(***************************************************************************)
EXTENDS SocketBuffer

CONSTANTS EtherPairs,  \* class of the sender's object, class of the reader's
          Lengths,     \* what an application may set the length of an EtherFrame to
          Protos,      \* and the protocol of an Ether2Frame
          Deliveries,  \* how a frame arrives: octets lost, or padded, at its end
          MaxEther     \* bound on compositions

VARIABLES tx,    \* the sender's object
          rx,    \* the reader's object
          wire,  \* the frame that arrived: buffer b, sender from, lost, padded
          note,  \* the last Notification: sub and frame
          took,  \* how the last Disassemble of rx ended
          n      \* compositions made

vars == <<tx, rx, wire, note, took, n>>

PROTO_IPv4 == 2048
PROTO_VLAN == 33024
PROTO_LAST == 37122

NoPayload == [v |-> 0, sap |-> FALSE]
\* As long as what Disassemble looks at for the saps of an LLC header: cut short
\* by an octet it does not begin as one any more.
PayloadLength == 2

New(c) == [class |-> c, subtype |-> c, dst |-> 0, src |-> 0, type |-> 0, payload |-> NoPayload]

Silence == [b |-> Empty, from |-> New("NONE"), lost |-> 0, padded |-> FALSE]
NoNote == [sub |-> "NONE", frame |-> New("NONE")]

Init ==
  /\ \E p \in EtherPairs : tx = New(p[1]) /\ rx = New(p[2])
  /\ wire = Silence /\ note = NoNote
  /\ took = "none" /\ n = 0

-----------------------------------------------------------------------------
(***************************************************************************)
(* The application sets all fields of tx; type is the length of an         *)
(* EtherFrame and the protocol of an Ether2Frame.                          *)
(***************************************************************************)
Compose(type, sap) ==
  /\ n < MaxEther
  /\ type \in IF tx.class = "ETHER" THEN Lengths ELSE Protos
  /\ tx' = [tx EXCEPT !.dst = n + 1, !.src = n + 1, !.type = type,
                      !.payload = [v |-> n + 1, sap |-> sap]]
  /\ n' = n + 1
  /\ wire' = Silence /\ note' = NoNote /\ took' = "none"
  /\ UNCHANGED rx

(***************************************************************************)
(* Assemble fails on an address that was not set, without a payload, and   *)
(* when the object last read a frame of another subtype.  LlcFrame and     *)
(* VlanFrame are still to be written: both ways fail.                      *)
(***************************************************************************)
Header(o) ==
  WriteNext(Empty, <<<<"dst", 6>>, <<"src", 6>>, <<"type", 2>>, <<"payload", PayloadLength>>>>, o)

Unfinished == {"LLC", "VLAN"}
HasPayload(o) == o.payload # NoPayload
OwnSubtype(o) == o.subtype = o.class

CanAssemble(o) ==
  o.dst # 0 /\ o.src # 0 /\ o.class \notin Unfinished /\ OwnSubtype(o) /\ HasPayload(o)

(***************************************************************************)
(* Devices pad short frames; the length does not count what they add.      *)
(***************************************************************************)
Arrived(b, d) == IF d.padded THEN Write(b, b.end, 4, "pad", 0) ELSE Pop(b, d.lost)

Send(o, d) ==
  /\ CanAssemble(o)
  /\ wire' = [b |-> Arrived(Header(o), d), from |-> o, lost |-> d.lost, padded |-> d.padded]
  /\ note' = NoNote
  /\ UNCHANGED <<tx, rx, n>>

SendTx(d) == Send(tx, d) /\ took' = "none"

Forward(d) == took \in {"ok", "failed"} /\ Send(rx, d) /\ took' = "forwarded"

-----------------------------------------------------------------------------
(***************************************************************************)
(* Disassemble.  A reader has ok, the object o, the buffer b, and at, where*)
(* the data pointer is; what was read stays when a later step fails.       *)
(***************************************************************************)
Take(r, w, f) ==
  IF r.ok /\ r.at + w <= r.b.end
  THEN [r EXCEPT !.at = @ + w, !.o[f] = ReadAt(r.b, r.at, w, f)]
  ELSE [r EXCEPT !.ok = FALSE]

TypeAt(b) == ReadAt(b, 12, 2, "type")
BeginsAsLlc(b) == \E p \in DOMAIN b.at : p = 14 /\ b.at[p].f = "payload" /\ b.at[p].v.sap

SubtypeOf(b) ==
  IF TypeAt(b) < 1500 THEN IF BeginsAsLlc(b) THEN "LLC" ELSE "ETHER"
  ELSE IF TypeAt(b) = PROTO_VLAN THEN "VLAN" ELSE "ETHER2"

SetSubtype(r) ==
  IF r.ok /\ r.at + 2 <= r.b.end THEN [r EXCEPT !.o.subtype = SubtypeOf(r.b)]
  ELSE [r EXCEPT !.ok = FALSE]

FrameDisassemble(r) == SetSubtype(Take(Take(r, 6, "dst"), 6, "src"))

(* Faults, see Mutex. *)
OfAnyClass(r) == r

OfClass(r) == [r EXCEPT !.ok = @ /\ OwnSubtype(r.o)]

\* SetLength takes any value, SetProto one between the first protocol and the last.
TakeType(r) ==
  IF r.o.class = "ETHER2" /\ TypeAt(r.b) \notin PROTO_IPv4..PROTO_LAST
  THEN [r EXCEPT !.ok = FALSE] ELSE Take(r, 2, "type")

Lost == [v |-> Garbled, sap |-> FALSE]

\* All there is behind the header, whatever the length says.
Rest(r) ==
  IF r.at = r.b.end THEN NoPayload
  ELSE IF r.at \in DOMAIN r.b.at /\ r.at + r.b.at[r.at].w = r.b.end THEN r.b.at[r.at].v
  ELSE Lost

TakePayload(r) == IF r.ok THEN [r EXCEPT !.o.payload = Rest(r), !.at = r.b.end] ELSE r

Reading(o, b) == [ok |-> TRUE, o |-> o, b |-> b, at |-> 0]

Disassemble(o, b) ==
  IF o.class \in Unfinished THEN [Reading(o, b) EXCEPT !.ok = FALSE]
  ELSE LET r == OfClass(FrameDisassemble(Reading(o, b))) IN
       IF r.ok THEN TakePayload(TakeType(r)) ELSE r

Peek(b) == FrameDisassemble(Reading(New("NONE"), b))

(***************************************************************************)
(* Recv makes a Notification of what arrived: a look at the subtype, then  *)
(* a fresh object of that class.                                           *)
(***************************************************************************)
Notification(b) ==
  IF ~Peek(b).ok THEN [NoNote EXCEPT !.sub = "PKT_ERR"]
  ELSE LET d == Disassemble(New(Peek(b).o.subtype), b) IN
       [sub |-> IF d.ok THEN "PKT_RCVD" ELSE "PKT_ERR", frame |-> d.o]

Recv ==
  /\ wire # Silence /\ note = NoNote
  /\ took \in {"none", "forwarded"}
  /\ note' = Notification(wire.b)
  /\ UNCHANGED <<tx, rx, wire, took, n>>

TakeFrame ==
  /\ wire # Silence /\ note = NoNote
  /\ took = "none"
  /\ LET d == Disassemble(rx, wire.b) IN rx' = d.o /\ took' = IF d.ok THEN "ok" ELSE "failed"
  /\ UNCHANGED <<tx, wire, note, n>>

Next ==
  \/ \E type \in Lengths \cup Protos, sap \in BOOLEAN : Compose(type, sap)
  \/ \E d \in Deliveries : SendTx(d) \/ Forward(d)
  \/ Recv
  \/ TakeFrame

-----------------------------------------------------------------------------
(***************************************************************************)
(* Whether the type of a frame tells its class.  It does not for the       *)
(* longest EtherFrame, of 1500 octets, for one whose payload begins as an  *)
(* LLC header does, nor for an Ether2Frame that has no protocol or a tag.  *)
(***************************************************************************)
Telling(o) ==
  CASE o.class = "ETHER" -> o.type < 1500 /\ ~o.payload.sap
    [] OTHER -> o.type \in PROTO_IPv4..PROTO_LAST /\ o.type # PROTO_VLAN

\* Such a frame, if it arrives whole, is notified in an object of its class that
\* has what its sender had, but for the payload of one that was padded.
Delivered ==
  LET o == wire.from f == note.frame IN
  note # NoNote /\ wire.lost = 0 /\ Telling(o) =>
    /\ note.sub = "PKT_RCVD"
    /\ <<f.class, f.subtype, f.dst, f.src, f.type>> = <<o.class, o.class, o.dst, o.src, o.type>>
    /\ wire.padded \/ f.payload = o.payload

\* When Disassemble of an object, used before or not, returns true, the frame was
\* one of its class or not told from it, its addresses and its type are those
\* that arrived, and its payload is no earlier frame's.
TakenIsOwn ==
  took = "ok" =>
    /\ rx.subtype = rx.class
    /\ Telling(wire.from) => rx.class = wire.from.class
    /\ <<rx.dst, rx.src, rx.type>> = <<wire.from.dst, wire.from.src, wire.from.type>>
    /\ rx.payload \in {wire.from.payload, Lost, NoPayload}
    /\ wire.lost = 0 /\ ~wire.padded => rx.payload = wire.from.payload
=============================================================================
