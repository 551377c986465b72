--------------------------------- MODULE Air ---------------------------------
(***************************************************************************)
(* Frames between two applications.  One composes a frame object and sends *)
(* it, again and again if it likes; the other gets it as a Notification of *)
(* its ieee80211::Socket, or reads it into a frame object it keeps and     *)
(* uses for every frame.  Either object may be sent: the second one        *)
(* forwards what it read.                                                  *)
(*                                                                         *)
(* A composition puts the same number, its own, in everything it sets, so  *)
(* that what was not set by it, or not read from its frame, shows.         *)
(***************************************************************************)
EXTENDS Ieee80211, RadioTap, FiniteSets

CONSTANTS Pairs,       \* class of the sender's object, class of the reader's
          TagSets,     \* the sets of member tags a composition may set
          AddedTags,   \* identifiers of tags put without a member
          Arrivals,    \* how a frame arrives: its radiotap header, the octets lost at its end
          MaxFrames    \* bound on compositions

(***************************************************************************)
(* A radiotap header has fields that the table knows the size of, none of  *)
(* them twice, and no present word without one of them.                    *)
(***************************************************************************)
IsTap(h) ==
  /\ h # {}
  /\ \A x \in h :
       /\ \E t \in FieldTable : t.size # 0 /\ x.id = t.id
       /\ x.index \in 0 .. MaxPresent - 1 /\ x.v \in Nat
       /\ x = [id |-> x.id, index |-> x.index, v |-> x.v]
       /\ x.index > 0 => \E y \in h : y.index = x.index - 1
       /\ \A y \in h : y.id = x.id /\ y.index = x.index => y = x

ASSUME AirAssumption ==
  /\ Pairs \subseteq (Classes \ {"Frame"}) \X (Classes \ {"Frame"})
  /\ AddedTags \subseteq {Id(m) : m \in TagNames}
  /\ \A a \in Arrivals : a.lost \in Nat /\ IsTap(a.header)

VARIABLES tx,     \* the sender's object
          rx,     \* the reader's object
          air,    \* the frame that arrived: buffer b, place base, sender from, fcs, lost
          note,   \* the last Notification: sub and frame
          took,   \* how the last Disassemble of rx ended, if rx was not sent since
          n       \* compositions made

airVars == <<tx, rx, air, note, took, n>>

NoNote == [sub |-> "NONE", frame |-> New("Frame")]
Silence == [b |-> Empty, base |-> 0, from |-> New("Frame"), fcs |-> FALSE, lost |-> 0]

AirInit ==
  /\ \E p \in Pairs : tx = New(p[1]) /\ rx = New(p[2])
  /\ air = Silence
  /\ note = NoNote
  /\ took = "none"
  /\ n = 0

-----------------------------------------------------------------------------
(***************************************************************************)
(* The application sets all fields of tx, and a choice of its members.     *)
(* Only a control frame may do without a source address, any but a         *)
(* management frame with or without a payload.  A buffer in the air is the *)
(* object's no longer, so nothing is lost by forgetting it here.           *)
(***************************************************************************)
Forget == air' = Silence /\ note' = NoNote /\ took' = "none"

BodyFields(c) == {Out(c).body[i][1] : i \in DOMAIN Out(c).body}

Compose(S, source, ds, payload) ==
  LET v == n + 1
      t == tx.fc.type IN
  /\ n < MaxFrames[tx.class]
  /\ source \/ t = Cntl
  /\ ds => t = Data
  /\ payload => t # Mgmt
  /\ tx' = [tx EXCEPT
       !.fc.ds = ds,
       !.val = [f \in Fields |->
                  CASE f = "addr2" -> IF source THEN v ELSE Unset
                    [] f = "payload" -> IF payload THEN v ELSE Unset
                    [] f \in {"duration", "addr1", "addr3", "seqcntl", "qoscntl", "addr4", "llc"}
                             \cup BodyFields(tx.class) -> v
                    [] OTHER -> @[f]],
       !.member = [m \in DOMAIN @ |-> IF m \in S THEN SetTag(m, @[m], v) ELSE @[m]]]
  /\ n' = v
  /\ Forget
  /\ UNCHANGED rx

AddTag(id) ==
  /\ n > 0
  /\ tx.class \in Management
  /\ tx' = [tx EXCEPT !.tags = PutTag(@, id, n)]
  /\ Forget
  /\ UNCHANGED <<rx, n>>

(***************************************************************************)
(* Socket::Send, and the way to a receiver: what arrives there has the     *)
(* radiotap header its own kernel, or FrameSocket, puts in front, and may  *)
(* have lost its end.  Nothing is sent when Assemble fails.                *)
(***************************************************************************)
RadioTapOf(h) ==
  LET q == InKeyOrder(h)
      to[i \in 0..Len(q)] ==
        IF i = 0 THEN NewRadioTap ELSE PutField(to[i - 1], q[i].id, q[i].index, q[i].v)
  IN to[Len(q)]

FcsFlag(r)    == (GetField(r, RadioTapFieldFlags.id, 0) \div 16) % 2 = 1
BadFcsFlag(r) == (GetField(r, RadioTapFieldFlags.id, 0) \div 64) % 2 = 1

TapFor == [a \in Arrivals |-> AssembleRadioTap(RadioTapOf(a.header))]
HasFcs == [a \in Arrivals |-> FcsFlag(RadioTapOf(a.header))]

WithFcs(b, a) == IF HasFcs[a] THEN Write(b, b.end, 4, "fcs", 0) ELSE b

Arrive(b, o, a) ==
  /\ a.lost < b.end - TapFor[a].end
  /\ air' = [b |-> Pop(b, a.lost), base |-> TapFor[a].end, from |-> o,
             fcs |-> HasFcs[a], lost |-> a.lost]

Sent(s, a) == s.ok /\ Arrive(WithFcs(s.b, a), s.o, a)

Send(o, a) == Sent(Assemble(o, TapFor[a]), a) /\ note' = NoNote

SendTx(a) ==
  /\ Send(tx, a)
  /\ took' = "none"
  /\ tx' = air'.from
  /\ UNCHANGED <<rx, n>>

(***************************************************************************)
(* rx is sent on to a third party; it does not come back to rx.            *)
(***************************************************************************)
Forward(a) ==
  /\ took \in {"ok", "failed"}
  /\ Send(rx, a)
  /\ took' = "forwarded"
  /\ rx' = air'.from
  /\ UNCHANGED <<tx, n>>

(***************************************************************************)
(* The Notification made of what arrived: the radiotap header, its flags,  *)
(* a look at type and subtype, and a fresh object of that class.           *)
(***************************************************************************)
Dispatched == Management \ {"ReassociationResponse"}

ClassFor(fc) ==
  CASE fc.type = Cntl -> "ControlFrame"
    [] fc.type = Data -> "DataFrame"
    [] OTHER -> LET C == {c \in Dispatched : TypeOf[c].sub = fc.sub} IN
                IF C = {} THEN "Frame" ELSE CHOOSE c \in C : TRUE

Peek(b, at, fcs) == Disassemble(New("Frame"), b, at, fcs)

Subtype(h) == IF HasField(h, RadioTapFieldTxFlags.id) THEN "PKT_SENT" ELSE "PKT_RCVD"

PktErr == [NoNote EXCEPT !.sub = "PKT_ERR"]

Decoded(d, sub) == IF d.ok THEN [sub |-> sub, frame |-> d.o] ELSE PktErr

Peeked(p, b, r) ==
  IF p.ok
  THEN Decoded(Disassemble(New(ClassFor(p.o.fc)), b, r.at, FcsFlag(r.h)), Subtype(r.h))
  ELSE PktErr

Tapped(r, b) ==
  IF r.ok /\ ~BadFcsFlag(r.h) THEN Peeked(Peek(b, r.at, FcsFlag(r.h)), b, r) ELSE PktErr

Notification(b) == Tapped(DisassembleRadioTap(b), b)

Recv ==
  /\ air # Silence
  /\ note = NoNote
  /\ took \in {"none", "forwarded"}
  /\ note' = Notification(air.b)
  /\ UNCHANGED <<tx, rx, air, took, n>>

(***************************************************************************)
(* The reader's object, used before or not, reads what arrived.            *)
(***************************************************************************)
Taken(d) == rx' = d.o /\ took' = IF d.ok THEN "ok" ELSE "failed"

TakeFrame ==
  /\ air # Silence
  /\ note = NoNote
  /\ took = "none"
  /\ Taken(Disassemble(rx, air.b, air.base, air.fcs))
  /\ UNCHANGED <<tx, air, note, n>>

AirNext ==
  \/ \E S \in TagSets, source, ds, payload \in BOOLEAN :
       Compose(S, source, ds, payload)
  \/ \E id \in AddedTags : AddTag(id)
  \/ \E a \in Arrivals : SendTx(a) \/ Forward(a)
  \/ Recv
  \/ TakeFrame

AirSpec == AirInit /\ [][AirNext]_airVars

-----------------------------------------------------------------------------
(***************************************************************************)
(* What a frame of o carries.  The QoS control of a frame with four        *)
(* addresses is lost: address 4 is written over it.                        *)
(***************************************************************************)
Carried(o) ==
  {"duration", "addr1"}
    \cup (IF o.val.addr2 # Unset THEN {"addr2"} ELSE {})
    \cup (IF o.fc.type # Cntl THEN {"addr3", "seqcntl"} ELSE {})
    \cup (IF o.fc.type = Mgmt THEN BodyFields(o.class) ELSE {})
    \cup (IF o.fc.type = Data /\ o.fc.ds THEN {"addr4"} ELSE {})
    \cup (IF o.fc.type = Data /\ HasQos(o.fc.sub) /\ ~o.fc.ds THEN {"qoscntl"} ELSE {})

Trailing(o) ==
  (IF o.fc.type # Mgmt THEN {"payload"} ELSE {})
    \cup (IF o.fc.type = Data /\ o.val.payload # Unset THEN {"llc"} ELSE {})

HeaderOnly == {"duration", "addr1", "addr2"}

Complete(o) == \A i \in DOMAIN In(o.class).needs :
                 LET id == Id(In(o.class).needs[i]) IN
                 HasTag(o.tags, id) /\ GetTag(o.tags, id) # Invalid

InOrder(tags) == ValidTags(tags, TRUE) \o ValidTags(tags, FALSE)

(***************************************************************************)
(* The octets behind address 1 of a control frame are read as address 2,   *)
(* so a payload without a source address cannot be told from one.          *)
(***************************************************************************)
Readable(o) == Complete(o) /\ (o.fc.type = Cntl /\ o.val.addr2 = Unset => o.val.payload = Unset)

(***************************************************************************)
(* A frame that arrives whole, with a good checksum and the tags its class *)
(* must have, reaches the application as its sender has it: its control    *)
(* field, every field it carries, every tag in order and each member its   *)
(* class both puts and gets, in an object of the class of the frame, as    *)
(* received, or as sent if it has transmit flags.  An action frame arrives *)
(* as its class and nothing else; a reassociation response, which has no   *)
(* case in the Notification, as its header.                                *)
(***************************************************************************)
Delivered ==
  LET o == air.from
      f == note.frame
      Gets == {In(o.class).needs[i] : i \in DOMAIN In(o.class).needs} \cup In(o.class).gets
      Puts == {Out(o.class).puts[i] : i \in DOMAIN Out(o.class).puts} IN
  note # NoNote /\ air.lost = 0 /\ Readable(o) =>
    \/ note.sub = "PKT_ERR" /\ BadFcsFlag(DisassembleRadioTap(air.b).h)
    \/ /\ note.sub \in {"PKT_RCVD", "PKT_SENT"}
       /\ f.fc = o.fc \/ f.class = "ActionRequest"
       /\ CASE f.class = "ActionRequest" -> o.class = "ActionRequest"
            [] f.class = "Frame" -> /\ o.class = "ReassociationResponse"
                                    /\ \A x \in HeaderOnly : f.val[x] = o.val[x]
            [] OTHER ->
                 /\ f.class = o.class \/ <<f.class, o.class>> = <<"DataFrame", "QosData">>
                 /\ \A x \in Carried(o) \cup Trailing(o) : f.val[x] = o.val[x]
                 /\ \A m \in Gets \cap Puts : f.member[m] = o.member[m]
                 /\ o.fc.type = Mgmt => InOrder(f.tags) = InOrder(o.tags)

SameAs(s, t) == t.ok /\ t.b = s.b /\ t.o = s.o

SameAgain(s) == s.ok => SameAs(s, Assemble(s.o, Empty))

(***************************************************************************)
(* Sending an object again sends the same frame and leaves the object as   *)
(* it is, although Assemble puts the members in the object's own tag list: *)
(* a beacon that is sent for ever does not grow, and tags put without a    *)
(* member stay.                                                            *)
(***************************************************************************)
SentAgain == \A o \in {tx, rx} : SameAgain(Assemble(o, Empty))

(***************************************************************************)
(* When Disassemble of an object, used before or not, returns true, the    *)
(* object is a frame of its own class, and the fields and the members its  *)
(* class cannot do without are those of the frame that arrived, however    *)
(* much of it was lost: nothing of an earlier frame is passed off as this  *)
(* one's.  The rest may be: a member whose tag is missing keeps its value, *)
(* so does the source of a control frame that has none, and an action      *)
(* frame is accepted whatever arrived.                                     *)
(***************************************************************************)
TakenIsOwn ==
  took = "ok" /\ rx.class # "ActionRequest" =>
    /\ rx.fc = air.from.fc
    /\ rx.fc.type = TypeOf[rx.class].type
    /\ rx.class \in Management => rx.fc.sub = TypeOf[rx.class].sub
    /\ \A x \in Carried(air.from) \ (IF rx.fc.type = Cntl THEN {"addr2"} ELSE {}) :
         rx.val[x] = air.from.val[x]
    /\ \A i \in DOMAIN In(rx.class).needs :
         LET m == In(rx.class).needs[i] IN
         HasTag(air.from.tags, Id(m)) /\ rx.member[m] = GetTag(air.from.tags, Id(m))
=============================================================================
