------------------------------- MODULE Ieee80211 ------------------------------
(***************************************************************************)
(* The 802.11 frame objects: what each class writes when it is assembled   *)
(* and what it reads when it is disassembled.  A place is counted in       *)
(* octets from the start of the frame, base in the buffer.                 *)
(*                                                                         *)
(* An object keeps its class, the frame control field (type, subtype, and  *)
(* ds: both ToDS and FromDS), the values of its other fields (0: never     *)
(* set; for an address or a payload: empty), its member tags, and its tag  *)
(* list.  The version is always 0; the other flags do not matter here.     *)
(***************************************************************************)
EXTENDS Tags

Type(type, sub) == [type |-> type, sub |-> sub, ds |-> FALSE]
Mgmt == 0
Cntl == 1
Data == 2

TypeOf ==
  [AssociationRequest |-> Type(Mgmt, 0), AssociationResponse |-> Type(Mgmt, 1),
   ReassociationRequest |-> Type(Mgmt, 2), ReassociationResponse |-> Type(Mgmt, 3),
   ProbeRequest |-> Type(Mgmt, 4), ProbeResponse |-> Type(Mgmt, 5), Beacon |-> Type(Mgmt, 8),
   Disassociation |-> Type(Mgmt, 10), Authentication |-> Type(Mgmt, 11),
   Deauthentication |-> Type(Mgmt, 12), ActionRequest |-> Type(Mgmt, 13),
   ControlFrame |-> Type(Cntl, 13), DataFrame |-> Type(Data, 0), QosData |-> Type(Data, 8),
   Frame |-> Type(Mgmt, 0)]

Classes == DOMAIN TypeOf
Management == {c \in Classes : TypeOf[c].type = Mgmt /\ c # "Frame"}
HasQos(sub) == (sub \div 8) % 2 = 1

-----------------------------------------------------------------------------
(***************************************************************************)
(* The classes.  Members: the tags declared.  Out: the fields of the body  *)
(* and the members put when it is assembled, in order.  In: the fields     *)
(* read, the members a frame must have, and the others.                    *)
(***************************************************************************)
BeaconMembers == {"Ssid", "Rates", "Dsss", "Tim", "Country", "ChannelSwitch", "ErpInfo",
                  "ExtRates", "RsnElement", "SuppOpClass", "HtCaps", "HtInfo", "ExtCaps", "WmmWme"}
BeaconOut ==
  [body |-> <<<<"timestamp", 8>>, <<"interval", 2>>, <<"capabilities", 2>>>>,
   puts |-> <<"Ssid", "Rates", "Dsss", "Tim", "Country", "ChannelSwitch", "ErpInfo", "ExtRates",
              "RsnElement", "SuppOpClass", "HtCaps", "HtInfo", "ExtCaps", "WmmWme">>]
BeaconIn ==
  [body |-> <<<<"timestamp", 8>>, <<"interval", 2>>, <<"capabilities", 2>>>>,
   needs |-> <<"Ssid", "Rates">>,
   gets |-> {"Dsss", "Tim", "Country", "ChannelSwitch", "ErpInfo", "ExtRates", "RsnElement",
             "SuppOpClass", "HtCaps", "HtInfo", "ExtCaps", "WmmWme"}]

ProbeRequestMembers == {"Ssid", "Rates", "ExtRates", "Dsss", "HtCaps", "VhtCaps", "ExtCaps"}
ProbeRequestOut ==
  [body |-> <<>>, puts |-> <<"Ssid", "Rates", "ExtRates", "Dsss", "HtCaps", "ExtCaps">>]
ProbeRequestIn ==
  [body |-> <<>>, needs |-> <<"Rates">>, gets |-> {"Ssid", "Dsss", "ExtRates", "HtCaps", "ExtCaps"}]

ProbeResponseMembers == {"Ssid", "Rates", "Dsss", "Country", "ChannelSwitch", "ErpInfo", "ExtRates",
                         "RsnElement", "SuppOpClass", "HtInfo", "HtCaps", "VhtCaps", "ExtCaps",
                         "WmmWme"}
ProbeResponseOut ==
  [body |-> <<<<"timestamp", 8>>, <<"interval", 2>>, <<"capabilities", 2>>>>,
   puts |-> <<"Ssid", "Rates", "Dsss", "Country", "ChannelSwitch", "ErpInfo", "ExtRates",
              "RsnElement", "SuppOpClass", "HtCaps", "HtInfo", "ExtCaps", "WmmWme">>]
ProbeResponseIn ==
  [body |-> <<<<"timestamp", 8>>, <<"interval", 2>>, <<"capabilities", 2>>>>,
   needs |-> <<"Ssid", "Rates">>,
   gets |-> {"Dsss", "Country", "ChannelSwitch", "ErpInfo", "ExtRates", "RsnElement",
             "SuppOpClass", "HtCaps", "HtInfo", "ExtCaps", "WmmWme"}]

AssociationRequestMembers ==
  {"Ssid", "Rates", "ExtRates", "PowerCaps", "Channels", "RsnElement", "SuppOpClasses", "HtCaps",
   "ExtCaps", "VhtCaps", "WmmWme"}
AssociationRequestOut ==
  [body |-> <<<<"capabilities", 2>>, <<"interval", 2>>>>,
   puts |-> <<"Ssid", "Rates", "ExtRates", "PowerCaps", "Channels", "RsnElement", "HtCaps">>]
AssociationRequestIn ==
  [body |-> <<<<"capabilities", 2>>, <<"interval", 2>>>>, needs |-> <<"Ssid", "Rates">>,
   gets |-> {"ExtRates", "PowerCaps", "Channels", "RsnElement", "HtCaps", "WmmWme"}]

AssociationResponseMembers == {"Rates", "ExtRates", "HtCaps", "HtInfo", "ExtCaps", "VhtCaps", "WmmWme"}
AssociationResponseOut ==
  [body |-> <<<<"capabilities", 2>>, <<"status", 2>>, <<"aid", 2>>>>,
   puts |-> <<"Rates", "ExtRates", "HtCaps", "HtInfo", "ExtCaps", "WmmWme">>]
AssociationResponseIn ==
  [body |-> <<<<"capabilities", 2>>, <<"status", 2>>, <<"aid", 2>>>>, needs |-> <<>>,
   gets |-> {"Rates", "ExtRates", "HtCaps", "HtInfo", "ExtCaps", "WmmWme"}]

ReassociationRequestMembers ==
  {"Ssid", "Rates", "ExtRates", "PowerCaps", "Channels", "SuppOpClasses", "HtCaps", "ExtCaps",
   "VhtCaps", "WmmWme"}
ReassociationRequestOut ==
  [body |-> <<<<"capabilities", 2>>, <<"interval", 2>>, <<"currentApMac", 6>>>>,
   puts |-> <<"Ssid", "Rates", "ExtRates", "PowerCaps", "Channels", "HtCaps", "WmmWme">>]
ReassociationRequestIn ==
  [body |-> <<<<"capabilities", 2>>, <<"interval", 2>>, <<"currentApMac", 6>>>>,
   needs |-> <<"Ssid", "Rates">>,
   gets |-> {"ExtRates", "PowerCaps", "Channels", "HtCaps", "WmmWme"}]

ReassociationResponseMembers == {"Rates", "ExtRates", "HtCaps", "HtInfo", "ExtCaps", "VhtCaps", "WmmWme"}
ReassociationResponseOut ==
  [body |-> <<<<"capabilities", 2>>, <<"status", 2>>, <<"aid", 2>>>>,
   puts |-> <<"Rates", "ExtRates", "HtCaps", "HtInfo", "ExtCaps">>]
ReassociationResponseIn ==
  [body |-> <<<<"capabilities", 2>>, <<"status", 2>>, <<"aid", 2>>>>, needs |-> <<>>,
   gets |-> {"Rates", "ExtRates", "HtCaps", "HtInfo", "ExtCaps", "WmmWme"}]

AuthenticationOut == [body |-> <<<<"algorithm", 2>>, <<"seqNumber", 2>>, <<"statusCode", 2>>>>, puts |-> <<>>]
AuthenticationIn ==
  [body |-> <<<<"algorithm", 2>>, <<"seqNumber", 2>>, <<"statusCode", 2>>>>, needs |-> <<>>, gets |-> {}]

DeauthenticationOut == [body |-> <<<<"reasonCode", 2>>>>, puts |-> <<>>]
DeauthenticationIn  == [body |-> <<<<"reasonCode", 2>>>>, needs |-> <<>>, gets |-> {}]
DisassociationOut   == [body |-> <<<<"reasonCode", 2>>>>, puts |-> <<>>]
DisassociationIn    == [body |-> <<<<"reasonCode", 2>>>>, needs |-> <<>>, gets |-> {}]

Nothing == [body |-> <<>>, puts |-> <<>>, needs |-> <<>>, gets |-> {}]

Members(c) ==
  CASE c = "Beacon" -> BeaconMembers
    [] c = "ProbeRequest" -> ProbeRequestMembers
    [] c = "ProbeResponse" -> ProbeResponseMembers
    [] c = "AssociationRequest" -> AssociationRequestMembers
    [] c = "AssociationResponse" -> AssociationResponseMembers
    [] c = "ReassociationRequest" -> ReassociationRequestMembers
    [] c = "ReassociationResponse" -> ReassociationResponseMembers
    [] OTHER -> {}

Out(c) ==
  CASE c = "Beacon" -> BeaconOut
    [] c = "ProbeRequest" -> ProbeRequestOut
    [] c = "ProbeResponse" -> ProbeResponseOut
    [] c = "AssociationRequest" -> AssociationRequestOut
    [] c = "AssociationResponse" -> AssociationResponseOut
    [] c = "ReassociationRequest" -> ReassociationRequestOut
    [] c = "ReassociationResponse" -> ReassociationResponseOut
    [] c = "Authentication" -> AuthenticationOut
    [] c = "Deauthentication" -> DeauthenticationOut
    [] c = "Disassociation" -> DisassociationOut
    [] OTHER -> Nothing

In(c) ==
  CASE c = "Beacon" -> BeaconIn
    [] c = "ProbeRequest" -> ProbeRequestIn
    [] c = "ProbeResponse" -> ProbeResponseIn
    [] c = "AssociationRequest" -> AssociationRequestIn
    [] c = "AssociationResponse" -> AssociationResponseIn
    [] c = "ReassociationRequest" -> ReassociationRequestIn
    [] c = "ReassociationResponse" -> ReassociationResponseIn
    [] c = "Authentication" -> AuthenticationIn
    [] c = "Deauthentication" -> DeauthenticationIn
    [] c = "Disassociation" -> DisassociationIn
    [] OTHER -> Nothing

PayloadLength == 4
Fields == {"duration", "addr1", "addr2", "addr3", "addr4", "seqcntl", "qoscntl", "llc", "payload",
           "timestamp", "interval", "capabilities", "status", "aid", "currentApMac", "algorithm",
           "seqNumber", "statusCode", "reasonCode"}

Unset == 0
New(c) ==
  [class |-> c, fc |-> TypeOf[c], val |-> [f \in Fields |-> Unset],
   member |-> [t \in Members(c) |-> IF t = "WmmWme" THEN Default ELSE Invalid], tags |-> <<>>]

-----------------------------------------------------------------------------
(***************************************************************************)
(* Assemble.  A step takes and returns a writer: ok, the object o, the     *)
(* buffer b and base, where the frame starts in it.  What was written when *)
(* ok becomes FALSE is of no use to anybody.                               *)
(***************************************************************************)
Put(s, at, w, f) ==
  IF s.ok THEN [s EXCEPT !.b = Write(@, s.base + at, w, f, s.o.val[f])] ELSE s

PutNext(s, fields) == IF s.ok THEN [s EXCEPT !.b = WriteNext(@, fields, s.o.val)] ELSE s

Need(s, cond) == [s EXCEPT !.ok = @ /\ cond]

(***************************************************************************)
(* Frame::Assemble.  Without a source address there is no address 2, and   *)
(* the data pointer stays where it would have begun.                       *)
(***************************************************************************)
PutControl(s) == [s EXCEPT !.b = Write(@, s.base, 2, "fc", s.o.fc)]

PutSource(s) == IF s.o.val.addr2 = Unset THEN s ELSE Put(s, 10, 6, "addr2")

FrameAssemble(s) ==
  PutSource(Put(Put(PutControl(Need(s, s.o.val.addr1 # Unset)), 2, 2, "duration"), 4, 6, "addr1"))

(***************************************************************************)
(* Address 3 and the sequence control are written where their struct has   *)
(* them.                                                                   *)
(***************************************************************************)
PutThird(s) ==
  Put(Put(Need(s, s.o.val.addr3 # Unset), 16, 6, "addr3"), 22, 2, "seqcntl")

ManagementAssemble(s) == PutThird(FrameAssemble(Need(s, s.o.fc.type = Mgmt)))

(***************************************************************************)
(* The QoS control and address 4 are members of one union.                 *)
(***************************************************************************)
PutQos(s) == IF HasQos(s.o.fc.sub) THEN Put(s, 24, 2, "qoscntl") ELSE s

PutFourth(s) ==
  IF s.o.fc.ds THEN Put(Need(s, s.o.val.addr4 # Unset), 24, 6, "addr4") ELSE s

PutPayload(s, header) ==
  IF s.o.val.payload # Unset
  THEN PutNext(s, Append(header, <<"payload", PayloadLength>>))
  ELSE s

DataAssemble(s) ==
  PutPayload(PutFourth(PutQos(PutThird(FrameAssemble(Need(s, s.o.fc.type = Data))))),
             <<<<"llc", 8>>>>)

ControlAssemble(s) == PutPayload(FrameAssemble(Need(s, s.o.fc.type = Cntl)), <<>>)

(***************************************************************************)
(* Each class of management frame: its subtype, its fields, its members    *)
(* put in the tag list of the object, the tags.  An action frame is its    *)
(* header alone.                                                           *)
(***************************************************************************)
OwnSubtype(s) == Need(s, s.o.fc.sub = TypeOf[s.o.class].sub)

ActionAssemble(s) == ManagementAssemble(OwnSubtype(s))

PutMembers(o) ==
  LET puts == Out(o.class).puts
      to[i \in 0..Len(puts)] ==
        IF i = 0 THEN o.tags ELSE PutTag(to[i - 1], Id(puts[i]), o.member[puts[i]])
  IN [o EXCEPT !.tags = to[Len(puts)]]

PutTags(s) == IF s.ok THEN [s EXCEPT !.o = PutMembers(@)] ELSE s

PutTagList(s) == IF s.ok THEN [s EXCEPT !.b = AssembleTags(@, s.o.tags)] ELSE s

BodyAssemble(s) ==
  PutTagList(PutTags(PutNext(ManagementAssemble(OwnSubtype(s)), Out(s.o.class).body)))

ClassAssemble(s) ==
  CASE s.o.class = "ActionRequest" -> ActionAssemble(s)
    [] s.o.class \in Management \ {"ActionRequest"} -> BodyAssemble(s)
    [] s.o.class = "ControlFrame" -> ControlAssemble(s)
    [] s.o.class \in {"DataFrame", "QosData"} -> DataAssemble(s)
    [] OTHER -> FrameAssemble(s)

Assemble(o, b) == ClassAssemble([ok |-> TRUE, o |-> o, b |-> b, base |-> b.end])

-----------------------------------------------------------------------------
(***************************************************************************)
(* Disassemble.  A step takes and returns a reader: ok, the object o, the  *)
(* buffer b, base, and at, where the data pointer is.  What was read stays *)
(* in the object when a later step fails.                                  *)
(***************************************************************************)
Take(r, offset, w, f) ==
  IF r.ok /\ r.at + w <= r.b.end
  THEN [r EXCEPT !.at = @ + w, !.o.val[f] = ReadAt(r.b, r.base + offset, w, f)]
  ELSE [r EXCEPT !.ok = FALSE]

TakeNext(r, fields) == InTurn(LAMBDA c, x : Take(c, c.at - c.base, x[2], x[1]), r, fields)

Left(r) == r.b.end - r.at

TakeControl(r) ==
  IF Left(r) >= 2 THEN [r EXCEPT !.at = @ + 2, !.o.fc = ReadAt(r.b, r.base, 2, "fc")]
  ELSE [r EXCEPT !.ok = FALSE]

(***************************************************************************)
(* Frame::Disassemble.  Address 2 is expected if any octet is left.        *)
(***************************************************************************)
TakeSource(r) == IF r.ok /\ Left(r) > 0 THEN Take(r, 10, 6, "addr2") ELSE r

FrameDisassemble(r) == TakeSource(Take(Take(TakeControl(r), 2, 2, "duration"), 4, 6, "addr1"))

OfType(r, type) == Need(r, r.o.fc.type = type)

TakeThird(r) == Take(Take(r, 16, 6, "addr3"), 22, 2, "seqcntl")

ManagementDisassemble(r) == TakeThird(OfType(FrameDisassemble(r), Mgmt))

TakeQos(r) == IF HasQos(r.o.fc.sub) THEN Take(r, 24, 2, "qoscntl") ELSE r

TakeFourth(r) == IF r.o.fc.ds THEN Take(r, 24, 6, "addr4") ELSE r

TakeLlc(r) == IF Left(r) > 0 THEN TakeNext(r, <<<<"llc", 8>>>>) ELSE r

TakePayload(r) ==
  IF ~r.ok THEN r
  ELSE IF Left(r) = 0 THEN [r EXCEPT !.o.val.payload = Unset]
  ELSE [r EXCEPT !.o.val.payload = ReadAt(r.b, r.at, Left(r), "payload"), !.at = r.b.end]

DataDisassemble(r) ==
  TakePayload(TakeLlc(TakeFourth(TakeQos(TakeThird(OfType(FrameDisassemble(r), Data))))))

ControlDisassemble(r) == TakePayload(OfType(FrameDisassemble(r), Cntl))

(***************************************************************************)
(* A member whose tag was not found keeps its value; the members after a   *)
(* missing one that is needed are not looked for.                          *)
(***************************************************************************)
GetMember(o, t) ==
  IF HasTag(o.tags, Id(t)) THEN [o EXCEPT !.member[t] = GetTag(o.tags, Id(t))] ELSE o

(* Faults, see Mutex. *)
GetNeededNot(r, t) == [r EXCEPT !.o = GetMember(@, t)]

GetNeeded(r, t) ==
  IF r.ok THEN [r EXCEPT !.ok = HasTag(r.o.tags, Id(t)), !.o = GetMember(@, t)] ELSE r

GetOthers(r) ==
  IF r.ok
  THEN [r EXCEPT !.o.member = [t \in DOMAIN @ |-> IF t \in In(r.o.class).gets THEN GetMember(r.o, t).member[t]
                                                  ELSE @[t]]]
  ELSE r

GetMembers(r) == GetOthers(InTurn(GetNeeded, r, In(r.o.class).needs))

DisassembleClassTags(r) ==
  IF ~r.ok THEN r
  ELSE [r EXCEPT !.o.tags = IF r.o.class = "Beacon" THEN DisassembleSplit(r.b, r.at)
                            ELSE DisassembleTags(r.b, r.at)]

BodyDisassemble(r) ==
  GetMembers(DisassembleClassTags(TakeNext(OwnSubtype(ManagementDisassemble(r)), In(r.o.class).body)))

(***************************************************************************)
(* An action frame is not read at all.                                     *)
(***************************************************************************)
ClassDisassemble(r) ==
  CASE r.o.class \in Management -> BodyDisassemble(r)
    [] r.o.class = "ControlFrame" -> ControlDisassemble(r)
    [] r.o.class \in {"DataFrame", "QosData"} -> DataDisassemble(r)
    [] OTHER -> FrameDisassemble(r)

TakeFcs(b, fcs) == IF fcs THEN Pop(b, 4) ELSE b

Disassemble(o, b, at, fcs) ==
  IF o.class = "ActionRequest" THEN [ok |-> TRUE, o |-> o, b |-> b, at |-> at, base |-> at]
  ELSE ClassDisassemble([ok |-> TRUE, o |-> o, b |-> TakeFcs(b, fcs), at |-> at, base |-> at])
=============================================================================
