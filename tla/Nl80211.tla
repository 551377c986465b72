------------------------------- MODULE Nl80211 -------------------------------
(***************************************************************************)
(* The commands of nl80211 (lib/zWireless/nl80211): for each what stops    *)
(* it, what it asks the kernel with which attributes, and which answers    *)
(* end it with what they set. How a command is executed is in Command.     *)
(***************************************************************************)
EXTENDS Attribute, Sequences

(***************************************************************************)
(*   members  the attributes of the class, which its client sets           *)
(*   made     those that the constructor sets                              *)
(*   cmd      the command of the message; with NLM_F_DUMP if dump          *)
(*   guard    the attributes without whose value Exec goes no further      *)
(*   puts     those put into the message                                   *)
(*   resets   Exec sets _status to false first                             *)
(*   reads    those that valid_cb takes, in order, and none may be missing *)
(*   may      those that it takes if they are there                        *)
(*   ends     the callbacks that set _status and post: "valid", "ack",     *)
(*            "finish"; err_cb does so in every command                    *)
(***************************************************************************)
Takes(reads, may, ends) == [reads |-> reads, may |-> may, ends |-> ends]
Acked == Takes(<< >>, {}, {"ack"})

Execs(cmd, members, puts, takes) ==
  [cmd |-> cmd, dump |-> FALSE, members |-> members, made |-> {IfIndexAttribute},
   guard |-> {IfIndexAttribute}, puts |-> puts, resets |-> TRUE,
   reads |-> takes.reads, may |-> takes.may, ends |-> takes.ends]

Listing(cmd, members, takes) ==
  [Execs(cmd, members, {}, takes) EXCEPT !.dump = TRUE, !.guard = {}, !.made = members]

If == {IfIndexAttribute, IfNameAttribute}
Tuned == {FrequencyAttribute, ChannelWidthAttribute, CenterFrequency1Attribute,
          CenterFrequency2Attribute, TxPowerModeAttribute, TxPowerLevelAttribute}
Identified == <<IfIndexAttribute, IfNameAttribute>>

-----------------------------------------------------------------------------
GetInterfaceMembers ==
  If \cup Tuned \cup {PhyIndexAttribute, PhyDevAttribute, IfTypeAttribute, MacAttribute, SsidAttribute}
GetInterfaceTakes ==
  Takes(<<PhyIndexAttribute, PhyDevAttribute, IfIndexAttribute, IfNameAttribute, IfTypeAttribute,
          MacAttribute>>, {SsidAttribute} \cup Tuned, {"valid"})
GetInterfaceCommand ==
  Execs("GET_INTERFACE", GetInterfaceMembers, {IfIndexAttribute}, GetInterfaceTakes)

GetPhyMembers == {PhyIndexAttribute, PhyNameAttribute, PhyBandsAttribute}
GetPhyTakes == Takes(<<PhyIndexAttribute, PhyNameAttribute, PhyBandsAttribute>>, {}, {"valid"})
GetPhyCommand ==
  [Execs("GET_WIPHY", GetPhyMembers, {PhyIndexAttribute}, GetPhyTakes)
     EXCEPT !.guard = {}, !.made = {PhyIndexAttribute}]

GetStationMembers == If \cup {MacAttribute}
GetStationTakes == Takes(Identified, {}, {"valid"})
GetStationCommand ==
  [Execs("GET_STATION", GetStationMembers, {IfIndexAttribute}, GetStationTakes) EXCEPT !.resets = FALSE]

ListInterfacesTakes == Takes(Identified, {}, {"finish"})
ListInterfacesCommand == Listing("GET_INTERFACE", {}, ListInterfacesTakes)

ListPhysTakes == Takes(<<PhyIndexAttribute, PhyNameAttribute>>, {}, {"finish"})
ListPhysCommand == Listing("GET_WIPHY", {}, ListPhysTakes)

\* Nothing of what the kernel lists is taken.
ListStationsTakes == Takes(<< >>, {}, {"finish"})
ListStationsCommand == Listing("GET_STATION", {IfIndexAttribute}, ListStationsTakes)

NewInterfaceMembers == If \cup {PhyIndexAttribute, IfTypeAttribute}
NewInterfaceTakes ==
  Takes(<<PhyIndexAttribute, IfIndexAttribute, IfNameAttribute, IfTypeAttribute>>, {}, {"valid"})
NewInterfaceCommand ==
  [Execs("NEW_INTERFACE", NewInterfaceMembers, NewInterfaceMembers \ {IfIndexAttribute},
         NewInterfaceTakes)
     EXCEPT !.guard = {IfNameAttribute}, !.made = {PhyIndexAttribute, IfNameAttribute}]

DelInterfaceMembers == If
DelInterfaceTakes == Acked
DelInterfaceCommand ==
  Execs("DEL_INTERFACE", DelInterfaceMembers, {IfIndexAttribute}, DelInterfaceTakes)

NewStationMembers ==
  If \cup {MacAttribute, ListenIntervalAttribute, StaSupportedRatesAttribute, StaAidAttribute,
           StationFlagsAttribute, HtCapabilityAttribute, VhtCapabilityAttribute}
NewStationTakes == Takes(Identified, {}, {"ack", "valid"})
NewStationCommand ==
  [Execs("NEW_STATION", NewStationMembers, NewStationMembers, NewStationTakes) EXCEPT !.resets = FALSE]

DelStationMembers == If \cup {MacAttribute}
DelStationTakes == Acked
DelStationCommand ==
  [Execs("DEL_STATION", DelStationMembers, {IfIndexAttribute, MacAttribute}, DelStationTakes)
     EXCEPT !.resets = FALSE]

\* It has no ack_cb: it waits for a message that the kernel does not send.
SetStationMembers == If \cup {MacAttribute}
SetStationTakes == Takes(Identified, {}, {"valid"})
SetStationCommand ==
  [Execs("SET_STATION", SetStationMembers, {IfIndexAttribute}, SetStationTakes) EXCEPT !.resets = FALSE]

\* It asks whether there is an index, which there is, not whether it is 0.
SetInterfaceMembers == If \cup {IfTypeAttribute}
SetInterfaceTakes == Acked
SetInterfaceCommand ==
  [Execs("SET_INTERFACE", SetInterfaceMembers, {IfIndexAttribute, IfTypeAttribute}, SetInterfaceTakes)
     EXCEPT !.guard = {}]

SetPhyMembers == If \cup Tuned \cup {PhyIndexAttribute, PhyNameAttribute}
SetPhyTakes == Acked
SetPhyCommand ==
  Execs("SET_WIPHY", SetPhyMembers, SetPhyMembers \ {IfNameAttribute}, SetPhyTakes)

\* The second centre frequency goes only with the width that has one.
StartApMembers ==
  If \cup {SsidAttribute, ChannelWidthAttribute, FrequencyAttribute, CenterFrequency1Attribute,
           CenterFrequency2Attribute, BeaconIntervalAttribute, DtimPeriodAttribute,
           BeaconHeadAttribute, BeaconTailAttribute, ProbeResponseAttribute}
StartApTakes == Acked
StartApCommand == Execs("START_AP", StartApMembers, StartApMembers \ {IfNameAttribute}, StartApTakes)
Width80P80 == 4

StopApMembers == If
StopApTakes == Acked
StopApCommand ==
  [Execs("STOP_AP", StopApMembers, {IfIndexAttribute}, StopApTakes) EXCEPT !.guard = {}]

SetBeaconMembers ==
  If \cup {BeaconIntervalAttribute, BeaconHeadAttribute, BeaconTailAttribute, ProbeResponseAttribute}
SetBeaconTakes == Acked
SetBeaconCommand ==
  [Execs("SET_BEACON", SetBeaconMembers, SetBeaconMembers \ {IfNameAttribute}, SetBeaconTakes)
     EXCEPT !.resets = FALSE]

\* The kernel answers with the cookie of the frame's transmission.
FrameMembers == If \cup {FrameAttribute, FrequencyAttribute, CookieAttribute}
FrameTakes == Takes(<< >>, FrameMembers, {"valid"})
FrameCommand ==
  Execs("FRAME", FrameMembers, {IfIndexAttribute, FrameAttribute, FrequencyAttribute}, FrameTakes)

Nl80211Commands ==
  [GetInterface |-> GetInterfaceCommand, GetPhy |-> GetPhyCommand,
   GetStation |-> GetStationCommand, ListInterfaces |-> ListInterfacesCommand,
   ListPhys |-> ListPhysCommand, ListStations |-> ListStationsCommand,
   NewInterface |-> NewInterfaceCommand, DelInterface |-> DelInterfaceCommand,
   NewStation |-> NewStationCommand, DelStation |-> DelStationCommand,
   SetStation |-> SetStationCommand, SetInterface |-> SetInterfaceCommand,
   SetPhy |-> SetPhyCommand, StartAp |-> StartApCommand, StopAp |-> StopApCommand,
   SetBeacon |-> SetBeaconCommand, Frame |-> FrameCommand]

-----------------------------------------------------------------------------
(***************************************************************************)
(* The message, and what valid_cb takes from an answer: the attributes in  *)
(* order until one is missing, and then, if none is, those it may have.    *)
(***************************************************************************)
Puts(k, t) ==
  IF k.cmd = "START_AP" /\ Value(t, ChannelWidthAttribute) # Width80P80
    THEN k.puts \ {CenterFrequency2Attribute} ELSE k.puts

\* The member of SetPhyCommand for the second centre frequency has the class,
\* and so the identifier, of the first, after which it is put.
Message(k, t) ==
  IF k.cmd = "SET_WIPHY" /\ IsValid(t, CenterFrequency2Attribute)
    THEN Over(Entry(CenterFrequency1Attribute.id, t[CenterFrequency2Attribute.id]),
              PutAll(t, k.puts \ {CenterFrequency2Attribute}))
    ELSE PutAll(t, Puts(k, t))

Complete(k, w) == \A n \in DOMAIN k.reads : IsValid(w, k.reads[n])

(* Fault, see Mutex. *)
TakenRequired(k, w) ==                  \* and nothing of what it may have
  {k.reads[n] : n \in {n \in DOMAIN k.reads : \A i \in 1..n : IsValid(w, k.reads[i])}}

Taken(k, w) ==
  LET required == {k.reads[n] : n \in {n \in DOMAIN k.reads :
                                         \A i \in 1..n : IsValid(w, k.reads[i])}} IN
  IF Complete(k, w) THEN required \cup {a \in k.may : IsValid(w, a)} ELSE required

Decoded(t, w, a) ==
  IF a.kind = "nested" THEN Data(0, PhyBands(IF IsValid(t, a) THEN t[a.id].val ELSE Empty, w[a.id].val))
                       ELSE w[a.id]

Read(k, t, w) ==
  LET T == Taken(k, w) IN
  Over([id \in {a.id : a \in T} |-> Decoded(t, w, CHOOSE a \in T : a.id = id)], t)
=============================================================================
