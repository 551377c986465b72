------------------------------ MODULE Accessors ------------------------------
(***************************************************************************)
(* The getters and setters that share a word of an object: the control     *)
(* fields of a frame (lib/zWireless/ieee80211/Frame.cpp, QosData.cpp,      *)
(* Action.cpp), the values of radiotap fields (RadioTapField*.cpp) and of  *)
(* tags (inc/zutils/ieee80211/*Tag.h).  A word, or a structure of several  *)
(* one behind the other, is the set of its bits that are 1, and so is the  *)
(* value of a getter or setter.                                            *)
(***************************************************************************)
EXTENDS Integers

CONSTANT MaxSets   \* bound on the setters called

VARIABLES
  object,   \* the class of the object
  bits,     \* its word
  said,     \* history: by name, what a getter should give since its setter was called
  sets      \* setters called

accessVars == <<object, bits, said, sets>>

(***************************************************************************)
(* An accessor.                                                            *)
(*   get, put  the lowest bit that the getter and the setter use           *)
(*   width     how many there are, and of the setter's argument            *)
(*   clear     the bits that the setter clears first                       *)
(*   drops     those that do not pass through its local variable           *)
(*   known     the bits that it sets, and without which the getter gives   *)
(*   unknown                                                               *)
(*   refused   the arguments for which it returns false and does nothing   *)
(*   inverted  whether a 0 in the word stands for true                     *)
(*   covers    those of the same word that it is made of                   *)
(***************************************************************************)
Span(at, width) == at..(at + width - 1)

Field(name, at, width, argument) ==
  [name |-> name, get |-> at, put |-> at, width |-> width, argument |-> argument,
   clear |-> Span(at, width), drops |-> {}, known |-> {}, unknown |-> {}, refused |-> {},
   inverted |-> FALSE, covers |-> {}]

FlagAt(name, at) == Field(name, at, 1, 1)
Number(name, at, width) == Field(name, at, width, width)

Whole(name, at, width, parts) ==
  {[Number(name, at, width) EXCEPT !.covers = {f.name : f \in parts}]} \cup parts

Shift(v, n) == {b + n : b \in v}
Coded(f, v) == IF f.inverted THEN Span(0, f.width) \ v ELSE v \cap Span(0, f.width)

GetField(w, f) ==
  IF f.known \subseteq w
    THEN Coded(f, Shift(w \cap Span(f.get, f.width), -f.get))
    ELSE f.unknown

(* Faults, see Mutex. *)
PutFieldOver(w, f, v) == w \cup f.known \cup Shift(Coded(f, v), f.put)   \* |= alone

PutField(w, f, v) ==
  ((w \ (f.clear \cup f.drops)) \cup f.known) \cup (Shift(Coded(f, v), f.put) \ f.drops)

-----------------------------------------------------------------------------
(* Frames: the frame control, the sequence control, the QoS control and    *)
(* the block ack parameters of an action frame, whose starting sequence is *)
(* a word of its own behind them.                                          *)

FrameControl ==
  {Field("Version", 0, 2, 8),
   [Number("Type", 2, 2) EXCEPT !.refused = {{0, 1}}],
   [Number("Subtype", 4, 4) EXCEPT !.refused = {0..3}],
   FlagAt("ToDS", 8), FlagAt("FromDS", 9), FlagAt("MoreFragments", 10), FlagAt("Retry", 11),
   FlagAt("PowerManagement", 12), FlagAt("MoreData", 13), FlagAt("Protected", 14),
   FlagAt("Order", 15)}

SequenceControl ==
  Whole("SequenceControl", 0, 16,
    {Field("FragmentNum", 0, 4, 8), Field("SequenceNum", 4, 12, 16)})

QosControl == Whole("QosControl", 0, 16, {Field("TID", 0, 4, 8)})

BlockAckShifted ==                        \* the shifts of 2 and 6 taken for each other
  {Field("TID", 6, 4, 8), Field("Buffers", 2, 10, 16)}

BlockAck == {Field("TID", 2, 4, 8), Field("Buffers", 6, 10, 16), Field("StartingSequence", 20, 12, 16)}

-----------------------------------------------------------------------------
(* Radiotap fields.                                                        *)

RadioTapFlags ==
  Whole("operator()", 0, 8,
    {FlagAt("CFP", 0), FlagAt("ShortPreamble", 1), FlagAt("WEP", 2), FlagAt("Fragmentation", 3),
     FlagAt("FCS", 4), FlagAt("DataPad", 5), FlagAt("BadFCS", 6), FlagAt("ShortGI", 7)})

RadioTapTxFlags ==
  Whole("operator()", 0, 16,
    {FlagAt("Failed", 0), FlagAt("UseRtsCts", 2), FlagAt("NoAck", 3),
     [FlagAt("NoSeqNum", 4) EXCEPT !.inverted = TRUE]})

\* The setters of the flags keep Flags() in eight bits.
Low  == {FlagAt("Turbo", 20), FlagAt("CCK", 21), FlagAt("OFDM", 22), FlagAt("Spectrum2G", 23)}
High == {FlagAt("Spectrum5G", 24), FlagAt("Passive", 25), FlagAt("DynamicCCK", 26), FlagAt("GFSK", 27),
         FlagAt("GSM", 28), FlagAt("StaticTurbo", 29), FlagAt("HalfRate", 30), FlagAt("QuarterRate", 31)}
ChannelFlags == {[f EXCEPT !.drops = 24..31] : f \in Low \cup High}

RadioTapChannel ==
  Whole("operator()", 0, 32,
    {Number("Frequency", 0, 16)} \cup Whole("Flags", 16, 16, ChannelFlags))

\* The octets known, flags and index. A value of an enumeration is written as
\* its bits; three of them have a value NONE besides, which is refused.
None == {-1}
Known(f, k, none) == [f EXCEPT !.known = {k}, !.unknown = none]

McsFlags ==
  {Known(Number("Width", 8, 2), 0, None), Known(FlagAt("GuardInterval", 10), 2, None),
   Known(FlagAt("HtFormat", 11), 3, None), Known(Number("Streams", 13, 2), 5, {})}

RadioTapMcs == Whole("operator()", 0, 24, McsFlags \cup {Known(Number("Index", 16, 8), 1, {})})

-----------------------------------------------------------------------------
(* Tags.                                                                   *)

ErpInfo ==
  Whole("operator()", 0, 8,
    {FlagAt("NonErpPresent", 0), FlagAt("UseProtection", 1), FlagAt("BarkerPreambleMode", 2)})

ChannelSwitch ==
  Whole("operator()", 0, 24, {Number("Mode", 0, 8), Number("Channel", 8, 8), Number("Count", 16, 8)})

PowerCaps == Whole("operator()", 0, 16, {Number("Min", 0, 8), Number("Max", 8, 8)})

\* HtTransBeamCap sets what HtAselCap sets, HtAselCap gets what HtTransBeamCap
\* gets.
AselCap == 200
TransBeamCap == 168

HtCaps ==
  Whole("operator()", 0, 208,
    {Number("HtCapInfo", 0, 16), Number("HtAmpduParms", 16, 8), Number("HtSupportedMcsSet", 24, 128),
     Number("HtExtCaps", 152, 16),
     [Number("HtTransBeamCap", TransBeamCap, 32) EXCEPT !.put = AselCap, !.clear = Span(AselCap, 8),
                                                        !.drops = 208..231],
     [Number("HtAselCap", AselCap, 32) EXCEPT !.get = TransBeamCap, !.clear = Span(AselCap, 8),
                                              !.drops = 208..231]})

HtInfo ==
  Whole("operator()", 0, 176,
    {Number("PrimaryChannel", 0, 8), Number("HtSubset1", 8, 8), Number("HtSubset2", 16, 16),
     Number("HtSubset3", 32, 16), Number("RxMcs", 48, 128)})

\* The upper half of a flag's number is its octet, the lower its bit there. These
\* are the flags at the ends of their octets, and the first octet's, where three
\* numbers are those of two flags.
Extended ==
  {<<"PSMP", 4>>, <<"S_PSMP", 6>>, <<"EVENT", 7>>, <<"IDENTIFIER_LOCATION", 4>>,
   <<"WNM_NOTIFICATION", 6>>, <<"QAB", 7>>, <<"DIAGNOSTICS", 16>>, <<"GEOSPATIAL", 23>>,
   <<"TFS", 32>>, <<"QOS_MAP", 64>>, <<"TDLS_PROHIBITED", 70>>, <<"UTF_8_SSID", 96>>,
   <<"WIDER_BANDWIDTH", 117>>, <<"MSDUS_IN_A_MSDU", 119>>}

ExtCaps == {FlagAt(e[1], 8 * (e[2] \div 16) + (e[2] % 16)) : e \in Extended}

-----------------------------------------------------------------------------
Accessors ==
  [FrameControl |-> FrameControl, SequenceControl |-> SequenceControl, QosControl |-> QosControl,
   BlockAck |-> BlockAck, RadioTapFlags |-> RadioTapFlags, RadioTapTxFlags |-> RadioTapTxFlags,
   RadioTapChannel |-> RadioTapChannel, RadioTapMcs |-> RadioTapMcs, ErpInfo |-> ErpInfo,
   ChannelSwitch |-> ChannelSwitch, PowerCaps |-> PowerCaps, HtCaps |-> HtCaps, HtInfo |-> HtInfo,
   ExtCaps |-> ExtCaps]

Ones == [c \in DOMAIN Accessors |-> UNION {f.clear : f \in Accessors[c]}]

\* Arguments that meet the ends of the field, and one beyond it where the
\* argument's type is wider.
Arguments(f) ==
  {v \in {{}, {0}, {f.width - 1}, Span(0, f.width), {f.width}} :
     v \subseteq Span(0, f.argument) /\ v \notin f.refused}

\* An object is new, or it has read a word of ones.
Objects == {<<c, w>> : c \in DOMAIN Accessors, w \in {"new", "read"}}
Word(o) == IF o[2] = "new" THEN {} ELSE Ones[o[1]]

AccessInit ==
  /\ \E o \in Objects : object = o[1] /\ bits = Word(o)
  /\ said = << >> /\ sets = 0

Another ==
  /\ sets = MaxSets
  /\ \E o \in Objects : object' = o[1] /\ bits' = Word(o)
  /\ said' = << >> /\ sets' = 0

\* What a setter says of the others in its word is nothing, but of those that
\* it is made of and of the one that it is part of.
Unsaid(f) == f.covers \cup {g.name : g \in {g \in Accessors[object] : f.name \in g.covers}}

Set(f, v) ==
  /\ sets < MaxSets
  /\ bits' = PutField(bits, f, v)
  /\ said' = [x \in (DOMAIN said \ Unsaid(f)) \cup {f.name} |->
                IF x = f.name THEN v \cap Span(0, f.width) ELSE said[x]]
  /\ sets' = sets + 1
  /\ UNCHANGED object

AccessNext ==
  \/ Another
  \/ \E f \in Accessors[object] : \E v \in Arguments(f) : Set(f, v)

AccessSpec == AccessInit /\ [][AccessNext]_accessVars

-----------------------------------------------------------------------------
\* The accessors that do not keep to their bits: a channel's flags above the
\* eighth, the two of HtCapsTag that have each other's, and the flags of
\* ExtCapsTag that have one number.
Astray(c) ==
  CASE c = "RadioTapChannel" -> {f.name : f \in High}
    [] c = "HtCaps"  -> {"HtAselCap", "HtTransBeamCap"}
    [] c = "ExtCaps" -> {e[1] : e \in {e \in Extended : e[2] \in {4, 6, 7}}}
    [] OTHER -> {}

\* A getter gives what its setter was last given, cut to the width of the field,
\* whichever setters of the same word were called in between: each keeps to its
\* own bits, sets all of them and clears those of an earlier value.
FieldsKept ==
  \A f \in {f \in Accessors[object] : f.name \in DOMAIN said \ Astray(object)} :
    GetField(bits, f) = said[f.name]

\* FieldsKept is inductive with the octets that such a getter has to know.
AccessIInv ==
  /\ object \in DOMAIN Accessors
  /\ FieldsKept
  /\ \A f \in {f \in Accessors[object] : f.name \in DOMAIN said \ Astray(object)} : f.known \subseteq bits
=============================================================================
