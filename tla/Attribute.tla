------------------------------- MODULE Attribute -------------------------------
(***************************************************************************)
(* Netlink attributes (lib/zInterface/netlink/Attribute.cpp) and the       *)
(* classes of the attributes of nl80211 (inc/zutils/nl80211).              *)
(*                                                                         *)
(* The data of an attribute are their length in octets and a value; the    *)
(* value of a nested one is a table. A table maps the identifiers of the   *)
(* attributes put to their data: it is what is in a message, and, for the  *)
(* members of an object, those that are valid. No message has two          *)
(* attributes with the same identifier, and none depends on their order.   *)
(***************************************************************************)
EXTENDS Integers

Data(len, val) == [len |-> len, val |-> val]
Empty == << >>

\* A table of one attribute, and table f put over table g: TLC's :> and @@,
\* written out because their definitions are not open to a proof.
Entry(id, d) == [x \in {id} |-> d]
Over(f, g) == [x \in DOMAIN f \cup DOMAIN g |-> IF x \in DOMAIN f THEN f[x] ELSE g[x]]

(***************************************************************************)
(* A class of attributes. A number is read only if the data are as wide as *)
(* the class takes them to be, and otherwise its default is; text and      *)
(* octets (a structure's too) are read as they are, a flag by its presence.*)
(***************************************************************************)
Nothing == 0      \* the default of text and octets: an empty string

AttributeClass(id, sort, least, width, default) ==
  [id |-> id, kind |-> sort, least |-> least, width |-> width, default |-> default]
Number(id, width, default) == AttributeClass(id, "number", width, width, default)
Text(id)                   == AttributeClass(id, "text", 0, 0, Nothing)
Octets(id, least, most)    == AttributeClass(id, "octets", least, most, Nothing)
Flag(id)                   == AttributeClass(id, "flag", 0, 0, Nothing)
NestedClass(id)            == AttributeClass(id, "nested", 0, 0, Nothing)

IsValid(t, a) == a.id \in DOMAIN t

\* operator(): AttributeValue's Get.
Value(t, a) ==
  IF a.kind = "flag" THEN IsValid(t, a)
  ELSE IF IsValid(t, a) /\ (a.kind = "number" => t[a.id].len = a.width)
    THEN t[a.id].val
    ELSE a.default

\* operator() with an argument: AttributeValue's Set. A value that is too short
\* or too long for its class leaves the old one.
Set(t, a, d) ==
  IF a.width # 0 /\ d.len \notin a.least..a.width THEN t ELSE Over(Entry(a.id, d), t)

(***************************************************************************)
(* AttributeTable's Put, by which a member goes into a message if it is    *)
(* valid; it returns true in any case. Its Get, which leaves the member as *)
(* it is if the message has no attribute of that identifier.               *)
(***************************************************************************)
Put(w, t, a) == IF IsValid(t, a) THEN Over(Entry(a.id, t[a.id]), w) ELSE w

Get(t, w, a) == IF IsValid(w, a) THEN Over(Entry(a.id, w[a.id]), t) ELSE t

PutAll(t, A) == [id \in {a.id : a \in {a \in A : IsValid(t, a)}} |-> t[id]]

(***************************************************************************)
(* The members of an array that is nested in an attribute are numbered     *)
(* from 0; the classes of such arrays read up to the first number that is  *)
(* missing, and at most MaxMembers.                                        *)
(***************************************************************************)
MaxMembers == 16

Consecutive(w) == {n \in 0..MaxMembers : \A k \in 0..(n - 1) : k \in DOMAIN w}
Listed(w) == CHOOSE n \in Consecutive(w) : \A k \in Consecutive(w) : k <= n

-----------------------------------------------------------------------------
(* The classes of nl80211, with the widths that they read.                 *)

BeaconHeadAttribute        == Octets("BEACON_HEAD", 0, 0)
BeaconTailAttribute        == Octets("BEACON_TAIL", 0, 0)
ProbeResponseAttribute     == Octets("PROBE_RESP", 0, 0)
FrameAttribute             == Octets("FRAME", 0, 0)
FrameMatchAttribute        == Octets("FRAME_MATCH", 0, 0)
SsidAttribute              == Octets("SSID", 0, 32)
StaSupportedRatesAttribute == Octets("STA_SUPPORTED_RATES", 1, 32)
IfNameAttribute            == Text("IFNAME")
PhyNameAttribute           == Text("WIPHY_NAME")
IfIndexAttribute           == Number("IFINDEX", 4, 0)
IfTypeAttribute            == Number("IFTYPE", 4, 0)
PhyIndexAttribute          == Number("WIPHY", 4, 0)
PhyDevAttribute            == Number("WDEV", 4, 0)      \* the kernel's are 8 wide
MacAttribute               == Octets("MAC", 6, 6)
BeaconIntervalAttribute    == Number("BEACON_INTERVAL", 4, 100)
DtimPeriodAttribute        == Number("DTIM_PERIOD", 4, 3)
ChannelWidthAttribute      == Number("CHANNEL_WIDTH", 4, 0)
FrequencyAttribute         == Number("WIPHY_FREQ", 4, 0)
CenterFrequency1Attribute  == Number("CENTER_FREQ1", 4, 0)
CenterFrequency2Attribute  == Number("CENTER_FREQ2", 4, 0)
TxPowerModeAttribute       == Number("WIPHY_TX_POWER_SETTING", 4, 0)
TxPowerLevelAttribute      == Number("WIPHY_TX_POWER_LEVEL", 4, 0)
RxSignalLevelAttribute     == Number("RX_SIGNAL_DBM", 4, 0)
CookieAttribute            == Number("COOKIE", 8, 0)
FrameTypeAttribute         == Number("FRAME_TYPE", 2, 0)
ListenIntervalAttribute    == Number("STA_LISTEN_INTERVAL", 2, 0)
StaAidAttribute            == Number("STA_AID", 2, 0)
StaCapabilityAttribute     == Number("STA_CAPABILITY", 2, 0)
StationFlagsAttribute      == Octets("STA_FLAGS2", 8, 8)
HtCapabilityAttribute      == Octets("HT_CAPABILITY", 26, 26)
VhtCapabilityAttribute     == Octets("VHT_CAPABILITY", 12, 12)

-----------------------------------------------------------------------------
(* Channels and frequencies in MHz. A channel that is not in the table has *)
(* frequency 0 and a frequency that is not has channel 0; the bands' table *)
(* of frequencies goes on to 2477, which it takes for channel 14.          *)

Ranges ==
  {[freq |-> 2412, top |-> 2472, chan |-> 1],   [freq |-> 5170, top |-> 5320, chan |-> 34],
   [freq |-> 5500, top |-> 5720, chan |-> 100], [freq |-> 5745, top |-> 5805, chan |-> 149],
   [freq |-> 5825, top |-> 5825, chan |-> 165]}
PhyRanges == {[r EXCEPT !.top = IF r.chan = 1 THEN 2477 ELSE @] : r \in Ranges}

Channel(ranges, f) ==
  LET R == {r \in ranges : f \in r.freq..r.top} IN
  IF R = {} THEN 0 ELSE LET r == CHOOSE r \in R : TRUE IN r.chan + ((f - r.freq) \div 5)

freq2chan(f)  == Channel(Ranges, f)
pfreq2chan(f) == Channel(PhyRanges, f)

\* Channels 34 and 35 have none.
chan2freq(c) ==
  LET R == {r \in Ranges : 5 * (c - r.chan) \in 0..(r.top - r.freq) /\ c \notin {34, 35}} IN
  IF R = {} THEN 0 ELSE LET r == CHOOSE r \in R : TRUE IN r.freq + 5 * (c - r.chan)

-----------------------------------------------------------------------------
(* The bands of a phy: PhyBandsAttribute.h.                                *)

FreqClass      == Number("FREQ", 4, 0)
DisabledClass  == Flag("DISABLED")
NoIRClass      == Flag("NO_IR")
RadarClass     == Flag("RADAR")
MaxPowerClass  == Number("MAX_TX_POWER", 4, 0)
RateClass      == Number("RATE", 4, 0)
FreqsClass     == NestedClass("FREQS")
RatesClass     == NestedClass("RATES")
HtMcsClass     == Number("HT_MCS_SET", 16, 0)
HtCapsClass    == Number("HT_CAPA", 2, 0)
AmpduFactor    == Number("HT_AMPDU_FACTOR", 1, 0)
AmpduDensity   == Number("HT_AMPDU_DENSITY", 1, 0)
PhyBandsAttribute == NestedClass("WIPHY_BANDS")

\* A channel of a band, and a rate in units of 500 kbit/s.
FreqAttribute(w) ==
  [freq     |-> Value(w, FreqClass),  channel  |-> pfreq2chan(Value(w, FreqClass)),
   noir     |-> Value(w, NoIRClass),  disabled |-> Value(w, DisabledClass),
   radar    |-> Value(w, RadarClass), maxpower |-> Value(w, MaxPowerClass)]
RateAttribute(w) == (Value(w, RateClass) * 100) \div 500

FreqsAttribute(w) == [n \in 1..Listed(w) |-> FreqAttribute(w[n - 1].val)]
RatesAttribute(w) == [n \in 1..Listed(w) |-> RateAttribute(w[n - 1].val)]

\* A member that the message does not have keeps the value it had.
NewBand == [freqs |-> << >>, rates |-> << >>, fields |-> Empty]
PhyBandAttribute(old, w) ==
  [freqs  |-> IF IsValid(w, FreqsClass) THEN FreqsAttribute(Value(w, FreqsClass)) ELSE old.freqs,
   rates  |-> IF IsValid(w, RatesClass) THEN RatesAttribute(Value(w, RatesClass)) ELSE old.rates,
   fields |-> Over(PutAll(w, {HtMcsClass, HtCapsClass, AmpduFactor, AmpduDensity}), old.fields)]

Bands == 0..2
PhyBands(old, w) ==
  [b \in Bands \cap DOMAIN w |->
     PhyBandAttribute(IF b \in DOMAIN old THEN old[b] ELSE NewBand, w[b].val)]
=============================================================================
