-------------------------------- MODULE Tuning --------------------------------
(***************************************************************************)
(* What zWireless::Interface makes of the values that its client gives it  *)
(* (lib/zWireless/Interface.cpp, Configuration.cpp): modes are kept as     *)
(* text, channels as frequencies, both are sent as numbers of nl80211 in   *)
(* a SetPhyCommand or SetInterfaceCommand, and read back from the kernel's *)
(* answers. A value that is the default of the configuration, or the same  *)
(* in the working configuration, is not sent.                              *)
(*                                                                         *)
(* The link is there all the time and Commit is one step: links that come  *)
(* and go, and others who act during a Commit, are in Interface.           *)
(***************************************************************************)
EXTENDS Nl80211, FiniteSets

CONSTANTS
  Clients,   \* for each client the values that it gives to setters (offers) and the
             \* settings with their values that it gives to SetConfig (configs)
  Radios,    \* the radio at first
  MaxStaged  \* bound on the settings staged to another value than the working one

VARIABLES
  client,    \* the one of Clients that uses the interface
  radio,     \* the kernel's interface: type, up, promisc, freq, width, cf1, power
  staged,    \* stagingConfig
  working,   \* workingConfig
  channel,   \* history: the channel asked for since Commit last returned true, or 0
  copied,    \* history: the settings that Refresh could only read from staged
  sure       \* history: nobody else, and no Commit that failed, changed the
             \* radio since the working configuration was read

config == <<staged, working>>
history == <<channel, copied, sure>>
tvars == <<client, radio, config, history>>

-----------------------------------------------------------------------------
(* The configuration: modes are kept as text, those without one as default.*)

Default ==
  [opmode |-> "STA", htmode |-> "NONE", freq |-> 0, cf1 |-> 0, cf2 |-> 0, power |-> 0,
   promode |-> "NONE", admin |-> "NONE"]
Settings == DOMAIN Default

Texts ==
  [opmode |-> {"STA", "AP", "ADHOC", "MONITOR", "MESH"},
   htmode |-> {"HT20", "HT40", "VHT20", "VHT40", "VHT80", "VHT80+80", "VHT160"},
   promode |-> {"ENABLED", "DISABLED"}, admin |-> {"UP", "DOWN"}]

Stored(a, v) == IF a \in DOMAIN Texts /\ v \notin Texts[a] THEN Default[a] ELSE v

\* The client gives a channel (SetChannel).
Given(a, v) == Stored(a, IF a = "freq" THEN chan2freq(v) ELSE v)

(* The numbers of nl80211. *)
htmode2nl(m) ==
  CASE m \in {"HT20", "VHT20"} -> 1
    [] m \in {"HT40", "VHT40"} -> 2
    [] m = "VHT80" -> 3
    [] m = "VHT80+80" -> Width80P80
    [] m = "VHT160" -> 5
    [] OTHER -> 0
nl2htmode(n) ==
  IF n \in 0..5 THEN <<"NOHT", "HT20", "HT40", "VHT80", "VHT80+80", "VHT160">>[n + 1] ELSE "ERR"

Types == [ADHOC |-> 1, STA |-> 2, AP |-> 3, MONITOR |-> 6]
opmode2nl(m) == IF m \in DOMAIN Types THEN Types[m] ELSE 0
nl2opmode(n) ==
  IF \E m \in DOMAIN Types : Types[m] = n THEN CHOOSE m \in DOMAIN Types : Types[m] = n ELSE "STA"

-----------------------------------------------------------------------------
(* The kernel. It knows the channel and the power only while the link is   *)
(* up; it takes a type only while it is down, and a channel while it is up *)
(* if the centre fits the width: 80+80 would need a second one.            *)

OnChannel(r) == r.up /\ r.freq # 0
Told(r) ==
  Over(Entry(IfTypeAttribute.id, Data(4, r.type)),
  Over(IF OnChannel(r) THEN Over(Entry(FrequencyAttribute.id, Data(4, r.freq)),
                            Over(Entry(ChannelWidthAttribute.id, Data(4, r.width)),
                                 Entry(CenterFrequency1Attribute.id, Data(4, r.cf1)))) ELSE Empty,
       IF r.up THEN Entry(TxPowerLevelAttribute.id, Data(4, r.power)) ELSE Empty))

Off == <<10, 30, 50, 70>>
Centred(f, width, cf1) ==
  LET d == IF cf1 > f THEN cf1 - f ELSE f - cf1 IN
  CASE width \in {0, 1} -> d = 0
    [] width = 2 -> d = Off[1]
    [] width = 3 -> f > 5000 /\ d \in {Off[1], Off[2]}
    [] width = 5 -> f > 5000 /\ \E n \in DOMAIN Off : d = Off[n]
    [] OTHER -> FALSE

WithAdmin(r, up) ==
  IF up THEN [r EXCEPT !.up = TRUE] ELSE [r EXCEPT !.up = FALSE, !.freq = 0, !.width = 0, !.cf1 = 0]

\* Others take it up or down, and may leave it on a channel.
Outside ==
  /\ \/ radio' = WithAdmin(radio, ~radio.up)
     \/ radio.up /\ radio' \in Radios \ {radio}
  /\ sure' = FALSE
  /\ UNCHANGED <<client, config, channel, copied>>

-----------------------------------------------------------------------------
(* The setters, and Refresh: a getter that the kernel does not answer      *)
(* returns the staged value. The promiscuous mode is not refreshed.        *)

StagedNow == Cardinality({a \in Settings : staged'[a] # working[a]}) <= MaxStaged

Ask(a, v) ==
  /\ staged' = [staged EXCEPT ![a] = Given(a, v)] /\ StagedNow
  /\ channel' = IF a = "freq" THEN v ELSE channel
  /\ UNCHANGED <<client, radio, working, copied, sure>>

\* What is not in the configuration given is staged as it is in the working one.
SetConfig(c) ==
  /\ staged' = [a \in Settings |-> IF a \in DOMAIN c THEN Given(a, c[a]) ELSE working[a]]
  /\ channel' = IF "freq" \in DOMAIN c THEN c.freq ELSE 0
  /\ UNCHANGED <<client, radio, working, copied, sure>>

Answers(r) ==
  LET w == Told(r) IN
  [opmode |-> nl2opmode(Value(w, IfTypeAttribute)),
   htmode |-> IF IsValid(w, ChannelWidthAttribute)
                THEN nl2htmode(Value(w, ChannelWidthAttribute)) ELSE "ERR",
   freq |-> Value(w, FrequencyAttribute), cf1 |-> Value(w, CenterFrequency1Attribute),
   cf2 |-> Value(w, CenterFrequency2Attribute), power |-> Value(w, TxPowerLevelAttribute),
   admin |-> IF r.up THEN "UP" ELSE "DOWN"]

Unanswered(r) ==
  {a \in DOMAIN Answers(r) : Answers(r)[a] = IF a \in DOMAIN Texts THEN "ERR" ELSE 0}

Refreshed(r) ==
  [a \in Settings |-> IF a = "promode" THEN working[a]
                      ELSE Stored(a, IF a \in Unanswered(r) THEN staged[a] ELSE Answers(r)[a])]

Refresh ==
  /\ working' = Refreshed(radio)
  /\ copied' = Unanswered(radio)
  /\ sure' = TRUE
  /\ UNCHANGED <<client, radio, staged, channel>>

-----------------------------------------------------------------------------
(* Commit.                                                                 *)

ChannelSettings == {"htmode", "freq", "cf1", "cf2"}
Differs(a) == staged[a] \notin {Default[a], working[a]}

(* Fault, see Mutex. *)
DueByFreq ==                            \* the width alone is no reason
  {c \in {"opmode", "promode", "admin", "channel", "power"} :
     /\ IF c = "channel" THEN Differs("freq") ELSE Differs(c)
     /\ c = "opmode" => working.admin # "UP"
     /\ c \in {"channel", "power"} => staged.admin = "UP"}

Due ==
  {c \in {"opmode", "promode", "admin", "channel", "power"} :
     /\ IF c = "channel" THEN \E a \in ChannelSettings : Differs(a) ELSE Differs(c)
     /\ c = "opmode" => working.admin # "UP"
     /\ c \in {"channel", "power"} => staged.admin = "UP"}

\* _setChannel makes no command without an HT mode.
Made == IF staged.htmode = "NONE" THEN Due \ {"channel"} ELSE Due

\* The first centre that is staged is not sent. The second goes into the
\* message in place of the first.
SetChannelAttrs ==
  LET wide == staged.htmode \in {"HT40", "VHT40", "VHT80", "VHT80+80", "VHT160"} IN
  Over(Entry(IfIndexAttribute.id, Data(4, 1)),
  Over(Entry(PhyIndexAttribute.id, Data(4, 0)),
  Over(Entry(FrequencyAttribute.id, Data(4, staged.freq)),
  Over(Entry(CenterFrequency1Attribute.id, Data(4, staged.freq)),
  Over(Entry(ChannelWidthAttribute.id, Data(4, htmode2nl(staged.htmode))),
       IF wide THEN Entry(CenterFrequency2Attribute.id, Data(4, staged.cf2)) ELSE Empty)))))

ChannelSent ==
  LET w == Message(SetPhyCommand, SetChannelAttrs) IN
  [freq |-> Value(w, FrequencyAttribute), width |-> Value(w, ChannelWidthAttribute),
   cf1 |-> Value(w, CenterFrequency1Attribute)]

Accepts(r, c) ==
  /\ c = "opmode" => ~r.up /\ \E m \in DOMAIN Types : Types[m] = opmode2nl(staged.opmode)
  /\ c = "channel" =>
       r.up /\ freq2chan(ChannelSent.freq) # 0
            /\ Centred(ChannelSent.freq, ChannelSent.width, ChannelSent.cf1)

Applied(r, c) ==
  CASE c = "opmode"  -> [r EXCEPT !.type = opmode2nl(staged.opmode)]
    [] c = "promode" -> [r EXCEPT !.promisc = (staged.promode = "ENABLED")]
    [] c = "admin"   -> WithAdmin(r, staged.admin = "UP")
    [] c = "channel" -> [r EXCEPT !.freq = ChannelSent.freq, !.width = ChannelSent.width,
                                  !.cf1 = ChannelSent.cf1]
    [] c = "power"   -> [r EXCEPT !.power = staged.power]

\* Each command is executed, whatever became of those before it; `refused' are
\* those that the kernel refuses for a reason of its own.
Executed(refused) ==
  LET do(s, c) ==
        IF c \notin Made THEN s
        ELSE IF c \notin refused /\ Accepts(s.radio, c) THEN [s EXCEPT !.radio = Applied(@, c)]
        ELSE [s EXCEPT !.ok = FALSE]
      begun == [radio |-> radio, ok |-> (Made = Due)]
  IN do(do(do(do(do(begun, "opmode"), "promode"), "admin"), "channel"), "power")

\* `heard': the answer to every command arrives.
CommitDoing(refused, heard) ==
  LET s == Executed(refused) IN
  /\ radio' = s.radio /\ client' = client
  /\ IF s.ok /\ heard
       THEN /\ working' = Refreshed(s.radio) /\ staged' = working'
            /\ copied' = Unanswered(s.radio)
            /\ channel' = 0 /\ sure' = TRUE
       ELSE sure' = FALSE /\ UNCHANGED <<config, channel, copied>>

Commit ==
  \/ CommitDoing({}, TRUE)
  \/ Made # {} /\ CommitDoing({}, FALSE)
  \/ \E c \in Made : CommitDoing({c}, TRUE)

Init ==
  /\ client \in Clients /\ radio \in Radios
  /\ staged = Default /\ working = Default
  /\ channel = 0 /\ copied = {} /\ sure = FALSE

Next ==
  \/ \E a \in DOMAIN client.offers : \E v \in client.offers[a] : Ask(a, v)
  \/ \E c \in client.configs : SetConfig(c)
  \/ Refresh \/ Commit \/ Outside

Spec == Init /\ [][Next]_tvars

-----------------------------------------------------------------------------
\* nl80211 has one width for the modes of both standards.
Alike(m) == CASE m = "VHT20" -> "HT20" [] m = "VHT40" -> "HT40" [] OTHER -> m

Shows(r) ==
  [opmode |-> nl2opmode(r.type), promode |-> IF r.promisc THEN "ENABLED" ELSE "DISABLED",
   admin |-> IF r.up THEN "UP" ELSE "DOWN", htmode |-> nl2htmode(r.width), freq |-> r.freq,
   power |-> r.power]

\* Commit can tell that the setting is to be made, and may make it now.
Pending(a) ==
  /\ staged[a] # Default[a]
  /\ ~(a \in copied /\ staged[a] = working[a])
  /\ a = "opmode" => working.admin # "UP"
  /\ a \in {"htmode", "freq", "power"} => staged.admin = "UP"

\* The settings for whose difference a Commit changes what the radio shows as a.
Causes(a) == IF a \in {"htmode", "freq"} THEN ChannelSettings \cup {"admin"} ELSE {a}
Untouched(a) == \A c \in Causes(a) : ~Differs(c)

ReturnsTrue == sure /\ sure' /\ staged' = working' /\ Commit

\* A Commit that returns true made the radio what the client asked of it and
\* Commit can tell, in the client's terms: the channel, the HT mode, the power
\* and the rest. What Commit cannot tell it leaves as it was on the radio, and
\* returns true as well: a default (a station; no HT mode, for which NOHT is
\* taken), and what was set before a Refresh that the kernel did not answer, the
\* link being down, so that it was read as staged and seems to be made already
\* (Interface.cpp:385). What the state of the link forbids is not promised.
TunesAsAsked ==
  [][ReturnsTrue =>
       /\ \A a \in DOMAIN Shows(radio') : Pending(a) =>
            Shows(radio')[a] = IF a = "htmode" THEN Alike(staged[a]) ELSE staged[a]
       /\ channel # 0 /\ Pending("freq") => freq2chan(radio'.freq) = channel
       /\ \A a \in DOMAIN Shows(radio') : Untouched(a) => Shows(radio')[a] = Shows(radio)[a]]_tvars

(***************************************************************************)
(* The inductive invariant behind TunesAsAsked: as long as nobody else     *)
(* changed the radio, what was read is still so, but for what could not be *)
(* read; the promiscuous mode never is.                                    *)
(***************************************************************************)
RadioFields == {"type", "up", "promisc", "freq", "width", "cf1", "power"}
IsRadio(r) == DOMAIN r = RadioFields /\ r.up \in BOOLEAN /\ r.promisc \in BOOLEAN
IsConfig(c) ==
  DOMAIN c = Settings /\ \A a \in DOMAIN Texts : c[a] \in Texts[a] \cup {Default[a]}

TuneTyped == client \in Clients /\ IsRadio(radio) /\ IsConfig(staged) /\ IsConfig(working)

ChannelStaged == channel # 0 => channel \in Nat /\ staged.freq = chan2freq(channel)

WorkingShown ==
  /\ working.promode = Default.promode
  /\ sure => \A a \in DOMAIN Shows(radio) \ {"promode"} :
                a \in copied \/ working[a] \in {Default[a], Shows(radio)[a]}

TuneIInv == TuneTyped /\ ChannelStaged /\ WorkingShown
=============================================================================
