------------------------------- MODULE Wireless -------------------------------
(***************************************************************************)
(* The command objects that a client makes itself, and the interface that  *)
(* makes them for its client out of what it was asked. Both go by the      *)
(* attributes and messages of Nl80211 and share nothing else, so that a    *)
(* behaviour is of one or the other.                                       *)
(***************************************************************************)
EXTENDS Command

CONSTANTS Clients, Radios, MaxStaged

VARIABLES side, client, radio, staged, working, channel, copied, sure

Tune == INSTANCE Tuning

ASSUME WirelessAssumption ==
  /\ MaxStaged \in Nat \ {0}
  /\ Radios # {} /\ Clients # {}
  /\ \A r \in Radios : Tune!IsRadio(r)
  /\ \A m \in Clients : \A c \in {m.offers} \cup m.configs : DOMAIN c \subseteq Tune!Settings
  /\ \A m \in Clients : /\ "freq" \in DOMAIN m.offers => m.offers.freq \subseteq Nat
                        /\ \A c \in m.configs : "freq" \in DOMAIN c => c.freq \in Nat

tunes == <<client, radio, staged, working, channel, copied, sure>>
allvars == <<side, cmdvars, tunes>>

AtRest ==
  /\ client = CHOOSE m \in Clients : TRUE
  /\ radio = CHOOSE r \in Radios : TRUE
  /\ staged = Tune!Default /\ working = Tune!Default
  /\ channel = 0 /\ copied = {} /\ sure = FALSE

WirelessInit ==
  \/ side = "commands" /\ CommandInit /\ AtRest
  \/ side = "interface" /\ CommandInit /\ link = [i \in Indices |-> None] /\ Tune!Init

WirelessNext ==
  /\ side' = side
  /\ \/ side = "commands" /\ CommandNext /\ UNCHANGED tunes
     \/ side = "interface" /\ Tune!Next /\ UNCHANGED cmdvars

WirelessSpec == WirelessInit /\ [][WirelessNext]_allvars

\* See Tuning: a Commit that returns true made the radio what the client asked.
TunesAsAsked == Tune!TunesAsAsked
TuneIInv == Tune!TuneIInv
=============================================================================
