------------------------------- MODULE MCWireless -------------------------------
EXTENDS Wireless, TLC

(***************************************************************************)
(* Two values, of which one is that of the channel width with a second     *)
(* centre frequency, and a phy with a band of three channels, one of them  *)
(* disabled, and one with more channels than are read.                     *)
(***************************************************************************)
TwoVals == {Width80P80, 7}
TwoStates == [v \in TwoVals |-> IF v = 7 THEN 6 ELSE 2]

FreqOf(f, flags) == Data(0, (FreqClass.id :> Data(4, f)) @@ [id \in flags |-> Data(0, 0)])
RateOf(r) == Data(0, RateClass.id :> Data(4, r))
Band(freqs, rates) ==
  Data(0, (FreqsClass.id :> Data(0, freqs)) @@ (RatesClass.id :> Data(0, rates))
          @@ (HtCapsClass.id :> Data(2, 7)))

Phy ==
  (0 :> Band([n \in 0..2 |-> FreqOf(2412 + 5 * n, IF n = 1 THEN {DisabledClass.id} ELSE {})],
             [n \in 0..1 |-> RateOf(10 * (n + 1))]))
  @@ (1 :> Band([n \in 0..17 |-> FreqOf(5180 + 20 * n, {})], [n \in 0..0 |-> RateOf(60)]))

(***************************************************************************)
(* Three clients: one that tunes to 20 and 40 MHz, one to wider channels   *)
(* with their centres, one that changes the mode and the power. The link   *)
(* is down at first, or up on a channel without HT.                        *)
(***************************************************************************)
UpDown == {"UP", "DOWN"}
Narrow ==
  [offers  |-> [htmode |-> {"NOHT", "VHT40"}, freq |-> {36, 40}, cf2 |-> {5190}, admin |-> UpDown],
   configs |-> {[htmode |-> "HT20", freq |-> 40]}]
Wide ==
  [offers  |-> [htmode |-> {"VHT80", "VHT80+80"}, freq |-> {100, 149}, cf2 |-> {5530}, admin |-> {"UP"}],
   configs |-> {[htmode |-> "VHT160", freq |-> 100, cf1 |-> 5570, cf2 |-> 5570, admin |-> "UP"]}]
Moder ==
  [offers  |-> [opmode |-> {"AP", "MESH"}, power |-> {20}, promode |-> {"ENABLED"}, admin |-> UpDown],
   configs |-> {[opmode |-> "MONITOR", admin |-> "DOWN"]}]
ThreeClients == {Narrow, Wide, Moder}

RadioOn(freq) ==
  [type |-> 2, up |-> (freq # 0), promisc |-> FALSE, freq |-> freq, width |-> 0, cf1 |-> freq, power |-> 15]
TwoRadios == {RadioOn(0), RadioOn(2412)}
=============================================================================
