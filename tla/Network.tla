------------------------------- MODULE Network -------------------------------
(***************************************************************************)
(* A program whose frames go through the air (Air) or over a wire          *)
(* (Ethernet), or that sets and gets the parts of a frame (Accessors).     *)
(* What they have in common is the classes and what is expected of them,   *)
(* so a behaviour is about one of the three.                               *)
(***************************************************************************)
EXTENDS Air

CONSTANTS EtherPairs, Lengths, Protos, Deliveries, MaxEther, MaxSets   \* see Ethernet and Accessors

ASSUME WireAssumption ==
  /\ EtherPairs \subseteq {"ETHER", "ETHER2", "LLC", "VLAN"} \X {"ETHER", "ETHER2", "LLC", "VLAN"}
  /\ Lengths \cup Protos \subseteq Nat
  /\ \A d \in Deliveries : d.lost \in Nat /\ d.padded \in BOOLEAN /\ (d.padded => d.lost = 0)

VARIABLES
  about,                     \* "air", "wire" or "parts"
  etx, erx, wire, enote,     \* see Ethernet
  object, bits, said, sets   \* see Accessors

E == INSTANCE Ethernet WITH tx <- etx, rx <- erx, note <- enote
P == INSTANCE Accessors

wireVars == <<etx, erx, wire, enote>>
partVars == <<object, bits, said, sets>>

NoAir == tx = New("Frame") /\ rx = New("Frame") /\ air = Silence /\ note = NoNote
NoWire == etx = E!New("NONE") /\ erx = E!New("NONE") /\ wire = E!Silence /\ enote = E!NoNote
NoParts == object = "none" /\ bits = {} /\ said = << >> /\ sets = 0

NetInit ==
  \/ about = "air" /\ AirInit /\ NoWire /\ NoParts
  \/ about = "wire" /\ E!Init /\ NoAir /\ NoParts
  \/ about = "parts" /\ P!AccessInit /\ NoAir /\ NoWire /\ took = "none" /\ n = 0

NetNext ==
  \/ about = "air" /\ AirNext /\ UNCHANGED <<about, wireVars, partVars>>
  \/ about = "wire" /\ E!Next /\ UNCHANGED <<about, tx, rx, air, note, partVars>>
  \/ about = "parts" /\ P!AccessNext /\ UNCHANGED <<about, airVars, wireVars>>

NetSpec == NetInit /\ [][NetNext]_<<airVars, about, wireVars, partVars>>

-----------------------------------------------------------------------------
\* What arrives whole reaches the application as its sender had it, see Air and
\* Ethernet, where it is said what each class of frame cannot tell.
ArrivesAsSent == Delivered /\ E!Delivered

\* A frame object that was read into has nothing of an earlier frame in what the
\* frame must have.
ReadIsOwn == TakenIsOwn /\ E!TakenIsOwn

\* The getters and setters that share a word of a frame, a radiotap field or a
\* tag do not disturb each other, see Accessors.
PartsKept == about = "parts" => P!FieldsKept
=============================================================================
