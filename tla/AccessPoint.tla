----------------------------- MODULE AccessPoint -----------------------------
(***************************************************************************)
(* zWireless::AccessPointInterface and the BasicServiceSet that owns one   *)
(* (lib/zWireless, the two files of these names), over Interface. Start,   *)
(* Update and Stop send the kernel commands of their own, with what the    *)
(* interface's getters answer at that moment; _running is what the object  *)
(* believes, ap is what the kernel does.                                   *)
(*                                                                         *)
(* A basic service set keeps its interface to itself. An access point      *)
(* without one is in the hands of a user who may call what Interface has,  *)
(* too. Of the beacon and the probe response there is the channel that     *)
(* they announce; of the values that a service set stages at each Start,   *)
(* the frequency and the SSID, which is not read back. The promiscuous     *)
(* mode, which neither Refresh reads nor anything depends on, is left out. *)
(***************************************************************************)
EXTENDS Interface

CONSTANTS
  Ap,        \* of Vals: the operational mode AP
  One,       \* of Vals: the frequency of channel 1
  Ssid,      \* the name of the network
  Stations

\* An access point that the kernel beacons, and a command about it.
Values == Vals \cup {"up", "down", None}
Frequencies == Vals \cup {None}
Ssids == {Ssid, None}
AccessPoints ==
  [freq : Values, ssid : Ssids, announced : Frequencies, stations : SUBSET Stations,
   answered : BOOLEAN]
ApCommands ==
  [op : {"start", "update", "stop"}, index : 0..MaxLinks, freq : Values, ssid : Ssids,
   announced : Frequencies]

ASSUME ApAssumption ==
  /\ Ap \in Vals /\ One \in Vals
  /\ None \notin AccessPoints \cup ApCommands

VARIABLES
  ap,        \* what the kernel beacons, None if nothing
  running,   \* _running
  head,      \* the command before cmds in _cmds: StartAp, SetBeacon or StopAp
  call,      \* where the caller is in a call of the two classes
  ssid,      \* the SSID in stagingConfig
  bss,       \* _config of the BasicServiceSet and what its _beacon announces
  owner,     \* who has the interface: a basic service set or a user
  calm       \* history: nobody else changed the link, no command failed

apVars == <<ap, running, head, call, ssid, bss, owner, calm>>
allVars == <<vars, apVars>>

ApInit ==
  /\ Init
  /\ ap = None /\ running = FALSE /\ head = None
  /\ call = "new"
  /\ ssid = None
  /\ bss = [ssid |-> None, freq |-> None, announced |-> None]
  /\ owner \in {"bss", "user"}
  /\ calm = TRUE

Free == call = "none" /\ step = "idle"
ByUser == Free /\ owner = "user"
ByBss == Free /\ owner = "bss"

\* An access point ends when its link goes down or away.
LinkHolds == index' = index /\ kernel'.admin = "up"
ApFollows == ap' = IF LinkHolds THEN ap ELSE None

(* Faults, see Mutex. *)
ReturnsStopped == running /\ call # "stop"     \* whether or not Commit succeeded
StagedBefore == ssid                       \* by the setter, before the Commit

-----------------------------------------------------------------------------
(* What an access point has of Interface, while the kernel may beacon.     *)

Others ==
  /\ Outside
  /\ ApFollows
  /\ calm' = FALSE
  /\ UNCHANGED <<running, head, call, ssid, bss, owner>>

\* The other calls of a user, who leaves the mode AP alone. Create refuses a
\* link that it knows of.
UserCalls ==
  /\ ByUser
  /\ \/ Refresh \/ Commit \/ Destroy
     \/ IfIndex = 0 /\ Create
     \/ \E a \in Settings \ {"opmode"} : \E v \in ValuesOf(a) : Set(a, v)
  /\ ApFollows
  /\ UNCHANGED <<running, head, call, ssid, bss, owner, calm>>

UserSsid ==
  /\ ByUser
  /\ ssid' = Ssid
  /\ UNCHANGED <<vars, ap, running, head, call, bss, owner, calm>>

\* This Create does not commit.
CreatedRefresh ==
  /\ step = "created"
  /\ working' = Refreshed
  /\ stale' = Reread
  /\ step' = "idle"
  /\ UNCHANGED <<link, staged, commit, apVars>>

\* The kernel does not retune an access point that beacons.
CommandDone(a) ==
  /\ head = None
  /\ a = "freq" => ap = None
  /\ ExecDone(a)
  /\ ApFollows
  /\ UNCHANGED <<running, head, call, ssid, bss, owner, calm>>

CommandFails(a) ==
  /\ head = None
  /\ ExecFail(a)
  /\ a = "freq" /\ ap # None => kernel' = kernel
  /\ ApFollows
  /\ calm' = FALSE
  /\ UNCHANGED <<running, head, call, ssid, bss, owner>>

\* A Commit that succeeds copies workingConfig, which has no SSID, over
\* stagingConfig. Then Start goes on, and Stop takes it that the kernel stopped.
RunningStill == running /\ ~(call = "stop" /\ status)

CommitReturns ==
  /\ head = None
  /\ Finish
  /\ ssid' = IF status /\ IfIndex # 0 THEN None ELSE ssid
  /\ running' = RunningStill
  /\ call' = IF call = "up" /\ status THEN "configure" ELSE "none"
  /\ UNCHANGED <<ap, head, bss, owner, calm>>

-----------------------------------------------------------------------------
(* AccessPointInterface::Start, Update and Stop.                           *)

Command(op, beacon) ==
  [op |-> op, index |-> IfIndex, freq |-> Read(working.index, "freq"),
   ssid |-> ssid, announced |-> beacon]

\* Start and Update, given a beacon: one is for an access point that does not
\* run, the other for one that does.
Send(op, beacon) ==
  /\ IF IfIndex # 0 /\ running = (op = "update")
       THEN head' = Command(op, beacon) /\ call' = "send"
       ELSE head' = None /\ call' = "none"
  /\ UNCHANGED <<vars, ap, running, ssid, bss, owner, calm>>

UserSends == ByUser /\ \E op \in {"start", "update"} : Send(op, None)

\* Nothing is done if the link is not up any more.
Stop ==
  /\ Free /\ running
  /\ IfIndex # 0 /\ Read(working.index, "admin") = "up"
  /\ staged' = [staged EXCEPT !.set.admin = "down"]
  /\ head' = Command("stop", None)
  /\ step' = "commit" /\ call' = "stop"
  /\ UNCHANGED <<link, working, commit, stale, ap, running, ssid, bss, owner, calm>>

StopCommits ==
  /\ step = "commit"
  /\ Commit
  /\ UNCHANGED apVars

\* The kernel, asked to start, to change the beacon or to stop.
Agrees ==
  /\ head.index = index /\ kernel.admin = "up"
  /\ IF head.op = "start"
       THEN ap = None /\ head.freq # None /\ kernel.opmode = Ap
       ELSE ap # None

Beaconing(answered) ==
  CASE head.op = "start" ->
         [freq |-> head.freq, ssid |-> head.ssid, announced |-> head.announced,
          stations |-> {}, answered |-> answered]
    [] head.op = "update" -> [ap EXCEPT !.announced = head.announced]
    [] OTHER -> None

Tuned ==
  IF head.op = "start" THEN [kernel EXCEPT !.freq = head.freq] ELSE kernel

\* In a Stop the commands of its Commit are next.
Sent == call' = IF call = "send" THEN "none" ELSE call
RunningNow(done) == running \/ (done /\ call = "send")

HeadDone ==
  /\ head # None /\ step \in {"idle", "exec"}
  /\ Agrees
  /\ ap' = Beaconing(TRUE) /\ kernel' = Tuned
  /\ running' = RunningNow(TRUE)
  /\ head' = None /\ Sent
  /\ UNCHANGED <<index, made, config, step, commit, stale, ssid, bss, owner, calm>>

\* The kernel refuses, or its answer is lost.
HeadFails ==
  /\ head # None /\ step \in {"idle", "exec"}
  /\ \/ UNCHANGED <<ap, kernel>>
     \/ Agrees /\ ap' = Beaconing(FALSE) /\ kernel' = Tuned
  /\ running' = RunningNow(FALSE)
  /\ status' = IF step = "exec" THEN FALSE ELSE status
  /\ stale' = stale \cup {"failed"} /\ calm' = FALSE
  /\ head' = None /\ Sent
  /\ UNCHANGED <<index, made, config, step, cmds, sure, ssid, bss, owner>>

-----------------------------------------------------------------------------
(* The construction of both, and the calls of a BasicServiceSet.           *)

Construct ==
  /\ call = "new"
  /\ staged' = [staged EXCEPT !.set.opmode = Ap]
  /\ call' = IF owner = "bss" THEN "build" ELSE "none"
  /\ UNCHANGED <<link, working, step, commit, stale, ap, running, head, ssid, bss, owner, calm>>

\* _init_beacon: channel 1, whatever is configured. The template of the probe
\* response, which _init_probe gives the configured one, is left out.
InitBeacon == One

\* Without an interface the templates of beacon and probe are left empty.
BssConstruct ==
  /\ call = "build"
  /\ Refresh
  /\ bss' = [bss EXCEPT !.announced = IF IfIndex # 0 THEN InitBeacon ELSE None]
  /\ call' = "none"
  /\ UNCHANGED <<ap, running, head, ssid, owner, calm>>

BssSsid ==
  /\ ByBss
  /\ bss' = [bss EXCEPT !.ssid = Ssid]
  /\ ssid' = Ssid
  /\ UNCHANGED <<vars, ap, running, head, call, owner, calm>>

\* SetFrequency takes the channel of a frequency, and makes it the default if
\* there is none.
BssChannel(f) ==
  /\ ByBss
  /\ bss' = [bss EXCEPT !.freq = f, !.announced = f]
  /\ staged' = [staged EXCEPT !.set.freq = f]
  /\ UNCHANGED <<link, working, step, commit, stale, ap, running, head, call, ssid, owner, calm>>

\* Start first commits the link to be up, whether or not it is running.
BssStart ==
  /\ ByBss /\ IfIndex # 0
  /\ staged' = [staged EXCEPT !.set.admin = "up"]
  /\ step' = "commit" /\ call' = "up"
  /\ UNCHANGED <<link, working, commit, stale, ap, running, head, ssid, bss, owner, calm>>

\* Then Start, and Update at once, stage what was configured.
StagedSsid == bss.ssid

Configure(op) ==
  /\ staged' = [staged EXCEPT !.set.freq = bss.freq]
  /\ ssid' = StagedSsid
  /\ call' = op
  /\ UNCHANGED <<link, working, step, commit, stale, ap, running, head, bss, owner, calm>>

BssConfigures == call = "configure" /\ Configure("start")
BssUpdate == ByBss /\ Configure("update")
BssSends == call \in {"start", "update"} /\ Send(call, bss.announced)

\* AddStation and DelStation send a command at once. The kernel has stations
\* while it beacons.
BssStation(s) ==
  /\ ByBss /\ IfIndex # 0 /\ IfIndex = index /\ ap # None
  /\ \E now \in {ap.stations \cup {s}, ap.stations \ {s}} : ap' = [ap EXCEPT !.stations = now]
  /\ UNCHANGED <<vars, running, head, call, ssid, bss, owner, calm>>

ApNext ==
  \/ Construct \/ BssConstruct
  \/ UserCalls \/ UserSsid \/ UserSends \/ CreatedRefresh
  \/ Stop \/ StopCommits \/ HeadDone \/ HeadFails
  \/ \E a \in Settings : CommandDone(a) \/ CommandFails(a)
  \/ CommitReturns
  \/ BssSsid \/ BssStart \/ BssConfigures \/ BssUpdate \/ BssSends
  \/ \E f \in Frequencies : BssChannel(f)
  \/ \E s \in Stations : BssStation(s)
  \/ Others

ApSpec == ApInit /\ [][ApNext]_allVars

-----------------------------------------------------------------------------
\* Between calls, what the object believes is what the kernel does: an access
\* point that beacons is known to run, so that Stop does not return true
\* without stopping it, unless the answer to StartAp was lost; and while nothing
\* disturbed the calls of a service set, one that is said to run beacons.
RunningIsOn ==
  Free =>
    /\ ap # None /\ ap.answered => running
    /\ owner = "bss" /\ calm /\ running => ap # None

\* A service set that starts is on the channel that its beacon announces and
\* has the SSID that it was given, though the Commit on the way wipes what was
\* staged. After a failed command it may not be: the frequency of a Commit whose
\* answer was lost is the kernel's, and Start sends the kernel's back.
StartsAsAnnounced ==
  [][ap = None /\ ap' # None /\ owner = "bss" /\ calm
     => ap'.freq = ap'.announced /\ ap'.ssid = bss.ssid]_allVars

(***************************************************************************)
(* The inductive invariant behind RunningIsOn, besides that of Interface.  *)
(***************************************************************************)
ApTypeOK ==
  /\ ap \in AccessPoints \cup {None} /\ head \in ApCommands \cup {None}
  /\ call \in {"none", "new", "build", "send", "stop", "up", "configure", "start", "update"}
  /\ ssid \in Ssids
  /\ bss \in [ssid : Ssids, freq : Frequencies, announced : Frequencies]
  /\ running \in BOOLEAN /\ calm \in BOOLEAN /\ owner \in {"bss", "user"}

\* Where Interface is in a call of the two classes, and the command it sends.
CallInv ==
  /\ call \in {"new", "build", "configure", "start", "update"} => step = "idle"
  /\ call = "send" => step = "idle" /\ head.op # "stop"
  /\ call \in {"stop", "up"} => step \in {"commit", "exec"}
  /\ call = "stop" /\ step = "commit" => head # None
  /\ call = "stop" /\ head # None => head.op = "stop"
  /\ call \notin {"send", "stop"} => head = None
  /\ step = "commit" => call \in {"stop", "up"}

\* What beacons is up; its answer was not lost on an object that does not run;
\* and a Stop that may yet succeed has stopped it.
OnInv ==
  /\ ap # None => index # 0 /\ kernel.admin = "up"
  /\ ap # None /\ ap.answered => running
  /\ call = "stop" /\ step = "exec" /\ status /\ head = None => ap = None

\* Only a link there is is up, and only for one that was known there are commands.
UpInv ==
  /\ kernel.admin = "up" => index # 0
  /\ cmds # {} => working.index # 0

\* While nothing disturbs a service set, it has its link all the time or never,
\* and nothing but its Stop takes the link down.
CalmInv ==
  /\ calm => stale = {}
  /\ calm /\ owner = "bss" =>
       /\ step # "created"
       /\ step = "exec" => call \in {"stop", "up"}
       /\ call = "up" => staged.set.admin = "up"
       /\ IF index = 0
            THEN /\ staged.index = 0 /\ working.index = 0 /\ ~running
                 /\ call \in {"new", "build", "none", "update"}
            ELSE call \in {"new", "build"} \/ working.index = index
       /\ call \in {"new", "build"} => ~running
       /\ running => ap # None \/ (call = "stop" /\ step = "exec" /\ head = None)

\* What a service set was given is staged when it starts, and in the command; the
\* kernel, unless it beacons, has no other frequency.
StartInv ==
  /\ calm /\ ap # None => ap.answered
  /\ calm /\ owner = "bss" =>
       /\ bss.freq \in {None, bss.announced}
       /\ call \in {"new", "build"} => bss.freq = None
       /\ call # "configure" => staged.set.freq = bss.freq
       /\ call = "start" => ssid = bss.ssid
       /\ call = "stop" =>
            /\ staged.set.admin = "down"
            /\ step = "commit" => kernel.admin = "up"
            /\ step = "exec" /\ "admin" \notin cmds => kernel.freq = None
       /\ ap = None /\ kernel.freq # None =>
            \/ call = "stop" /\ step = "exec"
            \/ call \in {"up", "configure", "start", "send"} /\ kernel.freq = bss.freq
       /\ head # None /\ head.op = "start" =>
            head.freq \in {None, head.announced} /\ head.ssid = bss.ssid

ApInv == IInv /\ UpInv /\ ApTypeOK /\ CallInv /\ OnInv /\ CalmInv /\ StartInv
=============================================================================
