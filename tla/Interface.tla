------------------------------- MODULE Interface -------------------------------
(***************************************************************************)
(* zWireless::Interface over zInterface::Interface (lib/zWireless and      *)
(* lib/zInterface, Interface.cpp). The setters stage a value; Commit sends *)
(* the kernel a command for each staged value that differs from the        *)
(* working configuration, which Refresh reads back from the kernel; and a  *)
(* getter that the kernel does not answer returns the staged value.        *)
(*                                                                         *)
(* One attribute stands for each way in which Commit treats them: "opmode" *)
(* (as the name and the hardware address) is committed while the link is   *)
(* not up, "mtu" always, "freq" (as the channel's other values and the     *)
(* transmit power) while it is staged to be up. One thread uses the        *)
(* interface; others change the link behind its back, though not between   *)
(* the reads of one Refresh, which is a single step here. A command may    *)
(* fail or its answer be lost; a query about a link there is is answered.  *)
(***************************************************************************)
EXTENDS Naturals

CONSTANTS
  Vals,      \* the values of an attribute; the kernel's own is one of them. The mode
             \* of a station is not: staged, it is the default (see Tuning)
  Own,
  None,      \* the default of the configuration: not staged, not answered
  MaxLinks   \* bound on the links created with the name of this interface

ASSUME InterfaceAssumption ==
  /\ Own \in Vals /\ None \notin Vals \cup {"up", "down"}
  /\ MaxLinks \in Nat \ {0}

Settings == {"opmode", "mtu", "freq", "admin"}
ValuesOf(a) == IF a = "admin" THEN {"up", "down"} ELSE Vals

VARIABLES
  index,    \* the kernel's index of the link with this name, 0 without one
  kernel,   \* what the kernel would answer
  made,     \* the links created so far
  staged,   \* stagingConfig
  working,  \* workingConfig
  step,     \* where the caller is in Create or Commit
  cmds,     \* _cmds: the attributes that the commands still to come set
  status,   \* the status of Commit
  stale,    \* history: why working may differ from the kernel's values
  sure      \* history: there was no reason when Commit began

link == <<index, kernel, made>>
config == <<staged, working>>
commit == <<cmds, status, sure>>
vars == <<link, config, step, commit, stale>>

NoLink == [a \in Settings |-> None]

Init ==
  /\ index \in {0, 1}
  /\ made = index
  /\ kernel = IF index = 0 THEN NoLink
              ELSE [a \in Settings |-> IF a = "admin" THEN "down" ELSE IF a = "freq" THEN None ELSE Own]
  /\ staged = [set |-> NoLink, index |-> 0]
  /\ working = [set |-> NoLink, index |-> 0]
  /\ step = "idle"
  /\ cmds = {} /\ status = TRUE
  /\ stale = {} /\ sure = FALSE

(* Faults, see Mutex. *)
PositionAdminFirst == [admin |-> 1, opmode |-> 2, mtu |-> 3, freq |-> 4]
ReadStaged(i, a) ==                        \* the staged value comes first
  IF staged.set[a] # None THEN staged.set[a]
  ELSE IF i # 0 /\ i = index THEN kernel[a] ELSE None
FailedForgiven == status                   \* status = instead of status &=

-----------------------------------------------------------------------------
(* The kernel. It reports a frequency while the link is up.                *)

NewLink(mode) ==
  [opmode |-> IF mode = None THEN Own ELSE mode, mtu |-> Own, freq |-> None, admin |-> "down"]

WithAdmin(v) ==
  [kernel EXCEPT !.admin = v, !.freq = IF v = "up" THEN @ ELSE None]

\* It may refuse any command, and does if the link is not in the state for it.
Accepts(a) ==
  /\ working.index = index
  /\ a = "opmode" => kernel.admin = "down"
  /\ a = "freq" => kernel.admin = "up"

Applied(a) ==
  IF a = "admin" THEN WithAdmin(staged.set.admin)
                 ELSE [kernel EXCEPT ![a] = staged.set[a]]

\* Others, or the driver, take the link up or down, remove it or create it.
Outside ==
  /\ stale' = stale \cup {"outside"}
  /\ \/ /\ index # 0
        /\ \/ kernel' = WithAdmin("up") \/ kernel' = WithAdmin("down")
        /\ UNCHANGED <<index, made>>
     \/ /\ index # 0
        /\ index' = 0 /\ kernel' = NoLink /\ made' = made
     \/ /\ index = 0 /\ made < MaxLinks
        /\ index' = made + 1 /\ made' = made + 1
        /\ kernel' = NewLink(None)
  /\ UNCHANGED <<config, step, commit>>

-----------------------------------------------------------------------------
(* The getters, by which Refresh reads, and the setters.                   *)

\* The answer to a command for the link with index i, None without one.
Answer(i, a) == IF i # 0 /\ i = index THEN kernel[a] ELSE None

\* What the kernel answers, else the staged value.
Read(i, a) == IF Answer(i, a) # None THEN Answer(i, a) ELSE staged.set[a]

\* GetIfIndex asks by the working name. The name of the link does not change here:
\* after a Commit that renames, the code asks by the old name, finds no link, and
\* goes on with the staged index.
IfIndex == IF index # 0 THEN index ELSE staged.index

\* Without an index the zInterface part fails, the zWireless part goes on.
Refreshed ==
  LET i == IfIndex IN
    IF i # 0
      THEN [index |-> i, set |-> [a \in Settings |-> Read(i, a)]]
      ELSE [working EXCEPT !.set.opmode = Read(working.index, "opmode"),
                           !.set.freq = Read(working.index, "freq")]

Reread == IF index # 0 THEN {} ELSE stale

Refresh ==
  /\ step = "idle"
  /\ working' = Refreshed
  /\ stale' = Reread
  /\ UNCHANGED <<link, staged, step, commit>>

Set(a, v) ==
  /\ step = "idle"
  /\ staged' = [staged EXCEPT !.set[a] = v]
  /\ UNCHANGED <<link, working, step, commit, stale>>

-----------------------------------------------------------------------------
(* Commit: the commands are collected, executed one by one whether or not  *)
(* one fails, and if none did both configurations are read back.           *)

\* The order in which the commands are added and executed.
Position == [opmode |-> 1, mtu |-> 2, admin |-> 3, freq |-> 4]
Front(a) == a \in cmds /\ \A b \in cmds : Position[a] <= Position[b]

Due(a) ==
  /\ staged.set[a] \notin {None, working.set[a]}
  /\ a = "opmode" => working.set.admin # "up"
  /\ a = "freq" => staged.set.admin = "up"

\* Without an index no command can be made.
HasIndex == working.index # 0

Commit ==
  /\ step \in {"idle", "commit"}
  /\ LET due == {a \in Settings : Due(a)} IN
       /\ cmds' = IF HasIndex THEN due ELSE {}
       /\ status' = (HasIndex \/ due = {})
  /\ sure' = (stale = {})
  /\ step' = "exec"
  /\ UNCHANGED <<link, config, stale>>

Failed == FALSE

ExecDone(a) ==
  /\ step = "exec" /\ Front(a)
  /\ Accepts(a)
  /\ kernel' = Applied(a)
  /\ cmds' = cmds \ {a}
  /\ UNCHANGED <<index, made, config, step, status, sure, stale>>

\* The kernel refuses the command, or its answer is lost.
ExecFail(a) ==
  /\ step = "exec" /\ Front(a)
  /\ \/ kernel' = kernel
     \/ Accepts(a) /\ kernel' = Applied(a)
  /\ cmds' = cmds \ {a}
  /\ status' = Failed
  /\ stale' = stale \cup {"failed"}
  /\ UNCHANGED <<index, made, config, step, sure>>

Finish ==
  /\ step = "exec" /\ cmds = {}
  /\ step' = "idle"
  /\ IF status
       THEN /\ working' = Refreshed
            /\ staged' = IF IfIndex # 0 THEN Refreshed ELSE staged
            /\ stale' = Reread
       ELSE UNCHANGED <<config, stale>>
  /\ UNCHANGED <<link, commit>>

\* Create makes the link, if there is none with its name, refreshes and
\* commits; if the kernel refuses or its answer is lost there is no more to it.
Create ==
  /\ step = "idle"
  /\ index = 0 /\ made < MaxLinks
  /\ index' = made + 1 /\ made' = made + 1
  /\ kernel' = NewLink(staged.set.opmode)
  /\ step' \in {"created", "idle"}
  /\ UNCHANGED <<config, commit, stale>>

CreateRefresh ==
  /\ step = "created"
  /\ working' = Refreshed
  /\ stale' = Reread
  /\ step' = IF IfIndex # 0 THEN "commit" ELSE "idle"
  /\ UNCHANGED <<link, staged, commit>>

\* Whether or not the kernel's answer arrives: nothing is done with it.
Destroy ==
  /\ step = "idle"
  /\ working.index # 0 /\ working.index = index
  /\ index' = 0 /\ kernel' = NoLink
  /\ UNCHANGED <<made, config, step, commit, stale>>

Next ==
  \/ Refresh \/ Commit \/ Create \/ Destroy
  \/ \E a \in Settings : \E v \in ValuesOf(a) : Set(a, v)
  \/ \E a \in Settings : ExecDone(a) \/ ExecFail(a)
  \/ Finish \/ CreateRefresh
  \/ Outside

Spec == Init /\ [][Next]_vars

-----------------------------------------------------------------------------
Config == [index : 0..MaxLinks, set : [Settings -> Vals \cup {"up", "down", None}]]

TypeOK ==
  /\ index \in 0..made /\ made \in 0..MaxLinks
  /\ kernel \in [Settings -> Vals \cup {"up", "down", None}]
  /\ staged \in Config /\ working \in Config
  /\ step \in {"idle", "created", "commit", "exec"}
  /\ cmds \subseteq Settings /\ (cmds # {} => step = "exec")
  /\ status \in BOOLEAN /\ sure \in BOOLEAN
  /\ stale \subseteq {"outside", "failed"}

\* The link that the interface knows is there.
Linked == index # 0 /\ working.index = index

\* The working configuration, against which Commit compares, is what the
\* kernel has, unless others changed the link or a command of a Commit failed:
\* such a Commit does not read back what its other commands changed.
WorkingIsKernel ==
  step = "idle" /\ stale = {} /\ Linked =>
    \A a \in Settings \ {"freq"} : working.set[a] = kernel[a]

\* "These commands have to be executed while the interface is not up", and
\* those for the channel while it is (zWireless/Interface.cpp:400 and 497).
\* After a Commit that failed this does not hold: the next one still takes the
\* link, which came up meanwhile, to be down.
InTheirState ==
  Linked /\ sure /\ stale = {} =>
    /\ Front("opmode") => kernel.admin # "up"
    /\ Front("freq") => kernel.admin # "down"

\* When Commit returns true the kernel has what was staged, as far as it could
\* be committed in the state of the link. That is not said of the frequency:
\* a Refresh while the link is down copies the staged one, which the kernel
\* does not answer, and Commit then takes it to be the kernel's.
CommitTakes ==
  [][Finish /\ status /\ sure /\ "outside" \notin stale /\ Linked =>
       \A a \in {"opmode", "mtu", "admin"} :
         staged.set[a] # None /\ (a = "opmode" => working.set.admin # "up")
         => kernel[a] = staged.set[a]]_vars

\* The inductive invariant behind them. A Commit compares with what the kernel
\* has; while its commands are executed, those done so far took.
Known == Settings \ {"freq"}
Fresh == stale = {} /\ Linked => \A a \in Known : working.set[a] = kernel[a]
Committed(a) == staged.set[a] # None /\ (a = "opmode" => working.set.admin # "up")

LinkInv ==
  /\ index # 0 => \A a \in Known : kernel[a] # None
  /\ staged.index <= made /\ working.index <= made

ExecInv ==
  /\ \A a \in cmds : staged.set[a] # None
  /\ ~status => "failed" \in stale \/ working.index = 0
  /\ status /\ sure /\ "outside" \notin stale => stale = {}
  /\ "opmode" \in cmds => working.set.admin # "up"
  /\ "freq" \in cmds => staged.set.admin = "up"
  /\ sure /\ stale = {} /\ Linked =>
       /\ \A a \in Known \ cmds : Committed(a) => kernel[a] = staged.set[a]
       /\ "opmode" \in cmds => kernel.admin # "up"
       /\ "freq" \in cmds /\ "admin" \notin cmds => kernel.admin = "up"

IInv ==
  /\ TypeOK
  /\ LinkInv
  /\ step \in {"idle", "commit"} => Fresh
  /\ step = "exec" => ExecInv
=============================================================================
