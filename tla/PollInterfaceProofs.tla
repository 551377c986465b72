-------------------------- MODULE PollInterfaceProofs --------------------------
(***************************************************************************)
(* Theorems about interfaces and about the handlers that poll, neither of  *)
(* which uses the other.                                                   *)
(*                                                                         *)
(* Interface and AccessPoint, for any values and any number of links and   *)
(* stations. The first part, on Interface, uses nothing of AccessPoint;    *)
(* the second takes its lemmas over.                                       *)
(*                                                                         *)
(* PollHandler, for any sources, any number of restarts and either kind of *)
(* handler. What its theorems need of the thread is the invariant that     *)
(* ThreadProofs shows to be kept by every step of Thread.                  *)
(***************************************************************************)
EXTENDS AccessPoint, PollHandler, FiniteSetTheorems, TLAPS

USE InterfaceAssumption DEF InterfaceAssumption

LEMMA InitIInv == Init => IInv
<1> SUFFICES ASSUME Init PROVE IInv
  OBVIOUS
<1>1. TypeOK
  <2>1. index \in 0..made /\ made \in 0..MaxLinks
    BY DEF Init
  <2>2. kernel \in [Settings -> Vals \cup {"up", "down", None}]
    BY DEF Init, NoLink
  <2>3. staged \in Config /\ working \in Config
    BY DEF Init, Config, NoLink
  <2> QED
    BY <2>1, <2>2, <2>3 DEF Init, TypeOK
<1>2. LinkInv /\ Fresh /\ step # "exec"
  BY DEF Init, LinkInv, Fresh, Linked, Known, Settings, NoLink
<1> QED
  BY <1>1, <1>2 DEF IInv

\* What a Refresh reads has its type, and belongs to a link that was made.
LEMMA RefreshedType ==
  ASSUME TypeOK, LinkInv
  PROVE  /\ Refreshed \in Config
         /\ Refreshed.index <= made
         /\ Reread \subseteq {"outside", "failed"}
<1>1. \A i : \A a \in Settings : Read(i, a) \in Vals \cup {"up", "down", None}
  BY DEF Read, Answer, TypeOK, Config
<1>2. IfIndex \in 0..MaxLinks /\ IfIndex <= made
  BY DEF IfIndex, TypeOK, LinkInv, Config
<1>3. CASE IfIndex # 0
  <2>1. Refreshed = [index |-> IfIndex, set |-> [a \in Settings |-> Read(IfIndex, a)]]
    BY <1>3 DEF Refreshed
  <2> QED
    BY <2>1, <1>1, <1>2 DEF Config, Reread, TypeOK
<1>4. CASE IfIndex = 0
  <2>1. Refreshed = [working EXCEPT !.set.opmode = Read(working.index, "opmode"),
                                    !.set.freq = Read(working.index, "freq")]
    BY <1>4 DEF Refreshed
  <2> QED
    BY <2>1, <1>1 DEF Config, Reread, TypeOK, LinkInv, Settings
<1> QED
  BY <1>3, <1>4

\* After a Refresh the working configuration is the kernel's.
LEMMA RefreshedFresh ==
  ASSUME TypeOK, LinkInv, index # 0
  PROVE  /\ Refreshed.index = index
         /\ \A a \in Known : Refreshed.set[a] = kernel[a]
<1>1. Refreshed = [index |-> index, set |-> [a \in Settings |-> Read(index, a)]]
  BY DEF Refreshed, IfIndex
<1>2. \A a \in Known : Read(index, a) = kernel[a]
  BY DEF Read, Answer, LinkInv
<1> QED
  BY <1>1, <1>2 DEF Known

\* Refresh, CreateRefresh and a Commit that ends well leave working refreshed.
LEMMA FreshAfter ==
  ASSUME TypeOK, LinkInv, working' = Refreshed, stale' = Reread, UNCHANGED link
  PROVE  Fresh'
<1>1. CASE index = 0
  BY <1>1 DEF Fresh, Linked, link
<1>2. CASE index # 0
  BY <1>2, RefreshedFresh DEF Fresh, Linked, link
<1> QED
  BY <1>1, <1>2

\* Between Commits: nothing is executed, and only what is said to be stale is.
LEMMA IdleSteps ==
  ASSUME IInv, \/ Refresh \/ Create \/ CreateRefresh \/ Destroy
               \/ \E a \in Settings : \E v \in ValuesOf(a) : Set(a, v)
  PROVE  IInv'
<1> USE DEF IInv
<1>1. CASE Refresh
  <2>1. TypeOK' /\ LinkInv'
    BY <1>1, RefreshedType DEF Refresh, TypeOK, LinkInv, link, commit
  <2>2. Fresh'
    BY <1>1, FreshAfter DEF Refresh
  <2> QED
    BY <1>1, <2>1, <2>2 DEF Refresh
<1>2. CASE Create
  <2>1. NewLink(staged.set.opmode) \in [Settings -> Vals \cup {"up", "down", None}]
    BY DEF NewLink, Settings, TypeOK, Config
  <2>2. \A a \in Known : NewLink(staged.set.opmode)[a] # None
    BY DEF NewLink, Known, Settings
  <2>3. TypeOK' /\ LinkInv'
    BY <1>2, <2>1, <2>2 DEF Create, TypeOK, LinkInv, Config, config, commit
  <2>4. Fresh'
    BY <1>2 DEF Create, Fresh, Linked, LinkInv, TypeOK, Config, config
  <2> QED
    BY <1>2, <2>3, <2>4 DEF Create
<1>3. CASE CreateRefresh
  <2>1. TypeOK' /\ LinkInv'
    BY <1>3, RefreshedType DEF CreateRefresh, TypeOK, LinkInv, link, commit
  <2>2. Fresh'
    BY <1>3, FreshAfter DEF CreateRefresh
  <2> QED
    BY <1>3, <2>1, <2>2 DEF CreateRefresh, TypeOK
<1>4. CASE Destroy
  <2>1. TypeOK' /\ LinkInv'
    BY <1>4 DEF Destroy, TypeOK, LinkInv, NoLink, config, commit
  <2>2. Fresh'
    BY <1>4 DEF Destroy, Fresh, Linked
  <2> QED
    BY <1>4, <2>1, <2>2 DEF Destroy
<1>5. ASSUME NEW a \in Settings, NEW v \in ValuesOf(a), Set(a, v) PROVE IInv'
  <2>1. TypeOK' /\ LinkInv'
    BY <1>5 DEF Set, TypeOK, LinkInv, Config, ValuesOf, Settings, link, commit
  <2>2. Fresh'
    BY <1>5 DEF Set, Fresh, Linked, link
  <2> QED
    BY <1>5, <2>1, <2>2 DEF Set
<1> QED
  BY <1>1, <1>2, <1>3, <1>4, <1>5

\* Commit compares with a working configuration that is fresh if sure.
LEMMA CommitIInv == IInv /\ Commit => IInv'
<1> SUFFICES ASSUME IInv, Commit PROVE IInv'
  OBVIOUS
<1> USE DEF IInv
<1>1. TypeOK' /\ LinkInv'
  BY DEF Commit, HasIndex, TypeOK, LinkInv, link, config
<1>2. Fresh
  BY DEF Commit, HasIndex
<1>3. \A a \in cmds' : Due(a) /\ a \in Settings
  BY DEF Commit, HasIndex
<1>4. ~status' => working'.index = 0
  BY DEF Commit, HasIndex, config
<1>5. sure' <=> stale' = {}
  BY DEF Commit, HasIndex
<1>6. ASSUME sure', stale' = {}, Linked', NEW a \in Known, a \notin cmds', Committed(a)'
      PROVE  kernel'[a] = staged'.set[a]
  <2>1. Committed(a) /\ Linked /\ stale = {}
    BY <1>6 DEF Commit, HasIndex, Committed, Linked, config, link
  <2>2. ~Due(a)
    BY <1>6, <2>1 DEF Commit, HasIndex, Linked, Known
  <2>3. staged.set[a] = working.set[a]
    BY <2>1, <2>2 DEF Due, Committed, Known
  <2> QED
    BY <1>2, <2>1, <2>3 DEF Fresh, Commit, HasIndex, config, link
<1>7. ASSUME sure', stale' = {}, Linked', "opmode" \in cmds' PROVE kernel'.admin # "up"
  BY <1>2, <1>3, <1>7 DEF Due, Commit, HasIndex, Fresh, Linked, Known, Settings, config, link
<1>8. ASSUME sure', stale' = {}, Linked', "freq" \in cmds', "admin" \notin cmds'
      PROVE  kernel'.admin = "up"
  <2>1. staged.set.admin = "up"
    BY <1>3, <1>8 DEF Due
  <2>2. ~Due("admin")
    BY <1>8 DEF Commit, HasIndex, Linked, Settings, config, link
  <2>3. working.set.admin = "up"
    BY <2>1, <2>2 DEF Due
  <2> QED
    BY <1>2, <1>8, <2>3 DEF Commit, HasIndex, Fresh, Linked, Known, Settings, config, link
<1>9. ExecInv'
  BY <1>3, <1>4, <1>5, <1>6, <1>7, <1>8 DEF ExecInv, Due, Commit, HasIndex, config
<1> QED
  BY <1>1, <1>9 DEF Commit, HasIndex

\* A command of a sure Commit finds the link in the state it needs, and takes.
LEMMA AppliedType ==
  ASSUME TypeOK, LinkInv, index # 0, NEW a \in Settings, staged.set[a] # None
  PROVE  /\ Applied(a) \in [Settings -> Vals \cup {"up", "down", None}]
         /\ \A b \in Known : Applied(a)[b] # None
         /\ \A b \in Known : Applied(a)[b] = IF b = a THEN staged.set[a] ELSE kernel[b]
  BY DEF Applied, WithAdmin, TypeOK, LinkInv, Config, Known, Settings

LEMMA ExecDoneIInv == ASSUME IInv, NEW a \in Settings, ExecDone(a) PROVE IInv'
<1> USE DEF IInv
<1>1. ExecInv /\ a \in cmds /\ staged.set[a] # None
  BY DEF ExecDone, Front, ExecInv
<1>2. CASE index = 0
  <2>1. kernel' \in [Settings -> Vals \cup {"up", "down", None}]
    BY DEF ExecDone, Applied, WithAdmin, TypeOK, Config, Settings
  <2>2. TypeOK' /\ LinkInv'
    BY <1>2, <2>1 DEF ExecDone, TypeOK, LinkInv, config
  <2>3. ExecInv'
    BY <1>1, <1>2 DEF ExecDone, ExecInv, Linked, config
  <2> QED
    BY <2>2, <2>3 DEF ExecDone
<1>3. CASE index # 0
  <2>1. TypeOK' /\ LinkInv'
    BY <1>1, <1>3, AppliedType DEF ExecDone, TypeOK, LinkInv, config
  <2>2. \A b \in Known : kernel'[b] = IF b = a THEN staged.set[a] ELSE kernel[b]
    BY <1>1, <1>3, AppliedType DEF ExecDone
  <2>3. ASSUME sure, stale = {}, Linked PROVE /\ \A b \in Known \ cmds' : Committed(b) => kernel'[b] = staged.set[b]
                                              /\ "opmode" \in cmds' => kernel'.admin # "up"
                                              /\ "freq" \in cmds' /\ "admin" \notin cmds' => kernel'.admin = "up"
    <3>1. \A b \in Known \ cmds' : Committed(b) => kernel'[b] = staged.set[b]
      BY <1>1, <2>2, <2>3 DEF ExecDone, ExecInv
    <3>2. ASSUME "opmode" \in cmds' PROVE kernel'.admin # "up"
      <4>1. a # "admin"
        BY <3>2 DEF ExecDone, Front, Position
      <4> QED
        BY <1>1, <2>2, <2>3, <3>2, <4>1 DEF ExecDone, ExecInv, Known, Settings
    <3>3. ASSUME "freq" \in cmds', "admin" \notin cmds' PROVE kernel'.admin = "up"
      BY <1>1, <2>2, <2>3, <3>3 DEF ExecDone, ExecInv, Known, Settings
    <3> QED
      BY <3>1, <3>2, <3>3
  <2>4. ExecInv'
    BY <1>1, <2>3 DEF ExecDone, ExecInv, Linked, Committed, config
  <2> QED
    BY <2>1, <2>4 DEF ExecDone
<1> QED
  BY <1>2, <1>3

\* After a command that failed nothing is claimed but that it is known.
LEMMA ExecFailIInv == ASSUME IInv, NEW a \in Settings, ExecFail(a) PROVE IInv'
<1> USE DEF IInv
<1>1. ExecInv /\ a \in cmds /\ staged.set[a] # None
  BY DEF ExecFail, Front, ExecInv
<1>2. kernel' \in [Settings -> Vals \cup {"up", "down", None}]
  <2>1. Applied(a) \in [Settings -> Vals \cup {"up", "down", None}]
    BY DEF Applied, WithAdmin, TypeOK, Config, Settings
  <2> QED
    BY <2>1 DEF ExecFail, TypeOK
<1>3. TypeOK'
  BY <1>2 DEF ExecFail, TypeOK, Failed, config
<1>4. LinkInv'
  BY <1>1, AppliedType DEF ExecFail, LinkInv, config
<1>5. ExecInv'
  BY <1>1 DEF ExecFail, ExecInv, Failed, config
<1> QED
  BY <1>3, <1>4, <1>5 DEF ExecFail

\* A Commit that ends well leaves what it read back; after one that failed
\* stale says so, or there is no link that the interface knows.
LEMMA FinishIInv == IInv /\ Finish => IInv'
<1> SUFFICES ASSUME IInv, Finish PROVE IInv'
  OBVIOUS
<1> USE DEF IInv
<1>1. CASE status
  <2>1. TypeOK' /\ LinkInv'
    BY <1>1, RefreshedType DEF Finish, TypeOK, LinkInv, link, commit
  <2>2. Fresh'
    BY <1>1, FreshAfter DEF Finish
  <2> QED
    BY <2>1, <2>2 DEF Finish
<1>2. CASE ~status
  <2>1. TypeOK' /\ LinkInv'
    BY <1>2 DEF Finish, TypeOK, LinkInv, link, commit, config
  <2>2. Fresh'
    BY <1>2 DEF Finish, ExecInv, Fresh, Linked, link, config
  <2> QED
    BY <2>1, <2>2 DEF Finish
<1> QED
  BY <1>1, <1>2

LEMMA OutsideIInv == IInv /\ Outside => IInv'
<1> SUFFICES ASSUME IInv, Outside PROVE IInv'
  OBVIOUS
<1> USE DEF IInv
<1>1. /\ index' \in 0..made' /\ made' \in 0..MaxLinks
      /\ made <= made'
  BY DEF Outside, TypeOK
<1>2. /\ kernel' \in [Settings -> Vals \cup {"up", "down", None}]
      /\ index' # 0 => \A a \in Known : kernel'[a] # None
  <2>1. ASSUME index # 0, NEW v \in {"up", "down"}
        PROVE  /\ WithAdmin(v) \in [Settings -> Vals \cup {"up", "down", None}]
               /\ \A a \in Known : WithAdmin(v)[a] # None
    BY <2>1 DEF WithAdmin, TypeOK, LinkInv, Known, Settings
  <2>2. /\ NewLink(None) \in [Settings -> Vals \cup {"up", "down", None}]
        /\ \A a \in Known : NewLink(None)[a] # None
    BY DEF NewLink, Known, Settings
  <2>3. NoLink \in [Settings -> Vals \cup {"up", "down", None}]
    BY DEF NoLink
  <2> QED
    BY <2>1, <2>2, <2>3 DEF Outside
<1>3. TypeOK' /\ LinkInv'
  BY <1>1, <1>2 DEF Outside, TypeOK, LinkInv, Config, config, commit
<1>4. Fresh' /\ (step' = "exec" => ExecInv')
  BY DEF Outside, Fresh, ExecInv, config, commit
<1> QED
  BY <1>3, <1>4

LEMMA StutterIInv == IInv /\ UNCHANGED vars => IInv'
  BY DEF vars, link, config, commit, IInv, TypeOK, LinkInv, Fresh, ExecInv, Linked, Committed

LEMMA NextIInv == IInv /\ [Next]_vars => IInv'
<1> SUFFICES ASSUME IInv, [Next]_vars PROVE IInv'
  OBVIOUS
<1>1. CASE UNCHANGED vars
  BY <1>1, StutterIInv
<1>2. CASE Next
  BY <1>2, IdleSteps, CommitIInv, ExecDoneIInv, ExecFailIInv, FinishIInv, OutsideIInv DEF Next
<1> QED
  BY <1>1, <1>2

-----------------------------------------------------------------------------
THEOREM Invariance == Spec => []IInv
  BY InitIInv, NextIInv, PTL DEF Spec

\* Commit compares the staged values with what the kernel has, until others
\* change the link or a command fails.
LEMMA Compares == IInv => WorkingIsKernel
  BY DEF IInv, Fresh, WorkingIsKernel, Known

THEOREM Compared == Spec => []WorkingIsKernel
  BY Compares, Invariance, PTL

\* The commands of a Commit find the link in the state that each of them needs.
LEMMA Orders == IInv => InTheirState
<1> SUFFICES ASSUME IInv, Linked, sure, stale = {}
             PROVE  /\ Front("opmode") => kernel.admin # "up"
                    /\ Front("freq") => kernel.admin # "down"
  BY DEF InTheirState
<1>1. \A a : Front(a) => step = "exec" /\ a \in cmds
  BY DEF Front, IInv, TypeOK
<1>2. Front("freq") => "admin" \notin cmds
  BY DEF Front, Position
<1> QED
  BY <1>1, <1>2 DEF IInv, ExecInv

THEOREM Ordered == Spec => []InTheirState
  BY Orders, Invariance, PTL

\* A Commit that returns true made the kernel have what was staged.
LEMMA Takes ==
  IInv => (Finish /\ status /\ sure /\ "outside" \notin stale /\ Linked =>
             \A a \in {"opmode", "mtu", "admin"} :
               staged.set[a] # None /\ (a = "opmode" => working.set.admin # "up")
               => kernel[a] = staged.set[a])
  BY DEF IInv, ExecInv, Finish, Committed, Known, Settings

THEOREM Taken == Spec => CommitTakes
  BY Takes, Invariance, PTL DEF CommitTakes

-----------------------------------------------------------------------------
(***************************************************************************)
(* AccessPoint. Its steps are those of Interface, the staging of a value,  *)
(* and commands that change no setting a Commit compares: so IInv holds on *)
(* (ApStepIInv). The rest of ApInv has a lemma for each of its parts.      *)
(***************************************************************************)
USE ApAssumption DEF ApAssumption

LEMMA ApInitInv == ApInit /\ IInv => ApInv
<1> SUFFICES ASSUME ApInit, IInv PROVE ApInv
  OBVIOUS
<1>1. ApTypeOK
  BY DEF ApInit, ApTypeOK, Ssids, Frequencies
<1>2. CallInv /\ OnInv /\ UpInv
  BY DEF ApInit, Init, CallInv, OnInv, UpInv, NoLink, Settings
<1>3. CalmInv
  BY DEF ApInit, Init, CalmInv
<1>4. StartInv
  BY DEF ApInit, Init, StartInv, NoLink, Settings
<1> QED
  BY <1>1, <1>2, <1>3, <1>4 DEF ApInv

\* Staging a value between two Commits, of whatever call, takes nothing away.
LEMMA StagingIInv ==
  ASSUME IInv, step = "idle", step' \in {"idle", "commit"},
         NEW a \in Settings, NEW v \in Values, staged' = [staged EXCEPT !.set[a] = v],
         UNCHANGED <<link, working, commit, stale>>
  PROVE  IInv'
<1> USE DEF IInv
<1>1. TypeOK' /\ LinkInv'
  BY DEF TypeOK, LinkInv, Config, Values, Settings, link, commit
<1>2. Fresh'
  BY DEF Fresh, Linked, link
<1> QED
  BY <1>1, <1>2

\* No command of the two classes changes a setting that a Commit compares.
LEMMA HeadIInv == ASSUME IInv, ApTypeOK, HeadDone \/ HeadFails PROVE IInv'
<1> USE DEF IInv
<1>1. /\ kernel' \in [Settings -> Vals \cup {"up", "down", None}]
      /\ \A a \in Known : kernel'[a] = kernel[a]
  <2>1. head.freq \in Vals \cup {"up", "down", None} /\ kernel' \in {kernel, Tuned}
    BY DEF HeadDone, HeadFails, ApTypeOK, ApCommands, Values
  <2>2. /\ Tuned \in [Settings -> Vals \cup {"up", "down", None}]
        /\ \A a \in Known : Tuned[a] = kernel[a]
    BY <2>1 DEF Tuned, TypeOK, Known, Settings
  <2> QED
    BY <2>1, <2>2 DEF TypeOK
<1>2. CASE HeadDone
  <2>1. TypeOK' /\ LinkInv'
    BY <1>1, <1>2 DEF HeadDone, TypeOK, LinkInv, config, commit
  <2>2. step \in {"idle", "commit"} => Fresh'
    BY <1>1, <1>2 DEF HeadDone, Fresh, Linked, config
  <2>3. step = "exec" => ExecInv'
    BY <1>1, <1>2 DEF HeadDone, ExecInv, Linked, Committed, Known, Settings, config, commit, TypeOK
  <2> QED
    BY <1>2, <2>1, <2>2, <2>3 DEF HeadDone
<1>3. CASE HeadFails
  <2>1. TypeOK' /\ LinkInv'
    BY <1>1, <1>3 DEF HeadFails, TypeOK, LinkInv, config
  <2>2. step \in {"idle", "commit"} => Fresh'
    BY <1>3 DEF HeadFails, Fresh
  <2>3. step = "exec" => ExecInv'
    BY <1>3 DEF HeadFails, ExecInv, config
  <2> QED
    BY <1>3, <2>1, <2>2, <2>3 DEF HeadFails
<1> QED
  BY <1>2, <1>3

LEMMA ApStepIInv == ApInv /\ ApNext => IInv'
<1> SUFFICES ASSUME ApInv, ApNext PROVE IInv'
  OBVIOUS
<1> USE DEF ApInv
<1>0. UNCHANGED vars => IInv'
  BY StutterIInv
<1>1. CASE Construct
  BY <1>1, StagingIInv, "opmode" \in Settings, Ap \in Values
     DEF Construct, CallInv, Settings, Values
<1>2. CASE BssConstruct
  BY <1>2, IdleSteps DEF BssConstruct
<1>3. CASE UserCalls
  BY <1>3, IdleSteps, CommitIInv DEF UserCalls
<1>4. CASE CreatedRefresh
  <2>1. TypeOK' /\ LinkInv'
    BY <1>4, RefreshedType DEF CreatedRefresh, TypeOK, LinkInv, link, commit, IInv
  <2> QED
    BY <1>4, <2>1, FreshAfter DEF CreatedRefresh, IInv
<1>5. CASE UserSsid \/ UserSends \/ BssSsid \/ BssSends \/ \E s \in Stations : BssStation(s)
  BY <1>0, <1>5 DEF UserSsid, UserSends, BssSsid, BssSends, BssStation, Send
<1>6. CASE Stop \/ BssStart
  BY <1>6, StagingIInv, "admin" \in Settings, {"up", "down"} \subseteq Values
     DEF Stop, BssStart, ByBss, Free, Settings, Values
<1>7. CASE StopCommits \/ CommitReturns
  BY <1>7, CommitIInv, FinishIInv DEF StopCommits, CommitReturns
<1>8. CASE HeadDone \/ HeadFails
  BY <1>8, HeadIInv
<1>9. ASSUME NEW a \in Settings, CommandDone(a) \/ CommandFails(a) PROVE IInv'
  BY <1>9, ExecDoneIInv, ExecFailIInv DEF CommandDone, CommandFails
<1>10. CASE BssConfigures \/ BssUpdate
  <2>1. bss.freq \in Values /\ "freq" \in Settings /\ step = "idle"
    BY <1>10 DEF ApTypeOK, Frequencies, Values, Settings, BssConfigures, BssUpdate, ByBss, Free,
         CallInv
  <2> QED
    BY <1>10, <2>1, StagingIInv DEF BssConfigures, BssUpdate, Configure
<1>11. ASSUME NEW f \in Frequencies, BssChannel(f) PROVE IInv'
  BY <1>11, StagingIInv, "freq" \in Settings, f \in Values
     DEF BssChannel, ByBss, Free, Settings, Values, Frequencies
<1>12. CASE Others
  BY <1>12, OutsideIInv DEF Others
<1> QED
  BY <1>1, <1>2, <1>3, <1>4, <1>5, <1>6, <1>7, <1>8, <1>9, <1>10, <1>11, <1>12 DEF ApNext

\* A command about an access point.
LEMMA CommandType ==
  ASSUME IInv, ApTypeOK, NEW act \in {"start", "update", "stop"}, NEW b \in Frequencies
  PROVE  Command(act, b) \in ApCommands /\ Command(act, b) # None
<1>1. Read(working.index, "freq") \in Values
  BY DEF IInv, TypeOK, Config, Read, Answer, Values, Settings
<1>2. IfIndex \in 0..MaxLinks
  BY DEF IInv, TypeOK, LinkInv, Config, IfIndex
<1> QED
  BY <1>1, <1>2 DEF Command, ApCommands, ApTypeOK

LEMMA ApStepTypeOK == ApInv /\ ApNext => ApTypeOK'
<1> SUFFICES ASSUME ApInv, ApNext PROVE ApTypeOK'
  OBVIOUS
<1> USE DEF ApInv, ApTypeOK
<1>1. None \in Frequencies
  BY DEF Frequencies
<1>3. ASSUME UserCalls \/ CreatedRefresh \/ StopCommits \/ CommitReturns \/ Construct \/ Others
             \/ UserSsid \/ BssConstruct \/ BssSsid \/ BssStart \/ BssConfigures \/ BssUpdate
             \/ (\E a \in Settings : CommandDone(a) \/ CommandFails(a))
             \/ (\E f \in Frequencies : BssChannel(f))
      PROVE  ApTypeOK'
  <2>1. ap' \in {ap, None} /\ head' = head
    BY <1>3 DEF UserCalls, CreatedRefresh, StopCommits, CommitReturns, Construct, Others, UserSsid,
         BssConstruct, BssSsid, BssStart, BssConfigures, BssUpdate, Configure, CommandDone,
              CommandFails,
         BssChannel, ApFollows, apVars
  <2>2. /\ running' \in BOOLEAN /\ calm' \in BOOLEAN /\ owner' = owner
        /\ call' \in {"none", "new", "build", "send", "stop", "up", "configure", "start", "update"}
    BY <1>3 DEF UserCalls, CreatedRefresh, StopCommits, CommitReturns, Construct, Others, UserSsid,
         BssConstruct, BssSsid, BssStart, BssConfigures, BssUpdate, Configure, CommandDone,
              CommandFails,
         BssChannel, apVars, RunningStill
  <2>3. ssid' \in Ssids /\ bss' \in [ssid : Ssids, freq : Frequencies, announced : Frequencies]
    BY <1>3 DEF UserCalls, CreatedRefresh, StopCommits, CommitReturns, Construct, Others, UserSsid,
         BssConstruct, BssSsid, BssStart, BssConfigures, BssUpdate, Configure, CommandDone,
              CommandFails,
         BssChannel, apVars, StagedSsid, Ssids, Frequencies, InitBeacon
  <2> QED
    BY <2>1, <2>2, <2>3
<1>4. CASE UserSends \/ BssSends \/ Stop
  BY <1>1, <1>4, CommandType DEF UserSends, BssSends, Stop, Send
<1>5. CASE HeadDone \/ HeadFails
  <2>1. head # None /\ head \in ApCommands
    BY <1>5 DEF HeadDone, HeadFails
  <2>2. ASSUME Agrees,
       NEW answered \in BOOLEAN PROVE Beaconing(answered) \in AccessPoints \cup {None}
    <3>1. CASE head.op = "start"
      BY <2>1, <3>1 DEF Beaconing, AccessPoints, ApCommands
    <3>2. CASE head.op = "update"
      BY <2>1, <2>2, <3>2 DEF Beaconing, AccessPoints, ApCommands, Agrees
    <3>3. CASE head.op = "stop"
      BY <3>3 DEF Beaconing
    <3> QED
      BY <2>1, <3>1, <3>2, <3>3 DEF ApCommands
  <2>3. ap' \in AccessPoints \cup {None}
    BY <1>5, <2>2 DEF HeadDone, HeadFails
  <2> QED
    BY <1>5, <2>3 DEF HeadDone, HeadFails, Sent, RunningNow
<1>6. ASSUME NEW s \in Stations, BssStation(s) PROVE ApTypeOK'
  <2>1. PICK now \in SUBSET Stations : ap' = [ap EXCEPT !.stations = now]
    BY <1>6 DEF BssStation, AccessPoints
  <2>2. ap' \in AccessPoints
    BY <1>6, <2>1 DEF BssStation, AccessPoints
  <2> QED
    BY <1>6, <2>2 DEF BssStation
<1> QED
  BY <1>3, <1>4, <1>5, <1>6 DEF ApNext

LEMMA ApStepCall == ApInv /\ ApNext => CallInv'
<1> SUFFICES ASSUME ApInv, ApNext PROVE CallInv'
  OBVIOUS
<1> USE DEF ApInv, CallInv
<1>1. CASE Construct \/ BssConstruct
  BY <1>1 DEF Construct, BssConstruct, Refresh
<1>2. CASE UserCalls
  BY <1>2 DEF UserCalls, ByUser, Free, Refresh, Commit, Destroy, Create, Set
<1>3. CASE CreatedRefresh \/ UserSsid \/ BssSsid \/ Others \/ \E s \in Stations : BssStation(s)
  BY <1>3 DEF CreatedRefresh, UserSsid, BssSsid, Others, Outside, BssStation, apVars, vars
<1>4. CASE UserSends \/ BssSends
  BY <1>4 DEF UserSends, BssSends, Send, ByUser, Free, vars, Command
<1>5. CASE Stop \/ BssStart \/ BssConfigures \/ BssUpdate
  <2>1. Command("stop", None) # None /\ Command("stop", None).op = "stop"
    BY CommandType, None \in Frequencies DEF Command, Frequencies
  <2> QED
    BY <1>5, <2>1 DEF Stop, BssStart, BssConfigures, BssUpdate, Configure, ByBss, Free
<1>6. CASE StopCommits \/ CommitReturns
  BY <1>6 DEF StopCommits, Commit, CommitReturns, Finish, apVars
<1>7. CASE HeadDone \/ HeadFails
  BY <1>7 DEF HeadDone, HeadFails, Sent
<1>8. ASSUME NEW a \in Settings, CommandDone(a) \/ CommandFails(a) PROVE CallInv'
  BY <1>8 DEF CommandDone, CommandFails, ExecDone, ExecFail
<1>9. ASSUME NEW f \in Frequencies, BssChannel(f) PROVE CallInv'
  BY <1>9 DEF BssChannel
<1> QED
  BY <1>1, <1>2, <1>3, <1>4, <1>5, <1>6, <1>7, <1>8, <1>9 DEF ApNext

\* What a call of Interface does to an access point that beacons.
LEMMA FollowsOn ==
  ASSUME OnInv, ApFollows, running' = running, ~(call' = "stop" /\ step' = "exec")
  PROVE  OnInv'
  BY DEF OnInv, ApFollows, LinkHolds

\* What the kernel does that agrees to a command about an access point.
LEMMA Answered ==
  ASSUME ApInv, head # None, Agrees, NEW answered \in BOOLEAN
  PROVE  /\ Beaconing(answered) = None <=> head.op = "stop"
         /\ head.op # "stop" =>
              (Beaconing(answered).answered <=> IF head.op = "start" THEN answered ELSE ap.answered)
         /\ Tuned.admin = "up" /\ index # 0
         /\ head.op # "start" => ap # None
<1> USE DEF ApInv, Agrees
<1>1. head.op \in {"start", "update", "stop"}
  BY DEF ApTypeOK, ApCommands
<1>2. Tuned.admin = "up" /\ index # 0
  BY DEF Tuned, UpInv, IInv, TypeOK, Settings
<1>3. CASE head.op = "start"
  <2>1. Beaconing(answered) \in AccessPoints
    BY <1>3 DEF Beaconing, AccessPoints, ApCommands, ApTypeOK
  <2> QED
    BY <1>2, <1>3, <2>1 DEF Beaconing
<1>4. CASE head.op = "update"
  <2>1. ap \in AccessPoints
    BY <1>4 DEF ApTypeOK
  <2>2. Beaconing(answered) = [ap EXCEPT !.announced = head.announced]
    BY <1>4 DEF Beaconing
  <2>3. Beaconing(answered) \in AccessPoints /\ Beaconing(answered).answered = ap.answered
    BY <1>4, <2>1, <2>2 DEF AccessPoints, ApCommands, ApTypeOK
  <2> QED
    BY <1>2, <1>4, <2>3
<1>5. CASE head.op = "stop"
  BY <1>2, <1>5 DEF Beaconing
<1> QED
  BY <1>1, <1>3, <1>4, <1>5

\* Only Applied of "admin" takes a link up.
LEMMA ApStepUp == ApInv /\ ApNext => UpInv'
<1> SUFFICES ASSUME ApInv, ApNext PROVE UpInv'
  OBVIOUS
<1> USE DEF ApInv, UpInv
<1>1. CASE UserCalls
  BY <1>1 DEF UserCalls, Refresh, Commit, HasIndex, Destroy, Create, Set, NewLink, NoLink,
       Settings, link, config, commit, IInv, TypeOK, ByUser, Free
<1>2. CASE Others
  BY <1>2 DEF Others, Outside, WithAdmin, NewLink, NoLink, Settings, config, commit
<1>3. ASSUME NEW a \in Settings, CommandDone(a) \/ CommandFails(a) PROVE UpInv'
  BY <1>3 DEF CommandDone, CommandFails, ExecDone, ExecFail, Accepts, Front, config
<1>4. CASE HeadDone \/ HeadFails
  BY <1>4, Answered DEF HeadDone, HeadFails, config, commit
<1>5. CASE StopCommits \/ CommitReturns
  BY <1>5 DEF StopCommits, Commit, HasIndex, CommitReturns, Finish, link, config, commit
<1>6. (UserSends \/ BssSends \/ UserSsid \/ BssSsid \/ \E s \in Stations : BssStation(s)) => UpInv'
  BY DEF UserSends, BssSends, Send, UserSsid, BssSsid, BssStation, vars, link, config, commit
<1>7. CASE Construct \/ BssConstruct \/ CreatedRefresh
  BY <1>7 DEF Construct, BssConstruct, Refresh, CreatedRefresh, CallInv, IInv, TypeOK, link, commit
<1>8. (Stop \/ BssStart \/ BssConfigures \/ BssUpdate
     \/ \E f \in Frequencies : BssChannel(f)) => UpInv'
  BY DEF Stop, BssStart, BssConfigures, BssUpdate, Configure, BssChannel, link, commit
<1> QED
  BY <1>1, <1>2, <1>3, <1>4, <1>5, <1>6, <1>7, <1>8 DEF ApNext

LEMMA ApStepOn == ApInv /\ ApNext => OnInv'
<1> SUFFICES ASSUME ApInv, ApNext PROVE OnInv'
  OBVIOUS
<1> USE DEF ApInv
<1>1. CASE UserCalls
  BY <1>1, FollowsOn DEF UserCalls, ByUser, Free
<1>2. CASE Others
  BY <1>2 DEF Others, Outside, ApFollows, LinkHolds, OnInv, commit
<1>3. ASSUME NEW a \in Settings, CommandDone(a) \/ CommandFails(a) PROVE OnInv'
  BY <1>3 DEF CommandDone, CommandFails, ExecDone, ExecFail, ApFollows, LinkHolds, OnInv, Failed
<1>4. CASE HeadDone
  BY <1>4, Answered DEF HeadDone, RunningNow, Sent, OnInv, UpInv, CallInv, commit
<1>5. CASE HeadFails
  BY <1>5, Answered DEF HeadFails, RunningNow, Sent, OnInv, UpInv, CallInv
<1>10. CASE CommitReturns
  BY <1>10 DEF CommitReturns, Finish, OnInv, RunningStill, link, commit
<1>6. ASSUME NEW s \in Stations, BssStation(s) PROVE OnInv'
  BY <1>6 DEF BssStation, OnInv, ByBss, Free, ApTypeOK, AccessPoints, vars, link, commit
<1>7. CASE UserSends \/ BssSends \/ Stop \/ BssStart \/ BssConfigures \/ BssUpdate
  BY <1>7 DEF UserSends, BssSends, Send, Stop, BssStart, BssConfigures, BssUpdate, Configure,
       OnInv, link, vars
<1>8. CASE Construct \/ BssConstruct \/ UserSsid \/ BssSsid \/ CreatedRefresh
     \/ \E f \in Frequencies : BssChannel(f)
  BY <1>8 DEF Construct, BssConstruct, Refresh, UserSsid, BssSsid, CreatedRefresh, BssChannel,
       OnInv, link, vars, apVars, ByBss, ByUser, Free
<1>9. CASE StopCommits
  BY <1>9 DEF StopCommits, Commit, OnInv, CallInv, link, apVars
<1> QED
  BY <1>1, <1>2, <1>3, <1>4, <1>5, <1>6, <1>7, <1>8, <1>9, <1>10 DEF ApNext

LEMMA ApStepCalm == ApInv /\ ApNext => CalmInv'
<1> SUFFICES ASSUME ApInv, ApNext PROVE CalmInv'
  OBVIOUS
<1> USE DEF ApInv
<1>1. (UserCalls \/ UserSsid \/ UserSends) => CalmInv'
  BY DEF UserCalls, UserSsid, UserSends, ByUser, Free, Send, CalmInv, Refresh, Commit, Destroy,
       Create, Set, Reread, vars
<1>2. (Others \/ HeadFails \/ \E a \in Settings : CommandFails(a)) => CalmInv'
  BY DEF Others, HeadFails, CommandFails, CalmInv
<1>3. ASSUME NEW a \in Settings, CommandDone(a) PROVE CalmInv'
  BY <1>3 DEF CommandDone, ExecDone, ApFollows, LinkHolds, CalmInv, OnInv, config, CallInv,
       Accepts, Applied, WithAdmin, IInv, TypeOK, Settings
<1>4. CASE HeadDone
  <2>1. stale' = stale /\ calm' = calm /\ owner' = owner /\ step' = step /\ index' = index
        /\ UNCHANGED config
    BY <1>4 DEF HeadDone, commit
  <2>2. index # 0 /\ head # None /\ (head.op # "stop" => ap' # None)
    BY <1>4, Answered DEF HeadDone
  <2>3. CASE call = "send"
    <3>1. ap' # None /\ call' = "none" /\ step = "idle"
      BY <1>4, <2>2, <2>3 DEF HeadDone, Sent, CallInv
    <3> QED
      BY <2>1, <2>2, <2>3, <3>1 DEF CalmInv, config
  <2>4. CASE call = "stop"
    <3>1. call' = "stop" /\ step = "exec" /\ head' = None /\ running' = running
      BY <1>4, <2>2, <2>4 DEF HeadDone, Sent, CallInv, RunningNow, ApTypeOK
    <3> QED
      BY <2>1, <2>2, <2>4, <3>1 DEF CalmInv, config
  <2> QED
    BY <2>2, <2>3, <2>4 DEF CallInv
<1>5. CASE CommitReturns
  <2>1. index = index' /\ calm' = calm /\ owner' = owner /\ step = "exec" /\ step' = "idle"
    BY <1>5 DEF CommitReturns, Finish, link
  <2>2. calm /\ index = 0 /\ owner = "bss" => FALSE
    BY <1>5, <2>1 DEF CalmInv
  <2>3. index # 0 => Refreshed.index = index
    BY DEF Refreshed, IfIndex
  <2>4. index # 0 /\ status => working'.index = index
    BY <1>5, <2>3 DEF CommitReturns, Finish, CalmInv
  <2>5. calm /\ owner = "bss" => call \in {"stop", "up"} /\ working.index = index
    BY <2>1, <2>2 DEF CalmInv
  <2>6. stale' \in {stale, {}} /\ (~status => working' = working)
    BY <1>5 DEF CommitReturns, Finish, Reread, config
  <2>7. calm /\ owner = "bss" => status
    BY <2>1, <2>2, <2>5 DEF CalmInv, IInv, ExecInv
  <2>9. running' /\ calm /\ owner = "bss" => ap' # None
    BY <1>5, <2>1, <2>5, <2>7 DEF CommitReturns, RunningStill, CalmInv
  <2>8. call' \in {"configure", "none"}
    BY <1>5 DEF CommitReturns
  <2> QED
    BY <2>1, <2>2, <2>4, <2>5, <2>6, <2>8, <2>9 DEF CalmInv
<1>6. ASSUME NEW s \in Stations, BssStation(s) PROVE CalmInv'
  BY <1>6 DEF BssStation, CalmInv, ByBss, Free, ApTypeOK, AccessPoints, vars, link, commit, config
<1>7. CASE BssSends \/ Stop \/ BssStart \/ BssConfigures \/ BssUpdate
  BY <1>7 DEF BssSends, Send, Stop, BssStart, BssConfigures, BssUpdate, Configure, CalmInv,
       CallInv, ByBss, Free, IfIndex, vars, link, config, IInv, TypeOK, Config, Settings
<1>8. CASE BssConstruct
  <2>1. index # 0 => Refreshed.index = index
    BY DEF Refreshed, IfIndex
  <2>2. working.index = 0 /\ staged.index = 0 /\ index = 0 => Refreshed.index = 0
    BY DEF Refreshed, IfIndex, IInv, TypeOK, Config
  <2> QED
    BY <1>8, <2>1, <2>2 DEF BssConstruct, Refresh, Reread, CalmInv, link, commit
<1>10. ASSUME NEW f \in Frequencies, BssChannel(f) PROVE CalmInv'
  <2>1. staged'.index = staged.index
    BY <1>10 DEF BssChannel, IInv, TypeOK, Config
  <2> QED
    BY <1>10, <2>1 DEF BssChannel, CalmInv, ByBss, Free, link
<1>13. CASE BssSsid
  BY <1>13 DEF BssSsid, CalmInv, vars, link, config
<1>11. CASE CreatedRefresh
  BY <1>11 DEF CreatedRefresh, CalmInv, Reread, apVars
<1>12. CASE Construct
  <2>1. staged'.index = staged.index
    BY <1>12 DEF Construct, IInv, TypeOK, Config
  <2> QED
    BY <1>12, <2>1 DEF Construct, CalmInv, CallInv, link
<1>9. CASE StopCommits
  BY <1>9 DEF StopCommits, Commit, CalmInv, CallInv, link, apVars, config
<1> QED
  BY <1>1, <1>2, <1>3, <1>4, <1>5, <1>6, <1>7, <1>8, <1>9, <1>10, <1>11, <1>12, <1>13 DEF ApNext

\* Only one that has the link stops, and it is up.
LEMMA StopFinds ==
  ASSUME ApInv, calm, owner = "bss", Free, running, IfIndex # 0,
         Read(working.index, "admin") = "up"
  PROVE  kernel.admin = "up"
<1>1. index # 0 /\ working.index = index
  BY DEF ApInv, CalmInv, Free
<1> QED
  BY <1>1 DEF ApInv, IInv, LinkInv, Read, Answer, Known, Settings

\* What an access point is told to start with.
LEMMA StartWith ==
  ASSUME ApInv, calm, owner = "bss", call = "start", ~running
  PROVE  /\ Command("start", bss.announced).freq \in {None, bss.announced}
         /\ Command("start", bss.announced).ssid = bss.ssid
<1>1. ap = None
  BY DEF ApInv, OnInv, StartInv
<1>2. kernel.freq \in {None, bss.freq} /\ staged.set.freq = bss.freq /\ bss.freq \in {None,
     bss.announced}
  BY <1>1 DEF ApInv, StartInv
<1>3. Read(working.index, "freq") \in {None, bss.announced}
  BY <1>2 DEF Read, Answer
<1> QED
  BY <1>3 DEF Command, ApInv, StartInv

LEMMA ApStepStart == ApInv /\ ApNext => StartInv'
<1> SUFFICES ASSUME ApInv, ApNext PROVE StartInv'
  OBVIOUS
<1> USE DEF ApInv
<1>1. CASE UserCalls \/ UserSsid \/ UserSends
  BY <1>1 DEF UserCalls, UserSsid, UserSends, ByUser, Send, ApFollows, StartInv
<1>2. (Others \/ HeadFails \/ \E a \in Settings : CommandFails(a)) => StartInv'
  BY DEF Others, HeadFails, CommandFails, StartInv
<1>3. ASSUME NEW a \in Settings, CommandDone(a) PROVE StartInv'
  <2>1. /\ UNCHANGED <<index, made, staged, working, step, status, sure, stale>>
        /\ UNCHANGED <<running, head, call, ssid, bss, owner, calm>>
        /\ ap' \in {ap, None} /\ head = None
    BY <1>3 DEF CommandDone, ExecDone, ApFollows, config
  <2>2. cmds' = cmds \ {a} /\ kernel' = Applied(a) /\ a \in cmds /\ step = "exec"
    BY <1>3 DEF CommandDone, ExecDone, Front
  <2>3. ASSUME calm, owner = "bss", call = "stop" PROVE StartInv'
    <3>1. staged.set.admin = "down" /\ a # "freq"
      BY <2>2, <2>3 DEF StartInv, IInv, ExecInv
    <3>2. "admin" \notin cmds' => kernel'.freq = None
      BY <2>2, <2>3, <3>1 DEF StartInv, Applied, WithAdmin, IInv, TypeOK, Settings
    <3> QED
      BY <2>1, <2>2, <2>3, <3>1, <3>2 DEF StartInv
  <2>4. ASSUME calm, owner = "bss", call = "up" PROVE StartInv'
    <3>1. staged.set.admin = "up" /\ staged.set.freq = bss.freq
      BY <2>4 DEF StartInv, CalmInv
    <3>2. kernel'.freq \in {kernel.freq, bss.freq} /\ kernel'.admin \in {kernel.admin, "up"}
      BY <2>2, <3>1 DEF Applied, WithAdmin, IInv, TypeOK, Settings
    <3>3. index # 0
      BY <2>4 DEF CalmInv
    <3>4. ap # None => kernel.admin = "up"
      BY DEF OnInv
    <3>5. ap' = ap
      BY <1>3, <2>1, <3>2, <3>4 DEF CommandDone, ApFollows, LinkHolds
    <3> QED
      BY <2>1, <2>2, <2>4, <3>2, <3>5 DEF StartInv
  <2>5. calm /\ owner = "bss" => call \in {"stop", "up"}
    BY <2>2 DEF CalmInv
  <2>6. ~(calm /\ owner = "bss") => StartInv'
    BY <2>1 DEF StartInv
  <2> QED
    BY <2>3, <2>4, <2>5, <2>6
<1>4. CASE HeadDone
  <2>1. /\ UNCHANGED <<staged, working, step, cmds, stale, ssid, bss, owner, calm>>
        /\ head # None /\ head' = None /\ kernel' = Tuned /\ ap' = Beaconing(TRUE) /\ Agrees
        /\ call' = IF call = "send" THEN "none" ELSE call
    BY <1>4 DEF HeadDone, Sent, config, commit
  <2>2. calm /\ ap' # None => ap'.answered
    BY <2>1, Answered DEF StartInv
  <2>3. ASSUME calm, owner = "bss", call = "send" PROVE StartInv'
    <3>1. ap' # None
      BY <2>1, <2>3, Answered DEF CallInv
    <3> QED
      BY <2>1, <2>2, <2>3, <3>1 DEF StartInv, CallInv
  <2>4. ASSUME calm, owner = "bss", call = "stop" PROVE StartInv'
    <3>1. head.op = "stop" /\ kernel' = kernel /\ step = "exec"
      BY <2>1, <2>4, <1>4 DEF CallInv, Tuned, HeadDone
    <3> QED
      BY <2>1, <2>2, <2>4, <3>1 DEF StartInv
  <2> QED
    BY <2>1, <2>2, <2>3, <2>4 DEF StartInv, CallInv
<1>5. CASE CommitReturns
  <2>1. /\ UNCHANGED <<index, kernel, cmds, status, ap, head, bss, owner, calm>>
        /\ step = "exec" /\ cmds = {} /\ head = None
        /\ step' = "idle" /\ call' = IF call = "up" /\ status THEN "configure" ELSE "none"
    BY <1>5 DEF CommitReturns, Finish, link, commit
  <2>2. calm /\ owner = "bss" => index # 0 /\ working.index = index /\ call \in {"stop", "up"}
    BY <2>1 DEF CalmInv
  <2>3. calm /\ owner = "bss" => status
    BY <2>1, <2>2 DEF CalmInv, IInv, ExecInv
  <2>4. ASSUME calm, owner = "bss", call = "stop" PROVE StartInv'
    <3>1. kernel.freq = None
      BY <2>1, <2>4 DEF StartInv
    <3>2. staged' = [index |-> index, set |-> [a \in Settings |-> Read(index, a)]]
      BY <1>5, <2>2, <2>3, <2>4 DEF CommitReturns, Finish, Refreshed, IfIndex
    <3>3. staged'.set.freq = staged.set.freq
      BY <3>1, <3>2 DEF Read, Answer, Settings
    <3> QED
      BY <2>1, <2>4, <3>1, <3>3 DEF StartInv
  <2>5. ASSUME calm, owner = "bss", call = "up" PROVE StartInv'
    BY <2>1, <2>3, <2>5 DEF StartInv
  <2>6. ~(calm /\ owner = "bss") => StartInv'
    BY <2>1 DEF StartInv
  <2> QED
    BY <2>2, <2>4, <2>5, <2>6
<1>6. ASSUME NEW s \in Stations, BssStation(s) PROVE StartInv'
  <2>1. ap' # None /\ (ap'.answered <=> ap.answered)
    BY <1>6 DEF BssStation, ApTypeOK, AccessPoints
  <2> QED
    BY <1>6, <2>1 DEF BssStation, StartInv, vars, link, config, commit
<1>7. CASE Stop
  <2>1. staged'.set.admin = "down" /\ staged'.set.freq = staged.set.freq
    BY <1>7 DEF Stop, IInv, TypeOK, Config, Settings
  <2>2. Command("stop", None).op = "stop"
    BY DEF Command
  <2>3. calm /\ owner = "bss" => kernel.admin = "up" /\ ap # None
    BY <1>7, StopFinds DEF Stop, CalmInv, Free
  <2> QED
    BY <1>7, <2>1, <2>2, <2>3 DEF Stop, StartInv, Free, link
<1>8. CASE BssStart
  <2>1. staged'.set.freq = staged.set.freq
    BY <1>8 DEF BssStart, IInv, TypeOK, Config, Settings
  <2> QED
    BY <1>8, <2>1 DEF BssStart, StartInv, ByBss, Free, link
<1>9. CASE BssConfigures
  <2>1. staged'.set.freq = bss.freq
    BY <1>9 DEF BssConfigures, Configure, IInv, TypeOK, Config, Settings
  <2> QED
    BY <1>9, <2>1 DEF BssConfigures, Configure, StagedSsid, StartInv, link
<1>10. CASE BssUpdate
  <2>1. staged'.set.freq = bss.freq
    BY <1>10 DEF BssUpdate, Configure, IInv, TypeOK, Config, Settings
  <2> QED
    BY <1>10, <2>1 DEF BssUpdate, Configure, StartInv, ByBss, Free, link
<1>11. CASE BssSends
  <2>1. /\ UNCHANGED <<index, kernel, staged, working, step, cmds, stale>>
        /\ UNCHANGED <<ap, running, ssid, bss, owner, calm>>
    BY <1>11 DEF BssSends, Send, vars, link, config, commit
  <2>2. CASE head' = None /\ call' = "none"
    <3>1. ASSUME calm, owner = "bss", call = "start" PROVE ap # None
      <4>1. IfIndex # 0
        BY <3>1 DEF CalmInv, IfIndex
      <4>2. Command(call, bss.announced) # None
        BY <3>1, CommandType DEF ApTypeOK
      <4>3. running # (call = "update")
        BY <1>11, <2>2, <4>1, <4>2 DEF BssSends, Send
      <4>4. running
        BY <3>1, <4>3 DEF ApTypeOK
      <4> QED
        BY <3>1, <4>4 DEF CalmInv
    <3> QED
      BY <1>11, <2>1, <2>2, <3>1 DEF BssSends, StartInv
  <2>3. CASE head' = Command(call, bss.announced) /\ call' = "send" /\ running = (call = "update")
    <3>1. Command(call, bss.announced).op = call /\ Command(call,
         bss.announced).announced = bss.announced
      BY DEF Command
    <3>2. CASE call = "start"
      BY <2>1, <2>3, <3>1, <3>2, StartWith DEF StartInv, ApTypeOK
    <3>3. CASE call = "update"
      BY <2>1, <2>3, <3>1, <3>3 DEF StartInv, CalmInv
    <3> QED
      BY <1>11, <3>2, <3>3 DEF BssSends
  <2> QED
    BY <1>11, <2>2, <2>3 DEF BssSends, Send
<1>12. ASSUME NEW f \in Frequencies, BssChannel(f) PROVE StartInv'
  <2>1. staged'.set.freq = f /\ bss'.freq = f /\ bss'.announced = f /\ bss'.ssid = bss.ssid
    BY <1>12 DEF BssChannel, IInv, TypeOK, Config, Settings, ApTypeOK
  <2> QED
    BY <1>12, <2>1 DEF BssChannel, StartInv, CallInv, ByBss, Free, link
<1>13. CASE BssSsid
  <2>1. bss'.freq = bss.freq /\ bss'.announced = bss.announced
    BY <1>13 DEF BssSsid, ApTypeOK
  <2> QED
    BY <1>13, <2>1 DEF BssSsid, StartInv, CallInv, ByBss, Free, vars, link, config, commit
<1>14. CASE CreatedRefresh
  BY <1>14 DEF CreatedRefresh, CalmInv, StartInv, apVars, link
<1>15. CASE Construct
  <2>1. staged'.set.freq = staged.set.freq
    BY <1>15 DEF Construct, IInv, TypeOK, Config, Settings
  <2> QED
    BY <1>15, <2>1 DEF Construct, StartInv, link
<1>16. CASE BssConstruct
  <2>1. bss'.freq = bss.freq /\ bss'.ssid = bss.ssid
    BY <1>16 DEF BssConstruct, ApTypeOK
  <2> QED
    BY <1>16, <2>1 DEF BssConstruct, Refresh, StartInv, CallInv, link, commit
<1>17. CASE StopCommits
  <2>1. /\ UNCHANGED <<index, kernel, staged, working, stale>>
        /\ UNCHANGED <<ap, running, head, call, ssid, bss, owner, calm>>
        /\ step = "commit" /\ step' = "exec"
    BY <1>17 DEF StopCommits, Commit, apVars, link, config
  <2>2. ASSUME calm, owner = "bss", call = "stop" PROVE "admin" \in cmds'
    <3>1. kernel.admin = "up" /\ staged.set.admin = "down" /\ stale = {}
      BY <2>1, <2>2 DEF StartInv, CalmInv
    <3>2. index # 0 /\ working.index = index
      BY <2>2 DEF CalmInv
    <3>3. working.set.admin = "up"
      BY <2>1, <3>1, <3>2 DEF IInv, Fresh, Linked, Known, Settings
    <3> QED
      BY <1>17, <3>1, <3>2, <3>3 DEF StopCommits, Commit, HasIndex, Due, Settings
  <2> QED
    BY <2>1, <2>2 DEF StartInv
<1> QED
  BY <1>1, <1>2, <1>3, <1>4, <1>5, <1>6, <1>7, <1>8, <1>9, <1>10, <1>11, <1>12, <1>13, <1>14, <1>15,
     <1>16, <1>17 DEF ApNext

LEMMA ApStep == ApInv /\ [ApNext]_allVars => ApInv'
<1>1. ASSUME ApInv, UNCHANGED allVars PROVE ApInv'
  <2>1. IInv'
    BY <1>1, StutterIInv DEF ApInv, allVars
  <2>2. UpInv' /\ ApTypeOK' /\ CallInv' /\ OnInv' /\ CalmInv'
    BY <1>1 DEF ApInv, UpInv, ApTypeOK, CallInv, OnInv, CalmInv, allVars, apVars, vars, link,
         config, commit
  <2>3. StartInv'
    BY <1>1 DEF ApInv, StartInv, allVars, apVars, vars, link, config, commit
  <2> QED
    BY <2>1, <2>2, <2>3 DEF ApInv
<1> QED
  BY <1>1, ApStepIInv, ApStepUp, ApStepTypeOK, ApStepCall, ApStepOn, ApStepCalm, ApStepStart
     DEF ApInv

-----------------------------------------------------------------------------
THEOREM ApInvariance == ApSpec => []ApInv
<1>1. ApInit => ApInv
  BY InitIInv, ApInitInv DEF ApInit
<1> QED
  BY <1>1, ApStep, PTL DEF ApSpec

\* Between calls the object believes what the kernel does: what beacons is known
\* to run, unless the answer to StartAp was lost; what a service set that nothing
\* disturbed says to run beacons.
THEOREM Believed == ApSpec => []RunningIsOn
<1>1. ApInv => RunningIsOn
  BY DEF ApInv, OnInv, CalmInv, RunningIsOn, Free
<1> QED
  BY <1>1, ApInvariance, PTL

\* A service set starts on the channel that its beacon announces and with the
\* SSID that it was given.
THEOREM Announced == ApSpec => StartsAsAnnounced
<1>1. ApInv /\ [ApNext]_allVars =>
        (ap = None /\ ap' # None /\ owner = "bss" /\ calm
         => ap'.freq = ap'.announced /\ ap'.ssid = bss.ssid)
  <2> SUFFICES ASSUME ApInv, ApNext \/ UNCHANGED allVars,
                      ap = None, ap' # None, owner = "bss", calm
               PROVE  ap'.freq = ap'.announced /\ ap'.ssid = bss.ssid
    OBVIOUS
  <2>1. ap' # ap
    OBVIOUS
  <2>2. HeadDone \/ HeadFails
    BY <2>1 DEF ApNext, Construct, BssConstruct, UserCalls, UserSsid, UserSends, CreatedRefresh,
         Stop, StopCommits, CommandDone, CommandFails, CommitReturns, BssSsid, BssStart,
         BssConfigures, BssUpdate, BssSends, BssChannel, BssStation, Others, Configure, Send,
         ApFollows, apVars, allVars
  <2>3. PICK answered \in BOOLEAN : ap' = Beaconing(answered) /\ head # None /\ Agrees
    BY <2>1, <2>2 DEF HeadDone, HeadFails
  <2>4. head.op = "start"
    BY <2>3, Answered DEF Agrees
  <2>5. head.freq = head.announced /\ head.ssid = bss.ssid
    BY <2>3, <2>4 DEF Agrees, ApInv, StartInv
  <2> QED
    BY <2>3, <2>4, <2>5 DEF Beaconing
<1> QED
  BY <1>1, ApInvariance, PTL DEF ApSpec, StartsAsAnnounced

\* What is proved of a Commit of Interface holds of those of an access point.
THEOREM ApCompared == ApSpec => [](WorkingIsKernel /\ InTheirState)
<1>1. ApInv => WorkingIsKernel /\ InTheirState
  BY Compares, Orders DEF ApInv
<1> QED
  BY <1>1, ApInvariance, PTL

THEOREM ApTaken == ApSpec => CommitTakes
<1>1. ApInv => IInv
  BY DEF ApInv
<1> QED
  BY <1>1, Takes, ApInvariance, PTL DEF CommitTakes

-----------------------------------------------------------------------------
HIDE InterfaceAssumption DEF InterfaceAssumption

TP == INSTANCE ThreadProofs WITH
        Shapes <- {"check"}, Signals <- FALSE, SelfEnd <- FALSE, MaxAsked <- 0

USE HandlerAssumption DEF HandlerAssumption

-----------------------------------------------------------------------------
(* The steps of Thread that PollHandler takes are those of ThreadProofs.   *)

LEMMA SameInvariant == T!IInv = TP!IInv /\ T!IInv' = TP!IInv'
<1> USE DEF TP!IInv, T!IInv, TP!TypeOK, T!TypeOK, TP!ObjectMatchesRun, T!ObjectMatchesRun,
      TP!ObservesWhileStarted, T!ObservesWhileStarted, TP!RequestStands, T!RequestStands,
      TP!ControlInv, T!ControlInv, TP!Exact, T!Exact, TP!Quitting, T!Quitting, TP!Sigs, T!Sigs
<1>1. T!IInv = TP!IInv
  OBVIOUS
<1>2. T!IInv' = TP!IInv'
  OBVIOUS
<1> QED
  BY <1>1, <1>2

LEMMA SameNext == T!Next => TP!Next
<1>1. T!Control = TP!Control
  BY DEF TP!Control, T!Control, TP!Start, T!Start, TP!StartObserve, T!StartObserve,
     TP!StartCreate, T!StartCreate, TP!Stop, T!Stop, TP!JoinOnly, T!JoinOnly, TP!Join, T!Join,
     TP!Unobserve, T!Unobserve, TP!Sigs, T!Sigs
<1>2. T!Run = TP!Run
  BY DEF TP!Run, T!Run, TP!Begin, T!Begin, TP!Check, T!Check, TP!Body, T!Body, TP!Poll, T!Poll,
     TP!Handle, T!Handle, TP!End, T!End, TP!Readable, T!Readable, TP!TakeOne, T!TakeOne,
     TP!control, T!control
<1>3. T!Signal = TP!Signal
  BY DEF TP!Signal, T!Signal, TP!control, T!control
<1> QED
  BY <1>1, <1>2, <1>3 DEF TP!Next, T!Next

LEMMA ThreadStep == T!IInv /\ (T!Next \/ UNCHANGED tvars) => T!IInv'
<1>1. TP!ThreadAssumption
  BY DEF TP!ThreadAssumption
<1>2. TP!IInv /\ [TP!Next]_TP!vars => TP!IInv'
  BY <1>1, TP!NextStep
<1>3. UNCHANGED tvars => UNCHANGED TP!vars
  BY DEF tvars, TP!vars
<1> QED
  BY <1>2, <1>3, SameInvariant, SameNext

\* Every step of the handler is one of Thread, or leaves the thread as it is.
LEMMA NextThread == HandlerNext => T!Next \/ UNCHANGED tvars
<1>1. Call \/ Register \/ Observers => T!Control \/ UNCHANGED tvars
  BY DEF Call, Register, Observers, Begin, StopThread, Stopped, TakeLock, ChangeEvent, Update, Write,
     StartThread, Return, ThreadCall, T!Control
<1>2. Run => T!Run \/ UNCHANGED tvars
  BY DEF Run, RunBegin, RunCheck, Lookup, NotifyHit, Deliver, RunBody, T!Run
<1> QED
  BY <1>1, <1>2 DEF HandlerNext, T!Next

\* What the invariant of Thread says here, where no signal comes and no function
\* ends by itself.
LEMMA ThreadFacts ==
  ASSUME T!IInv, ~disturbed
  PROVE  /\ thread <=> pc # "none"
         /\ ctl = "idle" /\ thread => ~T!Quitting
         /\ ctl \in {"idle", "starting", "joining", "leaving"}
         /\ ctl = "joining" => thread
         /\ ctl \in {"starting", "leaving"} => ~thread
         /\ shape = "check"
  BY DEF T!IInv, T!TypeOK, T!ObjectMatchesRun, T!ControlInv, T!Exact

-----------------------------------------------------------------------------
LEMMA InitHandlerIInv == HandlerInit => HandlerIInv
<1> SUFFICES ASSUME HandlerInit PROVE HandlerIInv
  OBVIOUS
<1>1. T!IInv
  <2>1. TP!ThreadAssumption
    BY DEF TP!ThreadAssumption
  <2>2. TP!Init
    BY DEF HandlerInit, TP!Init, T!Init
  <2> QED
    BY <2>1, <2>2, TP!InitIInv, SameInvariant
<1>2. StateInv /\ CallerInv /\ PolledInv
  BY DEF HandlerInit, T!Init, StateInv, CallerInv, PolledInv, NoOp, Refused, Changing, Outdated
<1>5. LimitInv
  <2>1. IsFiniteSet(list) /\ Cardinality(list) = 0
    BY FS_EmptySet DEF HandlerInit
  <2> QED
    BY <2>1 DEF HandlerInit, LimitInv, NoOp, Refused
<1>3. calls = [t \in {Caller, Worker} |-> [op |-> "idle"]]
  BY DEF HandlerInit, B!Init, B!Idle
<1>4. WorkerInv /\ HandInv
  BY <1>3 DEF HandlerInit, WorkerInv, HandInv, B!Is
<1> QED
  BY <1>1, <1>2, <1>4, <1>5 DEF HandlerIInv

-----------------------------------------------------------------------------
(* The parts of the invariant of the handler itself, action by action.     *)

Parts == StateInv /\ CallerInv /\ PolledInv /\ WorkerInv /\ HandInv

\* The caller begins, finds the thread stopped, takes the lock, or returns.
LEMMA CallerSteps ==
  ASSUME HandlerIInv, Register \/ Stopped \/ TakeLock \/ Return
  PROVE  Parts'
<1> USE ThreadFacts DEF HandlerIInv, Parts, StateInv, CallerInv, PolledInv, WorkerInv, HandInv, Refused,
      Overrun, Changing, Outdated, B!Is, tvars, bvars
<1>1. ASSUME NEW s \in Sources, NEW do \in {"register", "unregister"}, Begin(do, s) PROVE Parts'
  BY <1>1 DEF Begin, First
<1>2. CASE Stopped
  BY <1>2 DEF Stopped, AfterStop
<1>3. CASE TakeLock
  BY <1>3 DEF TakeLock, Room
<1>4. CASE Return
  BY <1>4 DEF Return, Restart
<1> QED
  BY <1>1, <1>2, <1>3, <1>4 DEF Register

\* The caller changes the lists of the event and the map.
LEMMA ChangeSteps ==
  ASSUME HandlerIInv, ChangeEvent \/ Update \/ Write \/ Observers
  PROVE  Parts'
<1> USE ThreadFacts DEF HandlerIInv, Parts, StateInv, CallerInv, PolledInv, WorkerInv, HandInv, Refused,
      Overrun, Changing, Outdated, B!Is, tvars, bvars, hvars
<1>1. CASE ChangeEvent
  <2>1. calls'[Worker] = calls[Worker] /\ DOMAIN calls' = DOMAIN calls
    BY <1>1 DEF ChangeEvent, B!RegisterEvent, B!UnregisterEvent
  <2> QED
    BY <1>1, <2>1 DEF ChangeEvent
<1>2. CASE Update
  <2>1. calls'[Worker] = calls[Worker] /\ DOMAIN calls' = DOMAIN calls
    BY <1>2 DEF Update, B!Finish, B!RegisterHandler, B!UnregisterHandler
  <2> QED
    BY <1>2, <2>1 DEF Update
<1>3. CASE Write
  BY <1>3 DEF Write, Written, AfterUpdate
<1>4. CASE Observers
  BY <1>4 DEF Observers, B!RegisterObserver, B!UnregisterObserver
<1> QED
  BY <1>1, <1>2, <1>3, <1>4

\* The inside of Thread's calls, made by the caller.
LEMMA ThreadCalls ==
  ASSUME HandlerIInv, StopThread \/ StartThread \/ ThreadCall
  PROVE  Parts'
<1> USE ThreadFacts DEF HandlerIInv, Parts, StateInv, CallerInv, PolledInv, WorkerInv, HandInv, Refused,
      Overrun, Changing, Outdated, B!Is, bvars, hvars
<1>1. CASE StopThread
  BY <1>1 DEF StopThread, T!Stop
<1>2. CASE StartThread
  BY <1>2 DEF StartThread, Restart, T!Start
<1>3. CASE ThreadCall
  BY <1>3 DEF ThreadCall, T!StartObserve, T!StartCreate, T!Join, T!Unobserve
<1> QED
  BY <1>1, <1>2, <1>3

\* The handler's thread.
LEMMA RunSteps ==
  ASSUME HandlerIInv, Run
  PROVE  Parts'
<1> USE ThreadFacts DEF HandlerIInv, Parts, StateInv, CallerInv, PolledInv, WorkerInv, HandInv, Refused,
      Overrun, Changing, Outdated, B!Is, tvars, bvars, hvars
<1>1. CASE RunBegin
  <2>1. Cardinality(list) \in Nat
    BY FS_CardinalityType DEF LimitInv
  <2>2. fds' = list \/ Overrun
    BY <1>1, <2>1 DEF RunBegin, Snapshots, LimitInv
  <2>3. Overrun' = Overrun
    BY <1>1 DEF RunBegin
  <2> HIDE DEF Overrun
  <2> QED
    BY <1>1, <2>2, <2>3 DEF RunBegin, T!Begin, T!control
<1>2. CASE RunCheck
  BY <1>2 DEF RunCheck, T!Check, T!control
<1>3. CASE Lookup
  BY <1>3 DEF Lookup, Found
<1>4. CASE NotifyHit
  <2>1. DOMAIN calls' = DOMAIN calls /\ calls'[Worker].op = "notify" /\ calls'[Worker].e = hit
    BY <1>4 DEF NotifyHit, B!Notify
  <2> QED
    BY <1>4, <2>1 DEF NotifyHit
<1>5. CASE Deliver
  <2>1. ~B!Is(Worker, "idle") /\ DOMAIN calls' = DOMAIN calls
    BY <1>5 DEF Deliver, B!Deliver, B!Enter, B!Observe, B!Leave, B!NotifyEnd
  <2>2. /\ calls'[Worker].op \in {"idle", "notify", "observe"}
        /\ calls'[Worker].op # "idle" => calls'[Worker].e = calls[Worker].e
        /\ calls'[Worker].op = "observe" => DOMAIN calls'[Worker] = {"op", "e", "todo", "cbs"}
    BY <1>5 DEF Deliver, B!Deliver, B!Enter, B!Observe, B!Leave, B!NotifyEnd, B!Idle
  <2> QED
    BY <1>5, <2>1, <2>2 DEF Deliver
<1>6. CASE RunBody
  BY <1>6 DEF RunBody, T!Body, T!control
<1> QED
  BY <1>1, <1>2, <1>3, <1>4, <1>5, <1>6 DEF Run

\* A timer is added only when there are less than MaxFds.
LEMMA LimitStep == HandlerIInv /\ [HandlerNext]_pvars => LimitInv'
<1> SUFFICES ASSUME HandlerIInv, [HandlerNext]_pvars PROVE LimitInv'
  OBVIOUS
<1>1. LimitInv /\ StateInv /\ CallerInv /\ IsFiniteSet(list) /\ Cardinality(list) \in Nat
  BY FS_CardinalityType DEF HandlerIInv, LimitInv
<1>2. CASE Write
  <2>1. kind' = kind /\ op' = op /\ hctl' \notin {"event", "update", "write"} /\ ~Refused
    BY <1>1, <1>2 DEF Write, AfterUpdate, CallerInv, Refused
  <2>2. CASE op.do = "register"
    <3>1. list' = list \cup {op.src}
      BY <1>2, <2>2 DEF Write, Written
    <3>2. /\ IsFiniteSet(list')
          /\ Cardinality(list') \in {Cardinality(list), Cardinality(list) + 1}
      BY <3>1, <1>1, FS_AddElement
    <3> QED
      BY <1>1, <1>2, <2>1, <2>2, <3>2 DEF LimitInv, Refused, Write
  <2>3. CASE op.do # "register"
    <3>1. list' = list \ {op.src}
      BY <1>2, <2>3 DEF Write, Written
    <3>2. /\ IsFiniteSet(list')
          /\ Cardinality(list') \in {Cardinality(list), Cardinality(list) - 1}
      BY <3>1, <1>1, FS_RemoveElement
    <3> QED
      BY <1>1, <2>1, <2>3, <3>2 DEF LimitInv, Refused
  <2> QED
    BY <2>2, <2>3
<1>3. CASE TakeLock
  BY <1>1, <1>3 DEF TakeLock, Room, LimitInv, StateInv, Refused
<1>4. CASE ~Write /\ ~TakeLock
  <2>1. kind' = kind /\ list' = list
    BY <1>4 DEF pvars, tvars, bvars, hvars, HandlerNext, Register, Begin, Observers, Call, StopThread,
       Stopped, ChangeEvent, Update, StartThread, Return, ThreadCall, Run, RunBegin, RunCheck, Lookup,
       NotifyHit, Deliver, RunBody
  <2>2. /\ Refused' => Refused
        /\ hctl' \in {"event", "update", "write"} => hctl \in {"event", "update", "write"} /\ op' = op
    BY <1>4 DEF pvars, tvars, bvars, hvars, HandlerNext, Register, Begin, Observers, Call, StopThread,
       Stopped, ChangeEvent, Update, StartThread, Return, ThreadCall, Run, RunBegin, RunCheck, Lookup,
       NotifyHit, Deliver, RunBody, First, AfterStop, Refused
  <2> QED
    BY <1>1, <2>1, <2>2 DEF LimitInv
<1> QED
  BY <1>2, <1>3, <1>4

LEMMA NextHandlerIInv == HandlerIInv /\ [HandlerNext]_pvars => HandlerIInv'
<1> SUFFICES ASSUME HandlerIInv, [HandlerNext]_pvars PROVE HandlerIInv'
  OBVIOUS
<1>1. T!IInv'
  BY ThreadStep, NextThread DEF HandlerIInv, pvars
<1>2. CASE HandlerNext
  <2>1. Parts'
    BY <1>2, CallerSteps, ChangeSteps, ThreadCalls, RunSteps DEF HandlerNext, Call
  <2> QED
    BY <1>1, <2>1, LimitStep DEF HandlerIInv, Parts
<1>3. CASE UNCHANGED pvars
  BY <1>1, <1>3, LimitStep DEF HandlerIInv, StateInv, CallerInv, PolledInv, WorkerInv, HandInv, Refused,
     Overrun, Changing, Outdated, B!Is, pvars, tvars, bvars, hvars
<1> QED
  BY <1>2, <1>3

THEOREM HandlerInvariance == HandlerSpec => []HandlerIInv
  BY InitHandlerIInv, NextHandlerIInv, PTL DEF HandlerSpec

-----------------------------------------------------------------------------
\* The socket handler changes its map only while its thread does not run,
\* however calls and the thread interleave.
THEOREM NotRaced == HandlerSpec => []MapNotRaced
<1>1. HandlerIInv => MapNotRaced
  BY ThreadFacts DEF HandlerIInv, StateInv, CallerInv, Changing, MapNotRaced
<1> QED
  BY <1>1, HandlerInvariance, PTL

\* When a call of a handler has returned, its thread has nothing in hand that is
\* not registered: what was unregistered may be destroyed.
THEOREM MayBeDestroyed == HandlerSpec => []InHandIsRegistered
<1>1. HandlerIInv => InHandIsRegistered
  BY DEF HandlerIInv, HandInv, Outdated, B!Is, InHandIsRegistered
<1> QED
  BY <1>1, HandlerInvariance, PTL

\* When a call has returned the thread polls what is registered and nothing
\* else, up to the limit; the refusal at the limit, and only that, leaves the
\* timers unpolled.
THEOREM Polled == HandlerSpec => []RegisteredIsPolled
<1>1. ASSUME HandlerIInv PROVE RegisteredIsPolled
  <2> SUFFICES ASSUME hctl = "idle", ~Overrun
      PROVE  IF Refused THEN ~thread /\ Cardinality(list) = MaxFds
             ELSE IF list = {} THEN ~thread
             ELSE thread /\ ~T!Quitting /\ (pc = "begin" \/ fds = list)
    BY DEF RegisteredIsPolled
  <2>1. ctl \in {"idle"}
    BY <1>1, ThreadFacts DEF HandlerIInv, StateInv, CallerInv
  <2>2. CASE Refused
    BY <1>1, <2>2 DEF HandlerIInv, CallerInv, LimitInv
  <2>3. CASE ~Refused
    BY <1>1, <2>1, <2>3, ThreadFacts DEF HandlerIInv, StateInv, CallerInv, PolledInv, Outdated
  <2> QED
    BY <2>2, <2>3
<1> QED
  BY <1>1, HandlerInvariance, PTL
=============================================================================
