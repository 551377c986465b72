--------------------------- MODULE Configuration ---------------------------
(***************************************************************************)
(* zConfig::Configuration over zData::Data (lib/zConfig/Configuration.cpp, *)
(* ConfigConnector.cpp, lib/zData/Data.cpp). A Data is a property tree     *)
(* with a mutex of its own, and what takes two of them locks both, one     *)
(* after the other; a Configuration has two, staging and working, and a    *)
(* lock around most of what it does with them. Load takes only that of     *)
(* staging, and Store none.                                                *)
(*                                                                         *)
(* A call is the list of the steps it has to do. A tree is the list of its *)
(* members: paths (those of the calls are there) and conversions to JSON   *)
(* and XML are left out, but for that of a file that was not written to    *)
(* the end, which cannot be read. A file is read, and written, at one go:  *)
(* it is no longer than the buffer of its stream.                          *)
(*                                                                         *)
(* Several threads use the Configuration and one Data that they hand to    *)
(* it, and any of them may commit, store and load. As Store reads without  *)
(* a lock, what it gets while a Commit assigns the working tree is         *)
(* undefined. A write may fail, and the process may crash at any time and  *)
(* start again.                                                            *)
(***************************************************************************)
EXTENDS Naturals, Sequences

CONSTANTS
  Users,
  Vals,       \* the members of a tree
  MaxMembers, \* bound on them
  None

ASSUME ConfigurationAssumption ==
  /\ None \notin Users
  /\ MaxMembers \in Nat

Trees == {"staging", "working", "child"}
Mutexes == Trees \cup {"config"}

VARIABLES
  tree,      \* the members of each tree
  holder,    \* who holds each mutex
  modified,  \* _modified
  same,      \* what operator== said in Commit or Restore, until it is used
  file,      \* whether it is written to the end, and its members; history:
             \* whether they were read while the working tree was assigned
  buffer,    \* for each thread the file that its Load has read and not yet parsed
  todo,      \* the steps to come of each thread's call
  loaded,    \* history: staging was loaded since it was last copied
  committed  \* history: all that the working tree ever was

memory == <<tree, modified, same, buffer, loaded>>
cvars == <<memory, file, committed, holder, todo>>

Unreadable == [whole |-> FALSE, members |-> << >>, torn |-> FALSE]

ConfigInit ==
  /\ tree = [d \in Trees |-> << >>]
  /\ holder = [m \in Mutexes |-> None]
  /\ modified = FALSE /\ same = FALSE
  /\ buffer = [t \in Users |-> Unreadable]
  /\ todo = [t \in Users |-> << >>]
  /\ loaded = FALSE
  /\ file = Unreadable /\ committed = {<< >>}

-----------------------------------------------------------------------------
(* The steps. Data locks itself and the other in the order written here.   *)

LockOf(m) == <<[do |-> "lock", on |-> m]>>
UnlockOf(m) == <<[do |-> "unlock", on |-> m]>>
Do(act) == <<[do |-> act]>>
Act(act, to, from) == <<[do |-> act, to |-> to, from |-> from]>>

Locked(m, steps) == LockOf(m) \o steps \o UnlockOf(m)

\* operator= and operator== lock the other first, the others this first.
Assign(this, other) == Locked(other, Locked(this, Act("copy", this, other)))
Equal(this, other) == Locked(other, Locked(this, Do("compare")))
GetChild(this, child) == Locked(this, Locked(child, Act("copy", child, this)))
PutChild(this, child) == Locked(this, Locked(child, Act("copy", this, child)))
AddChild(this, child) == Locked(this, Locked(child, Act("append", this, child)))
GetValue(this) == Locked(this, Do("ask"))
SetJson(this) == Locked(this, Act("parse", this, "buffer"))
PutValue(this, v) == Locked(this, <<[do |-> "put", to |-> this, value |-> v]>>)
Del(this) == Locked(this, <<[do |-> "del", to |-> this]>>)

(* Faults, see Mutex. *)
RestoreUnlocked == Assign("staging", "working") \o Equal("working", "staging") \o Do("settle")
PutUnlocked(steps) == steps \o Do("modify")
StoreStaging == Do("open") \o Act("write", "file", "staging")

-----------------------------------------------------------------------------
(* The calls of Configuration.                                             *)

Get == Locked("config", GetChild("working", "child"))
GetOne == Locked("config", GetValue("working"))

\* Put and Add, of a child or a value.
Change(steps) == Locked("config", steps \o Do("modify"))

Put == Change(PutChild("staging", "child"))
PutOne(v) == Change(PutValue("staging", v))
Add == Change(AddChild("staging", "child"))

\* Whether the two are the same is looked at after the copy, unlocked between.
Commit ==
  Locked("config", Assign("working", "staging") \o Equal("working", "staging") \o Do("settle"))
Restore ==
  Locked("config", Assign("staging", "working") \o Equal("working", "staging") \o Do("settle"))
IsModified == Locked("config", Do("ask"))

Load == Do("read") \o SetJson("staging")
Store == Do("open") \o Act("write", "file", "working")

Calls == {Get, GetOne, Put, Add, Restore, IsModified, Del("child")}
           \cup {Commit, Load, Store}
           \cup {PutOne(v) : v \in Vals} \cup {PutValue("child", v) : v \in Vals}

Begin(t) ==
  /\ todo[t] = << >>
  /\ \E c \in Calls : todo' = [todo EXCEPT ![t] = c]
  /\ UNCHANGED <<memory, file, committed, holder>>

-----------------------------------------------------------------------------
(* The steps of a thread.                                                  *)

Next1(t) == Head(todo[t])
Due(t, act) == todo[t] # << >> /\ Next1(t).do = act
Advance(t) == todo' = [todo EXCEPT ![t] = Tail(@)]

TakeLock(t) ==
  /\ Due(t, "lock")
  /\ holder[Next1(t).on] = None
  /\ holder' = [holder EXCEPT ![Next1(t).on] = t]
  /\ Advance(t)
  /\ UNCHANGED <<memory, file, committed>>

GiveLock(t) ==
  /\ Due(t, "unlock")
  /\ holder' = [holder EXCEPT ![Next1(t).on] = None]
  /\ Advance(t)
  /\ UNCHANGED <<memory, file, committed>>

\* The tree that a step of t leaves where it writes.
Moved(t, s) ==
  CASE s.do = "copy" -> tree[s.from]
    [] s.do = "append" -> IF Len(tree[s.to] \o tree[s.from]) <= MaxMembers
                            THEN tree[s.to] \o tree[s.from] ELSE tree[s.to]
    [] s.do = "parse" -> buffer[t].members
    [] s.do = "put" -> <<s.value>>
    [] s.do = "del" -> << >>

Between(s) == {s.to, s.from} = {"staging", "working"}

Write(t) ==
  /\ \E act \in {"copy", "append", "parse", "put", "del"} : Due(t, act)
  /\ LET s == Next1(t) IN
       /\ tree' = [tree EXCEPT ![s.to] = Moved(t, s)]
       /\ committed' = committed \cup {tree'["working"]}
       /\ loaded' = CASE s.do = "parse" -> TRUE
                      [] s.do = "copy" /\ Between(s) -> FALSE
                      [] OTHER -> loaded
       /\ buffer' = IF s.do = "parse" THEN [buffer EXCEPT ![t] = Unreadable] ELSE buffer
  /\ Advance(t)
  /\ UNCHANGED <<modified, same, file, holder>>

Flag(t) ==
  /\ \/ Due(t, "modify") /\ modified' = TRUE /\ same' = same
     \/ Due(t, "compare") /\ same' = (tree["working"] = tree["staging"]) /\ modified' = modified
     \/ Due(t, "settle") /\ modified' = (modified /\ ~same) /\ same' = FALSE
     \/ Due(t, "ask") /\ UNCHANGED <<modified, same>>
  /\ Advance(t)
  /\ UNCHANGED <<tree, buffer, loaded, file, committed, holder>>

\* Load ends if the file cannot be opened, or not be parsed.
ReadFile(t) ==
  /\ Due(t, "read")
  /\ IF file.whole
       THEN Advance(t) /\ buffer' = [buffer EXCEPT ![t] = file]
       ELSE todo' = [todo EXCEPT ![t] = << >>] /\ buffer' = buffer
  /\ UNCHANGED <<tree, modified, same, loaded, file, committed, holder>>

\* To open the file empties it. Store returns true if it cannot be opened, too.
OpenFile(t) ==
  /\ Due(t, "open")
  /\ \/ file' = Unreadable /\ Advance(t)
     \/ UNCHANGED file /\ todo' = [todo EXCEPT ![t] = << >>]
  /\ UNCHANGED <<memory, committed, holder>>

\* Some thread is about to assign, or assigning, the working tree.
Assigning == \E t \in Users : Due(t, "copy") /\ Next1(t).to = "working"

SmallTrees == UNION {[1..n -> Vals] : n \in 0..MaxMembers}

\* The members go into the file, or not all of them: nobody looks at the state
\* of the stream, and Store returns true. That is also what becomes of two
\* Stores at once, the longer one leaving its end behind the shorter.
WriteFile(t) ==
  /\ Due(t, "write")
  /\ \/ file' = [whole |-> TRUE, members |-> tree[Next1(t).from], torn |-> FALSE]
     \/ Assigning /\ \E q \in SmallTrees : file' = [whole |-> TRUE, members |-> q, torn |-> TRUE]
     \/ file' = Unreadable
  /\ Advance(t)
  /\ UNCHANGED <<memory, committed, holder>>

Step(t) == TakeLock(t) \/ GiveLock(t) \/ Write(t) \/ Flag(t) \/ ReadFile(t) \/ OpenFile(t) \/ WriteFile(t)

Crash ==
  /\ tree' = [d \in Trees |-> << >>]
  /\ holder' = [m \in Mutexes |-> None]
  /\ modified' = FALSE /\ same' = FALSE
  /\ buffer' = [t \in Users |-> Unreadable]
  /\ todo' = [t \in Users |-> << >>]
  /\ loaded' = FALSE
  /\ UNCHANGED <<file, committed>>

ConfigNext == Crash \/ \E t \in Users : Begin(t) \/ Step(t)

ConfigSpec == ConfigInit /\ [][ConfigNext]_cvars

\* Each thread is scheduled within a call, and gets a mutex that is free again
\* and again.
ConfigFairSpec == ConfigSpec /\ \A t \in Users : SF_cvars(Step(t))

-----------------------------------------------------------------------------
\* Every call returns: Commit locks staging and then working, Restore working
\* and then staging, and what keeps them apart is the lock around both.
CallsReturn == \A t \in Users : todo[t] # << >> ~> todo[t] = << >>

\* When nobody is in a call that changes it, a staging configuration that
\* differs from the working one says that it was modified, unless it was
\* loaded: Load does not say so.
ModifiedTells ==
  holder["config"] = None /\ tree["staging"] # tree["working"] => modified \/ loaded

\* What a Load finds in the file was the working configuration at one time and
\* as a whole, never staged changes and never a part of a tree: whichever
\* threads stored, put, committed and loaded meanwhile, whatever writes failed
\* and wherever the process crashed. What a Store read while a Commit assigned
\* the working tree is left out.
LoadsCommitted ==
  \A f \in {file} \cup {buffer[t] : t \in Users} :
    f.whole /\ ~f.torn => f.members \in committed

(***************************************************************************)
(* The inductive invariant behind them: where each thread can be in a call, *)
(* with the lock of the Configuration and without it.                      *)
(***************************************************************************)
LockConfig == [do |-> "lock", on |-> "config"]
UnlockConfig == [do |-> "unlock", on |-> "config"]

LockSteps == [do : {"lock", "unlock"}, on : Trees]
ChangeSteps(d) ==
  [do : {"copy", "append"}, to : {d}, from : Trees] \cup [do : {"put"}, to : {d}, value : Vals]
    \cup [do : {"del"}, to : {d}]
QuietSteps == LockSteps \cup [do : {"ask"}] \cup ChangeSteps("child")
CopySteps ==
  LockSteps \cup [do : {"compare"}]
    \cup {[do |-> "copy", to |-> "staging", from |-> "working"],
          [do |-> "copy", to |-> "working", from |-> "staging"]}
LoadSteps ==
  LockSteps \cup [do : {"read"}] \cup [do : {"parse"}, to : {"staging"}, from : {"buffer"}]

\* The steps of q are in S, and then x is done and the lock given back.
Ending(q, S, x) ==
  /\ Len(q) > 1 /\ q[Len(q)] = UnlockConfig /\ q[Len(q) - 1] = [do |-> x]
  /\ \A k \in 1..(Len(q) - 2) : q[k] \in S

QuietCall(q) == \A k \in DOMAIN q : q[k] \in QuietSteps
Leaving(q) ==
  /\ Len(q) > 0 /\ q[Len(q)] = UnlockConfig
  /\ \A k \in 1..(Len(q) - 1) : q[k] \in QuietSteps
Changing(q) == Ending(q, LockSteps \cup ChangeSteps("staging"), "modify")
Copying(q) ==
  /\ Ending(q, CopySteps, "settle")
  /\ \A j, k \in 1..(Len(q) - 2) : j < k /\ q[j].do = "compare" => q[k] \in LockSteps
Settling(q) == Ending(q, LockSteps, "settle")
Loading(q) == \A k \in DOMAIN q : q[k] \in LoadSteps
Writing(q) == Len(q) = 1 /\ q[1] = [do |-> "write", to |-> "file", from |-> "working"]
Opening(q) == q # << >> /\ q[1] = [do |-> "open"] /\ Writing(Tail(q))

WithLock(q) == Leaving(q) \/ Changing(q) \/ Copying(q)
Waiting(q) == q # << >> /\ q[1] = LockConfig /\ WithLock(Tail(q))
Without(q) == QuietCall(q) \/ Waiting(q) \/ Loading(q) \/ Opening(q) \/ Writing(q)

Steps ==
  QuietSteps \cup ChangeSteps("staging") \cup CopySteps \cup LoadSteps
    \cup {LockConfig, UnlockConfig} \cup [do : {"modify", "settle", "open"}]
    \cup [do : {"write"}, to : {"file"}, from : {"working"}]

Files == [whole : BOOLEAN, members : Seq(Vals), torn : BOOLEAN]

Typed ==
  /\ tree \in [Trees -> Seq(Vals)]
  /\ file \in Files /\ buffer \in [Users -> Files]
  /\ holder \in [Mutexes -> Users \cup {None}]
  /\ modified \in BOOLEAN /\ same \in BOOLEAN /\ loaded \in BOOLEAN
  /\ todo \in [Users -> Seq(Steps)]

InCalls ==
  \A t \in Users : IF holder["config"] = t THEN WithLock(todo[t]) ELSE Without(todo[t])

\* Some thread has the lock and is at such a place.
Somebody(P(_)) == \E t \in Users : holder["config"] = t /\ P(todo[t])

Alike == tree["working"] = tree["staging"] \/ loaded
Tells == Alike \/ modified \/ Somebody(Changing)
SameIsSeen == same => Alike /\ Somebody(Settling)
Known == {tree["working"], << >>} \subseteq committed /\ LoadsCommitted

ConfigIInv == Typed /\ InCalls /\ Tells /\ SameIsSeen /\ Known
=============================================================================
