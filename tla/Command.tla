------------------------------- MODULE Command -------------------------------
(***************************************************************************)
(* The life of a command object: it is constructed, and executed any       *)
(* number of times by one thread, each time on a socket connected anew     *)
(* (lib/zInterface/netlink/Socket.cpp), while the kernel's interfaces,     *)
(* phys and links (all called links here) change behind its back.          *)
(*                                                                         *)
(* The kernel does as the message says, or refuses, once it has it, and    *)
(* answers: an error; an acknowledgement; before that a message, if the    *)
(* command asks for one; or a list, a part at a time, and its end. The     *)
(* thread blocks in RecvMsg until there is an answer, or an error of the   *)
(* socket. All the values of a link are one, which others may change.      *)
(***************************************************************************)
EXTENDS RouteLink, FiniteSets

CONSTANTS
  Vals,       \* the values that attributes have
  None,
  MaxLinks,   \* the kernel's links have the indices from 1 to this
  MaxExecs,   \* bound on the executions of an object
  Oper,       \* the operational state of the links with a value
  PhyReport   \* the bands of the kernel's phys, as it reports them

ASSUME CommandAssumption ==
  /\ None \notin Vals
  /\ MaxLinks \in Nat \ {0} /\ MaxExecs \in Nat \ {0}
  /\ Oper \in [Vals -> 0..6]

\* A band has channels and rates, numbered from 0; rates are in units of 100
\* kbit/s and those of 802.11 multiples of 500.
IsArray(w) == IsFiniteSet(DOMAIN w) /\ DOMAIN w = 0..(Cardinality(DOMAIN w) - 1)
HasNumber(w, a) == IsValid(w, a) /\ w[a.id].len = a.width
ASSUME PhyAssumption ==
  \A b \in Bands \cap DOMAIN PhyReport :
    LET w == PhyReport[b].val
        freqs == w[FreqsClass.id].val
        rates == w[RatesClass.id].val IN
    /\ IsValid(w, FreqsClass) /\ IsArray(freqs)
    /\ \A n \in DOMAIN freqs : HasNumber(freqs[n].val, FreqClass)
    /\ IsValid(w, RatesClass) /\ IsArray(rates)
    /\ \A n \in DOMAIN rates : /\ HasNumber(rates[n].val, RateClass)
                               /\ rates[n].val[RateClass.id].val \in Nat
                               /\ rates[n].val[RateClass.id].val % 5 = 0

Indices == 1..MaxLinks
Commands == Over(Nl80211Commands, RouteCommands)
Kinds == DOMAIN Commands

VARIABLES
  link,     \* the kernel's links: their values, None without a link
  kind,     \* the command, one of Kinds; None before there is one
  attrs,    \* its attributes
  list,     \* what it listed
  sock,     \* its socket: "none" or "open"
  phase,    \* where Exec is
  status,   \* _status
  count,    \* _count
  answers,  \* what the kernel answered and is not read yet
  next,     \* the index from which the kernel goes on listing, 0 if it does not
  ret,      \* what the last Exec returned
  execs,    \* the number of executions of this object
  lost,     \* the sockets that it opened and nothing refers to any more
  was       \* history of this Exec: see Began

command == Commands[kind]
object == <<kind, attrs, list>>
exec == <<phase, status, count, ret, execs>>
io == <<sock, lost, answers, next>>
cmdvars == <<link, object, exec, io, was>>

\* The attributes before it; the messages that the kernel did as told by, and
\* what it reported; for a list, the values that links had meanwhile and the
\* links that were there all along; how many executions left the socket open.
Present(l) == IF command.dump THEN {i \in Indices : l[i] # None} ELSE {}
Began(left) ==
  [attrs |-> attrs, done |-> {}, reported |-> Empty, left |-> left,
   seen |-> {<<i, link[i]>> : i \in Present(link)}, stayed |-> Present(link)]
Idle(left) ==
  [attrs |-> Empty, done |-> {}, reported |-> Empty, left |-> left, seen |-> {}, stayed |-> {}]

CommandInit ==
  /\ link \in [Indices -> Vals \cup {None}]
  /\ kind = None /\ attrs = Empty /\ list = Empty
  /\ sock = "none" /\ lost = 0 /\ answers = << >> /\ next = 0
  /\ phase = "idle" /\ status = FALSE /\ count = 0 /\ ret = None /\ execs = 0
  /\ was = Idle(0)

(* Faults, see Mutex. *)
ConnectReuses(s) ==                     \* an open socket is used again
  /\ sock' = s /\ lost' = lost
  /\ IF sock = "open" THEN UNCHANGED <<answers, next>> ELSE answers' = << >> /\ next' = 0
DisconnectedNot == UNCHANGED <<sock, answers, next>>
ClearedNot == list

-----------------------------------------------------------------------------
(* The kernel: what it reports of link i, and what it does.                *)

KernelWidth(a) == IF a = PhyDevAttribute THEN 8 ELSE a.width
Reported(l, a, i) ==
  CASE a \in {IfIndexAttribute, PhyIndexAttribute, LinkIndex} -> Data(4, i)
    [] a = PhyBandsAttribute -> Data(0, PhyReport)
    [] a = LinkOper -> Data(1, Oper[l[i]])
    [] a = LinkCarrier -> Data(1, IF Oper[l[i]] = 6 THEN 1 ELSE 0)
    [] OTHER -> Data(KernelWidth(a), l[i])

Report(l, A, i) == [id \in {a.id : a \in A} |-> Reported(l, CHOOSE a \in A : a.id = id, i)]

\* It may leave out what an answer may have, and a driver one of the others.
Required == {command.reads[n] : n \in DOMAIN command.reads}
Reports(l, i) ==
  {Report(l, A, i) : A \in {Required, Required \cup command.may}
                            \cup {Required \ {a} : a \in Required}}

Watched(l) ==
  [was EXCEPT !.seen = @ \cup {<<i, l[i]>> : i \in Present(l)}, !.stayed = @ \cap Present(l)]

Outside ==
  /\ \E i \in Indices, v \in Vals \cup {None} : link[i] # v /\ link' = [link EXCEPT ![i] = v]
  /\ was' = IF phase = "idle" THEN was ELSE Watched(link')
  /\ UNCHANGED <<object, exec, io>>

\* The link that a message is about, and the name for a new one.
AboutClasses == <<IfIndexAttribute, PhyIndexAttribute, LinkIndex>>
NameClasses  == <<IfNameAttribute, LinkName>>
FirstIn(w, classes) ==
  LET N == {n \in DOMAIN classes : IsValid(w, classes[n])} IN
  IF N = {} THEN Nothing ELSE w[classes[CHOOSE n \in N : \A m \in N : n <= m].id].val

Target(w) == FirstIn(w, AboutClasses)
Free == {i \in Indices : link[i] = None}
NewIndex == CHOOSE i \in Free : \A j \in Free : i <= j

Creates == command.cmd \in {"NEW_INTERFACE", "RTM_NEWLINK"}
Removes == command.cmd \in {"DEL_INTERFACE", "RTM_DELLINK"}
Replies == command.cmd \in {"GET_INTERFACE", "GET_WIPHY", "GET_STATION", "NEW_INTERFACE", "FRAME"}

CanDo(w) == IF Creates THEN Free # {} ELSE Target(w) \in Indices \ Free
DoneTo(w) == IF Creates THEN NewIndex ELSE Target(w)
After(w) ==
  IF Creates THEN [link EXCEPT ![NewIndex] = FirstIn(w, NameClasses)]
  ELSE IF Removes THEN [link EXCEPT ![Target(w)] = None]
  ELSE link

Error == [type |-> "error", w |-> Empty]
Ack   == [type |-> "ack", w |-> Empty]
Done  == [type |-> "done", w |-> Empty]
Reply(w) == [type |-> "reply", w |-> w]
Part(w)  == [type |-> "part", w |-> w]

\* The answers to a message that was sent: those to an earlier one, if they
\* are on the same socket, come first.
KernelRefuses ==
  /\ phase = "sent"
  /\ phase' = "recv"
  /\ answers' = Append(answers, Error)
  /\ UNCHANGED <<link, object, status, count, ret, execs, sock, lost, next, was>>

KernelDoes ==
  /\ phase = "sent" /\ ~command.dump
  /\ LET w == Message(command, attrs) IN
       /\ CanDo(w)
       /\ link' = After(w)
       /\ was' = [Watched(link') EXCEPT !.done = @ \cup {w}]
       /\ \/ ~Replies /\ answers' = Append(answers, Ack)
          \/ Replies /\ \E r \in Reports(link', DoneTo(w)) : answers' = answers \o <<Reply(r), Ack>>
  /\ phase' = "recv"
  /\ UNCHANGED <<object, status, count, ret, execs, sock, lost, next>>

KernelBeginsList ==
  /\ phase = "sent" /\ command.dump
  /\ phase' = "recv" /\ next' = 1
  /\ UNCHANGED <<link, object, status, count, ret, execs, sock, lost, answers, was>>

KernelLists ==
  /\ next # 0
  /\ LET I == {i \in Indices : i >= next /\ link[i] # None} IN
       IF I = {} THEN answers' = Append(answers, Done) /\ next' = 0
       ELSE LET i == CHOOSE i \in I : \A j \in I : i <= j IN
              answers' = Append(answers, Part(Report(link, Required, i))) /\ next' = i + 1
  /\ UNCHANGED <<link, object, exec, sock, lost, was>>

-----------------------------------------------------------------------------
(* The constructor, and the client's setting of the other attributes; the  *)
(* destructor disconnects the socket. An object is executed MaxExecs times.*)

Named(a) == a \in {IfNameAttribute, LinkName}
Constructed(k, i, v) == [id \in {a.id : a \in Commands[k].made} |->
  LET a == CHOOSE a \in Commands[k].made : a.id = id IN
    IF Named(a) THEN Data(0, v) ELSE Data(4, i)]

AboutOne(k) == \E a \in Commands[k].made : ~Named(a)

Others(c) == {a \in c.members \ c.made : a.kind # "nested"}

New(k, i, v, A) ==
  /\ kind = None
  /\ kind' = k
  /\ attrs' = Over(Constructed(k, i, v),
                   [id \in {a.id : a \in A} |-> Data((CHOOSE a \in A : a.id = id).width, v)])
  /\ UNCHANGED <<link, list, exec, io, was>>

Delete ==
  /\ phase = "idle" /\ execs = MaxExecs
  /\ kind' = None /\ attrs' = Empty /\ list' = Empty
  /\ sock' = "none" /\ lost' = 0 /\ answers' = << >> /\ next' = 0
  /\ status' = FALSE /\ count' = 0 /\ ret' = None /\ execs' = 0
  /\ was' = Idle(0)
  /\ UNCHANGED <<link, phase>>

-----------------------------------------------------------------------------
(* Exec. It resets _count first, which does nothing (Semaphore::Reset);    *)
(* Connect makes a new socket whatever became of the one before.           *)

Guarded == \A a \in command.guard : Value(attrs, a) # a.default

\* What was listed before goes, but for ListLinks.
Cleared == IF command.dump /\ kind # "ListLinks" THEN Empty ELSE list

Disconnected == sock' = "none" /\ answers' = << >> /\ next' = 0

Connect(s) ==
  /\ sock' = s /\ answers' = << >> /\ next' = 0
  /\ lost' = IF sock = "open" THEN lost + 1 ELSE lost

\* Exec returns; none of its failures after Connect disconnects the socket.
ReturnWith(r, left) ==
  /\ phase' = "idle" /\ ret' = r
  /\ was' = Idle(left)
ReturnOpen == ReturnWith(FALSE, was.left + 1)

Enter ==
  /\ phase = "idle" /\ kind # None /\ execs < MaxExecs
  /\ execs' = execs + 1

Unguarded ==
  /\ Enter /\ ~Guarded
  /\ status' = (status /\ ~command.resets)
  /\ list' = Cleared
  /\ ReturnWith(FALSE, was.left)
  /\ UNCHANGED <<link, kind, attrs, count, io>>

\* The socket is not allocated or not connected, the family not resolved, or
\* a callback not set: all but the second disconnect it.
Opened ==
  /\ Enter /\ Guarded /\ kind \in DOMAIN Nl80211Commands
  /\ status' = (status /\ ~command.resets)
  /\ list' = Cleared
  /\ \/ Connect("open") /\ phase' = "send" /\ ret' = ret /\ was' = Began(was.left)
     \/ Connect("open") /\ ReturnOpen
     \/ Connect("none") /\ ReturnWith(FALSE, was.left)
  /\ UNCHANGED <<link, kind, attrs, count>>

SendMsg ==
  /\ phase = "send"
  /\ \/ phase' = "sent" /\ UNCHANGED <<ret, was>>
     \/ ReturnOpen
  /\ UNCHANGED <<link, object, status, count, execs, io>>

\* A callback that ends the command sets the status and posts.
Ends(cb, s) ==
  IF cb = "error" \/ cb \in command.ends THEN status' = s /\ count' = count + 1
                                      ELSE UNCHANGED <<status, count>>

RecvError == Head(answers).type = "error" /\ Ends("error", FALSE) /\ UNCHANGED <<attrs, list, was>>
RecvAck   == Head(answers).type = "ack" /\ Ends("ack", TRUE) /\ UNCHANGED <<attrs, list, was>>
RecvDone  == Head(answers).type = "done" /\ Ends("finish", TRUE) /\ UNCHANGED <<attrs, list, was>>

RecvReply ==
  /\ Head(answers).type = "reply"
  /\ LET w == Head(answers).w IN
       /\ attrs' = Read(command, attrs, w)
       /\ was' = [was EXCEPT !.reported = w]
       /\ IF Complete(command, w) THEN Ends("valid", TRUE) ELSE UNCHANGED <<status, count>>
  /\ list' = list

\* RecvMsg reads one message, or a list to its end.
Recv ==
  /\ phase = "recv" /\ answers # << >> /\ Head(answers).type # "part"
  /\ RecvError \/ RecvAck \/ RecvDone \/ RecvReply
  /\ answers' = Tail(answers)
  /\ phase' = "wait"
  /\ UNCHANGED <<link, kind, ret, execs, sock, lost, next>>

RecvPart ==
  /\ phase = "recv" /\ answers # << >> /\ Head(answers).type = "part"
  /\ LET w == Head(answers).w IN
       list' = IF command.reads = << >> THEN list
               ELSE Over(Entry(w[command.reads[1].id].val, w[command.reads[2].id].val), list)
  /\ answers' = Tail(answers)
  /\ UNCHANGED <<link, kind, attrs, exec, sock, lost, next, was>>

RecvFails ==
  /\ phase = "recv"
  /\ ReturnOpen
  /\ UNCHANGED <<link, object, status, count, execs, io>>

\* TimedWait takes one; whatever is posted is posted already.
Finish ==
  /\ phase = "wait"
  /\ IF count > 0
       THEN count' = count - 1 /\ Disconnected /\ ReturnWith(status, was.left)
       ELSE ReturnOpen /\ UNCHANGED <<count, sock, answers, next>>
  /\ UNCHANGED <<link, object, status, execs, lost>>

-----------------------------------------------------------------------------
(* The link commands: one call of libnl between Connect and Disconnect,    *)
(* which ListLinks leaves out when the call fails.                         *)

RouteUnconnected ==
  /\ Enter /\ Guarded /\ kind \in DOMAIN RouteCommands
  /\ Connect("none")
  /\ ReturnWith(FALSE, was.left)
  /\ UNCHANGED <<link, object, status, count>>

RouteFails ==
  /\ Enter /\ Guarded /\ kind \in DOMAIN RouteCommands
  /\ IF command.dump THEN Connect("open") /\ ReturnOpen ELSE Connect("none") /\ ReturnWith(FALSE, was.left)
  /\ UNCHANGED <<link, object, status, count>>

RouteDoes ==
  /\ Enter /\ Guarded /\ kind \in DOMAIN RouteCommands \ {"ListLinks"}
  /\ LET w == Over(Message(command, attrs), PutAll(attrs, command.made)) IN
       /\ CanDo(w)
       /\ link' = After(w)
       /\ attrs' = IF kind = "GetLink" THEN Report(link, LinkClasses, Target(w)) ELSE attrs
  /\ Connect("none")
  /\ ReturnWith(TRUE, was.left)
  /\ UNCHANGED <<kind, list, status, count>>

\* What an earlier Exec listed stays in LinkMap.
RouteLists ==
  /\ Enter /\ kind = "ListLinks"
  /\ list' = Over([i \in {i \in Indices \ Free : i < LinkLast} |-> Copy(Report(link, LinkClasses, i))], list)
  /\ Connect("none")
  /\ ReturnWith(TRUE, was.left)
  /\ UNCHANGED <<link, kind, attrs, status, count>>

Kernel == KernelRefuses \/ KernelDoes \/ KernelBeginsList \/ KernelLists
Exec ==
  \/ Unguarded \/ Opened \/ SendMsg \/ Recv \/ RecvPart \/ RecvFails \/ Finish
  \/ RouteUnconnected \/ RouteFails \/ RouteDoes \/ RouteLists

CommandNext ==
  \/ \E k \in Kinds, v \in Vals : \E i \in IF AboutOne(k) THEN 0..MaxLinks ELSE {0} :
       \/ New(k, i, v, {}) \/ New(k, i, v, Others(Commands[k]))
  \/ Delete
  \/ Exec
  \/ Kernel
  \/ Outside

CommandSpec == CommandInit /\ [][CommandNext]_cmdvars

-----------------------------------------------------------------------------
Returned(k) == phase = "wait" /\ phase' = "idle" /\ ret' = TRUE /\ kind \in k

\* The message has the attributes among A as the client set them.
AsSet(w, A) ==
  \A a \in A : IsValid(was.attrs, a) => IsValid(w, a) /\ w[a.id] = was.attrs[a.id]

\* What SetPhy and StartAp do with the centre frequencies is not claimed: the
\* second of SetPhy has the class of the first (SetPhyCommand.h:75) and goes in
\* its place, and StartAp puts the ones that the width calls for.
UncertainCenters ==
  IF kind = "SetPhy" THEN {CenterFrequency1Attribute, CenterFrequency2Attribute}
  ELSE command.puts \ Puts(command, was.attrs)

\* A command other than a list that returns true was done by the kernel, in
\* this execution and as the client set its attributes: the answer to an
\* earlier execution, which failed before it read it, is never taken for it.
TrueMeansDone ==
  [][Returned({k \in DOMAIN Nl80211Commands : ~Commands[k].dump}) =>
       \E w \in was.done : AsSet(w, command.puts \ UncertainCenters)]_cmdvars

\* Then what the kernel reported reads as reported: of the bands the channels
\* up to MaxMembers with their flags, and the rates. The device is not among
\* it: its identifier is wider than PhyDev takes it to be and reads 0.
BandRead(band, w) ==
  LET freqs == w[FreqsClass.id].val
      rates == w[RatesClass.id].val
      last(x) == {n \in DOMAIN x : n < MaxMembers} IN
  /\ Len(band.freqs) = Cardinality(last(freqs)) /\ Len(band.rates) = Cardinality(last(rates))
  /\ \A n \in last(freqs) :
       /\ band.freqs[n + 1].freq = freqs[n].val[FreqClass.id].val
       /\ band.freqs[n + 1].disabled = (DisabledClass.id \in DOMAIN freqs[n].val)
  /\ \A n \in last(rates) : 5 * band.rates[n + 1] = rates[n].val[RateClass.id].val

ReadAsReported ==
  \A a \in (Required \cup command.may) \ {PhyDevAttribute} :
    IsValid(was.reported, a) =>
      IF a = PhyBandsAttribute
        THEN \A b \in Bands \cap DOMAIN PhyReport :
               BandRead(Value(attrs, a)[b], was.reported[a.id].val[b].val)
        ELSE Value(attrs, a) = was.reported[a.id].val

ReadIsKernels == [][Returned(DOMAIN Nl80211Commands) => ReadAsReported]_cmdvars

\* A list that returns true has every interface, or phy, that was there all
\* the time, and none but with a name that it had at the time. ListLinks may
\* have links of an earlier execution.
ListIsSeen ==
  [][Returned({"ListInterfaces", "ListPhys"}) =>
       /\ was.stayed \subseteq DOMAIN list
       /\ \A i \in DOMAIN list : <<i, list[i]>> \in was.seen]_cmdvars

\* Every socket is closed but one for each execution that returned false with
\* its socket open; the next execution of the object loses that one.
SocketsAccounted ==
  phase = "idle" => lost + (IF sock = "open" THEN 1 ELSE 0) = was.left

(***************************************************************************)
(* The inductive invariant behind SocketsAccounted, TrueMeansDone and      *)
(* ListIsSeen: what is known of an execution of a command of nl80211 in    *)
(* each phase. Not more than one message can end it.                       *)
(***************************************************************************)
IsSequence(q) == q \in Seq({q[k] : k \in DOMAIN q})

CommandTyped ==
  /\ kind \in Kinds \cup {None} /\ phase \in {"idle", "send", "sent", "recv", "wait"}
  /\ sock \in {"none", "open"} /\ status \in BOOLEAN
  /\ lost \in Nat /\ count \in Nat /\ next \in Nat /\ IsSequence(answers)
  /\ was = [attrs |-> was.attrs, done |-> was.done, reported |-> was.reported,
            left |-> was.left, seen |-> was.seen, stayed |-> was.stayed]
  /\ was.left \in Nat

Executing == phase # "idle" =>
  sock = "open" /\ lost = was.left /\ kind # None /\ kind \in DOMAIN Nl80211Commands

CountsOne == count <= 1 /\ (phase # "wait" => count = 0)

SentAfresh == phase \in {"send", "sent"} =>
  answers = << >> /\ next = 0 /\ attrs = was.attrs /\ was.done = {}

\* A command other than a list: if it may still return true, it was done.
IsDone == was.done = {Message(command, was.attrs)}
DoneOrRefused == phase # "idle" /\ ~command.dump =>
  /\ phase = "recv" => next = 0 /\ (IsDone \/ \A k \in DOMAIN answers : answers[k].type = "error")
  /\ phase = "wait" /\ count = 1 /\ status => IsDone

\* A list: what is read, or is answered and will be.
Listings == {"ListInterfaces", "ListPhys"}
PartIndex(w) == w[command.reads[1].id].val
PartName(w) == w[command.reads[2].id].val

WatchedAll == phase # "idle" /\ kind \in Listings =>
  /\ \A i \in Present(link) : <<i, link[i]>> \in was.seen
  /\ was.stayed \subseteq Present(link)
  /\ \A i \in DOMAIN list : <<i, list[i]>> \in was.seen

AnsweredInOrder == phase = "recv" /\ kind \in Listings =>
  \A k \in DOMAIN answers : LET a == answers[k] IN
    /\ a.type \in {"error", "part", "done"}
    /\ a.type = "part" => <<PartIndex(a.w), PartName(a.w)>> \in was.seen
    /\ a.type = "done" => next = 0 /\ k = Len(answers)
    /\ a.type = "error" => next = 0 /\ Len(answers) = 1

ListedSoFar == phase = "recv" /\ kind \in Listings =>
  \/ \E k \in DOMAIN answers : answers[k].type = "error"
  \/ \A i \in was.stayed : next = 0 \/ i < next =>
       \/ i \in DOMAIN list
       \/ \E k \in DOMAIN answers : answers[k].type = "part" /\ PartIndex(answers[k].w) = i

ListedAll == phase = "wait" /\ kind \in Listings =>
  (count = 1 /\ status => was.stayed \subseteq DOMAIN list)

CommandIInv ==
  /\ CommandTyped /\ SocketsAccounted /\ Executing /\ CountsOne /\ SentAfresh
  /\ DoneOrRefused /\ WatchedAll /\ AnsweredInOrder /\ ListedSoFar /\ ListedAll

(***************************************************************************)
(* Behind ReadIsKernels: an answer that is not read yet is as the kernel   *)
(* reports, and what ended the command is read as it was reported.         *)
(***************************************************************************)
AsReported(a, d) ==
  /\ a = PhyBandsAttribute => d.val = PhyReport
  /\ a.kind = "number" /\ a # PhyDevAttribute => d.len = a.width

RepliesWell == phase = "recv" =>
  \A k \in DOMAIN answers : answers[k].type = "reply" =>
    \A a \in Required \cup command.may :
      IsValid(answers[k].w, a) => AsReported(a, answers[k].w[a.id])

ReadSoFar ==
  /\ phase \in {"send", "sent", "recv"} => was.reported = Empty
  /\ phase = "wait" /\ count = 1 => ReadAsReported

ReadIInv == CommandIInv /\ RepliesWell /\ ReadSoFar
=============================================================================
