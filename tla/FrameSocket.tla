----------------------------- MODULE FrameSocket -----------------------------
(***************************************************************************)
(* nl80211::FrameSocket and its FrameEvent (lib/zWireless/nl80211): a      *)
(* netlink socket on which the kernel reports the frames registered for,   *)
(* and a thread that sends frames with FrameCommand. Both push onto rxq,   *)
(* the Queue that this module extends; txq is the channel that Queue       *)
(* implements, written as a sequence.                                      *)
(*                                                                         *)
(* RegisterFrame executes FrameEvent as a command, by its caller, on the   *)
(* same socket from which the thread of FrameEvent reads frames if Listen  *)
(* was called: either of them may get the answer, or a frame. The kernel   *)
(* answers while the message is sent. A frame that has all it must have is *)
(* pushed by the thread that reads it.                                     *)
(***************************************************************************)
EXTENDS Queue

CONSTANTS
  Event, Tx, Caller,   \* the producers: both threads and who calls RegisterFrame
  None,
  MaxFrames, MaxSends, MaxExecs   \* bounds on a behaviour

\* The messages of the socket, frames and the kernel's answers to RegisterFrame,
\* and the answers to a Send; "pushed" stands for a frame that is an item of rxq.
FrameTypes == {"frame", "partial"}
AnswerTypes == {"sent", "unsent"}
Messages == [type : FrameTypes \cup AnswerTypes \cup {"ack", "error", "pushed"}, n : Nat]

ASSUME FrameSocketAssumption ==
  /\ None \notin Messages
  /\ Producers = {Event, Tx, Caller} /\ Event # Caller /\ Tx \notin {Event, Caller}
  /\ MaxFrames \in Nat /\ MaxSends \in Nat /\ MaxExecs \in Nat
  /\ MaxItems = MaxFrames + MaxSends

Readers == {Event, Caller}

VARIABLES
  listening,   \* FrameEvent's thread runs
  registered,  \* the kernel reports frames
  frames,      \* those it has reported
  inbox,       \* what the socket has not been read of yet
  hand,        \* the message that a thread is about to push, or has pushed
  made,        \* what the items of rxq are, by their numbers
  txq, sends,  \* the packets to send, and how many there were
  reg,         \* where RegisterFrame is
  execs,       \* how often it was called
  status, posts,  \* FrameEvent's _status and _count
  did,         \* what the kernel answered to it: "done" or "refused"
  alone        \* nobody listens and no frame is reported while it is executed

kernel == <<registered, frames, inbox>>
tx == <<txq, sends>>
event == <<reg, execs, status, posts, did, alone>>
all == <<vars, listening, kernel, hand, made, tx, event>>

FInit ==
  /\ Init
  /\ listening = FALSE /\ registered = FALSE /\ frames = << >> /\ inbox = << >>
  /\ hand = [p \in Producers |-> None] /\ made = << >>
  /\ txq = << >> /\ sends = 0
  /\ reg = "idle" /\ execs = 0 /\ status = FALSE /\ posts = 0
  /\ did = None /\ alone = FALSE

Frame(n)   == [type |-> "frame", n |-> n]
Partial(n) == [type |-> "partial", n |-> n]  \* without a frequency or a level
Ack        == [type |-> "ack", n |-> 0]
Error      == [type |-> "error", n |-> 0]
Sent(n)    == [type |-> "sent", n |-> n]
Unsent(n)  == [type |-> "unsent", n |-> n]
Pushed     == [type |-> "pushed", n |-> 0]

(* Faults, see Mutex. *)
ToPushAny(m) ==                         \* whatever is missing
  m.type \in {"frame", "partial", "sent", "unsent"}
AnsweredAlways(m) == TRUE               \* err_cb sets _status

-----------------------------------------------------------------------------
\* The kernel reports a frame.
KernelFrame ==
  /\ registered /\ Len(frames) < MaxFrames
  /\ \E m \in {Frame(Len(frames) + 1), Partial(Len(frames) + 1)} :
       frames' = Append(frames, m) /\ inbox' = Append(inbox, m)
  /\ alone' = FALSE
  /\ UNCHANGED <<vars, listening, registered, hand, made, tx, reg, execs, status, posts, did>>

Listen ==
  /\ ~listening
  /\ listening' = TRUE /\ alone' = FALSE
  /\ UNCHANGED <<vars, kernel, hand, made, tx, reg, execs, status, posts, did>>

-----------------------------------------------------------------------------
(* RecvMsg: a thread takes a message from the socket, and its callback     *)
(* pushes a frame, sets the status and posts.                              *)

Read(r) ==
  /\ hand[r] = None /\ inbox # << >>
  /\ hand' = [hand EXCEPT ![r] = Head(inbox)] /\ inbox' = Tail(inbox)

EventRead ==
  /\ listening /\ Read(Event)
  /\ UNCHANGED <<vars, listening, registered, frames, made, tx, event>>

CallerRead ==
  /\ reg = "recv" /\ Read(Caller) /\ reg' = "callback"
  /\ UNCHANGED <<vars, listening, registered, frames, made, tx,
                 execs, status, posts, did, alone>>

ToPush(m) == m.type \in {"frame", "sent", "unsent"}

PushHand(p) ==
  /\ hand[p] # None /\ ToPush(hand[p])
  /\ Push(p)
  /\ made' = Append(made, hand[p])
  /\ UNCHANGED <<listening, kernel, hand, tx, event>>

PostHand(p) ==
  /\ PushPost(p)
  /\ hand' = [hand EXCEPT ![p] = IF p = Tx THEN None ELSE Pushed]
  /\ UNCHANGED <<listening, kernel, made, tx, event>>

Answered(m) == m.type # "error"

Callback(r) ==
  /\ hand[r] # None /\ ~ToPush(hand[r])
  /\ status' = Answered(hand[r]) /\ posts' = posts + 1
  /\ hand' = [hand EXCEPT ![r] = None]
  /\ reg' = IF r = Caller THEN "wait" ELSE reg
  /\ UNCHANGED <<vars, listening, kernel, made, tx, execs, did, alone>>

-----------------------------------------------------------------------------
(* RegisterFrame. Its TimedWait finds its own post, or an earlier one that *)
(* a frame left: Reset does nothing.                                       *)

Register ==
  /\ reg = "idle" /\ execs < MaxExecs
  /\ reg' = "recv" /\ execs' = execs + 1 /\ status' = FALSE
  /\ alone' = (~listening /\ inbox = << >> /\ posts = 0)
  /\ \/ did' = "done" /\ registered' = TRUE /\ inbox' = Append(inbox, Ack)
     \/ did' = "refused" /\ inbox' = Append(inbox, Error) /\ UNCHANGED registered
  /\ UNCHANGED <<vars, listening, frames, hand, made, tx, posts>>

RegisterNotSent ==
  /\ reg = "idle" /\ execs < MaxExecs
  /\ execs' = execs + 1 /\ status' = FALSE
  /\ UNCHANGED <<vars, listening, kernel, hand, made, tx, reg, posts, did, alone>>

RegisterUnheard ==
  /\ reg = "recv"
  /\ reg' = "idle" /\ did' = None /\ alone' = FALSE
  /\ UNCHANGED <<vars, listening, kernel, hand, made, tx, execs, status, posts>>

\* It returns _status.
RegisterReturns ==
  /\ reg = "wait" /\ posts > 0
  /\ reg' = "idle" /\ posts' = posts - 1 /\ did' = None /\ alone' = FALSE
  /\ UNCHANGED <<vars, listening, kernel, hand, made, tx, execs, status>>

-----------------------------------------------------------------------------
(* Sending: the notification says what FrameCommand.Exec said of it, which *)
(* is in Command.                                                          *)

Send ==
  /\ sends < MaxSends
  /\ sends' = sends + 1 /\ txq' = Append(txq, sends + 1)
  /\ UNCHANGED <<vars, listening, kernel, hand, made, event>>

TxSend ==
  /\ hand[Tx] = None /\ pc[Tx] = "idle" /\ txq # << >>
  /\ \E m \in {Sent(Head(txq)), Unsent(Head(txq))} : hand' = [hand EXCEPT ![Tx] = m]
  /\ txq' = Tail(txq)
  /\ UNCHANGED <<vars, listening, registered, frames, inbox, made, sends, event>>

\* The consumer of rxq: the socket's Recv, or whoever clears it.
Consume ==
  /\ \/ \E c \in Consumers : WaitPoll(c) \/ WaitRead(c) \/ Front(c) \/ Pop(c)
     \/ \E p \in Clearers : Clear(p) \/ ClearDrain(p) \/ ClearItems(p)
  /\ UNCHANGED <<listening, kernel, hand, made, tx, event>>

FNext ==
  \/ KernelFrame \/ Listen \/ EventRead \/ CallerRead
  \/ \E p \in Producers : PushHand(p) \/ PostHand(p)
  \/ \E r \in Readers : Callback(r)
  \/ Register \/ RegisterNotSent \/ RegisterUnheard \/ RegisterReturns
  \/ Send \/ TxSend
  \/ Consume

FSpec == FInit /\ [][FNext]_all /\ Fairness

-----------------------------------------------------------------------------
InBox(M) == {k \in DOMAIN inbox : inbox[k] \in M}
InHand(M) == {p \in Producers : hand[p] \in M /\ pc[p] = "idle"}
MadeOf(M) == {k \in DOMAIN made : made[k] \in M}
Places(M) == Cardinality(InBox(M)) + Cardinality(InHand(M)) + Cardinality(MadeOf(M))

\* A frame that the kernel reported is at one place until it is consumed: in
\* the socket, in the hands of the thread that read it, or an item of rxq. No
\* later one is an item before it unless a thread has it in hand: who registers
\* and who listens read the same socket. One that lacks something is no item.
FramesAccounted ==
  \A n \in DOMAIN frames :
    LET M == {frames[n]} IN
    /\ frames[n].type = "frame" => Places(M) = 1
    /\ frames[n].type = "partial" => Places(M) <= 1 /\ MadeOf(M) = {}
    /\ MadeOf(M) # {} => \A k \in 1..(n - 1) : InBox({frames[k]}) = {}

\* Every packet is in txq, in hand or answered, once, and the answers are in the
\* order of the Sends.
IsAnswer(m) == m.type \in AnswerTypes
Waiting(k) == {i \in DOMAIN txq : txq[i] = k}
SendsAnswered ==
  /\ \A k \in 1..sends : Cardinality(Waiting(k)) + Places({Sent(k), Unsent(k)}) = 1
  /\ \A i, j \in DOMAIN made :
       IsAnswer(made[i]) /\ IsAnswer(made[j]) /\ i < j => made[i].n < made[j].n

\* Frames and answers are accounted for on their way through three threads and
\* two queues: none is lost, doubled or, with one reader, overtaken.
Accounted == FramesAccounted /\ SendsAnswered

\* RegisterFrame returns what the kernel answered, if nobody listens and no
\* frame is reported meanwhile.
AnswerIsKernels ==
  [][RegisterReturns /\ alone => (status <=> did = "done")]_all

(***************************************************************************)
(* The inductive invariant behind Accounted and AnswerIsKernels, besides   *)
(* that of Queue: it holds if only a lone consumer of rxq clears it.       *)
(***************************************************************************)
IsFrame(m) == m.type \in FrameTypes

FTypeOK ==
  /\ frames \in Seq(Messages) /\ inbox \in Seq(Messages) /\ made \in Seq(Messages)
  /\ hand \in [Producers -> Messages \cup {None}]
  /\ txq \in Seq(Nat) /\ sends \in Nat /\ posts \in Nat
  /\ reg \in {"idle", "recv", "callback", "wait"}
  /\ listening \in BOOLEAN /\ status \in BOOLEAN /\ alone \in BOOLEAN

\* Who has what in hand; a thread in Push has it in made, too.
HandInv ==
  /\ \A k \in DOMAIN made : ToPush(made[k])
  /\ \A p \in Producers : pc[p] = "post" => hand[p] # None /\ ToPush(hand[p])
  /\ hand[Tx] # None => IsAnswer(hand[Tx])
  /\ \A r \in Readers : hand[r] # None => ~IsAnswer(hand[r])
  /\ \A k \in DOMAIN inbox : ~IsAnswer(inbox[k])

\* There is no frame but those that the kernel reported, and those in the socket
\* are in their order and later than all others.
FrameInv ==
  /\ \A n \in DOMAIN frames : IsFrame(frames[n]) /\ frames[n].n = n
  /\ \A k \in DOMAIN inbox : IsFrame(inbox[k]) =>
       inbox[k].n \in DOMAIN frames /\ inbox[k] = frames[inbox[k].n]
  /\ \A p \in Producers : hand[p] # None /\ IsFrame(hand[p]) =>
       hand[p].n \in DOMAIN frames /\ hand[p] = frames[hand[p].n]
  /\ \A k \in DOMAIN made : IsFrame(made[k]) =>
       /\ made[k].type = "frame"
       /\ made[k].n \in DOMAIN frames /\ made[k] = frames[made[k].n]
  /\ \A j, k \in DOMAIN inbox :
       IsFrame(inbox[j]) /\ IsFrame(inbox[k]) /\ j < k => inbox[j].n < inbox[k].n
  /\ \A p \in Producers, k \in DOMAIN inbox :
       hand[p] # None /\ IsFrame(hand[p]) /\ IsFrame(inbox[k]) => hand[p].n < inbox[k].n
  /\ \A j \in DOMAIN made, k \in DOMAIN inbox :
       IsFrame(made[j]) /\ IsFrame(inbox[k]) => made[j].n < inbox[k].n

\* None is doubled: not in hand twice, nor in hand and made, nor made twice; and
\* one that has all it must have is somewhere.
Held(p, m) == hand[p] = m /\ pc[p] = "idle"
PlaceInv ==
  /\ \A p, q \in Producers :
       hand[p] # None /\ IsFrame(hand[p]) /\ hand[p] = hand[q] => p = q
  /\ \A p \in Producers, k \in DOMAIN made : hand[p] = made[k] => pc[p] = "post"
  /\ \A j, k \in DOMAIN made : made[j] = made[k] => j = k
  /\ \A n \in DOMAIN frames : frames[n].type = "frame" =>
       \/ \E k \in DOMAIN inbox : inbox[k] = frames[n]
       \/ \E p \in Producers : Held(p, frames[n])
       \/ \E k \in DOMAIN made : made[k] = frames[n]

\* The packets that were taken from txq are the first ones; all of them were
\* answered but one that is in hand, the last.
Taken == sends - Len(txq)
SendInv ==
  /\ Taken \in Nat /\ \A i \in DOMAIN txq : txq[i] = Taken + i
  /\ hand[Tx] # None => hand[Tx].n = Taken /\ Taken > 0
  /\ \A k \in DOMAIN made : IsAnswer(made[k]) =>
       made[k].n \in 1..Taken /\ (hand[Tx] # None /\ pc[Tx] = "idle" => made[k].n # Taken)
  /\ \A k \in 1..Taken : (\E i \in DOMAIN made : made[i] \in {Sent(k), Unsent(k)})
                         \/ (k = Taken /\ hand[Tx] # None /\ pc[Tx] = "idle")
  /\ \A i, j \in DOMAIN made :
       IsAnswer(made[i]) /\ IsAnswer(made[j]) /\ i < j => made[i].n < made[j].n

\* Where the kernel's answer is while RegisterFrame is alone.
AloneInv ==
  /\ ~listening => hand[Event] = None
  /\ hand[Caller] # None <=> reg = "callback"
  /\ alone =>
       /\ ~listening /\ did \in {"done", "refused"}
       /\ reg = "recv" => posts = 0 /\ inbox = <<IF did = "done" THEN Ack ELSE Error>>
       /\ reg = "callback" => hand[Caller] = IF did = "done" THEN Ack ELSE Error
       /\ reg = "wait" => (status <=> did = "done")
       /\ reg # "idle"

FInv == IInv /\ FTypeOK /\ HandInv /\ FrameInv /\ PlaceInv /\ SendInv /\ AloneInv
=============================================================================
