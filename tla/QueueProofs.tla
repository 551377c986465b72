----------------------------- MODULE QueueProofs -----------------------------
(***************************************************************************)
(* The semaphore of a Queue never promises an item that is not there, for  *)
(* any producers and any finite set of consumers, and one consumer sees a  *)
(* FIFO channel. Hypothesis: only a lone consumer calls Clear (OwnClear).  *)
(* Under the same hypothesis FrameSocket, which pushes onto the Queue from *)
(* three threads, loses and doubles no frame and no answer.                *)
(***************************************************************************)
EXTENDS FrameSocket, FiniteSetTheorems, SequenceTheorems, TLAPS

USE QueueAssumption DEF Procs, Items, Garbage

-----------------------------------------------------------------------------
(* Counting the consumers that were served a token *)

LEMMA ServedFinite == IsFiniteSet(Served) /\ Cardinality(Served) \in Nat
BY FS_Subset, FS_CardinalityType DEF Served

\* A consumer that takes a token joins Served.
LEMMA ServedAdd ==
  ASSUME NEW c \in Consumers, c \notin Served, Served' = Served \cup {c}
  PROVE  Cardinality(Served)' = Cardinality(Served) + 1
BY ServedFinite, FS_AddElement

\* A consumer that pops leaves it.
LEMMA ServedRemove ==
  ASSUME NEW c \in Served, Served' = Served \ {c}
  PROVE  Cardinality(Served)' = Cardinality(Served) - 1
<1>1. Cardinality(Served \ {c}) = Cardinality(Served) - 1
  BY ServedFinite, FS_RemoveElement
<1> QED
  BY <1>1

LEMMA ServedPositive ==
  ASSUME NEW c \in Served
  PROVE  Cardinality(Served) > 0
BY ServedFinite, FS_EmptySet

\* A lone consumer that clears has no token meanwhile.
LEMMA DrainingAlone ==
  ASSUME IInv, OwnClear, Draining
  PROVE  Served = {}
<1>1. PICK p \in Procs : pc[p] = "drain"
  BY DEF Draining
<1>2. Consumers = {p}
  BY <1>1 DEF IInv, InCalls, OwnClear
<1> QED
  BY <1>1, <1>2 DEF Served

-----------------------------------------------------------------------------
(* The invariant *)

LEMMA InitIInv == Init => IInv
<1> SUFFICES ASSUME Init PROVE IInv
  OBVIOUS
<1>1. TypeOK /\ \A p \in Procs : InCalls(p)
  BY DEF Init, TypeOK, InCalls
<1>2. Served = {} /\ ~Posting /\ ~Draining
  BY DEF Init, Served, Posting, Draining
<1>3. TokensMatchItems
  BY <1>2, FS_EmptySet DEF TokensMatchItems, Init
<1> QED
  BY <1>1, <1>2, <1>3 DEF IInv, Init

LEMMA PushIInv ==
  ASSUME IInv, NEW p \in Producers, Push(p)
  PROVE  IInv'
<1> USE DEF Push, Goto, PushItem, IInv
<1>1. TypeOK'
  BY DEF TypeOK
<1>2. \A q \in Procs : InCalls(q)'
  BY DEF InCalls, TypeOK
<1>3. Served' = Served /\ ~Posting /\ Posting' /\ ~Draining /\ ~Draining'
  BY DEF Served, Posting, Draining, TypeOK, InCalls
<1>4. Len(items') = Len(items) + 1
  BY DEF TypeOK
<1>5. TokensMatchItems'
  BY <1>3, <1>4, ServedFinite DEF TokensMatchItems, TypeOK
<1>6. \A c \in Consumers : (pc[c] = "pop" => got[c] \in Items)'
  BY DEF TypeOK
<1> QED
  BY <1>1, <1>2, <1>3, <1>5, <1>6

LEMMA PushPostIInv ==
  ASSUME IInv, NEW p \in Producers, PushPost(p)
  PROVE  IInv'
<1> USE DEF PushPost, Goto, IInv
<1>1. TypeOK'
  BY DEF TypeOK
<1>2. \A q \in Procs : InCalls(q)'
  BY DEF InCalls, TypeOK
<1>3. Served' = Served /\ Posting /\ ~Posting' /\ ~Draining /\ ~Draining'
  BY DEF Served, Posting, Draining, TypeOK, InCalls
<1>4. TokensMatchItems'
  BY <1>3, ServedFinite DEF TokensMatchItems, TypeOK
<1>5. \A c \in Consumers : (pc[c] = "pop" => got[c] \in Items)'
  BY DEF TypeOK
<1> QED
  BY <1>1, <1>2, <1>3, <1>4, <1>5

LEMMA WaitPollIInv ==
  ASSUME IInv, NEW c \in Consumers, WaitPoll(c)
  PROVE  IInv'
<1> USE DEF WaitPoll, Goto, IInv
<1>1. TypeOK' /\ \A q \in Procs : InCalls(q)'
  BY DEF TypeOK, InCalls
<1>2. Served' = Served /\ Posting' = Posting /\ Draining' = Draining
  BY DEF Served, Posting, Draining, TypeOK
<1>3. TokensMatchItems'
  BY <1>2 DEF TokensMatchItems
<1> QED
  BY <1>1, <1>2, <1>3 DEF TypeOK

LEMMA WaitReadIInv ==
  ASSUME IInv, OwnClear, NEW c \in Consumers, WaitRead(c)
  PROVE  IInv'
<1> USE DEF WaitRead, Goto, IInv
<1>1. TypeOK' /\ \A q \in Procs : InCalls(q)'
  BY DEF TypeOK, InCalls
<1>2. ~Draining
  BY DrainingAlone DEF OwnClear, Draining, InCalls
<1>3. Posting' = Posting /\ ~Draining'
  BY <1>2 DEF Posting, Draining, TypeOK
<1>4. Served' = IF count > 0 THEN Served \cup {c} ELSE Served
  BY DEF Served, TypeOK
<1>5. Cardinality(Served)' = IF count > 0 THEN Cardinality(Served) + 1 ELSE Cardinality(Served)
  <2>1. c \notin Served
    BY DEF Served
  <2> QED
    BY <1>4, <2>1, ServedAdd
<1> DEFINE pending == IF Posting THEN 1 ELSE 0
<1>6. Len(items) = count + Cardinality(Served) + pending
  BY <1>2 DEF TokensMatchItems
<1>7. pending' = pending /\ pending \in Nat
  BY <1>3
<1> HIDE DEF pending
<1>8. Len(items)' = count' + Cardinality(Served)' + pending'
  BY <1>5, <1>6, <1>7, ServedFinite DEF TypeOK
<1>9. TokensMatchItems'
  BY <1>8 DEF TokensMatchItems, pending
<1> QED
  BY <1>1, <1>3, <1>9 DEF TypeOK

\* The state in which Front and Pop are called.
LEMMA ServedHasItem ==
  ASSUME IInv, OwnClear, NEW c \in Served
  PROVE  ~Draining /\ items # << >>
<1>1. ~Draining
  BY DrainingAlone
<1> QED
  BY <1>1, ServedPositive, ServedFinite DEF IInv, TokensMatchItems, TypeOK

LEMMA FrontIInv ==
  ASSUME IInv, OwnClear, NEW c \in Consumers, Front(c)
  PROVE  IInv'
<1> USE DEF Front, Goto, IInv
<1>1. ~Draining /\ items # << >>
  BY ServedHasItem DEF Served
<1>2. Head(items) \in Items
  BY <1>1 DEF TypeOK
<1>3. TypeOK' /\ \A q \in Procs : InCalls(q)'
  BY <1>1, <1>2 DEF TypeOK, InCalls
<1>4. Served' = Served /\ Posting' = Posting /\ ~Draining'
  BY <1>1 DEF Served, Posting, Draining, TypeOK
<1>5. TokensMatchItems'
  BY <1>1, <1>4 DEF TokensMatchItems
<1>6. \A d \in Consumers : (pc[d] = "pop" => got[d] \in Items)'
  BY <1>1, <1>2 DEF TypeOK
<1> QED
  BY <1>3, <1>4, <1>5, <1>6

LEMMA PopIInv ==
  ASSUME IInv, OwnClear, NEW c \in Consumers, Pop(c)
  PROVE  IInv'
<1> USE DEF Pop, Goto, IInv
<1>1. c \in Served
  BY DEF Served
<1>2. ~Draining /\ items # << >>
  BY <1>1, ServedHasItem
<1>3. items' \in Seq(Items) /\ Len(items') = Len(items) - 1
  BY <1>2 DEF TypeOK
<1>4. TypeOK' /\ \A q \in Procs : InCalls(q)'
  BY <1>3 DEF TypeOK, InCalls
<1>5. Served' = Served \ {c} /\ Posting' = Posting /\ ~Draining'
  BY <1>2 DEF Served, Posting, Draining, TypeOK
<1>6. Cardinality(Served)' = Cardinality(Served) - 1
  BY <1>1, <1>5, ServedRemove
<1> DEFINE pending == IF Posting THEN 1 ELSE 0
<1>7. Len(items) = count + Cardinality(Served) + pending
  BY <1>2 DEF TokensMatchItems
<1>8. pending' = pending /\ pending \in Nat
  BY <1>5
<1> HIDE DEF pending
<1>9. Len(items') = count' + Cardinality(Served)' + pending'
  BY <1>3, <1>6, <1>7, <1>8, ServedFinite DEF TypeOK
<1>10. TokensMatchItems'
  BY <1>9 DEF TokensMatchItems, pending
<1> QED
  BY <1>4, <1>5, <1>10 DEF TypeOK

LEMMA ClearIInv ==
  ASSUME IInv, OwnClear, NEW p \in Clearers, Clear(p)
  PROVE  IInv'
<1> USE DEF Clear, Goto, IInv
<1>1. TypeOK' /\ \A q \in Procs : InCalls(q)'
  BY DEF TypeOK, InCalls
<1>2. ~Draining /\ Draining'
  BY DEF Draining, InCalls, TypeOK
<1>3. Len(items) >= count
  BY <1>2, ServedFinite DEF TokensMatchItems, TypeOK
<1> QED
  BY <1>1, <1>2, <1>3 DEF TokensMatchItems, TypeOK

LEMMA ClearDrainIInv ==
  ASSUME IInv, NEW p \in Clearers, ClearDrain(p)
  PROVE  IInv'
<1> USE DEF ClearDrain, IInv
<1>1. TypeOK' /\ \A q \in Procs : InCalls(q)'
  BY DEF TypeOK, InCalls
<1>2. Draining /\ Draining'
  BY DEF Draining
<1> QED
  BY <1>1, <1>2 DEF TokensMatchItems, TypeOK

LEMMA ClearItemsIInv ==
  ASSUME IInv, OwnClear, NEW p \in Clearers, ClearItems(p)
  PROVE  IInv'
<1> USE DEF ClearItems, Goto, IInv
<1>1. TypeOK' /\ \A q \in Procs : InCalls(q)'
  BY DEF TypeOK, InCalls
<1>2. Served = {}
  BY DrainingAlone DEF Draining
<1>3. Served' = {} /\ ~Posting' /\ ~Draining'
  BY <1>2 DEF Served, Posting, Draining, InCalls, TypeOK
<1>4. TokensMatchItems'
  BY <1>3, FS_EmptySet DEF TokensMatchItems, TypeOK
<1> QED
  BY <1>1, <1>3, <1>4 DEF TypeOK

\* The invariant holds in every state of every behaviour.
THEOREM Invariance ==
  ASSUME OwnClear
  PROVE  Spec => []IInv
<1>1. Init => IInv
  BY InitIInv
<1>2. IInv /\ [Next]_vars => IInv'
  <2> SUFFICES ASSUME IInv, [Next]_vars PROVE IInv'
    OBVIOUS
  <2>1. CASE UNCHANGED vars
    BY <2>1 DEF vars, IInv, TypeOK, InCalls, TokensMatchItems, Draining, Posting, Served
  <2>2. ASSUME NEW p \in Producers, Push(p) \/ PushPost(p) PROVE IInv'
    BY <2>2, PushIInv, PushPostIInv
  <2>3. ASSUME NEW c \in Consumers, WaitPoll(c) \/ WaitRead(c) \/ Front(c) \/ Pop(c)
        PROVE  IInv'
    BY <2>3, WaitPollIInv, WaitReadIInv, FrontIInv, PopIInv
  <2>4. ASSUME NEW p \in Clearers, Clear(p) \/ ClearDrain(p) \/ ClearItems(p)
        PROVE  IInv'
    BY <2>4, ClearIInv, ClearDrainIInv, ClearItemsIInv
  <2> QED
    BY <2>1, <2>2, <2>3, <2>4 DEF Next
<1> QED
  BY <1>1, <1>2, PTL DEF Spec

\* Every token stands for an item, for any number of consumers.
THEOREM Tokens ==
  ASSUME OwnClear
  PROVE  Spec => []TokensMatchItems
<1>1. IInv => TokensMatchItems
  BY DEF IInv
<1> QED
  BY <1>1, Invariance, PTL

\* No consumer that waited calls front() or pop() on an empty std::queue.
THEOREM FrontIsSafe ==
  ASSUME OwnClear
  PROVE  Spec => []NoEmptyFront
<1>1. IInv => NoEmptyFront
  BY ServedHasItem DEF NoEmptyFront
<1> QED
  BY <1>1, Invariance, PTL

-----------------------------------------------------------------------------
(* One consumer sees a FIFO channel *)

\* What a lone consumer got from Front is still the front when it calls Pop.
FrontKept == \A c \in Consumers : pc[c] = "pop" => items # << >> /\ got[c] = Head(items)

LEMMA FrontKeptInvariance ==
  ASSUME OwnClear, NEW only, Consumers = {only}
  PROVE  Spec => []FrontKept
<1>1. Init => FrontKept
  BY DEF Init, FrontKept
<1>2. IInv /\ IInv' /\ FrontKept /\ [Next]_vars => FrontKept'
  <2> SUFFICES ASSUME IInv, FrontKept, Next, pc'[only] = "pop"
               PROVE  items' # << >> /\ got'[only] = Head(items')
    BY DEF FrontKept, vars
  <2>1. ASSUME NEW p \in Producers, Push(p)
        PROVE  items' # << >> /\ got'[only] = Head(items')
    <3>1. pc[only] = "pop"
      BY <2>1 DEF Push, Goto, IInv, TypeOK
    <3> QED
      BY <2>1, <3>1 DEF Push, PushItem, FrontKept, IInv, TypeOK
  <2>2. ASSUME NEW p \in Producers, PushPost(p)
        PROVE  items' # << >> /\ got'[only] = Head(items')
    BY <2>2 DEF PushPost, Goto, FrontKept, IInv, TypeOK
  <2>3. ASSUME Front(only)
        PROVE  items' # << >> /\ got'[only] = Head(items')
    <3>1. items # << >>
      BY <2>3, ServedHasItem DEF Front, Goto, Served
    <3> QED
      BY <2>3, <3>1 DEF Front, IInv, TypeOK
  <2>4. ~(WaitPoll(only) \/ WaitRead(only) \/ Pop(only))
    BY DEF WaitPoll, WaitRead, Pop, Goto, IInv, TypeOK
  <2>5. ASSUME NEW p \in Clearers, Clear(p) \/ ClearDrain(p) \/ ClearItems(p)
        PROVE  FALSE
    BY <2>5 DEF OwnClear, Clear, ClearDrain, ClearItems, Goto, IInv, TypeOK
  <2> QED
    BY <2>1, <2>2, <2>3, <2>4, <2>5 DEF Next
<1> QED
  BY <1>1, <1>2, Invariance, PTL DEF Spec

LEMMA StepRefines ==
  ASSUME IInv, FrontKept, [Next]_vars
  PROVE  [Promise!Put \/ Promise!Take \/ Promise!Drop]_(Promise!fifoVars)
<1> USE DEF Promise!fifoVars
<1>1. CASE UNCHANGED <<items, out>>
  BY <1>1
<1>2. ASSUME NEW p \in Producers, Push(p)
      PROVE  Promise!Put
  BY <1>2 DEF Push, PushItem, Promise!Put, IInv, TypeOK
<1>3. ASSUME NEW c \in Consumers, Pop(c)
      PROVE  Promise!Take
  BY <1>3 DEF Pop, Goto, Promise!Take, FrontKept
<1>4. ASSUME NEW p \in Clearers, ClearItems(p)
      PROVE  Promise!Drop
  BY <1>4 DEF ClearItems, Promise!Drop
<1> QED
  BY <1>1, <1>2, <1>3, <1>4
     DEF Next, vars, PushPost, WaitPoll, WaitRead, Front, Clear, ClearDrain

\* With one consumer, Wait, Front and Pop implement the receive of a FIFO
\* channel, whatever the number of producers.
THEOREM Refinement ==
  ASSUME OwnClear, NEW only, Consumers = {only}
  PROVE  Spec => ImplementsFifo
<1>1. Init => Promise!FifoInit
  BY DEF Init, Promise!FifoInit
<1> QED
  BY <1>1, StepRefines, FrontKeptInvariance, Invariance, PTL
     DEF Spec, ImplementsFifo, Promise!FifoSpec

-----------------------------------------------------------------------------
(* FrameSocket: its steps are steps of the Queue *)

USE FrameSocketAssumption DEF Readers

LEMMA FNextIsNext == [FNext]_all => [Next]_vars
<1> SUFFICES ASSUME [FNext]_all PROVE [Next]_vars
  OBVIOUS
<1>1. ASSUME NEW p \in Producers, PushHand(p) \/ PostHand(p)
      PROVE  Next
  BY <1>1 DEF PushHand, PostHand, Next
<1>2. CASE Consume
  BY <1>2 DEF Consume, Next
<1>3. ASSUME NEW r \in Readers, Callback(r)
      PROVE  UNCHANGED vars
  BY <1>3 DEF Callback
<1>4. CASE UNCHANGED all
  BY <1>4 DEF all
<1>5. CASE \/ KernelFrame \/ Listen \/ EventRead \/ CallerRead \/ Send \/ TxSend
           \/ Register \/ RegisterNotSent \/ RegisterUnheard \/ RegisterReturns
  BY <1>5 DEF KernelFrame, Listen, EventRead, CallerRead, Register, RegisterNotSent,
              RegisterUnheard, RegisterReturns, Send, TxSend
<1> QED
  BY <1>1, <1>2, <1>3, <1>4, <1>5 DEF FNext

\* The Queue of a FrameSocket is a Queue: every token stands for an item.
THEOREM FTokens ==
  ASSUME OwnClear
  PROVE  FSpec => []TokensMatchItems
<1>1. FInit => Init
  BY DEF FInit
<1> QED
  BY <1>1, FNextIsNext, Tokens, PTL DEF FSpec, Spec

\* And with one consumer, which may clear it, a FIFO channel.
THEOREM FRefinement ==
  ASSUME OwnClear, NEW only, Consumers = {only}
  PROVE  FSpec => ImplementsFifo
<1>1. FInit => Init
  BY DEF FInit
<1> QED
  BY <1>1, FNextIsNext, Refinement, PTL DEF FSpec, Spec

-----------------------------------------------------------------------------
(* The places of frames and answers *)

\* Of what is in one place at most, there is one or nothing.
LEMMA AtMostOne ==
  ASSUME NEW S, \A x, y \in S : x = y
  PROVE  /\ S = {} => Cardinality(S) = 0
         /\ S # {} => Cardinality(S) = 1
<1>1. S = {} => Cardinality(S) = 0
  BY FS_EmptySet
<1>2. ASSUME S # {} PROVE Cardinality(S) = 1
  <2>1. PICK x : x \in S
    BY <1>2
  <2>2. S = {x}
    BY <2>1
  <2> QED
    BY <2>2, FS_Singleton
<1> QED
  BY <1>1, <1>2

\* The places of M, if each holds one of M at most and no two hold any.
LEMMA OnePlace ==
  ASSUME NEW M,
         \A j, k \in InBox(M) : j = k, \A p, q \in InHand(M) : p = q,
         \A j, k \in MadeOf(M) : j = k,
         InBox(M) = {} \/ InHand(M) = {}, InBox(M) = {} \/ MadeOf(M) = {},
         InHand(M) = {} \/ MadeOf(M) = {}
  PROVE  Places(M) = IF InBox(M) = {} /\ InHand(M) = {} /\ MadeOf(M) = {} THEN 0 ELSE 1
<1> DEFINE B == InBox(M)  H == InHand(M)  D == MadeOf(M)
<1>1. /\ B = {} => Cardinality(B) = 0
      /\ B # {} => Cardinality(B) = 1
  <2> HIDE DEF B
  <2> SUFFICES \A j, k \in B : j = k
    BY AtMostOne, Zenon
  <2> QED
    BY DEF B
<1>2. /\ H = {} => Cardinality(H) = 0
      /\ H # {} => Cardinality(H) = 1
  <2> HIDE DEF H
  <2> SUFFICES \A j, k \in H : j = k
    BY AtMostOne, Zenon
  <2> QED
    BY DEF H
<1>3. /\ D = {} => Cardinality(D) = 0
      /\ D # {} => Cardinality(D) = 1
  <2> HIDE DEF D
  <2> SUFFICES \A j, k \in D : j = k
    BY AtMostOne, Zenon
  <2> QED
    BY DEF D
<1>4. Places(M) = Cardinality(B) + Cardinality(H) + Cardinality(D)
  BY DEF Places
<1>5. (B = {} \/ H = {}) /\ (B = {} \/ D = {}) /\ (H = {} \/ D = {})
  OBVIOUS
<1> HIDE DEF B, H, D
<1>6. Places(M) = IF B = {} /\ H = {} /\ D = {} THEN 0 ELSE 1
  BY <1>1, <1>2, <1>3, <1>4, <1>5
<1> QED
  BY <1>6 DEF B, H, D

LEMMA FramesAreAccounted == FInv => FramesAccounted
<1> SUFFICES ASSUME FInv, NEW n \in DOMAIN frames
             PROVE  LET M == {frames[n]} IN
                    /\ frames[n].type = "frame" => Places(M) = 1
                    /\ frames[n].type = "partial" => Places(M) <= 1 /\ MadeOf(M) = {}
                    /\ MadeOf(M) # {} => \A k \in 1..(n - 1) : InBox({frames[k]}) = {}
  BY DEF FramesAccounted
<1> DEFINE m == frames[n]  M == {m}
<1>1. m \in Messages /\ IsFrame(m) /\ m.n = n /\ m # None /\ n \in Nat
  BY DEF FInv, FTypeOK, FrameInv
<1>2. InBox(M) = {k \in DOMAIN inbox : inbox[k] = m}
  BY DEF InBox
<1>3. InHand(M) = {p \in Producers : Held(p, m)}
  BY DEF InHand, Held
<1>4. MadeOf(M) = {k \in DOMAIN made : made[k] = m}
  BY DEF MadeOf
<1> HIDE DEF m, M
<1>5. \A j, k \in InBox(M) : j = k
  <2> SUFFICES ASSUME NEW j \in InBox(M), NEW k \in InBox(M), j < k PROVE FALSE
    BY DEF InBox, FInv, FTypeOK
  <2>1. inbox[j].n < inbox[k].n
    BY <1>1, <1>2 DEF FInv, FrameInv
  <2> QED
    BY <1>1, <1>2, <2>1
<1>6. \A p, q \in InHand(M) : p = q
  BY <1>1, <1>3 DEF FInv, PlaceInv, Held
<1>7. \A j, k \in MadeOf(M) : j = k
  BY <1>1, <1>4 DEF FInv, PlaceInv
<1>8. InBox(M) = {} \/ InHand(M) = {}
  BY <1>1, <1>2, <1>3 DEF FInv, FrameInv, Held
<1>9. InBox(M) = {} \/ MadeOf(M) = {}
  BY <1>1, <1>2, <1>4 DEF FInv, FrameInv
<1>10. InHand(M) = {} \/ MadeOf(M) = {}
  BY <1>1, <1>3, <1>4 DEF FInv, PlaceInv, Held
<1>11. Places(M) = IF InBox(M) = {} /\ InHand(M) = {} /\ MadeOf(M) = {} THEN 0 ELSE 1
  BY <1>5, <1>6, <1>7, <1>8, <1>9, <1>10, OnePlace
<1>12. m.type = "frame" => ~(InBox(M) = {} /\ InHand(M) = {} /\ MadeOf(M) = {})
  BY <1>2, <1>3, <1>4 DEF FInv, PlaceInv, m
<1>13. m.type = "partial" => MadeOf(M) = {}
  BY <1>1, <1>4 DEF FInv, FrameInv
<1>14. ASSUME MadeOf(M) # {}, NEW k \in 1..(n - 1)
       PROVE  InBox({frames[k]}) = {}
  <2>1. PICK j \in DOMAIN made : made[j] = m
    BY <1>14, <1>4
  <2>2. k \in DOMAIN frames /\ IsFrame(frames[k]) /\ frames[k].n = k /\ k < n
    BY <1>1 DEF FInv, FTypeOK, FrameInv
  <2>3. \A i \in DOMAIN inbox : inbox[i] # frames[k]
    BY <2>1, <2>2, <1>1 DEF FInv, FrameInv
  <2> QED
    BY <2>3 DEF InBox
<1> QED
  BY <1>11, <1>12, <1>13, <1>14 DEF m, M

LEMMA SendsAreAnswered == FInv => SendsAnswered
<1> SUFFICES ASSUME FInv, NEW k \in 1..sends
             PROVE  Cardinality(Waiting(k)) + Places({Sent(k), Unsent(k)}) = 1
  BY DEF FInv, SendInv, SendsAnswered
<1> DEFINE M == {Sent(k), Unsent(k)}
<1>0. \A m \in M : IsAnswer(m) /\ m.n = k /\ m # None /\ m \in Messages
  BY DEF IsAnswer, Sent, Unsent, AnswerTypes, Messages, FTypeOK
<1>1. InBox(M) = {}
  BY <1>0 DEF InBox, FInv, HandInv
<1>2. \A p \in Producers : p # Tx => hand[p] \notin M
  BY <1>0 DEF FInv, HandInv
<1>3. \A p, q \in InHand(M) : p = q
  BY <1>2 DEF InHand
<1>4. InHand(M) # {} => hand[Tx] # None /\ pc[Tx] = "idle" /\ k = Taken
  BY <1>0, <1>2 DEF InHand, FInv, SendInv
<1>5. \A i, j \in MadeOf(M) : i = j
  <2> SUFFICES ASSUME NEW i \in MadeOf(M), NEW j \in MadeOf(M), i < j PROVE FALSE
    BY DEF MadeOf, FInv, FTypeOK
  <2>1. /\ i \in DOMAIN made /\ IsAnswer(made[i]) /\ made[i].n = k
        /\ j \in DOMAIN made /\ IsAnswer(made[j]) /\ made[j].n = k
    BY <1>0 DEF MadeOf
  <2>2. made[i].n < made[j].n
    BY <2>1 DEF FInv, SendInv
  <2> QED
    BY <2>1, <2>2
<1>6. InHand(M) = {} \/ MadeOf(M) = {}
  <2> SUFFICES ASSUME InHand(M) # {}, NEW i \in MadeOf(M) PROVE FALSE
    OBVIOUS
  <2>1. i \in DOMAIN made /\ IsAnswer(made[i]) /\ made[i].n = k
    BY <1>0 DEF MadeOf
  <2> QED
    BY <2>1, <1>4 DEF FInv, SendInv
<1> HIDE DEF M
<1>7. Places(M) = IF InHand(M) = {} /\ MadeOf(M) = {} THEN 0 ELSE 1
  BY <1>1, <1>3, <1>5, <1>6, OnePlace
<1>8. txq \in Seq(Nat) /\ Taken \in Nat /\ Taken + Len(txq) = sends
  BY DEF FInv, FTypeOK, SendInv, Taken
<1>9. Waiting(k) = {i \in DOMAIN txq : Taken + i = k}
  BY DEF Waiting, FInv, SendInv
<1>10. CASE k > Taken
  <2>1. MadeOf(M) = {}
    <3> SUFFICES ASSUME NEW i \in MadeOf(M) PROVE FALSE
      OBVIOUS
    <3>1. i \in DOMAIN made /\ IsAnswer(made[i]) /\ made[i].n = k
      BY <1>0 DEF MadeOf, M
    <3> QED
      BY <3>1, <1>10, <1>8 DEF FInv, SendInv
  <2>2. Places(M) = 0
    BY <1>10, <1>4, <1>7, <1>8, <2>1
  <2>3. Waiting(k) = {k - Taken}
    <3>1. k - Taken \in DOMAIN txq /\ sends \in Nat
      BY <1>8, <1>10 DEF FInv, FTypeOK
    <3>2. \A i \in DOMAIN txq : i \in Nat
      BY <1>8
    <3> QED
      BY <1>8, <1>9, <3>1, <3>2
  <2>4. Cardinality(Waiting(k)) = 1
    BY <2>3, FS_Singleton
  <2> QED
    BY <2>2, <2>4 DEF M
<1>11. CASE k <= Taken
  <2>1. Waiting(k) = {}
    BY <1>8, <1>9, <1>11
  <2>2. Cardinality(Waiting(k)) = 0
    BY <2>1, FS_EmptySet
  <2>3. \/ \E i \in DOMAIN made : made[i] \in M
        \/ k = Taken /\ hand[Tx] # None /\ pc[Tx] = "idle"
    BY <1>8, <1>11 DEF FInv, SendInv, M
  <2>4. CASE \E i \in DOMAIN made : made[i] \in M
    BY <2>2, <2>4, <1>7 DEF MadeOf, M
  <2>5. CASE k = Taken /\ hand[Tx] # None /\ pc[Tx] = "idle"
    <3>1. hand[Tx] \in Messages /\ hand[Tx].type \in AnswerTypes /\ hand[Tx].n = k
      BY <2>5 DEF FInv, HandInv, IsAnswer, SendInv, FTypeOK
    <3>2. hand[Tx] \in M
      BY <3>1 DEF Messages, AnswerTypes, Sent, Unsent, M
    <3>3. Tx \in InHand(M)
      BY <3>2, <2>5 DEF InHand
    <3> QED
      BY <2>2, <3>3, <1>7 DEF M
  <2> QED
    BY <2>3, <2>4, <2>5
<1> QED
  BY <1>8, <1>10, <1>11

-----------------------------------------------------------------------------
(* The invariant of FrameSocket *)

LEMMA QueueUnchanged == IInv /\ UNCHANGED vars => IInv'
BY DEF vars, IInv, TypeOK, InCalls, TokensMatchItems, Draining, Posting, Served

\* A thread that pushes is in Push or in none of the Queue's methods.
LEMMA ProducersPush ==
  ASSUME IInv, OwnClear, NEW p \in Producers
  PROVE  pc[p] \in {"idle", "post"}
BY DEF IInv, TypeOK, InCalls, OwnClear

LEMMA FInitFInv == FInit => FInv
<1> SUFFICES ASSUME FInit PROVE FInv
  OBVIOUS
<1>1. IInv
  BY InitIInv DEF FInit
<1>2. pc = [p \in Procs |-> "idle"]
  BY DEF FInit, Init
<1>3. FTypeOK
  <2>1. \A S : << >> \in Seq(S)
    OBVIOUS
  <2> QED
    BY <2>1 DEF FInit, FTypeOK
<1>4. HandInv /\ FrameInv /\ PlaceInv /\ AloneInv
  BY <1>2 DEF FInit, HandInv, FrameInv, PlaceInv, AloneInv
<1>5. Taken = 0
  <2>1. Len(<< >>) = 0
    OBVIOUS
  <2>2. txq = << >> /\ sends = 0
    BY DEF FInit
  <2>3. \A k, l \in Nat : k = l => k - l = 0
    OBVIOUS
  <2> QED
    BY <2>1, <2>2, <2>3 DEF Taken
<1>6. SendInv
  BY <1>5 DEF FInit, SendInv
<1> QED
  BY <1>1, <1>3, <1>4, <1>6 DEF FInv

LEMMA KernelFrameFInv ==
  ASSUME FInv, KernelFrame
  PROVE  FInv'
<1> DEFINE n == Len(frames) + 1
<1>1. PICK m \in {Frame(n), Partial(n)} :
        frames' = Append(frames, m) /\ inbox' = Append(inbox, m)
  BY DEF KernelFrame
<1>2. /\ UNCHANGED vars /\ pc' = pc /\ listening' = listening /\ hand' = hand /\ made' = made
      /\ txq' = txq /\ sends' = sends /\ reg' = reg /\ status' = status /\ posts' = posts
      /\ did' = did /\ alone' = FALSE
  BY DEF KernelFrame, tx, vars
<1>3. m \in Messages /\ IsFrame(m) /\ ~IsAnswer(m) /\ m.n = n /\ n \in Nat
  BY DEF FInv, FTypeOK, Frame, Partial, Messages, FrameTypes, IsFrame, IsAnswer, AnswerTypes
<1> HIDE DEF n
<1>4. /\ frames' \in Seq(Messages) /\ n \in DOMAIN frames' /\ frames'[n] = m
      /\ DOMAIN frames' = DOMAIN frames \cup {n}
      /\ \A i \in DOMAIN frames : i \in Nat /\ i < n /\ frames'[i] = frames[i]
  BY <1>1, <1>3 DEF FInv, FTypeOK, n
<1> DEFINE l == Len(inbox) + 1
<1>5. /\ inbox' \in Seq(Messages) /\ inbox'[l] = m /\ l \in Nat
      /\ DOMAIN inbox' = DOMAIN inbox \cup {l}
      /\ \A i \in DOMAIN inbox : i \in Nat /\ i < l /\ inbox'[i] = inbox[i]
  BY <1>1, <1>3 DEF FInv, FTypeOK
<1> HIDE DEF l
<1>6. IInv'
  BY <1>2, QueueUnchanged DEF FInv
<1>7. FTypeOK'
  BY <1>2, <1>4, <1>5 DEF FInv, FTypeOK
<1>8. HandInv'
  BY <1>2, <1>3, <1>5 DEF FInv, HandInv, ToPush, IsAnswer
<1>9. FrameInv'
  <2>1. \A i \in DOMAIN frames' : (IsFrame(frames[i]) /\ frames[i].n = i)'
    BY <1>3, <1>4 DEF FInv, FrameInv, IsFrame
  <2>2. \A k \in DOMAIN inbox' : IsFrame(inbox'[k]) =>
          inbox'[k].n \in DOMAIN frames' /\ inbox'[k] = frames'[inbox'[k].n]
    BY <1>3, <1>4, <1>5 DEF FInv, FrameInv, IsFrame
  <2>3. \A p \in Producers : hand'[p] # None /\ IsFrame(hand'[p]) =>
          hand'[p].n \in DOMAIN frames' /\ hand'[p] = frames'[hand'[p].n]
    BY <1>2, <1>4 DEF FInv, FrameInv, IsFrame
  <2>4. \A k \in DOMAIN made' : IsFrame(made'[k]) =>
          /\ made'[k].type = "frame"
          /\ made'[k].n \in DOMAIN frames' /\ made'[k] = frames'[made'[k].n]
    BY <1>2, <1>4 DEF FInv, FrameInv, IsFrame
  <2>5. \A j, k \in DOMAIN inbox' :
          IsFrame(inbox'[j]) /\ IsFrame(inbox'[k]) /\ j < k => inbox'[j].n < inbox'[k].n
    <3> SUFFICES ASSUME NEW j \in DOMAIN inbox', NEW k \in DOMAIN inbox',
                        IsFrame(inbox'[j]), IsFrame(inbox'[k]), j < k
                 PROVE  inbox'[j].n < inbox'[k].n
      BY DEF IsFrame
    <3>1. j \in DOMAIN inbox /\ inbox'[j] = inbox[j]
      BY <1>5
    <3>2. inbox[j].n \in DOMAIN frames
      BY <3>1 DEF FInv, FrameInv
    <3>3. CASE k = l
      BY <3>1, <3>2, <3>3, <1>3, <1>4, <1>5
    <3>4. CASE k \in DOMAIN inbox
      BY <3>1, <3>4, <1>5 DEF FInv, FrameInv
    <3> QED
      BY <3>3, <3>4, <1>5
  <2>6. \A p \in Producers, k \in DOMAIN inbox' :
          hand'[p] # None /\ IsFrame(hand'[p]) /\ IsFrame(inbox'[k]) => hand'[p].n < inbox'[k].n
    <3> SUFFICES ASSUME NEW p \in Producers, NEW k \in DOMAIN inbox',
                        hand'[p] # None, IsFrame(hand'[p]), IsFrame(inbox'[k])
                 PROVE  hand'[p].n < inbox'[k].n
      OBVIOUS
    <3>1. hand'[p] = hand[p] /\ hand[p].n \in DOMAIN frames
      BY <1>2 DEF FInv, FrameInv
    <3>2. CASE k = l
      BY <3>1, <3>2, <1>3, <1>4, <1>5
    <3>3. CASE k \in DOMAIN inbox
      BY <3>1, <3>3, <1>5 DEF FInv, FrameInv
    <3> QED
      BY <3>2, <3>3, <1>5
  <2>7. \A j \in DOMAIN made', k \in DOMAIN inbox' :
          IsFrame(made'[j]) /\ IsFrame(inbox'[k]) => made'[j].n < inbox'[k].n
    <3> SUFFICES ASSUME NEW j \in DOMAIN made', NEW k \in DOMAIN inbox',
                        IsFrame(made'[j]), IsFrame(inbox'[k])
                 PROVE  made'[j].n < inbox'[k].n
      OBVIOUS
    <3>1. j \in DOMAIN made /\ made'[j] = made[j] /\ made[j].n \in DOMAIN frames
      BY <1>2 DEF FInv, FrameInv
    <3>2. CASE k = l
      BY <3>1, <3>2, <1>3, <1>4, <1>5
    <3>3. CASE k \in DOMAIN inbox
      BY <3>1, <3>3, <1>5 DEF FInv, FrameInv
    <3> QED
      BY <3>2, <3>3, <1>5
  <2> QED
    BY <2>1, <2>2, <2>3, <2>4, <2>5, <2>6, <2>7 DEF FrameInv, IsFrame
<1>10. PlaceInv'
  <2>1. \A i \in DOMAIN frames' : frames'[i].type = "frame" =>
          \/ \E k \in DOMAIN inbox' : inbox'[k] = frames'[i]
          \/ \E p \in Producers : hand'[p] = frames'[i] /\ pc'[p] = "idle"
          \/ \E k \in DOMAIN made' : made'[k] = frames'[i]
    <3> SUFFICES ASSUME NEW i \in DOMAIN frames, frames[i].type = "frame"
                 PROVE  \/ \E k \in DOMAIN inbox' : inbox'[k] = frames'[i]
                        \/ \E p \in Producers : hand'[p] = frames'[i] /\ pc'[p] = "idle"
                        \/ \E k \in DOMAIN made' : made'[k] = frames'[i]
      BY <1>4, <1>5
    <3>1. frames'[i] = frames[i] /\ i \in DOMAIN frames'
      BY <1>4
    <3>2. CASE \E k \in DOMAIN inbox : inbox[k] = frames[i]
      BY <3>1, <3>2, <1>5
    <3>3. CASE \E p \in Producers : Held(p, frames[i])
      BY <3>1, <3>3, <1>2 DEF Held
    <3>4. CASE \E k \in DOMAIN made : made[k] = frames[i]
      BY <3>1, <3>4, <1>2
    <3> QED
      BY <3>2, <3>3, <3>4 DEF FInv, PlaceInv
  <2> QED
    BY <2>1, <1>2 DEF FInv, PlaceInv, IsFrame, Held
<1>11. SendInv'
  BY <1>2 DEF FInv, SendInv, Taken, IsAnswer, Sent, Unsent
<1>12. AloneInv'
  BY <1>2 DEF FInv, AloneInv
<1> QED
  BY <1>6, <1>7, <1>8, <1>9, <1>10, <1>11, <1>12 DEF FInv

LEMMA ListenFInv ==
  ASSUME FInv, Listen
  PROVE  FInv'
<1>1. /\ UNCHANGED <<vars, frames, inbox, hand, made, txq, sends, reg, posts, status, did>>
      /\ pc' = pc /\ listening' = TRUE /\ alone' = FALSE
  BY DEF Listen, kernel, tx, vars
<1>2. IInv'
  BY <1>1, QueueUnchanged DEF FInv
<1>3. FTypeOK' /\ HandInv'
  BY <1>1 DEF FInv, FTypeOK, HandInv
<1>5. FrameInv'
  BY <1>1 DEF FInv, FrameInv
<1>6. PlaceInv'
  BY <1>1 DEF FInv, PlaceInv, Held
<1>7. SendInv'
  BY <1>1 DEF FInv, SendInv, Taken
<1>4. AloneInv'
  BY <1>1 DEF FInv, AloneInv
<1> QED
  BY <1>2, <1>3, <1>4, <1>5, <1>6, <1>7 DEF FInv

\* What a read of the socket does to everything but RegisterFrame.
LEMMA ReadFInv ==
  ASSUME FInv, OwnClear, NEW r \in Readers, Read(r), reg' \in {reg, "callback"},
         UNCHANGED <<vars, listening, frames, made, txq, sends, posts, status, alone>>
  PROVE  /\ FTypeOK' /\ HandInv' /\ FrameInv' /\ PlaceInv' /\ SendInv'
         /\ hand'[r] = Head(inbox) /\ hand'[r] # None
         /\ \A q \in Producers : q # r => hand'[q] = hand[q]
<1> DEFINE h == inbox[1]
<1>1. /\ 1 \in DOMAIN inbox /\ h = Head(inbox) /\ h \in Messages /\ h # None
      /\ inbox' \in Seq(Messages)
      /\ \A i \in DOMAIN inbox' : i \in Nat /\ i > 0 /\ i + 1 \in DOMAIN inbox
                               /\ inbox'[i] = inbox[i + 1]
      /\ \A i \in DOMAIN inbox : i = 1 \/ (i - 1 \in DOMAIN inbox' /\ inbox'[i - 1] = inbox[i])
  BY DEF FInv, FTypeOK, Read
<1>2. /\ hand' \in [Producers -> Messages \cup {None}] /\ hand[r] = None /\ hand'[r] = h
      /\ \A q \in Producers : q # r => hand'[q] = hand[q]
      /\ r \in Producers /\ r # Tx /\ Tx \in Producers
  BY <1>1 DEF FInv, FTypeOK, Read
<1>3. pc[r] = "idle" /\ pc' = pc
  BY <1>2, ProducersPush DEF FInv, HandInv, vars
<1>4. ~IsAnswer(h)
  BY <1>1 DEF FInv, HandInv
<1> HIDE DEF h
<1>5. FTypeOK'
  BY <1>1, <1>2 DEF FInv, FTypeOK
<1>6. HandInv'
  <2>1. \A p \in Producers : pc'[p] = "post" => hand'[p] # None /\ ToPush(hand'[p])
    BY <1>2, <1>3 DEF FInv, HandInv
  <2>2. \A k \in DOMAIN made' : ToPush(made'[k])
    BY DEF FInv, HandInv, ToPush
  <2>3. \A q \in Readers : hand'[q] # None => ~IsAnswer(hand'[q])
    BY <1>2, <1>4 DEF FInv, HandInv
  <2>4. \A k \in DOMAIN inbox' : ~IsAnswer(inbox'[k])
    BY <1>1 DEF FInv, HandInv
  <2>5. hand'[Tx] # None => IsAnswer(hand'[Tx])
    BY <1>2 DEF FInv, HandInv
  <2> QED
    BY <2>1, <2>2, <2>3, <2>4, <2>5 DEF HandInv, ToPush, IsAnswer
<1>7. FrameInv'
  <2>1. \A i \in DOMAIN frames' : IsFrame(frames'[i]) /\ frames'[i].n = i
    BY DEF FInv, FrameInv, IsFrame
  <2>2. \A k \in DOMAIN inbox' : IsFrame(inbox'[k]) =>
          inbox'[k].n \in DOMAIN frames' /\ inbox'[k] = frames'[inbox'[k].n]
    BY <1>1 DEF FInv, FrameInv
  <2>3. \A p \in Producers : hand'[p] # None /\ IsFrame(hand'[p]) =>
          hand'[p].n \in DOMAIN frames' /\ hand'[p] = frames'[hand'[p].n]
    BY <1>1, <1>2 DEF FInv, FrameInv, h
  <2>4. \A k \in DOMAIN made' : IsFrame(made'[k]) =>
          /\ made'[k].type = "frame"
          /\ made'[k].n \in DOMAIN frames' /\ made'[k] = frames'[made'[k].n]
    BY DEF FInv, FrameInv, IsFrame
  <2>5. \A j, k \in DOMAIN inbox' :
          IsFrame(inbox'[j]) /\ IsFrame(inbox'[k]) /\ j < k => inbox'[j].n < inbox'[k].n
    BY <1>1 DEF FInv, FrameInv
  <2>6. \A p \in Producers, k \in DOMAIN inbox' :
          hand'[p] # None /\ IsFrame(hand'[p]) /\ IsFrame(inbox'[k]) => hand'[p].n < inbox'[k].n
    <3> SUFFICES ASSUME NEW p \in Producers, NEW k \in DOMAIN inbox',
                        hand'[p] # None, IsFrame(hand'[p]), IsFrame(inbox'[k])
                 PROVE  hand'[p].n < inbox'[k].n
      OBVIOUS
    <3>1. CASE p = r
      BY <3>1, <1>1, <1>2 DEF FInv, FrameInv, h
    <3>2. CASE p # r
      BY <3>2, <1>1, <1>2 DEF FInv, FrameInv
    <3> QED
      BY <3>1, <3>2
  <2>7. \A j \in DOMAIN made', k \in DOMAIN inbox' :
          IsFrame(made'[j]) /\ IsFrame(inbox'[k]) => made'[j].n < inbox'[k].n
    BY <1>1 DEF FInv, FrameInv, IsFrame
  <2> QED
    BY <2>1, <2>2, <2>3, <2>4, <2>5, <2>6, <2>7 DEF FrameInv, IsFrame
<1>8. PlaceInv'
  <2>0. IsFrame(h) => /\ \A q \in Producers : hand[q] # h
                      /\ \A k \in DOMAIN made : made[k] # h
    <3>1. h.n \in Nat
      BY <1>1 DEF Messages
    <3>2. ASSUME IsFrame(h), NEW q \in Producers, hand[q] = h PROVE FALSE
      <4>1. hand[q].n < inbox[1].n
        BY <3>2, <1>1 DEF FInv, FrameInv, h
      <4> QED
        BY <3>1, <3>2, <4>1 DEF h
    <3>3. ASSUME IsFrame(h), NEW k \in DOMAIN made, made[k] = h PROVE FALSE
      <4>1. made[k].n < inbox[1].n
        BY <3>3, <1>1 DEF FInv, FrameInv, h
      <4> QED
        BY <3>1, <3>3, <4>1 DEF h
    <3> QED
      BY <3>2, <3>3
  <2>1. \A p, q \in Producers :
          hand'[p] # None /\ IsFrame(hand'[p]) /\ hand'[p] = hand'[q] => p = q
    BY <1>2, <2>0 DEF FInv, PlaceInv
  <2>2. \A p \in Producers, k \in DOMAIN made' : hand'[p] = made'[k] => pc'[p] = "post"
    <3>1. \A k \in DOMAIN made : made[k] # h
      BY <2>0, <1>4 DEF FInv, HandInv, ToPush, IsAnswer, IsFrame, AnswerTypes, FrameTypes
    <3> QED
      BY <3>1, <1>2, <1>3 DEF FInv, PlaceInv
  <2>3. \A n \in DOMAIN frames' : frames'[n].type = "frame" =>
          \/ \E k \in DOMAIN inbox' : inbox'[k] = frames'[n]
          \/ \E p \in Producers : hand'[p] = frames'[n] /\ pc'[p] = "idle"
          \/ \E k \in DOMAIN made' : made'[k] = frames'[n]
    <3> SUFFICES ASSUME NEW n \in DOMAIN frames, frames[n].type = "frame"
                 PROVE  \/ \E k \in DOMAIN inbox' : inbox'[k] = frames[n]
                        \/ \E p \in Producers : hand'[p] = frames[n] /\ pc[p] = "idle"
                        \/ \E k \in DOMAIN made : made[k] = frames[n]
      BY <1>3
    <3>1. CASE \E k \in DOMAIN inbox : inbox[k] = frames[n]
      BY <3>1, <1>1, <1>2, <1>3 DEF h
    <3>2. CASE \E p \in Producers : Held(p, frames[n])
      <4>1. frames[n] # None
        BY DEF FInv, FTypeOK
      <4> QED
        BY <3>2, <4>1, <1>2 DEF Held
    <3> QED
      BY <3>1, <3>2 DEF FInv, PlaceInv
  <2> QED
    BY <2>1, <2>2, <2>3 DEF FInv, PlaceInv, Held, IsFrame
<1>9. SendInv'
  BY <1>2, <1>3 DEF FInv, SendInv, Taken, IsAnswer, Sent, Unsent
<1> QED
  BY <1>1, <1>2, <1>5, <1>6, <1>7, <1>8, <1>9

LEMMA EventReadFInv ==
  ASSUME FInv, OwnClear, EventRead
  PROVE  FInv'
<1>1. /\ Read(Event) /\ listening
      /\ UNCHANGED <<vars, listening, frames, made, txq, sends, reg, posts, status, did, alone>>
  BY DEF EventRead, tx, event
<1>2. /\ FTypeOK' /\ HandInv' /\ FrameInv' /\ PlaceInv' /\ SendInv'
      /\ \A q \in Producers : q # Event => hand'[q] = hand[q]
  BY <1>1, ReadFInv
<1>3. AloneInv'
  BY <1>1, <1>2 DEF FInv, AloneInv
<1> QED
  BY <1>1, <1>2, <1>3, QueueUnchanged DEF FInv

LEMMA CallerReadFInv ==
  ASSUME FInv, OwnClear, CallerRead
  PROVE  FInv'
<1>1. /\ Read(Caller) /\ reg = "recv" /\ reg' = "callback"
      /\ UNCHANGED <<vars, listening, frames, made, txq, sends, posts, status, did, alone>>
  BY DEF CallerRead, tx
<1>2. /\ FTypeOK' /\ HandInv' /\ FrameInv' /\ PlaceInv' /\ SendInv'
      /\ hand'[Caller] = Head(inbox) /\ hand'[Caller] # None
      /\ \A q \in Producers : q # Caller => hand'[q] = hand[q]
  BY <1>1, ReadFInv
<1>3. \A m : Head(<<m>>) = m
  OBVIOUS
<1>4. AloneInv'
  BY <1>1, <1>2, <1>3 DEF FInv, AloneInv, Ack, Error
<1> QED
  BY <1>1, <1>2, <1>4, QueueUnchanged DEF FInv

LEMMA PushHandFInv ==
  ASSUME FInv, NEW p \in Producers, PushHand(p)
  PROVE  FInv'
<1> DEFINE m == hand[p]  l == Len(made) + 1
<1>1. /\ m # None /\ ToPush(m) /\ Push(p) /\ made' = Append(made, m)
      /\ UNCHANGED <<listening, frames, inbox, hand, txq, sends, reg, status, posts, did, alone>>
  BY DEF PushHand, kernel, tx, event
<1>2. /\ pc[p] = "idle" /\ pc'[p] = "post" /\ m \in Messages
      /\ \A q \in Producers : q # p => pc'[q] = pc[q]
  BY <1>1 DEF Push, Goto, FInv, IInv, TypeOK, FTypeOK
<1>3. /\ made' \in Seq(Messages) /\ l \in Nat /\ made'[l] = m
      /\ DOMAIN made' = DOMAIN made \cup {l}
      /\ \A k \in DOMAIN made : k \in Nat /\ k < l /\ made'[k] = made[k]
  BY <1>1, <1>2 DEF FInv, FTypeOK
<1> HIDE DEF l, m
<1>4. IInv'
  BY <1>1, PushIInv DEF FInv
<1>5. FTypeOK'
  BY <1>1, <1>3 DEF FInv, FTypeOK
<1>6. HandInv'
  <2>1. \A k \in DOMAIN made' : ToPush(made'[k])
    BY <1>1, <1>3 DEF FInv, HandInv, ToPush
  <2>2. \A q \in Producers : pc'[q] = "post" => hand'[q] # None /\ ToPush(hand'[q])
    BY <1>1, <1>2 DEF FInv, HandInv, m
  <2> QED
    BY <2>1, <2>2, <1>1 DEF FInv, HandInv, ToPush, IsAnswer
<1>7. FrameInv'
  <2>1. IsFrame(m) => m.type = "frame" /\ m.n \in DOMAIN frames /\ m = frames[m.n]
    BY <1>1 DEF FInv, FrameInv, m, ToPush, IsFrame, FrameTypes
  <2>2. \A k \in DOMAIN made' : IsFrame(made'[k]) =>
          /\ made'[k].type = "frame"
          /\ made'[k].n \in DOMAIN frames' /\ made'[k] = frames'[made'[k].n]
    BY <2>1, <1>1, <1>3 DEF FInv, FrameInv
  <2>3. \A j \in DOMAIN made', k \in DOMAIN inbox' :
          IsFrame(made'[j]) /\ IsFrame(inbox'[k]) => made'[j].n < inbox'[k].n
    BY <1>1, <1>3 DEF FInv, FrameInv, m
  <2> QED
    BY <2>2, <2>3, <1>1 DEF FInv, FrameInv, IsFrame
<1>8. \A k \in DOMAIN made : made[k] # m
  BY <1>2 DEF FInv, PlaceInv, m
<1>9. IsAnswer(m) => p = Tx
  BY <1>1 DEF FInv, HandInv, m
<1>10. ~IsAnswer(m) => IsFrame(m)
  BY <1>1 DEF ToPush, IsAnswer, IsFrame, AnswerTypes, FrameTypes
<1>11. PlaceInv'
  <2>1. \A q \in Producers, k \in DOMAIN made' : hand'[q] = made'[k] => pc'[q] = "post"
    <3> SUFFICES ASSUME NEW q \in Producers, hand[q] = m PROVE q = p
      BY <1>1, <1>2, <1>3 DEF FInv, PlaceInv
    <3>1. CASE IsAnswer(m)
      BY <3>1, <1>1, <1>9 DEF FInv, HandInv
    <3>2. CASE IsFrame(m)
      BY <3>2, <1>1 DEF FInv, PlaceInv, m
    <3> QED
      BY <3>1, <3>2, <1>10
  <2>2. \A j, k \in DOMAIN made' : made'[j] = made'[k] => j = k
    BY <1>3, <1>8 DEF FInv, PlaceInv
  <2>3. \A n \in DOMAIN frames' : frames'[n].type = "frame" =>
          \/ \E k \in DOMAIN inbox' : inbox'[k] = frames'[n]
          \/ \E q \in Producers : hand'[q] = frames'[n] /\ pc'[q] = "idle"
          \/ \E k \in DOMAIN made' : made'[k] = frames'[n]
    <3> SUFFICES ASSUME NEW n \in DOMAIN frames, frames[n].type = "frame"
                 PROVE  \/ \E k \in DOMAIN inbox : inbox[k] = frames[n]
                        \/ \E q \in Producers : hand[q] = frames[n] /\ pc'[q] = "idle"
                        \/ \E k \in DOMAIN made' : made'[k] = frames[n]
      BY <1>1
    <3>1. CASE \E q \in Producers : Held(q, frames[n])
      BY <3>1, <1>2, <1>3 DEF Held, m
    <3>2. CASE \E k \in DOMAIN made : made[k] = frames[n]
      BY <3>2, <1>3
    <3> QED
      BY <3>1, <3>2 DEF FInv, PlaceInv
  <2> QED
    BY <2>1, <2>2, <2>3, <1>1 DEF FInv, PlaceInv, Held, IsFrame
<1>12. SendInv'
  <2>1. /\ Taken' = Taken /\ \A i \in DOMAIN txq' : txq'[i] = Taken' + i
        /\ Taken' \in Nat /\ (hand'[Tx] # None => hand'[Tx].n = Taken' /\ Taken' > 0)
    BY <1>1 DEF FInv, SendInv, Taken
  <2>2. IsAnswer(m) => /\ m = hand[Tx] /\ m.n = Taken /\ pc'[Tx] = "post"
                       /\ m \in {Sent(Taken), Unsent(Taken)} /\ Taken \in 1..Taken
    <3> SUFFICES ASSUME IsAnswer(m)
                 PROVE  /\ m = hand[Tx] /\ m.n = Taken /\ pc'[Tx] = "post"
                        /\ m \in {Sent(Taken), Unsent(Taken)} /\ Taken \in 1..Taken
      OBVIOUS
    <3>1. p = Tx /\ m = hand[Tx] /\ m.n = Taken
      BY <1>1, <1>9 DEF FInv, SendInv, m
    <3>2. m \in {Sent(Taken), Unsent(Taken)}
      <4>1. m \in Messages /\ m.type \in {"sent", "unsent"} /\ m.n = Taken
        BY <3>1, <1>2 DEF IsAnswer, AnswerTypes
      <4> QED
        BY <4>1 DEF Messages, Sent, Unsent
    <3>3. Taken > 0
      BY <1>1, <1>2, <3>1 DEF FInv, SendInv, m
    <3> QED
      BY <3>1, <3>2, <3>3, <1>2 DEF FInv, SendInv
  <2>3. pc'[Tx] = "idle" => pc[Tx] = "idle"
    BY <1>2
  <2>4. \A k \in DOMAIN made' : IsAnswer(made'[k]) =>
          made'[k].n \in 1..Taken' /\ (hand'[Tx] # None /\ pc'[Tx] = "idle" => made'[k].n # Taken')
    BY <2>1, <2>2, <2>3, <1>1, <1>3 DEF FInv, SendInv
  <2>5. \A k \in 1..Taken' :
          \/ \E i \in DOMAIN made' : made'[i] \in {Sent(k), Unsent(k)}
          \/ k = Taken' /\ hand'[Tx] # None /\ pc'[Tx] = "idle"
    <3> SUFFICES ASSUME NEW k \in 1..Taken
                 PROVE  \/ \E i \in DOMAIN made' : made'[i] \in {Sent(k), Unsent(k)}
                        \/ k = Taken /\ hand[Tx] # None /\ pc'[Tx] = "idle"
      BY <1>1, <2>1
    <3>1. CASE \E i \in DOMAIN made : made[i] \in {Sent(k), Unsent(k)}
      BY <3>1, <1>3
    <3>2. CASE k = Taken /\ hand[Tx] # None /\ pc[Tx] = "idle"
      <4>1. CASE p = Tx
        <5>1. IsAnswer(m)
          BY <4>1, <1>1 DEF FInv, HandInv, m
        <5> QED
          BY <5>1, <2>2, <3>2, <1>3
      <4>2. CASE p # Tx
        BY <4>2, <3>2, <1>2
      <4> QED
        BY <4>1, <4>2
    <3> QED
      BY <3>1, <3>2 DEF FInv, SendInv
  <2>6. \A i, j \in DOMAIN made' :
          IsAnswer(made'[i]) /\ IsAnswer(made'[j]) /\ i < j => made'[i].n < made'[j].n
    <3> SUFFICES ASSUME NEW i \in DOMAIN made', NEW j \in DOMAIN made',
                        IsAnswer(made'[i]), IsAnswer(made'[j]), i < j
                 PROVE  made'[i].n < made'[j].n
      BY DEF IsAnswer
    <3>1. i \in DOMAIN made /\ made'[i] = made[i]
      BY <1>3
    <3>2. CASE j = l
      <4>1. IsAnswer(m) /\ m.n = Taken /\ hand[Tx] # None /\ pc[Tx] = "idle"
        BY <3>2, <2>2, <1>1, <1>2, <1>3, <1>9
      <4>2. made[i].n \in 1..Taken /\ made[i].n # Taken
        BY <4>1, <3>1 DEF FInv, SendInv
      <4> QED
        BY <4>1, <4>2, <3>1, <3>2, <1>3, <2>1
    <3>3. CASE j \in DOMAIN made
      BY <3>1, <3>3, <1>3 DEF FInv, SendInv
    <3> QED
      BY <3>2, <3>3, <1>3
  <2> QED
    BY <2>1, <2>4, <2>5, <2>6 DEF SendInv, IsAnswer, Sent, Unsent
<1>13. AloneInv'
  BY <1>1 DEF FInv, AloneInv
<1> QED
  BY <1>4, <1>5, <1>6, <1>7, <1>11, <1>12, <1>13 DEF FInv

\* The hand of p is emptied, or holds what is neither a frame nor an answer.
LEMMA LetGo ==
  ASSUME FInv, FTypeOK', NEW p \in Producers,
         hand'[p] = None \/ (p # Tx /\ hand'[p] = Pushed),
         \A q \in Producers : q # p => hand'[q] = hand[q] /\ pc'[q] = pc[q],
         pc'[p] = "idle", pc[p] = "post" \/ (p # Tx /\ ~ToPush(hand[p])),
         UNCHANGED <<frames, inbox, made, txq, sends>>
  PROVE  HandInv' /\ FrameInv' /\ PlaceInv' /\ SendInv'
<1>1. hand'[p] # None => ~IsFrame(hand'[p]) /\ ~IsAnswer(hand'[p]) /\ ~ToPush(hand'[p])
  BY DEF Pushed, IsFrame, IsAnswer, ToPush, FrameTypes, AnswerTypes
<1>2. \A k \in DOMAIN made : made[k] # hand'[p]
  BY <1>1 DEF FInv, HandInv, FTypeOK
<1>3. HandInv'
  <2>1. \A q \in Producers : pc'[q] = "post" => hand'[q] # None /\ ToPush(hand'[q])
    BY DEF FInv, HandInv
  <2>2. hand'[Tx] # None => IsAnswer(hand'[Tx])
    BY DEF FInv, HandInv
  <2>3. \A r \in Readers : hand'[r] # None => ~IsAnswer(hand'[r])
    BY <1>1 DEF FInv, HandInv
  <2> QED
    BY <2>1, <2>2, <2>3 DEF FInv, HandInv, ToPush, IsAnswer
<1>4. FrameInv'
  <2>1. \A q \in Producers : hand'[q] # None /\ IsFrame(hand'[q]) => hand'[q] = hand[q]
    BY <1>1
  <2> QED
    BY <2>1 DEF FInv, FrameInv, IsFrame
<1>5. PlaceInv'
  <2>1. \A q, s \in Producers :
          hand'[q] # None /\ IsFrame(hand'[q]) /\ hand'[q] = hand'[s] => q = s
    BY <1>1 DEF FInv, PlaceInv
  <2>2. \A q \in Producers, k \in DOMAIN made : hand'[q] = made[k] => pc'[q] = "post"
    BY <1>2 DEF FInv, PlaceInv
  <2>3. \A n \in DOMAIN frames : frames[n].type = "frame" =>
          \/ \E k \in DOMAIN inbox : inbox[k] = frames[n]
          \/ \E q \in Producers : hand'[q] = frames[n] /\ pc'[q] = "idle"
          \/ \E k \in DOMAIN made : made[k] = frames[n]
    <3> SUFFICES ASSUME NEW n \in DOMAIN frames, frames[n].type = "frame",
                        NEW q \in Producers, Held(q, frames[n])
                 PROVE  hand'[q] = frames[n] /\ pc'[q] = "idle"
      BY DEF FInv, PlaceInv
    <3>1. q # p
      BY DEF Held, ToPush
    <3> QED
      BY <3>1 DEF Held
  <2> QED
    BY <2>1, <2>2, <2>3 DEF FInv, PlaceInv, Held, IsFrame
<1>6. SendInv'
  <2>1. Taken' = Taken
    BY DEF Taken
  <2>2. hand'[Tx] # None => hand'[Tx] = hand[Tx] /\ pc'[Tx] = pc[Tx]
    OBVIOUS
  <2>3. hand[Tx] # None /\ pc[Tx] = "idle" => hand'[Tx] = hand[Tx] /\ pc'[Tx] = pc[Tx]
    OBVIOUS
  <2> QED
    BY <2>1, <2>2, <2>3 DEF FInv, SendInv, IsAnswer, Sent, Unsent
<1> QED
  BY <1>3, <1>4, <1>5, <1>6

LEMMA PostHandFInv ==
  ASSUME FInv, NEW p \in Producers, PostHand(p)
  PROVE  FInv'
<1>1. /\ PushPost(p) /\ hand' = [hand EXCEPT ![p] = IF p = Tx THEN None ELSE Pushed]
      /\ UNCHANGED <<listening, frames, inbox, made, txq, sends, reg, status, posts, did, alone>>
  BY DEF PostHand, kernel, tx, event
<1>2. /\ pc[p] = "post" /\ pc'[p] = "idle"
      /\ \A q \in Producers : q # p => pc'[q] = pc[q]
  BY <1>1 DEF PushPost, Goto, FInv, IInv, TypeOK
<1>3. Pushed \in Messages
  BY DEF Pushed, Messages
<1>4. /\ FTypeOK'
      /\ hand'[p] = IF p = Tx THEN None ELSE Pushed
      /\ \A q \in Producers : q # p => hand'[q] = hand[q]
  BY <1>1, <1>3 DEF FInv, FTypeOK
<1>5. hand[p] # None /\ ToPush(hand[p])
  BY <1>2 DEF FInv, HandInv
<1>6. HandInv' /\ FrameInv' /\ PlaceInv' /\ SendInv'
  BY <1>1, <1>2, <1>4, LetGo
<1>7. AloneInv'
  <2>1. ~(hand[p] = IF did = "done" THEN Ack ELSE Error)
    BY <1>5 DEF ToPush, Ack, Error
  <2>2. ~listening => hand'[Event] = None
    BY <1>1, <1>4, <1>5 DEF FInv, AloneInv
  <2>3. hand'[Caller] # None <=> hand[Caller] # None
    BY <1>3, <1>4, <1>5
  <2> QED
    BY <1>1, <1>4, <2>1, <2>2, <2>3 DEF FInv, AloneInv, Ack, Error
<1> QED
  BY <1>1, <1>4, <1>6, <1>7, PushPostIInv DEF FInv

LEMMA CallbackFInv ==
  ASSUME FInv, OwnClear, NEW r \in Readers, Callback(r)
  PROVE  FInv'
<1>1. /\ hand[r] # None /\ ~ToPush(hand[r]) /\ status' = Answered(hand[r]) /\ posts' = posts + 1
      /\ hand' = [hand EXCEPT ![r] = None] /\ reg' = IF r = Caller THEN "wait" ELSE reg
      /\ UNCHANGED <<vars, listening, frames, inbox, made, txq, sends, did, alone>>
  BY DEF Callback, kernel, tx
<1>2. pc[r] = "idle" /\ pc' = pc
  BY <1>1, ProducersPush DEF FInv, HandInv, vars
<1>3. /\ FTypeOK'
      /\ hand'[r] = None /\ \A q \in Producers : q # r => hand'[q] = hand[q]
  BY <1>1 DEF FInv, FTypeOK, Answered
<1>4. HandInv' /\ FrameInv' /\ PlaceInv' /\ SendInv'
  BY <1>1, <1>2, <1>3, LetGo
<1>5. AloneInv'
  <2>1. CASE r = Event
    BY <2>1, <1>1, <1>3 DEF FInv, AloneInv
  <2>2. CASE r = Caller
    <3>1. reg = "callback" /\ reg' = "wait"
      BY <2>2, <1>1 DEF FInv, AloneInv
    <3>2. alone => (status' <=> did = "done")
      <4> SUFFICES ASSUME alone PROVE status' <=> did = "done"
        OBVIOUS
      <4>1. hand[Caller] = IF did = "done" THEN Ack ELSE Error
        BY <3>1 DEF FInv, AloneInv
      <4>2. Answered(Ack) /\ ~Answered(Error)
        BY DEF Answered, Ack, Error
      <4>3. CASE did = "done"
        BY <4>1, <4>2, <4>3, <2>2, <1>1
      <4>4. CASE did # "done"
        BY <4>1, <4>2, <4>4, <2>2, <1>1
      <4> QED
        BY <4>3, <4>4
    <3> QED
      BY <3>1, <3>2, <2>2, <1>1, <1>3 DEF FInv, AloneInv
  <2> QED
    BY <2>1, <2>2
<1> QED
  BY <1>1, <1>3, <1>4, <1>5, QueueUnchanged DEF FInv

LEMMA RegisterFInv ==
  ASSUME FInv, Register
  PROVE  FInv'
<1>1. PICK a \in {Ack, Error} :
        /\ inbox' = Append(inbox, a)
        /\ a = IF did' = "done" THEN Ack ELSE Error
        /\ did' \in {"done", "refused"}
  BY DEF Register
<1>2. /\ reg = "idle" /\ reg' = "recv" /\ status' = FALSE
      /\ alone' = (~listening /\ inbox = << >> /\ posts = 0)
      /\ pc' = pc
      /\ UNCHANGED <<vars, listening, frames, hand, made, txq, sends, posts>>
  BY DEF Register, tx, vars
<1>3. a \in Messages /\ ~IsFrame(a) /\ ~IsAnswer(a)
  BY DEF Ack, Error, Messages, FrameTypes, IsFrame, IsAnswer, AnswerTypes
<1> DEFINE l == Len(inbox) + 1
<1>4. /\ inbox' \in Seq(Messages) /\ inbox'[l] = a /\ l \in Nat
      /\ DOMAIN inbox' = DOMAIN inbox \cup {l}
      /\ \A i \in DOMAIN inbox : i \in Nat /\ i < l /\ inbox'[i] = inbox[i]
  BY <1>1, <1>3 DEF FInv, FTypeOK
<1> HIDE DEF l
<1>5. FTypeOK'
  BY <1>2, <1>4 DEF FInv, FTypeOK
<1>6. HandInv'
  BY <1>2, <1>3, <1>4 DEF FInv, HandInv, ToPush, IsAnswer
<1>7. FrameInv'
  <2>1. \A k \in DOMAIN inbox' : IsFrame(inbox'[k]) => k \in DOMAIN inbox /\ inbox'[k] = inbox[k]
    BY <1>3, <1>4
  <2> QED
    BY <2>1, <1>2 DEF FInv, FrameInv, IsFrame
<1>8. PlaceInv'
  <2>1. \A n \in DOMAIN frames : (\E k \in DOMAIN inbox : inbox[k] = frames[n]) =>
          \E k \in DOMAIN inbox' : inbox'[k] = frames[n]
    BY <1>4
  <2> QED
    BY <2>1, <1>2 DEF FInv, PlaceInv, IsFrame, Held
<1>9. SendInv'
  BY <1>2 DEF FInv, SendInv, Taken, IsAnswer, Sent, Unsent
<1>10. AloneInv'
  <2>1. inbox = << >> => inbox' = <<a>>
    BY <1>1
  <2> QED
    BY <2>1, <1>1, <1>2 DEF FInv, AloneInv, Ack, Error
<1> QED
  BY <1>2, <1>5, <1>6, <1>7, <1>8, <1>9, <1>10, QueueUnchanged DEF FInv

\* What leaves the messages where they are.
LEMMA MessagesStay ==
  ASSUME FInv, UNCHANGED <<frames, inbox, hand, made, txq, sends>>,
         \A p \in Producers : pc'[p] = pc[p]
  PROVE  HandInv' /\ FrameInv' /\ PlaceInv' /\ SendInv'
<1>1. Tx \in Producers
  OBVIOUS
<1>2. HandInv'
  BY DEF FInv, HandInv, ToPush, IsAnswer
<1>3. FrameInv'
  BY DEF FInv, FrameInv, IsFrame
<1>4. PlaceInv'
  BY DEF FInv, PlaceInv, IsFrame, Held
<1>5. SendInv'
  BY <1>1 DEF FInv, SendInv, Taken, IsAnswer, Sent, Unsent
<1> QED
  BY <1>2, <1>3, <1>4, <1>5

LEMMA ReturnsFInv ==
  ASSUME FInv, RegisterNotSent \/ RegisterUnheard \/ RegisterReturns
  PROVE  FInv'
<1>1. /\ UNCHANGED <<vars, listening, frames, inbox, hand, made, txq, sends>> /\ pc' = pc
      /\ reg' = "idle" /\ reg # "callback"
      /\ posts' \in Nat /\ status' \in BOOLEAN
      /\ alone' = FALSE
  <2>1. CASE RegisterNotSent
    <3>1. reg = "idle" /\ alone = FALSE
      BY <2>1 DEF RegisterNotSent, FInv, FTypeOK, AloneInv
    <3> QED
      BY <2>1, <3>1 DEF RegisterNotSent, kernel, tx, vars, FInv, FTypeOK
  <2>2. CASE RegisterUnheard
    BY <2>2 DEF RegisterUnheard, kernel, tx, vars, FInv, FTypeOK
  <2>3. CASE RegisterReturns
    BY <2>3 DEF RegisterReturns, kernel, tx, vars, FInv, FTypeOK
  <2> QED
    BY <2>1, <2>2, <2>3
<1>2. HandInv' /\ FrameInv' /\ PlaceInv' /\ SendInv'
  BY <1>1, MessagesStay
<1>3. FTypeOK'
  BY <1>1 DEF FInv, FTypeOK
<1>4. AloneInv'
  BY <1>1 DEF FInv, AloneInv
<1> QED
  BY <1>1, <1>2, <1>3, <1>4, QueueUnchanged DEF FInv

LEMMA SendFInv ==
  ASSUME FInv, Send
  PROVE  FInv'
<1>1. /\ sends' = sends + 1 /\ txq' = Append(txq, sends + 1) /\ pc' = pc
      /\ UNCHANGED <<vars, listening, frames, inbox, hand, made, reg, status, posts, did, alone>>
  BY DEF Send, kernel, event, vars
<1> DEFINE l == Len(txq) + 1
<1>2. /\ txq' \in Seq(Nat) /\ txq'[l] = sends + 1 /\ l \in Nat /\ Len(txq') = Len(txq) + 1
      /\ DOMAIN txq' = DOMAIN txq \cup {l}
      /\ \A i \in DOMAIN txq : txq'[i] = txq[i]
  BY <1>1 DEF FInv, FTypeOK
<1>3. Taken' = Taken /\ sends + 1 = Taken + l
  BY <1>1, <1>2 DEF Taken, FInv, FTypeOK
<1> HIDE DEF l
<1>4. FTypeOK'
  BY <1>1, <1>2 DEF FInv, FTypeOK
<1>5. HandInv' /\ FrameInv' /\ PlaceInv'
  BY <1>1 DEF FInv, HandInv, ToPush, IsAnswer, FrameInv, IsFrame, PlaceInv, Held
<1>6. SendInv'
  BY <1>1, <1>2, <1>3 DEF FInv, SendInv, IsAnswer, Sent, Unsent
<1>7. AloneInv'
  BY <1>1 DEF FInv, AloneInv
<1> QED
  BY <1>1, <1>4, <1>5, <1>6, <1>7, QueueUnchanged DEF FInv

LEMMA TxSendFInv ==
  ASSUME FInv, TxSend
  PROVE  FInv'
<1>1. PICK m \in {Sent(Head(txq)), Unsent(Head(txq))} : hand' = [hand EXCEPT ![Tx] = m]
  BY DEF TxSend
<1>2. /\ hand[Tx] = None /\ pc[Tx] = "idle" /\ txq # << >> /\ txq' = Tail(txq) /\ pc' = pc
      /\ UNCHANGED <<vars, listening, frames, inbox, made, sends, reg, status, posts, did, alone>>
  BY DEF TxSend, event, vars
<1> DEFINE k1 == Taken + 1
<1>3. /\ Head(txq) = k1 /\ k1 \in Nat /\ Taken \in Nat /\ txq' \in Seq(Nat) /\ Taken' = k1
      /\ \A i \in DOMAIN txq' : i \in Nat /\ i + 1 \in DOMAIN txq /\ txq'[i] = txq[i + 1]
  <2>1. /\ txq \in Seq(Nat) /\ sends \in Nat /\ Taken \in Nat
        /\ \A i \in DOMAIN txq : txq[i] = Taken + i
    BY DEF FInv, FTypeOK, SendInv
  <2>2. /\ 1 \in DOMAIN txq /\ Head(txq) = txq[1] /\ txq' \in Seq(Nat)
        /\ Len(txq') = Len(txq) - 1 /\ Len(txq) \in Nat /\ Len(txq) > 0
        /\ \A i \in DOMAIN txq' : i \in Nat /\ i + 1 \in DOMAIN txq /\ txq'[i] = txq[i + 1]
    BY <2>1, <1>2
  <2>3. Taken' = Taken + 1
    BY <2>1, <2>2, <1>2 DEF Taken
  <2> QED
    BY <2>1, <2>2, <2>3
<1>4. m \in Messages /\ m # None /\ m.n = k1 /\ IsAnswer(m) /\ ~IsFrame(m) /\ ToPush(m)
  BY <1>3 DEF Sent, Unsent, Messages, IsAnswer, IsFrame, AnswerTypes, FrameTypes, ToPush
<1>5. /\ hand' \in [Producers -> Messages \cup {None}] /\ hand'[Tx] = m
      /\ \A p \in Producers : p # Tx => hand'[p] = hand[p]
  BY <1>1, <1>4 DEF FInv, FTypeOK
<1>6. \A k \in DOMAIN made : made[k] # m
  <2> SUFFICES ASSUME NEW k \in DOMAIN made, made[k] = m PROVE FALSE
    OBVIOUS
  <2>1. made[k].n \in 1..Taken
    BY <1>4 DEF FInv, SendInv
  <2> QED
    BY <2>1, <1>3, <1>4
<1> HIDE DEF k1
<1>7. FTypeOK'
  BY <1>2, <1>3, <1>5 DEF FInv, FTypeOK
<1>8. HandInv'
  <2>1. \A p \in Producers : pc'[p] = "post" => hand'[p] # None /\ ToPush(hand'[p])
    BY <1>2, <1>4, <1>5 DEF FInv, HandInv
  <2>2. \A r \in Readers : hand'[r] # None => ~IsAnswer(hand'[r])
    BY <1>5 DEF FInv, HandInv
  <2> QED
    BY <2>1, <2>2, <1>2, <1>4, <1>5 DEF FInv, HandInv, ToPush, IsAnswer
<1>9. FrameInv'
  <2>1. \A p \in Producers : hand'[p] # None /\ IsFrame(hand'[p]) => hand'[p] = hand[p]
    BY <1>4, <1>5
  <2> QED
    BY <2>1, <1>2 DEF FInv, FrameInv, IsFrame
<1>10. PlaceInv'
  <2>1. \A p, q \in Producers :
          hand'[p] # None /\ IsFrame(hand'[p]) /\ hand'[p] = hand'[q] => p = q
    BY <1>4, <1>5 DEF FInv, PlaceInv
  <2>2. \A p \in Producers, k \in DOMAIN made : hand'[p] = made[k] => pc'[p] = "post"
    BY <1>2, <1>5, <1>6 DEF FInv, PlaceInv
  <2>3. \A n \in DOMAIN frames : frames[n].type = "frame" =>
          \/ \E k \in DOMAIN inbox : inbox[k] = frames[n]
          \/ \E p \in Producers : hand'[p] = frames[n] /\ pc'[p] = "idle"
          \/ \E k \in DOMAIN made : made[k] = frames[n]
    <3> SUFFICES ASSUME NEW n \in DOMAIN frames, frames[n].type = "frame",
                        NEW p \in Producers, Held(p, frames[n])
                 PROVE  hand'[p] = frames[n] /\ pc'[p] = "idle"
      BY DEF FInv, PlaceInv
    <3>1. frames[n] # None
      BY DEF FInv, FTypeOK
    <3> QED
      BY <3>1, <1>2, <1>5 DEF Held
  <2> QED
    BY <2>1, <2>2, <2>3, <1>2 DEF FInv, PlaceInv, Held, IsFrame
<1>11. SendInv'
  <2>1. Taken' > 0 /\ \A i \in DOMAIN txq' : txq'[i] = Taken' + i
    <3>1. \A i \in DOMAIN txq : txq[i] = Taken + i
      BY DEF FInv, SendInv
    <3>2. Taken' = Taken + 1 /\ Taken \in Nat
      BY <1>3 DEF k1
    <3>3. ASSUME NEW i \in DOMAIN txq' PROVE txq'[i] = Taken' + i
      <4>1. i \in Nat /\ txq'[i] = Taken + (i + 1)
        BY <1>3, <3>1
      <4> QED
        BY <3>2, <4>1
    <3> QED
      BY <3>2, <3>3
  <2>2. \A k \in DOMAIN made : IsAnswer(made[k]) => made[k].n \in 1..k1 /\ made[k].n # k1
    BY <1>3 DEF FInv, SendInv, k1
  <2>3. \A k \in 1..k1 : (\E i \in DOMAIN made : made[i] \in {Sent(k), Unsent(k)}) \/ k = k1
    BY <1>2, <1>3 DEF FInv, SendInv, k1
  <2>4. hand'[Tx] # None /\ hand'[Tx].n = Taken' /\ pc'[Tx] = "idle"
    BY <1>2, <1>3, <1>4, <1>5
  <2> QED
    BY <2>1, <2>2, <2>3, <2>4, <1>2, <1>3 DEF FInv, SendInv, IsAnswer, Sent, Unsent
<1>12. AloneInv'
  BY <1>2, <1>5 DEF FInv, AloneInv, Ack, Error
<1> QED
  BY <1>2, <1>7, <1>8, <1>9, <1>10, <1>11, <1>12, QueueUnchanged DEF FInv

LEMMA ConsumeFInv ==
  ASSUME FInv, OwnClear, Consume
  PROVE  FInv'
<1>1. UNCHANGED <<listening, frames, inbox, hand, made, txq, sends, reg, status, posts, did, alone>>
  BY DEF Consume, kernel, tx, event
<1>2. IInv' /\ \A p \in Producers : pc'[p] = pc[p]
  <2>1. ASSUME NEW c \in Consumers, WaitPoll(c) \/ WaitRead(c) \/ Front(c) \/ Pop(c)
        PROVE  IInv' /\ \A p \in Producers : pc'[p] = pc[p]
    <3>1. IInv'
      BY <2>1, WaitPollIInv, WaitReadIInv, FrontIInv, PopIInv DEF FInv
    <3>2. \A p \in Producers : pc'[p] = pc[p]
      BY <2>1 DEF WaitPoll, WaitRead, Front, Pop, Goto, FInv, IInv, TypeOK
    <3> QED
      BY <3>1, <3>2
  <2>2. ASSUME NEW c \in Clearers, Clear(c) \/ ClearDrain(c) \/ ClearItems(c)
        PROVE  IInv' /\ \A p \in Producers : pc'[p] = pc[p]
    <3>1. IInv'
      BY <2>2, ClearIInv, ClearDrainIInv, ClearItemsIInv DEF FInv
    <3>2. c \notin Producers
      BY DEF OwnClear
    <3>3. \A p \in Producers : pc'[p] = pc[p]
      BY <2>2, <3>2 DEF Clear, ClearDrain, ClearItems, Goto, FInv, IInv, TypeOK
    <3> QED
      BY <3>1, <3>3
  <2> QED
    BY <2>1, <2>2 DEF Consume
<1>3. HandInv' /\ FrameInv' /\ PlaceInv' /\ SendInv'
  BY <1>1, <1>2, MessagesStay
<1>4. FTypeOK' /\ AloneInv'
  BY <1>1 DEF FInv, FTypeOK, AloneInv
<1> QED
  BY <1>2, <1>3, <1>4 DEF FInv

LEMMA FNextFInv ==
  ASSUME FInv, OwnClear, [FNext]_all
  PROVE  FInv'
<1>1. CASE UNCHANGED all
  <2>1. /\ UNCHANGED vars /\ pc' = pc
        /\ UNCHANGED <<listening, frames, inbox, hand, made, txq, sends, reg, status, posts, did, alone>>
    BY <1>1 DEF all, vars, kernel, tx, event
  <2>2. FTypeOK' /\ AloneInv'
    BY <2>1 DEF FInv, FTypeOK, AloneInv
  <2> QED
    BY <2>1, <2>2, MessagesStay, QueueUnchanged DEF FInv
<1>2. CASE KernelFrame \/ Listen \/ EventRead \/ CallerRead
  BY <1>2, KernelFrameFInv, ListenFInv, EventReadFInv, CallerReadFInv
<1>3. ASSUME NEW p \in Producers, PushHand(p) \/ PostHand(p)
      PROVE  FInv'
  BY <1>3, PushHandFInv, PostHandFInv
<1>4. ASSUME NEW r \in Readers, Callback(r)
      PROVE  FInv'
  BY <1>4, CallbackFInv
<1>5. CASE Register \/ RegisterNotSent \/ RegisterUnheard \/ RegisterReturns
  BY <1>5, RegisterFInv, ReturnsFInv
<1>6. CASE Send \/ TxSend \/ Consume
  BY <1>6, SendFInv, TxSendFInv, ConsumeFInv
<1> QED
  BY <1>1, <1>2, <1>3, <1>4, <1>5, <1>6 DEF FNext

\* The invariant holds in every state of every behaviour of a FrameSocket.
THEOREM FInvariance ==
  ASSUME OwnClear
  PROVE  FSpec => []FInv
<1>1. FInit => FInv
  BY FInitFInv
<1>2. FInv /\ [FNext]_all => FInv'
  BY FNextFInv
<1> QED
  BY <1>1, <1>2, PTL DEF FSpec

\* No frame that the kernel reports and no packet that is sent is lost, doubled
\* or, between the one socket and its readers, taken for another.
THEOREM NoneIsLost ==
  ASSUME OwnClear
  PROVE  FSpec => []Accounted
<1>1. FInv => Accounted
  BY FramesAreAccounted, SendsAreAnswered DEF Accounted
<1> QED
  BY <1>1, FInvariance, PTL

\* RegisterFrame returns what the kernel answered when nothing else is read.
THEOREM AnsweredByKernel ==
  ASSUME OwnClear
  PROVE  FSpec => AnswerIsKernels
<1>1. FInv /\ [FNext]_all => [RegisterReturns /\ alone => (status <=> did = "done")]_all
  <2> SUFFICES ASSUME FInv, RegisterReturns, alone
               PROVE  status <=> did = "done"
    OBVIOUS
  <2> QED
    BY DEF RegisterReturns, FInv, AloneInv
<1> QED
  BY <1>1, FInvariance, PTL DEF FSpec, AnswerIsKernels

=============================================================================
