----------------------------- MODULE NetworkProofs -----------------------------
(***************************************************************************)
(* Theorems about Network, for any pairs of classes, any headers and any   *)
(* losses at the end of a frame, any tags and any number of frames: what   *)
(* is read is the frame's own, an object that is sent again is the same    *)
(* frame, and what arrives whole arrives as it was sent.                   *)
(*                                                                         *)
(* The inductive invariant, NetIInv, says where what is in the air, or on  *)
(* the wire, comes from: it was assembled from an object that a program    *)
(* can have (IsFrame), behind a radiotap header of those that arrive, and  *)
(* may have lost its end (OnAir, OnWire).  All that a reader gets of it    *)
(* follows from that, see Comes for a part of a frame and Whole for all of *)
(* it.  IsFrame needs WmmIs: an object's WMM tag is never the value that   *)
(* stands for an invalid one, however often it was composed, sent and read *)
(* into.  Invalid tags are not sent, and all other members of the object   *)
(* that the reader makes start out invalid too; that one starts valid.     *)
(***************************************************************************)
EXTENDS EventFrameProofs

(***************************************************************************)
(* What arrives of a frame.                                                *)
(***************************************************************************)
\* b has a frame of o from place base on, as far as b's end.
Comes(b, o, base) ==
  /\ IsBuffer(b) /\ Only(b, o) /\ TagsIn(b, o.tags)
  /\ \E c : Laid(c, o, base) /\ Kept(b, c, b.end)

\* What a smaller buffer has of a greater one.
Part(c, b) == \A p \in DOMAIN c.at : c.at[p].f # "fcs" => p \in DOMAIN b.at /\ c.at[p] = b.at[p]

LEMMA PartOf ==
  ASSUME NEW b, NEW c, NEW o, NEW t, Only(b, o), TagsIn(b, t), Part(c, b)
  PROVE  Only(c, o) /\ TagsIn(c, t)
<1>1. "fcs" \notin Fields /\ "fcs" # "fc" /\ "fcs" # "addr2" /\ "fcs" # "tag"
  BY DEF Fields
<1>2. Only(c, o)
  BY <1>1 DEF Only, Part
<1>3. \A p \in TagPlaces(c) : p \in TagPlaces(b) /\ c.at[p] = b.at[p]
  BY <1>1 DEF TagPlaces, Part
<1> QED
  BY <1>2, <1>3 DEF TagsIn

LEMMA PopPart ==
  ASSUME NEW b, NEW c, NEW w \in Nat, IsBuffer(b), Part(b, c)
  PROVE  Part(Pop(b, w), c) /\ IsBuffer(Pop(b, w)) /\ Pop(b, w).end = b.end - w
<1> DEFINE d == Pop(b, w)
<1>1. /\ IsBuffer(d) /\ d.end = b.end - w
      /\ \A p \in DOMAIN d.at : p \in DOMAIN b.at /\ d.at[p] = b.at[p]
  BY Popped
<1> HIDE DEF d
<1> QED
  BY <1>1 DEF Part, d

LEMMA PopKept ==
  ASSUME NEW b, NEW c, IsBuffer(b), NEW e \in Int, Kept(b, c, e), NEW w \in Nat, b.end - w <= e
  PROVE  Kept(Pop(b, w), c, b.end - w)
<1> SUFFICES ASSUME NEW p \in Nat, NEW u \in Nat \ {0}, NEW g, NEW x, Holds(c, p, u, g, x), p + u <= b.end - w
             PROVE  Holds(Pop(b, w), p, u, g, x)
  BY DEF Kept
<1>1. b.end \in Int
  BY DEF IsBuffer
<1>2. Holds(b, p, u, g, x)
  BY <1>1 DEF Kept
<1> QED
  BY <1>1, <1>2, PopKeeps

LEMMA Arriving ==
  ASSUME NEW c, NEW o, NEW base, Laid(c, o, base), NEW fcs \in BOOLEAN, NEW lost \in Nat
  PROVE  LET b == TakeFcs(Pop(IF fcs THEN Write(c, c.end, 4, "fcs", 0) ELSE c, lost), fcs) IN
         Comes(b, o, base) /\ b.end = c.end - lost /\ Kept(b, c, b.end) /\ Part(b, c)
<1> DEFINE d == IF fcs THEN Write(c, c.end, 4, "fcs", 0) ELSE c
           e == Pop(d, lost)
           b == TakeFcs(e, fcs)
<1>1. IsBuffer(c) /\ c.end \in Nat /\ Only(c, o) /\ TagsIn(c, o.tags)
  BY DEF Laid
<1>2. IsBuffer(d) /\ d.end = c.end + (IF fcs THEN 4 ELSE 0) /\ Part(d, c) /\ Kept(d, c, c.end)
  <2>1. CASE fcs
    <3> DEFINE x == Write(c, c.end, 4, "fcs", 0)
    <3>1. /\ IsBuffer(x) /\ x.end = c.end + 4 /\ x.at[c.end] = [f |-> "fcs", w |-> 4, v |-> 0]
          /\ \A p \in DOMAIN x.at : p # c.end => p \in DOMAIN c.at /\ x.at[p] = c.at[p]
      BY <1>1, Written DEF Holds
    <3>2. Kept(x, c, c.end)
      BY <1>1, WriteKept
    <3> HIDE DEF x
    <3>3. Part(x, c)
      BY <3>1 DEF Part
    <3>4. d = x
      BY <2>1 DEF x
    <3> QED
      BY <2>1, <3>1, <3>2, <3>3, <3>4
  <2>2. CASE ~fcs
    BY <1>1, <2>2 DEF Part, Kept
  <2> QED
    BY <2>1, <2>2
<1> HIDE DEF d
<1>3. IsBuffer(e) /\ e.end = d.end - lost /\ Part(e, c)
  BY <1>2, PopPart
<1>4. Kept(e, c, c.end - lost)
  <2> SUFFICES ASSUME NEW p \in Nat, NEW u \in Nat \ {0}, NEW g, NEW x, Holds(c, p, u, g, x),
                      p + u <= c.end - lost
               PROVE  Holds(e, p, u, g, x)
    BY DEF Kept
  <2>1. p + u <= c.end /\ p + u <= d.end - lost
    BY <1>1, <1>2
  <2>2. Holds(d, p, u, g, x)
    BY <1>2, <2>1 DEF Kept
  <2>3. d.end \in Int
    BY <1>2 DEF IsBuffer
  <2> QED
    BY <2>1, <2>2, <2>3, PopKeeps
<1> HIDE DEF e
<1>5. IsBuffer(b) /\ b.end = c.end - lost /\ Part(b, c) /\ Kept(b, c, b.end)
  <2>1. CASE fcs
    <3>1. b = Pop(e, 4) /\ e.end - 4 = c.end - lost
      BY <1>1, <1>2, <1>3, <2>1 DEF TakeFcs
    <3>2. IsBuffer(b) /\ b.end = e.end - 4 /\ Part(b, c)
      BY <1>3, <3>1, PopPart
    <3>3. Kept(b, c, e.end - 4)
      <4>1. c.end - lost \in Int
        BY <1>1
      <4> QED
        BY <1>3, <1>4, <3>1, <4>1, PopKept
    <3> QED
      BY <3>1, <3>2, <3>3
  <2>2. CASE ~fcs
    <3>1. b = e /\ e.end = c.end - lost
      BY <1>1, <1>2, <1>3, <2>2 DEF TakeFcs
    <3> QED
      BY <1>3, <1>4, <3>1
  <2> QED
    BY <2>1, <2>2
<1>6. Only(b, o) /\ TagsIn(b, o.tags)
  BY <1>1, <1>5, PartOf
<1> HIDE DEF b
<1>7. Comes(b, o, base)
  BY <1>5, <1>6 DEF Comes
<1> QED
  BY <1>5, <1>7 DEF b, e, d

(***************************************************************************)
(* Readers.                                                                *)
(***************************************************************************)
IsReader(r) == r.ok \in BOOLEAN /\ r = [ok |-> r.ok, o |-> r.o, b |-> r.b, at |-> r.at, base |-> r.base]

IsVal(o, v) == v \in [Fields -> Int] /\ (o.class = "ControlFrame" \/ (v.addr2 = Unset => v.addr3 = Unset))

\* An object that reads a frame of o, and has the fields K of it if no step
\* failed.
Reads(r, b, base, o, K) ==
  /\ IsReader(r) /\ r.b = b /\ r.base = base /\ r.at \in Nat /\ base <= r.at
  /\ IsObject(r.o) /\ Sourced(r.o)
  /\ r.ok => r.at <= b.end /\ r.o.fc = o.fc /\ \A f \in K : r.o.val[f] = o.val[f]

\* t is r with other values.
Valued(t, r) == t.o = [r.o EXCEPT !.val = t.o.val]

LEMMA WithValues ==
  ASSUME NEW p, IsObject(p), NEW v, IsVal(p, v)
  PROVE  LET q == [p EXCEPT !.val = v] IN
         IsObject(q) /\ Sourced(q) /\ q.val = v /\ q.class = p.class /\ q.fc = p.fc /\ q.tags = p.tags
         /\ q.member = p.member
<1> DEFINE q == [p EXCEPT !.val = v]
<1>1. q = [class |-> p.class, fc |-> p.fc, val |-> v, member |-> p.member, tags |-> p.tags]
  BY DEF IsObject
<1>2. v \in [Fields -> Int]
  BY DEF IsVal
<1>3. q.val = v /\ q.class = p.class /\ q.fc = p.fc /\ q.tags = p.tags /\ q.member = p.member
      /\ q = [class |-> q.class, fc |-> q.fc, val |-> q.val, member |-> q.member, tags |-> q.tags]
  BY <1>1
<1> HIDE DEF q
<1>4. IsObject(q)
  BY <1>2, <1>3 DEF IsObject
<1>5. Sourced(q)
  BY <1>3 DEF Sourced, IsVal
<1> QED
  BY <1>3, <1>4, <1>5 DEF q

LEMMA ReadsOwn ==
  ASSUME NEW b, NEW o, IsObject(o), Only(b, o), NEW p, NEW w, NEW f \in Fields
  PROVE  /\ ReadAt(b, p, w, f) \in Int
         /\ f = "addr2" => ReadAt(b, p, w, f) # Unset
<1>1. o.val[f] \in Int /\ Garbled \in Int /\ Garbled # Unset
  BY DEF IsObject, Garbled, Unset
<1>2. ReadAt(b, p, w, f) = Garbled \/ (p \in DOMAIN b.at /\ b.at[p].f = f /\ ReadAt(b, p, w, f) = b.at[p].v)
  BY DEF ReadAt
<1>3. p \in DOMAIN b.at /\ b.at[p].f = f => b.at[p].v = o.val[f] /\ (f = "addr2" => o.val.addr2 # Unset)
  BY DEF Only
<1> QED
  BY <1>1, <1>2, <1>3

\* Address 3 is taken when address 2 was.
AfterSource(r, w, f) == f = "addr3" /\ r.ok /\ r.at + w <= r.b.end => r.o.val.addr2 # Unset

\* t is r, having taken field f of width w.
HasTaken(t, r, b, base, o, K, offset, w, f) ==
  /\ Reads(t, b, base, o, K \ {f}) /\ Valued(t, r)
  /\ t.ok => /\ r.ok /\ t.at = r.at + w /\ r.at + w <= b.end
             /\ t.o.val[f] = ReadAt(b, base + offset, w, f)
             /\ \A g \in Fields \ {f} : t.o.val[g] = r.o.val[g]

LEMMA TakeOne ==
  ASSUME NEW b, NEW base \in Nat, NEW o, NEW K, NEW r, Reads(r, b, base, o, K),
         IsObject(o), Only(b, o), b.end \in Int,
         NEW offset \in Nat, NEW w \in Nat \ {0}, NEW f \in Fields,
         AfterSource(r, w, f)
  PROVE  HasTaken(Take(r, offset, w, f), r, b, base, o, K, offset, w, f)
<1> DEFINE t == Take(r, offset, w, f)
           x == ReadAt(b, base + offset, w, f)
           v == [r.o.val EXCEPT ![f] = x]
<1>0. IsReader(r) /\ r.b = b /\ r.base = base /\ IsObject(r.o) /\ Sourced(r.o) /\ r.at \in Nat /\ base <= r.at
  BY DEF Reads
<1>1. CASE r.ok /\ r.at + w <= b.end
  <2>1. t = [ok |-> TRUE, o |-> [r.o EXCEPT !.val = v], b |-> b, at |-> r.at + w, base |-> base]
    BY <1>0, <1>1, Zenon DEF Take, IsReader
  <2>2. v \in [Fields -> Int]
    BY <1>0, ReadsOwn DEF IsObject
  <2>3. v[f] = x /\ \A g \in Fields \ {f} : v[g] = r.o.val[g]
    BY <1>0 DEF IsObject
  <2>4. IsVal(r.o, v)
    <3>1. "addr2" \in Fields /\ "addr3" \in Fields /\ "addr2" # "addr3"
      BY DEF Fields
    <3>2. v.addr2 = v["addr2"] /\ v.addr3 = v["addr3"] /\ r.o.val.addr2 = r.o.val["addr2"]
          /\ r.o.val.addr3 = r.o.val["addr3"]
      OBVIOUS
    <3>3. f = "addr2" => x # Unset
      BY ReadsOwn
    <3> HIDE DEF v, x
    <3>4. CASE f = "addr2"
      BY <2>2, <2>3, <3>2, <3>3, <3>4 DEF IsVal
    <3>5. CASE f = "addr3"
      BY <1>0, <1>1, <2>2, <2>3, <3>1, <3>2, <3>5 DEF IsVal, AfterSource
    <3>6. CASE f # "addr2" /\ f # "addr3"
      BY <1>0, <2>2, <2>3, <3>1, <3>2, <3>6 DEF IsVal, Sourced
    <3> QED
      BY <3>4, <3>5, <3>6
  <2> HIDE DEF v, x
  <2> DEFINE q == [r.o EXCEPT !.val = v]
  <2>5. IsObject(q) /\ Sourced(q) /\ q.val = v /\ q.fc = r.o.fc
    BY <1>0, <2>4, WithValues
  <2>6. t = [ok |-> TRUE, o |-> q, b |-> b, at |-> r.at + w, base |-> base]
    BY <2>1
  <2>7. Valued(t, r)
    BY <2>5, <2>6 DEF Valued
  <2> HIDE DEF t, q
  <2>8. IsReader(t) /\ t.o = q /\ t.ok /\ t.b = b /\ t.at = r.at + w /\ t.base = base
    BY <2>6 DEF IsReader
  <2>9. r.o.fc = o.fc /\ \A g \in K : r.o.val[g] = o.val[g]
    BY <1>1 DEF Reads
  <2>10. \A g \in K \ {f} : v[g] = o.val[g]
    <3>1. \A g \in K \ {f} : g \in Fields => v[g] = o.val[g]
      BY <2>3, <2>9
    <3>2. \A g : g \notin Fields => v[g] = r.o.val[g]
      BY <1>0 DEF v, IsObject
    <3> QED
      BY <2>9, <3>1, <3>2
  <2>11. base <= r.at + w /\ r.at + w \in Nat
    BY <1>0
  <2>12. Reads(t, b, base, o, K \ {f})
    BY <1>1, <2>5, <2>8, <2>9, <2>10, <2>11 DEF Reads
  <2> QED
    BY <1>1, <2>3, <2>5, <2>7, <2>8, <2>12 DEF t, x, HasTaken
<1>2. CASE ~(r.ok /\ r.at + w <= b.end)
  <2>1. t = [ok |-> FALSE, o |-> r.o, b |-> b, at |-> r.at, base |-> base]
    BY <1>0, <1>2, Zenon DEF Take, IsReader
  <2>2. r.o = [r.o EXCEPT !.val = r.o.val]
    BY <1>0 DEF IsObject
  <2> HIDE DEF t
  <2>3. IsReader(t) /\ t.o = r.o /\ ~t.ok /\ t.b = b /\ t.at = r.at /\ t.base = base
    BY <2>1 DEF IsReader
  <2>4. Reads(t, b, base, o, K \ {f}) /\ Valued(t, r)
    BY <1>0, <2>2, <2>3 DEF Reads, Valued
  <2> QED
    BY <2>3, <2>4 DEF t, HasTaken
<1> QED
  BY <1>1, <1>2

LEMMA Valueds ==
  ASSUME NEW r, NEW t, NEW u, Valued(t, r), Valued(u, t), IsObject(r.o)
  PROVE  Valued(u, r) /\ t.o.class = r.o.class /\ t.o.member = r.o.member /\ t.o.tags = r.o.tags
         /\ t.o.fc = r.o.fc
<1>1. r.o = [class |-> r.o.class, fc |-> r.o.fc, val |-> r.o.val, member |-> r.o.member, tags |-> r.o.tags]
  BY DEF IsObject
<1>2. t.o = [class |-> r.o.class, fc |-> r.o.fc, val |-> t.o.val, member |-> r.o.member, tags |-> r.o.tags]
  BY <1>1 DEF Valued
<1>3. u.o = [class |-> r.o.class, fc |-> r.o.fc, val |-> u.o.val, member |-> r.o.member, tags |-> r.o.tags]
  BY <1>2 DEF Valued
<1> QED
  BY <1>1, <1>2, <1>3 DEF Valued

\* t is r, having taken field f of width w from where the sender put it.
OwnTaken(t, r, b, base, o, K, w, f) ==
  /\ Reads(t, b, base, o, K \cup {f}) /\ Valued(t, r)
  /\ t.ok => /\ r.ok /\ t.at = r.at + w /\ r.at + w <= b.end
             /\ \A g \in Fields \ {f} : t.o.val[g] = r.o.val[g]

\* The sender put f there, as far as the buffer goes.
Comes1(b, o, at, w, f) == at + w <= b.end => Holds(b, at, w, f, o.val[f])

\* What is taken lies before the data pointer, when it has moved.
Reached(r, at, w) == r.ok /\ r.at + w <= r.b.end => at <= r.at

LEMMA TakeOwn ==
  ASSUME NEW b, NEW base \in Nat, NEW o, NEW K, NEW r, Reads(r, b, base, o, K),
         IsObject(o), Only(b, o), b.end \in Int,
         NEW offset \in Nat, NEW w \in Nat \ {0}, NEW f \in Fields,
         AfterSource(r, w, f), Comes1(b, o, base + offset, w, f), Reached(r, base + offset, w)
  PROVE  OwnTaken(Take(r, offset, w, f), r, b, base, o, K, w, f)
<1> DEFINE t == Take(r, offset, w, f)
<1>0. HasTaken(t, r, b, base, o, K, offset, w, f)
  BY TakeOne
<1> HIDE DEF t
<1>1. /\ Reads(t, b, base, o, K \ {f}) /\ Valued(t, r)
      /\ t.ok => /\ r.ok /\ t.at = r.at + w /\ r.at + w <= b.end
                 /\ t.o.val[f] = ReadAt(b, base + offset, w, f)
                 /\ \A g \in Fields \ {f} : t.o.val[g] = r.o.val[g]
  BY <1>0 DEF HasTaken
<1>2. ASSUME t.ok PROVE t.o.val[f] = o.val[f]
  <2>1. r.at \in Nat /\ r.b = b
    BY DEF Reads
  <2>2. (base + offset) + w <= b.end
    BY <1>1, <1>2, <2>1 DEF Reached
  <2>3. Holds(b, base + offset, w, f, o.val[f])
    BY <2>2 DEF Comes1
  <2> QED
    BY <1>1, <1>2, <2>3, HoldsReads
<1>3. Reads(t, b, base, o, K \cup {f})
  BY <1>1, <1>2 DEF Reads
<1> QED
  BY <1>1, <1>3 DEF t, OwnTaken

LEMMA NeedTaken ==
  ASSUME NEW b, NEW base, NEW o, NEW K, NEW r, Reads(r, b, base, o, K), NEW cond \in BOOLEAN
  PROVE  LET t == Need(r, cond) IN
         /\ Reads(t, b, base, o, K) /\ t.o = r.o /\ t.at = r.at /\ t.ok = (r.ok /\ cond)
<1> DEFINE t == Need(r, cond)
<1>1. t = [ok |-> r.ok /\ cond, o |-> r.o, b |-> r.b, at |-> r.at, base |-> r.base]
  BY DEF Need, Reads, IsReader
<1> HIDE DEF t
<1>2. t.ok = (r.ok /\ cond) /\ t.o = r.o /\ t.b = r.b /\ t.at = r.at /\ t.base = r.base /\ IsReader(t)
  BY <1>1 DEF IsReader, Reads
<1> QED
  BY <1>2, Zenon DEF Reads, t

LEMMA ComesIn ==
  ASSUME NEW b, NEW o, NEW base, Comes(b, o, base)
  PROVE  /\ IsBuffer(b) /\ b.end \in Int /\ base \in Nat /\ Only(b, o) /\ TagsIn(b, o.tags)
         /\ base + 2 <= b.end => Holds(b, base, 2, "fc", o.fc)
         /\ Comes1(b, o, base + 2, 2, "duration")
         /\ Comes1(b, o, base + 4, 6, "addr1")
         /\ o.val.addr2 # Unset => Comes1(b, o, base + 10, 6, "addr2")
         /\ o.fc.type # Cntl => /\ Comes1(b, o, base + 16, 6, "addr3")
                                /\ Comes1(b, o, base + 22, 2, "seqcntl")
         /\ o.fc.type = Data /\ HasQos(o.fc.sub) /\ ~o.fc.ds => Comes1(b, o, base + 24, 2, "qoscntl")
         /\ o.fc.type = Data /\ o.fc.ds => Comes1(b, o, base + 24, 6, "addr4")
<1>1. PICK c : Laid(c, o, base) /\ Kept(b, c, b.end)
  BY DEF Comes
<1>2. IsBuffer(b) /\ b.end \in Int /\ base \in Nat /\ Only(b, o) /\ TagsIn(b, o.tags)
  BY <1>1 DEF Comes, Laid, IsBuffer
<1>3. \A p \in Nat, u \in Nat \ {0} : \A g, x : Holds(c, p, u, g, x) /\ p + u <= b.end => Holds(b, p, u, g, x)
  BY <1>1 DEF Kept
<1>4. \A p \in Nat, u \in Nat \ {0} : \A f : Holds(c, p, u, f, o.val[f]) => Comes1(b, o, p, u, f)
  BY <1>3 DEF Comes1
<1>5. HeadAt(c, o, base)
  BY <1>1 DEF Laid
<1>6. /\ base + 2 \in Nat /\ base + 4 \in Nat /\ base + 10 \in Nat
      /\ base + 16 \in Nat /\ base + 22 \in Nat /\ base + 24 \in Nat
      /\ 2 \in Nat \ {0} /\ 6 \in Nat \ {0}
  BY <1>2
<1>7. base + 2 <= b.end => Holds(b, base, 2, "fc", o.fc)
  BY <1>2, <1>3, <1>5 DEF HeadAt
<1>8. Comes1(b, o, base + 2, 2, "duration") /\ Comes1(b, o, base + 4, 6, "addr1")
  BY <1>4, <1>5, <1>6 DEF HeadAt
<1>9. o.val.addr2 # Unset => Comes1(b, o, base + 10, 6, "addr2")
  BY <1>4, <1>5, <1>6 DEF HeadAt
<1>10. o.fc.type # Cntl => /\ Comes1(b, o, base + 16, 6, "addr3")
                           /\ Comes1(b, o, base + 22, 2, "seqcntl")
  <2>1. o.fc.type # Cntl => ThirdAt(c, o, base)
    BY <1>1 DEF Laid
  <2> QED
    BY <1>4, <1>6, <2>1 DEF ThirdAt
<1>11. /\ o.fc.type = Data /\ HasQos(o.fc.sub) /\ ~o.fc.ds => Comes1(b, o, base + 24, 2, "qoscntl")
       /\ o.fc.type = Data /\ o.fc.ds => Comes1(b, o, base + 24, 6, "addr4")
  <2>1. o.fc.type = Data => FourthAt(c, o, base)
    BY <1>1 DEF Laid
  <2> QED
    BY <1>4, <1>6, <2>1 DEF FourthAt
<1> QED
  BY <1>2, <1>7, <1>8, <1>9, <1>10, <1>11

LEMMA BodyComes ==
  ASSUME NEW b, NEW o, NEW base, Comes(b, o, base), IsObject(o), o.class \in Bodied, NEW q, q = Out(o.class).body
  PROVE  \A i \in DOMAIN q : Comes1(b, o, base + 24 + Skip(q, i), q[i][2], q[i][1])
<1>1. PICK c : Laid(c, o, base) /\ Kept(b, c, b.end)
  BY DEF Comes
<1>2. base \in Nat /\ BodyAt(c, o, base)
  BY <1>1 DEF Laid
<1>3. AreParts(q)
  BY BodiesAre DEF IsObject
<1> SUFFICES ASSUME NEW i \in DOMAIN q PROVE Comes1(b, o, base + 24 + Skip(q, i), q[i][2], q[i][1])
  OBVIOUS
<1>4. Skip(q, i) \in Nat /\ q[i][2] \in Nat \ {0}
  BY <1>3, PartsKnown, Zenon
<1>5. Holds(c, base + 24 + Skip(q, i), q[i][2], q[i][1], o.val[q[i][1]])
  BY <1>2 DEF BodyAt
<1> DEFINE at == base + 24 + Skip(q, i)
<1>6. at \in Nat
  BY <1>2, <1>4
<1> HIDE DEF at
<1> SUFFICES ASSUME at + q[i][2] <= b.end
             PROVE  Holds(b, at, q[i][2], q[i][1], o.val[q[i][1]])
  BY DEF Comes1, at
<1> QED
  BY <1>1, <1>4, <1>5, <1>6 DEF Kept, at

ReaderOf(p, b, base) == [ok |-> TRUE, o |-> p, b |-> b, at |-> base, base |-> base]

\* What else reading leaves in an object.
Same(t, p) == t.o.class = p.class /\ t.o.tags = p.tags /\ t.o.member = p.member

LEMMA ControlTaken ==
  ASSUME NEW b, NEW o, NEW base, Comes(b, o, base), IsObject(o), NEW p, IsObject(p), Sourced(p)
  PROVE  LET t == TakeControl(ReaderOf(p, b, base)) IN
         /\ Reads(t, b, base, o, {}) /\ Same(t, p)
         /\ t.ok => t.at = base + 2
<1> DEFINE r == ReaderOf(p, b, base)
           t == TakeControl(r)
<1>1. b.end \in Int /\ base \in Nat
  BY ComesIn
<1>2. /\ r.ok = TRUE /\ r.o = p /\ r.b = b /\ r.at = base /\ r.base = base
      /\ r = [ok |-> r.ok, o |-> r.o, b |-> r.b, at |-> r.at, base |-> r.base]
  BY DEF ReaderOf
<1> HIDE DEF r
<1>x. Left(r) >= 2 <=> base + 2 <= b.end
  BY <1>1, <1>2 DEF Left
<1>3. CASE base + 2 <= b.end
  <2>1. ReadAt(b, base, 2, "fc") = o.fc
    BY <1>3, ComesIn, HoldsReads
  <2> DEFINE q == [p EXCEPT !.fc = o.fc]
  <2>2. t = [ok |-> TRUE, o |-> q, b |-> b, at |-> base + 2, base |-> base]
    <3>1. Left(r) >= 2
      BY <1>3, <1>x
    <3>2. t = [r EXCEPT !.at = r.at + 2, !.o.fc = o.fc]
      BY <1>2, <2>1, <3>1, Zenon DEF TakeControl
    <3> HIDE DEF t
    <3> QED
      BY <1>2, <3>2
  <2>3. q = [class |-> p.class, fc |-> o.fc, val |-> p.val, member |-> p.member, tags |-> p.tags]
    BY DEF IsObject
  <2> HIDE DEF t, q
  <2>4. IsObject(q) /\ q.fc = o.fc /\ q.class = p.class /\ q.member = p.member /\ q.tags = p.tags
    BY <2>3 DEF IsObject
  <2>5. Sourced(q)
    BY <2>3 DEF Sourced
  <2>6. IsReader(t) /\ t.b = b /\ t.base = base /\ t.at = base + 2 /\ t.o = q
    BY <2>2 DEF IsReader
  <2>7. Reads(t, b, base, o, {})
    BY <1>1, <1>3, <2>4, <2>5, <2>6 DEF Reads
  <2> QED
    BY <2>4, <2>6, <2>7 DEF t, r, Same
<1>4. CASE ~(base + 2 <= b.end)
  <2>1. t = [ok |-> FALSE, o |-> p, b |-> b, at |-> base, base |-> base]
    <3>1. ~(Left(r) >= 2)
      BY <1>4, <1>x
    <3>2. t = [r EXCEPT !.ok = FALSE]
      BY <3>1 DEF TakeControl
    <3> HIDE DEF t
    <3> QED
      BY <1>2, <3>2, Zenon
  <2> HIDE DEF t
  <2>2. IsReader(t) /\ t.b = b /\ t.base = base /\ t.at = base /\ t.o = p /\ ~t.ok
    BY <2>1 DEF IsReader
  <2>3. Reads(t, b, base, o, {})
    BY <1>1, <2>2 DEF Reads
  <2> QED
    BY <2>2, <2>3 DEF t, r, Same
<1> QED
  BY <1>3, <1>4

LEMMA SameStill ==
  ASSUME NEW r, NEW t, NEW p, Same(r, p), Valued(t, r), IsObject(r.o)
  PROVE  Same(t, p)
<1>1. r.o = [class |-> r.o.class, fc |-> r.o.fc, val |-> r.o.val, member |-> r.o.member, tags |-> r.o.tags]
  BY DEF IsObject
<1>2. t.o = [class |-> r.o.class, fc |-> r.o.fc, val |-> t.o.val, member |-> r.o.member, tags |-> r.o.tags]
  BY <1>1 DEF Valued
<1> QED
  BY <1>2 DEF Same

\* Where the data pointer is behind Frame::Disassemble.
Headed(t, b, base, o) ==
  t.ok => \/ t.at = base + 10 /\ b.end = base + 10
          \/ /\ t.at = base + 16 /\ t.o.val.addr2 # Unset
             /\ o.val.addr2 # Unset => t.o.val.addr2 = o.val.addr2

LEMMA FrameTaken ==
  ASSUME NEW b, NEW o, NEW base, Comes(b, o, base), IsObject(o), NEW p, IsObject(p), Sourced(p)
  PROVE  LET t == FrameDisassemble(ReaderOf(p, b, base)) IN
         Reads(t, b, base, o, {"duration", "addr1"}) /\ Same(t, p) /\ Headed(t, b, base, o)
<1> DEFINE r == ReaderOf(p, b, base)
           r1 == TakeControl(r)
           r2 == Take(r1, 2, 2, "duration")
           r3 == Take(r2, 4, 6, "addr1")
           t == TakeSource(r3)
<1>0. {"duration", "addr1", "addr2"} \subseteq Fields /\ {"duration", "addr1"} \subseteq Fields \ {"addr2"}
  BY DEF Fields
<1>1. b.end \in Int /\ base \in Nat /\ Only(b, o) /\ Comes1(b, o, base + 2, 2, "duration")
      /\ Comes1(b, o, base + 4, 6, "addr1") /\ (o.val.addr2 # Unset => Comes1(b, o, base + 10, 6, "addr2"))
  BY ComesIn
<1>2. Reads(r1, b, base, o, {}) /\ Same(r1, p) /\ (r1.ok => r1.at = base + 2)
  BY ControlTaken
<1>t. FrameDisassemble(r) = t
  BY DEF FrameDisassemble
<1> HIDE DEF r1
<1>3. OwnTaken(r2, r1, b, base, o, {}, 2, "duration")
  <2>1. AfterSource(r1, 2, "duration")
    BY DEF AfterSource
  <2>2. Reached(r1, base + 2, 2)
    BY <1>1, <1>2 DEF Reached
  <2>3. "duration" \in Fields /\ 2 \in Nat /\ 2 \in Nat \ {0}
    BY <1>0
  <2> QED
    BY <1>1, <1>2, <2>1, <2>2, <2>3, TakeOwn
<1> HIDE DEF r2
<1>4. Reads(r2, b, base, o, {"duration"}) /\ Same(r2, p) /\ (r2.ok => r2.at = base + 4)
  <2>1. Reads(r2, b, base, o, {} \cup {"duration"}) /\ Valued(r2, r1) /\ (r2.ok => r1.ok /\ r2.at = r1.at + 2)
    BY <1>3 DEF OwnTaken
  <2>2. IsObject(r1.o)
    BY <1>2 DEF Reads
  <2>3. {} \cup {"duration"} = {"duration"}
    OBVIOUS
  <2> QED
    BY <1>1, <1>2, <2>1, <2>2, <2>3, SameStill
<1>5. OwnTaken(r3, r2, b, base, o, {"duration"}, 6, "addr1")
  <2>1. AfterSource(r2, 6, "addr1")
    BY DEF AfterSource
  <2>2. Reached(r2, base + 4, 6)
    BY <1>1, <1>4 DEF Reached
  <2>3. "addr1" \in Fields /\ 4 \in Nat /\ 6 \in Nat \ {0}
    BY <1>0
  <2> QED
    BY <1>1, <1>4, <2>1, <2>2, <2>3, TakeOwn
<1> HIDE DEF r3
<1>6. Reads(r3, b, base, o, {"duration", "addr1"}) /\ Same(r3, p) /\ (r3.ok => r3.at = base + 10)
  <2>1. Reads(r3, b, base, o, {"duration"} \cup {"addr1"}) /\ Valued(r3, r2) /\ (r3.ok => r2.ok /\ r3.at = r2.at + 6)
    BY <1>5 DEF OwnTaken
  <2>2. IsObject(r2.o)
    BY <1>4 DEF Reads
  <2>3. {"duration"} \cup {"addr1"} = {"duration", "addr1"}
    OBVIOUS
  <2> QED
    BY <1>1, <1>4, <2>1, <2>2, <2>3, SameStill
<1>7. r3.b = b /\ r3.at \in Nat /\ (r3.ok => r3.at <= b.end)
  BY <1>6 DEF Reads
<1>8. CASE ~(r3.ok /\ Left(r3) > 0)
  <2>1. t = r3
    BY <1>8 DEF TakeSource
  <2>2. t.ok => t.at = base + 10 /\ b.end = base + 10
    BY <1>1, <1>6, <1>7, <1>8, <2>1 DEF Left
  <2> QED
    BY <1>t, <1>6, <2>1, <2>2 DEF Headed
<1>9. CASE r3.ok /\ Left(r3) > 0
  <2> DEFINE u == Take(r3, 10, 6, "addr2")
  <2>1. t = u
    BY <1>9 DEF TakeSource
  <2>2. AfterSource(r3, 6, "addr2") /\ Reached(r3, base + 10, 6)
    BY <1>1, <1>6 DEF AfterSource, Reached
  <2>3. "addr2" \in Fields /\ 10 \in Nat /\ 6 \in Nat \ {0}
    BY <1>0
  <2>4. HasTaken(u, r3, b, base, o, {"duration", "addr1"}, 10, 6, "addr2")
    BY <1>1, <1>6, <2>2, <2>3, TakeOne
  <2>5. o.val.addr2 # Unset => OwnTaken(u, r3, b, base, o, {"duration", "addr1"}, 6, "addr2")
    BY <1>1, <1>6, <2>2, <2>3, TakeOwn
  <2>6. ReadAt(b, base + 10, 6, "addr2") # Unset
    BY <1>1, <2>3, ReadsOwn
  <2> HIDE DEF u
  <2>7. /\ Reads(u, b, base, o, {"duration", "addr1"} \ {"addr2"}) /\ Valued(u, r3)
        /\ u.ok => u.at = r3.at + 6 /\ u.o.val["addr2"] = ReadAt(b, base + 10, 6, "addr2") /\ r3.ok
    BY <2>4 DEF HasTaken
  <2>8. {"duration", "addr1"} \ {"addr2"} = {"duration", "addr1"}
    OBVIOUS
  <2>9. u.o.val.addr2 = u.o.val["addr2"] /\ o.val.addr2 = o.val["addr2"]
    OBVIOUS
  <2>10. o.val.addr2 # Unset => (u.ok => u.o.val["addr2"] = o.val["addr2"])
    BY <2>5 DEF OwnTaken, Reads
  <2>11. IsObject(r3.o)
    BY <1>6 DEF Reads
  <2>12. Same(u, p)
    BY <1>6, <2>7, <2>11, SameStill
  <2>13. u.ok => u.at = base + 16
    BY <1>1, <1>6, <2>7
  <2>14. Headed(u, b, base, o)
    BY <2>6, <2>7, <2>9, <2>10, <2>13 DEF Headed
  <2> QED
    BY <1>t, <2>1, <2>7, <2>8, <2>12, <2>14
<1> QED
  BY <1>8, <1>9

LEMMA TakeNot ==
  ASSUME NEW r, IsReader(r), ~r.ok, NEW offset, NEW w, NEW f
  PROVE  Take(r, offset, w, f) = r
BY DEF Take, IsReader

\* The fields up to the sequence control, the second address if there is one.
Thirds(o) ==
  {"duration", "addr1", "addr3", "seqcntl"} \cup (IF o.val.addr2 # Unset THEN {"addr2"} ELSE {})

\* A reader that has taken them.
AtThird(t, b, base, o, p) ==
  /\ Reads(t, b, base, o, Thirds(o)) /\ Same(t, p)
  /\ t.ok => t.at = base + 24 /\ t.o.val.addr2 # Unset

LEMMA ThirdTaken ==
  ASSUME NEW b, NEW o, NEW base, Comes(b, o, base), IsObject(o), NEW p, NEW r,
         Reads(r, b, base, o, {"duration", "addr1"}), Same(r, p), Headed(r, b, base, o),
         r.ok => o.fc.type # Cntl
  PROVE  AtThird(TakeThird(r), b, base, o, p) /\ (TakeThird(r).ok => r.ok)
<1> DEFINE r1 == Take(r, 16, 6, "addr3")
           t == Take(r1, 22, 2, "seqcntl")
           K == {"duration", "addr1"}
<1>t. TakeThird(r) = t
  BY DEF TakeThird
<1>0. IsReader(r) /\ r.b = b /\ r.at \in Nat
  BY DEF Reads
<1>1. CASE ~r.ok
  <2>1. t = r
    BY <1>0, <1>1, TakeNot
  <2>2. Reads(r, b, base, o, Thirds(o))
    BY <1>1 DEF Reads
  <2> QED
    BY <1>t, <1>1, <2>1, <2>2 DEF AtThird
<1>2. CASE r.ok
  <2>1. b.end \in Int /\ base \in Nat /\ Only(b, o) /\ Comes1(b, o, base + 16, 6, "addr3")
        /\ Comes1(b, o, base + 22, 2, "seqcntl")
    BY <1>2, ComesIn
  <2>2. r.at + 6 <= b.end => r.at = base + 16 /\ r.o.val.addr2 # Unset
                              /\ (o.val.addr2 # Unset => r.o.val.addr2 = o.val.addr2)
    BY <1>0, <1>2, <2>1 DEF Headed
  <2>3. AfterSource(r, 6, "addr3") /\ Reached(r, base + 16, 6)
    BY <1>0, <2>1, <2>2 DEF AfterSource, Reached
  <2>4. "addr3" \in Fields /\ 16 \in Nat /\ 6 \in Nat \ {0} /\ "seqcntl" \in Fields /\ 22 \in Nat /\ 2 \in Nat \ {0}
        /\ "addr2" \in Fields \ {"addr3"} /\ "addr2" \in Fields \ {"seqcntl"} /\ "seqcntl" # "addr3"
    BY DEF Fields
  <2>5. OwnTaken(r1, r, b, base, o, K, 6, "addr3")
    <3> HIDE DEF K
    <3>1. Reads(r, b, base, o, K)
      BY DEF K
    <3> QED
      BY <2>1, <2>3, <2>4, <3>1, TakeOwn
  <2> HIDE DEF r1
  <2>6. /\ Reads(r1, b, base, o, K \cup {"addr3"}) /\ Valued(r1, r)
        /\ r1.ok => r1.at = base + 22 /\ r1.o.val["addr2"] = r.o.val["addr2"] /\ r.at + 6 <= b.end
    BY <2>1, <2>2, <2>4, <2>5 DEF OwnTaken
  <2>7. AfterSource(r1, 2, "seqcntl") /\ Reached(r1, base + 22, 2)
    BY <2>1, <2>4, <2>6 DEF AfterSource, Reached
  <2>8. OwnTaken(t, r1, b, base, o, K \cup {"addr3"}, 2, "seqcntl")
    <3> DEFINE G == K \cup {"addr3"}
    <3> HIDE DEF K, G
    <3>1. Reads(r1, b, base, o, G)
      BY <2>6 DEF G
    <3>2. OwnTaken(t, r1, b, base, o, G, 2, "seqcntl")
      BY <2>1, <2>4, <2>7, <3>1, TakeOwn
    <3> QED
      BY <3>2 DEF G
  <2> HIDE DEF t
  <2>9. /\ Reads(t, b, base, o, (K \cup {"addr3"}) \cup {"seqcntl"}) /\ Valued(t, r1)
        /\ t.ok => r1.ok /\ t.at = base + 24 /\ t.o.val["addr2"] = r1.o.val["addr2"]
    <3>1. t.ok => r1.ok /\ t.at = r1.at + 2 /\ t.o.val["addr2"] = r1.o.val["addr2"]
      BY <2>4, <2>8 DEF OwnTaken
    <3>2. t.ok => t.at = base + 24
      BY <2>1, <2>6, <3>1
    <3> QED
      BY <2>8, <3>1, <3>2 DEF OwnTaken
  <2>10. t.ok => t.o.val.addr2 # Unset /\ (o.val.addr2 # Unset => t.o.val.addr2 = o.val.addr2)
    BY <2>2, <2>6, <2>9
  <2>11. Same(t, p)
    <3>1. IsObject(r.o) /\ IsObject(r1.o)
      BY <2>6 DEF Reads
    <3>2. Same(r1, p)
      BY <2>6, <3>1, SameStill
    <3> QED
      BY <2>9, <3>1, <3>2, SameStill
  <2>12. Reads(t, b, base, o, Thirds(o))
    <3> DEFINE G == (K \cup {"addr3"}) \cup {"seqcntl"}
    <3>1. \A f \in Thirds(o) : f \in G \/ (f = "addr2" /\ o.val.addr2 # Unset)
      BY DEF Thirds
    <3>2. Reads(t, b, base, o, G)
      BY <2>9
    <3> HIDE DEF G
    <3>3. t.ok => \A f \in Thirds(o) : t.o.val[f] = o.val[f]
      BY <2>10, <3>1, <3>2 DEF Reads
    <3> QED
      BY <3>2, <3>3 DEF Reads
  <2> QED
    BY <1>t, <1>2, <2>9, <2>10, <2>11, <2>12 DEF AtThird
<1> QED
  BY <1>1, <1>2

LEMMA OfTypeTaken ==
  ASSUME NEW b, NEW base, NEW o, NEW K, NEW r, Reads(r, b, base, o, K), NEW type
  PROVE  LET t == OfType(r, type) IN
         Reads(t, b, base, o, K) /\ t.o = r.o /\ t.at = r.at /\ t.ok = (r.ok /\ r.o.fc.type = type)
<1> DEFINE cond == r.o.fc.type = type
<1>1. OfType(r, type) = Need(r, cond) /\ cond \in BOOLEAN
  BY DEF OfType
<1> HIDE DEF cond
<1>2. LET t == Need(r, cond) IN
      Reads(t, b, base, o, K) /\ t.o = r.o /\ t.at = r.at /\ t.ok = (r.ok /\ cond)
  BY <1>1, NeedTaken
<1> QED
  BY <1>1, <1>2 DEF cond

LEMMA TypedTaken ==
  ASSUME NEW b, NEW o, NEW base, Comes(b, o, base), IsObject(o), NEW p, IsObject(p), Sourced(p),
         NEW type \in {Mgmt, Data}
  PROVE  LET t == TakeThird(OfType(FrameDisassemble(ReaderOf(p, b, base)), type)) IN
         AtThird(t, b, base, o, p) /\ (t.ok => o.fc.type = type)
<1> DEFINE r == FrameDisassemble(ReaderOf(p, b, base))
           s == OfType(r, type)
           t == TakeThird(s)
<1>1. Reads(r, b, base, o, {"duration", "addr1"}) /\ Same(r, p) /\ Headed(r, b, base, o)
  BY FrameTaken
<1> HIDE DEF r
<1>2. /\ Reads(s, b, base, o, {"duration", "addr1"}) /\ s.o = r.o /\ s.at = r.at
      /\ s.ok = (r.ok /\ r.o.fc.type = type)
  BY <1>1, OfTypeTaken
<1> HIDE DEF s
<1>3. Same(s, p) /\ Headed(s, b, base, o)
  BY <1>1, <1>2, Zenon DEF Same, Headed
<1>4. s.ok => o.fc.type = type
  BY <1>1, <1>2 DEF Reads
<1>5. s.ok => o.fc.type # Cntl
  BY <1>4, ClassesAre
<1>6. AtThird(t, b, base, o, p) /\ (t.ok => s.ok)
  BY <1>2, <1>3, <1>5, ThirdTaken
<1> QED
  BY <1>4, <1>6 DEF s, r

(***************************************************************************)
(* Fields that follow each other.                                          *)
(***************************************************************************)
Named(q, i) == {q[j][1] : j \in {j \in DOMAIN q : j < i}}

UpToEnd(q, i) == IF i <= Len(q) + 1 THEN i ELSE Len(q) + 1

\* A reader that has taken the first i - 1 of them.
NextAt(c, r, b, base, o, K, q, off, i) ==
  /\ Reads(c, b, base, o, K \cup Named(q, i)) /\ Valued(c, r)
  /\ c.ok => r.ok /\ c.at = base + off + Skip(q, UpToEnd(q, i)) /\ c.o.val.addr2 # Unset

LEMMA NextOne ==
  ASSUME NEW b, NEW base \in Nat, NEW o, NEW K, NEW r, IsObject(r.o), IsObject(o), Only(b, o), b.end \in Int,
         NEW q, AreParts(q), NEW off \in Nat,
         \A i \in DOMAIN q : Comes1(b, o, base + off + Skip(q, i), q[i][2], q[i][1]),
         NEW i \in 1 .. 4, NEW c, NextAt(c, r, b, base, o, K, q, off, i)
  PROVE  NextAt(IF i \in DOMAIN q THEN Take(c, c.at - c.base, q[i][2], q[i][1]) ELSE c,
                r, b, base, o, K, q, off, i + 1)
<1>0. /\ Len(q) \in 0 .. 3 /\ DOMAIN q = 1 .. Len(q)
      /\ \A j \in 1 .. Len(q) : q[j][1] \in Fields /\ q[j][2] \in Nat \ {0} /\ q[j][1] # "addr2"
      /\ \A j \in 1 .. Len(q) : Skip(q, j) \in Nat /\ Skip(q, j + 1) = Skip(q, j) + q[j][2]
  BY PartsKnown
<1>1. CASE i \notin DOMAIN q
  <2>1. Named(q, i + 1) = Named(q, i) /\ UpToEnd(q, i + 1) = UpToEnd(q, i)
    <3>1. \A j \in DOMAIN q : j < i + 1 <=> j < i
      BY <1>0, <1>1
    <3>2. i > Len(q)
      BY <1>0, <1>1
    <3> QED
      BY <1>0, <3>1, <3>2 DEF Named, UpToEnd
  <2> QED
    BY <1>1, <2>1, Zenon DEF NextAt
<1>2. CASE i \in DOMAIN q
  <2> DEFINE w == q[i][2]
             f == q[i][1]
             k == off + Skip(q, i)
             x == c.at - c.base
             t == Take(c, x, w, f)
             G == K \cup Named(q, i)
  <2>1. /\ i \in 1 .. Len(q) /\ w \in Nat \ {0} /\ f \in Fields /\ f # "addr2" /\ k \in Nat
        /\ Skip(q, i) \in Nat /\ Skip(q, i + 1) = Skip(q, i) + w
    BY <1>0, <1>2
  <2>2. UpToEnd(q, i) = i /\ UpToEnd(q, i + 1) = i + 1
    BY <1>0, <2>1 DEF UpToEnd
  <2>3. Named(q, i + 1) = Named(q, i) \cup {f}
    <3>1. \A j \in DOMAIN q : j < i + 1 <=> j < i \/ j = i
      BY <1>0, <2>1
    <3> QED
      BY <1>2, <3>1 DEF Named
  <2>4. Comes1(b, o, base + k, w, f)
    <3>1. base + off + Skip(q, i) = base + k
      BY <2>1
    <3> QED
      BY <1>2, <3>1
  <2>5. Reads(c, b, base, o, G) /\ Valued(c, r) /\ (c.ok => r.ok /\ c.at = base + k /\ c.o.val.addr2 # Unset)
    <3>1. base + off + Skip(q, i) = base + k
      BY <2>1
    <3> QED
      BY <2>2, <3>1 DEF NextAt
  <2> HIDE DEF w, f, k, G
  <2>6. c.base = base /\ c.at \in Nat /\ c.b = b /\ IsReader(c) /\ IsObject(c.o) /\ base <= c.at
    BY <2>5 DEF Reads
  <2>7. CASE ~c.ok
    <3>1. t = c
      BY <2>6, <2>7, TakeNot
    <3>2. Reads(c, b, base, o, K \cup Named(q, i + 1))
      BY <2>5, <2>7 DEF Reads
    <3> QED
      BY <1>2, <2>5, <2>7, <3>1, <3>2 DEF NextAt, w, f
  <2>8. CASE c.ok
    <3>1. x = k /\ x \in Nat
      BY <2>1, <2>5, <2>6, <2>8
    <3>2. AfterSource(c, w, f) /\ Reached(c, base + x, w)
      BY <2>5, <2>6, <2>8, <3>1 DEF AfterSource, Reached
    <3>3. Comes1(b, o, base + x, w, f)
      BY <2>4, <3>1
    <3> HIDE DEF x
    <3>4. OwnTaken(t, c, b, base, o, G, w, f)
      BY <2>1, <2>5, <3>1, <3>2, <3>3, TakeOwn, Zenon
    <3> HIDE DEF t
    <3>5. /\ Reads(t, b, base, o, G \cup {f}) /\ Valued(t, c)
          /\ t.ok => t.at = c.at + w /\ \A g \in Fields \ {f} : t.o.val[g] = c.o.val[g]
      BY <3>4 DEF OwnTaken
    <3>6. Valued(t, r)
      BY <2>5, <3>5, Valueds
    <3>7. t.ok => t.o.val.addr2 # Unset
      <4>1. "addr2" \in Fields \ {f}
        BY <2>1 DEF Fields
      <4> QED
        BY <2>5, <2>8, <3>5, <4>1
    <3>8. t.ok => t.at = base + off + Skip(q, i + 1)
      BY <2>1, <2>5, <2>8, <3>5 DEF k
    <3>9. G \cup {f} = K \cup Named(q, i + 1)
      BY <2>3 DEF G
    <3>10. NextAt(t, r, b, base, o, K, q, off, i + 1)
      BY <2>2, <2>5, <2>8, <3>5, <3>6, <3>7, <3>8, <3>9, Zenon DEF NextAt
    <3> QED
      BY <1>2, <3>10 DEF t, x, w, f
  <2> QED
    BY <2>7, <2>8
<1> QED
  BY <1>1, <1>2

\* What a reader that takes the fields q of a body needs.
Ready(r, b, base, o, q, off) ==
  r.ok => /\ r.at = base + off /\ r.o.val.addr2 # Unset
          /\ \A i \in DOMAIN q : Comes1(b, o, base + off + Skip(q, i), q[i][2], q[i][1])

\* t is r, having taken them.
NextsTaken(t, r, b, base, o, K, q) ==
  Reads(t, b, base, o, K \cup {q[i][1] : i \in DOMAIN q}) /\ Valued(t, r) /\ (t.ok => r.ok)

LEMMA NextTaken ==
  ASSUME NEW b, NEW base \in Nat, NEW o, NEW K, NEW r, Reads(r, b, base, o, K), IsObject(o), Only(b, o),
         b.end \in Int, NEW q, AreParts(q), NEW off \in Nat, Ready(r, b, base, o, q, off)
  PROVE  NextsTaken(TakeNext(r, q), r, b, base, o, K, q)
<1> DEFINE do(c, i) == IF i \in DOMAIN q THEN Take(c, c.at - c.base, q[i][2], q[i][1]) ELSE c
           c1 == do(r, 1)
           c2 == do(c1, 2)
           c3 == do(c2, 3)
           c4 == do(c3, 4)
<1>1. TakeNext(r, q) = c4
  BY DEF TakeNext, InTurn
<1>2. IsObject(r.o) /\ IsReader(r)
  BY DEF Reads
<1>3. Valued(r, r)
  BY <1>2 DEF Valued, IsObject
<1>4. CASE ~r.ok
  <2>1. \A i : do(r, i) = r
    BY <1>2, <1>4, TakeNot
  <2> HIDE DEF do
  <2>2. c4 = r
    BY <2>1
  <2>3. Reads(r, b, base, o, K \cup {q[i][1] : i \in DOMAIN q})
    BY <1>4 DEF Reads
  <2> QED
    BY <1>1, <1>3, <1>4, <2>2, <2>3 DEF NextsTaken
<1>5. CASE r.ok
  <2>0. /\ Len(q) \in 0 .. 3 /\ DOMAIN q = 1 .. Len(q) /\ Skip(q, 1) = 0
    BY PartsKnown
  <2>a. /\ \A i \in DOMAIN q : Comes1(b, o, base + off + Skip(q, i), q[i][2], q[i][1])
        /\ r.at = base + off /\ r.o.val.addr2 # Unset
    BY <1>5 DEF Ready
  <2>1. \A i \in 1 .. 4 : \A c :
          NextAt(c, r, b, base, o, K, q, off, i) => NextAt(do(c, i), r, b, base, o, K, q, off, i + 1)
    <3> SUFFICES ASSUME NEW i \in 1 .. 4, NEW c, NextAt(c, r, b, base, o, K, q, off, i)
                 PROVE  NextAt(do(c, i), r, b, base, o, K, q, off, i + 1)
      OBVIOUS
    <3> QED
      BY <1>2, <2>a, NextOne, Zenon
  <2> HIDE DEF do
  <2>2. NextAt(r, r, b, base, o, K, q, off, 1)
    <3>1. K \cup Named(q, 1) = K
      BY <2>0 DEF Named
    <3>2. UpToEnd(q, 1) = 1 /\ base + off + 0 = base + off
      BY <2>0 DEF UpToEnd
    <3> QED
      BY <1>3, <1>5, <2>0, <2>a, <3>1, <3>2, Zenon DEF NextAt
  <2>3. NextAt(c1, r, b, base, o, K, q, off, 2)
    BY <2>1, <2>2
  <2>4. NextAt(c2, r, b, base, o, K, q, off, 3)
    <3> HIDE DEF c1
    <3> QED
      BY <2>1, <2>3
  <2>5. NextAt(c3, r, b, base, o, K, q, off, 4)
    <3> HIDE DEF c2
    <3> QED
      BY <2>1, <2>4
  <2>6. NextAt(c4, r, b, base, o, K, q, off, 5)
    <3> HIDE DEF c3
    <3> QED
      BY <2>1, <2>5
  <2>7. Named(q, 5) = {q[i][1] : i \in DOMAIN q} /\ Skip(q, UpToEnd(q, 5)) = Length(q)
    <3>1. \A j \in DOMAIN q : j < 5
      BY <2>0
    <3>2. UpToEnd(q, 5) = Len(q) + 1
      <4>1. \A k \in 0 .. 3 : ~(5 <= k + 1)
        OBVIOUS
      <4>2. ~(5 <= Len(q) + 1)
        BY <2>0, <4>1, Zenon
      <4> QED
        BY <4>2 DEF UpToEnd
    <3> QED
      BY <3>1, <3>2 DEF Named, Length
  <2> HIDE DEF c4
  <2> QED
    BY <1>1, <2>6, <2>7 DEF NextAt, NextsTaken
<1> QED
  BY <1>4, <1>5

(***************************************************************************)
(* Data and control frames.                                                *)
(***************************************************************************)
LEMMA PayloadTaken ==
  ASSUME NEW b, NEW base \in Nat, NEW o, NEW K, "payload" \notin K, NEW r, Reads(r, b, base, o, K),
         IsObject(o), Only(b, o), b.end \in Int
  PROVE  LET t == TakePayload(r) IN
         Reads(t, b, base, o, K) /\ Valued(t, r) /\ (t.ok => r.ok)
<1> DEFINE t == TakePayload(r)
<1>0. /\ IsReader(r) /\ r.b = b /\ r.base = base /\ IsObject(r.o) /\ Sourced(r.o) /\ r.at \in Nat
      /\ base <= r.at /\ (r.ok => r.at <= b.end /\ r.o.fc = o.fc /\ \A f \in K : r.o.val[f] = o.val[f])
  BY DEF Reads
<1>1. CASE ~r.ok
  BY <1>0, <1>1 DEF TakePayload, Valued, IsObject
<1>2. CASE r.ok
  <2> DEFINE x == IF Left(r) = 0 THEN Unset ELSE ReadAt(b, r.at, Left(r), "payload")
             v == [r.o.val EXCEPT !["payload"] = x]
             q == [r.o EXCEPT !.val = v]
             e == IF Left(r) = 0 THEN r.at ELSE b.end
  <2>1. Left(r) = b.end - r.at
    BY <1>0 DEF Left
  <2>2. t = [ok |-> TRUE, o |-> q, b |-> b, at |-> e, base |-> base]
    <3>0. IsReader(r) /\ r.b = b /\ r.base = base
      BY <1>0
    <3>2. CASE Left(r) = 0
      BY <1>2, <3>0, <3>2, Zenon DEF TakePayload, IsReader
    <3>3. CASE Left(r) # 0
      BY <1>2, <3>0, <3>3 DEF TakePayload, IsReader
    <3> QED
      BY <3>2, <3>3
  <2>3. x \in Int /\ "payload" \in Fields
    <3>1. "payload" \in Fields
      BY DEF Fields
    <3>2. ReadAt(b, r.at, Left(r), "payload") \in Int
      BY <3>1, ReadsOwn
    <3> QED
      BY <3>1, <3>2 DEF Unset
  <2>4. e \in Nat /\ base <= e /\ e <= b.end
    BY <1>0, <1>2, <2>1
  <2> HIDE DEF x, e
  <2>5. v \in [Fields -> Int] /\ \A f : f # "payload" => v[f] = r.o.val[f]
    <3>1. r.o.val \in [Fields -> Int]
      BY <1>0 DEF IsObject
    <3> QED
      BY <2>3, <3>1
  <2>6. IsVal(r.o, v)
    <3>1. v.addr2 = r.o.val.addr2 /\ v.addr3 = r.o.val.addr3
      <4>1. "addr2" # "payload" /\ "addr3" # "payload"
        OBVIOUS
      <4>2. v["addr2"] = r.o.val["addr2"] /\ v["addr3"] = r.o.val["addr3"]
        BY <2>5, <4>1
      <4> QED
        BY <4>2
    <3> HIDE DEF v
    <3> QED
      BY <1>0, <2>5, <3>1 DEF IsVal, Sourced
  <2> HIDE DEF v
  <2>7. IsObject(q) /\ Sourced(q) /\ q.val = v /\ q.fc = r.o.fc
    BY <1>0, <2>6, WithValues
  <2>8. Valued(t, r)
    BY <2>2, <2>7 DEF Valued
  <2> HIDE DEF t, q
  <2>9. IsReader(t) /\ t.o = q /\ t.ok /\ t.b = b /\ t.at = e /\ t.base = base
    BY <2>2 DEF IsReader
  <2>10. \A f \in K : v[f] = o.val[f]
    <3>1. \A f \in K : f # "payload"
      OBVIOUS
    <3> QED
      BY <1>0, <1>2, <2>5, <3>1
  <2>11. Reads(t, b, base, o, K)
    BY <1>0, <1>2, <2>4, <2>7, <2>9, <2>10 DEF Reads
  <2> QED
    BY <1>2, <2>8, <2>11 DEF t
<1> QED
  BY <1>1, <1>2

LEMMA LlcTaken ==
  ASSUME NEW b, NEW base \in Nat, NEW o, NEW K, "llc" \notin K, NEW r, Reads(r, b, base, o, K),
         IsObject(o), Only(b, o), b.end \in Int
  PROVE  LET t == TakeLlc(r) IN
         Reads(t, b, base, o, K) /\ Valued(t, r) /\ (t.ok => r.ok)
<1> DEFINE t == TakeLlc(r)
           u == Take(r, r.at - r.base, 8, "llc")
<1>0. IsReader(r) /\ r.base = base /\ r.at \in Nat /\ base <= r.at /\ IsObject(r.o)
  BY DEF Reads
<1>1. t \in {r, u}
  <2> DEFINE e == << <<"llc", 8>> >>
             do(c, i) == IF i \in DOMAIN e THEN Take(c, c.at - c.base, e[i][2], e[i][1]) ELSE c
  <2>1. DOMAIN e = 1 .. 1 /\ e[1] = <<"llc", 8>>
    OBVIOUS
  <2>2. TakeNext(r, e) = do(do(do(do(r, 1), 2), 3), 4)
    BY DEF TakeNext, InTurn
  <2>3. t = r \/ t = TakeNext(r, e)
    BY DEF TakeLlc
  <2>4. 1 \in 1 .. 1 /\ 2 \notin 1 .. 1 /\ 3 \notin 1 .. 1 /\ 4 \notin 1 .. 1
    OBVIOUS
  <2> HIDE DEF e
  <2>5. do(r, 1) = u
    BY <2>1, <2>4
  <2>6. \A c : do(c, 2) = c /\ do(c, 3) = c /\ do(c, 4) = c
    BY <2>1, <2>4
  <2> HIDE DEF do, t, u
  <2> QED
    BY <2>2, <2>3, <2>5, <2>6
<1>2. Valued(r, r)
  BY <1>0 DEF Valued, IsObject
<1> HIDE DEF t
<1>3. Reads(u, b, base, o, K) /\ Valued(u, r) /\ (u.ok => r.ok)
  <2> DEFINE x == r.at - r.base
  <2>1. x \in Nat /\ "llc" \in Fields /\ 8 \in Nat \ {0}
    BY <1>0 DEF Fields
  <2>2. AfterSource(r, 8, "llc")
    BY DEF AfterSource
  <2>3. K \ {"llc"} = K
    OBVIOUS
  <2> HIDE DEF x
  <2> DEFINE y == Take(r, x, 8, "llc")
  <2>4. HasTaken(y, r, b, base, o, K, x, 8, "llc")
    BY <2>1, <2>2, TakeOne
  <2>5. y = u
    BY DEF x
  <2> HIDE DEF y
  <2>6. Reads(y, b, base, o, K) /\ Valued(y, r) /\ (y.ok => r.ok)
    BY <2>3, <2>4 DEF HasTaken
  <2> QED
    BY <2>5, <2>6
<1> HIDE DEF u
<1> QED
  BY <1>1, <1>2, <1>3 DEF t

\* The fields of a data frame's header.
Quads(o) ==
  (Thirds(o) \cup (IF o.fc.ds THEN {"addr4"} ELSE {}))
    \cup (IF HasQos(o.fc.sub) /\ ~o.fc.ds THEN {"qoscntl"} ELSE {})

LEMMA QosTaken ==
  ASSUME NEW b, NEW o, NEW base, Comes(b, o, base), IsObject(o), NEW p, NEW r, AtThird(r, b, base, o, p),
         r.ok => o.fc.type = Data
  PROVE  LET t == TakeQos(r) IN
         /\ Reads(t, b, base, o, Thirds(o) \cup (IF HasQos(o.fc.sub) /\ ~o.fc.ds THEN {"qoscntl"} ELSE {}))
         /\ Same(t, p) /\ (t.ok => r.ok /\ base + 24 <= t.at)
<1> DEFINE t == TakeQos(r)
           K == Thirds(o)
           Q == IF HasQos(o.fc.sub) /\ ~o.fc.ds THEN {"qoscntl"} ELSE {}
           u == Take(r, 24, 2, "qoscntl")
<1>0. /\ Reads(r, b, base, o, K) /\ Same(r, p) /\ (r.ok => r.at = base + 24) /\ IsReader(r) /\ IsObject(r.o)
      /\ r.b = b
  BY DEF AtThird, Reads
<1>1. b.end \in Int /\ base \in Nat /\ Only(b, o)
  BY ComesIn
<1>2. CASE ~r.ok
  <2>1. t = r
    BY <1>0, <1>2, TakeNot DEF TakeQos
  <2>2. Reads(r, b, base, o, K \cup Q)
    BY <1>0, <1>2 DEF Reads
  <2> QED
    BY <1>0, <1>2, <2>1, <2>2
<1>3. CASE r.ok /\ ~HasQos(o.fc.sub)
  <2>1. t = r
    BY <1>0, <1>3 DEF TakeQos, Reads
  <2>2. Q = {} /\ K \cup {} = K
    BY <1>3
  <2> HIDE DEF t, K, Q
  <2> QED
    BY <1>0, <1>1, <1>3, <2>1, <2>2 DEF t, K, Q
<1>4. CASE r.ok /\ HasQos(o.fc.sub)
  <2>1. t = u
    BY <1>0, <1>4 DEF TakeQos, Reads
  <2>2. AfterSource(r, 2, "qoscntl") /\ Reached(r, base + 24, 2)
    BY <1>0, <1>1 DEF AfterSource, Reached
  <2>3. "qoscntl" \in Fields /\ 24 \in Nat /\ 2 \in Nat \ {0} /\ "qoscntl" \notin K
    BY DEF Fields, Thirds
  <2>4. K \ {"qoscntl"} = K
    BY <2>3
  <2> HIDE DEF K
  <2>5. HasTaken(u, r, b, base, o, K, 24, 2, "qoscntl")
    BY <1>0, <1>1, <2>2, <2>3, TakeOne
  <2>6. ~o.fc.ds => OwnTaken(u, r, b, base, o, K, 2, "qoscntl")
    <3> SUFFICES ASSUME ~o.fc.ds PROVE OwnTaken(u, r, b, base, o, K, 2, "qoscntl")
      OBVIOUS
    <3>1. Comes1(b, o, base + 24, 2, "qoscntl")
      BY <1>4, ComesIn
    <3> QED
      BY <1>0, <1>1, <2>2, <2>3, <3>1, TakeOwn
  <2> HIDE DEF u
  <2>7. Valued(u, r) /\ (u.ok => u.at = r.at + 2 /\ r.ok)
    BY <2>5 DEF HasTaken
  <2>8. Reads(u, b, base, o, K \cup Q)
    <3>1. CASE o.fc.ds
      <4>1. K \cup Q = K
        BY <3>1
      <4> QED
        BY <2>4, <2>5, <4>1, Zenon DEF HasTaken
    <3>2. CASE ~o.fc.ds
      <4>1. Q = {"qoscntl"}
        BY <1>4, <3>2
      <4> QED
        BY <2>6, <3>2, <4>1 DEF OwnTaken
    <3> QED
      BY <3>1, <3>2
  <2>9. Same(u, p)
    BY <1>0, <2>7, SameStill
  <2>10. u.ok => base + 24 <= u.at
    BY <1>0, <1>1, <2>7
  <2> QED
    BY <2>1, <2>7, <2>8, <2>9, <2>10 DEF K
<1> QED
  BY <1>2, <1>3, <1>4

LEMMA FourthTaken ==
  ASSUME NEW b, NEW o, NEW base, Comes(b, o, base), IsObject(o), NEW p, NEW r, AtThird(r, b, base, o, p),
         r.ok => o.fc.type = Data
  PROVE  LET t == TakeFourth(TakeQos(r)) IN
         Reads(t, b, base, o, Quads(o)) /\ Same(t, p) /\ (t.ok => r.ok)
<1> DEFINE u == TakeQos(r)
           t == TakeFourth(u)
           K == Thirds(o) \cup (IF HasQos(o.fc.sub) /\ ~o.fc.ds THEN {"qoscntl"} ELSE {})
           x == Take(u, 24, 6, "addr4")
<1>0. Reads(u, b, base, o, K) /\ Same(u, p) /\ (u.ok => r.ok /\ base + 24 <= u.at)
  BY QosTaken
<1>1. b.end \in Int /\ base \in Nat /\ Only(b, o)
  BY ComesIn
<1>2. Quads(o) = K \cup (IF o.fc.ds THEN {"addr4"} ELSE {})
  BY DEF Quads
<1> HIDE DEF u, K
<1>a. IsReader(u) /\ IsObject(u.o) /\ u.b = b
  BY <1>0 DEF Reads
<1>3. CASE ~u.ok
  <2>1. t = u
    BY <1>a, <1>3, TakeNot DEF TakeFourth
  <2>2. Reads(u, b, base, o, Quads(o))
    BY <1>0, <1>3 DEF Reads
  <2> QED
    BY <1>0, <1>3, <2>1, <2>2 DEF u
<1>4. CASE u.ok /\ ~o.fc.ds
  <2>1. t = u
    BY <1>0, <1>4 DEF TakeFourth, Reads
  <2>2. Quads(o) = K
    BY <1>2, <1>4
  <2> QED
    BY <1>0, <2>1, <2>2 DEF u
<1>5. CASE u.ok /\ o.fc.ds
  <2>1. t = x
    BY <1>0, <1>5 DEF TakeFourth, Reads
  <2>2. AfterSource(u, 6, "addr4") /\ Reached(u, base + 24, 6)
    BY <1>0 DEF AfterSource, Reached
  <2>3. "addr4" \in Fields /\ 24 \in Nat /\ 6 \in Nat \ {0}
    BY DEF Fields
  <2>4. Comes1(b, o, base + 24, 6, "addr4")
    BY <1>0, <1>5, ComesIn
  <2>5. OwnTaken(x, u, b, base, o, K, 6, "addr4")
    BY <1>0, <1>1, <2>2, <2>3, <2>4, TakeOwn
  <2>6. Quads(o) = K \cup {"addr4"}
    BY <1>2, <1>5
  <2> HIDE DEF x
  <2>7. Reads(x, b, base, o, Quads(o)) /\ Valued(x, u) /\ (x.ok => u.ok)
    BY <2>5, <2>6 DEF OwnTaken
  <2>8. Same(x, p)
    BY <1>0, <1>a, <2>7, SameStill
  <2> QED
    BY <1>0, <2>1, <2>7, <2>8 DEF u
<1> QED
  BY <1>3, <1>4, <1>5

LEMMA DataTaken ==
  ASSUME NEW b, NEW o, NEW base, Comes(b, o, base), IsObject(o), NEW p, IsObject(p), Sourced(p)
  PROVE  LET t == DataDisassemble(ReaderOf(p, b, base)) IN
         Reads(t, b, base, o, Quads(o)) /\ Same(t, p) /\ (t.ok => o.fc.type = Data)
<1> DEFINE r == TakeThird(OfType(FrameDisassemble(ReaderOf(p, b, base)), Data))
           r1 == TakeFourth(TakeQos(r))
           r2 == TakeLlc(r1)
           t == TakePayload(r2)
<1>t. DataDisassemble(ReaderOf(p, b, base)) = t
  BY DEF DataDisassemble
<1>0. b.end \in Int /\ base \in Nat /\ Only(b, o) /\ "llc" \notin Quads(o) /\ "payload" \notin Quads(o)
  BY ComesIn DEF Quads, Thirds
<1>1. AtThird(r, b, base, o, p) /\ (r.ok => o.fc.type = Data)
  BY TypedTaken
<1> HIDE DEF r
<1>2. Reads(r1, b, base, o, Quads(o)) /\ Same(r1, p) /\ (r1.ok => r.ok)
  BY <1>1, FourthTaken
<1> HIDE DEF r1
<1>3. Reads(r2, b, base, o, Quads(o)) /\ Valued(r2, r1) /\ (r2.ok => r1.ok)
  BY <1>0, <1>2, LlcTaken
<1> HIDE DEF r2
<1>4. Reads(t, b, base, o, Quads(o)) /\ Valued(t, r2) /\ (t.ok => r2.ok)
  BY <1>0, <1>3, PayloadTaken
<1>5. IsObject(r1.o) /\ IsObject(r2.o)
  BY <1>2, <1>3 DEF Reads
<1> HIDE DEF t
<1>6. Same(r2, p)
  BY <1>2, <1>3, <1>5, SameStill
<1>7. Same(t, p)
  BY <1>4, <1>5, <1>6, SameStill
<1> QED
  BY <1>t, <1>1, <1>2, <1>3, <1>4, <1>7

LEMMA CntlTaken ==
  ASSUME NEW b, NEW o, NEW base, Comes(b, o, base), IsObject(o), NEW p, IsObject(p), Sourced(p)
  PROVE  LET t == ControlDisassemble(ReaderOf(p, b, base)) IN
         Reads(t, b, base, o, {"duration", "addr1"}) /\ Same(t, p) /\ (t.ok => o.fc.type = Cntl)
<1> DEFINE r == FrameDisassemble(ReaderOf(p, b, base))
           s == OfType(r, Cntl)
           t == TakePayload(s)
           K == {"duration", "addr1"}
<1>t. ControlDisassemble(ReaderOf(p, b, base)) = t
  BY DEF ControlDisassemble
<1>0. b.end \in Int /\ base \in Nat /\ Only(b, o) /\ "payload" \notin K
  BY ComesIn
<1>1. Reads(r, b, base, o, K) /\ Same(r, p)
  BY FrameTaken
<1> HIDE DEF r, K
<1>2. Reads(s, b, base, o, K) /\ s.o = r.o /\ s.ok = (r.ok /\ r.o.fc.type = Cntl)
  BY <1>1, OfTypeTaken
<1> HIDE DEF s
<1>3. Same(s, p) /\ (s.ok => o.fc.type = Cntl) /\ IsObject(s.o)
  BY <1>1, <1>2, Zenon DEF Same, Reads
<1>4. Reads(t, b, base, o, K) /\ Valued(t, s) /\ (t.ok => s.ok)
  BY <1>0, <1>2, PayloadTaken
<1> HIDE DEF t
<1>5. Same(t, p)
  BY <1>3, <1>4, SameStill
<1> QED
  BY <1>t, <1>3, <1>4, <1>5 DEF K

(***************************************************************************)
(* Management frames.                                                      *)
(***************************************************************************)
LEMMA SubtypesAre ==
  \A x, y \in Management : TypeOf[x].type = Mgmt /\ (TypeOf[x].sub = TypeOf[y].sub => x = y)
BY DEF Management, Classes, TypeOf, Type, Mgmt, Cntl, Data

LEMMA ClassKnown ==
  ASSUME NEW b, NEW o, NEW base, Comes(b, o, base), IsObject(o), o.class # "Frame",
         o.fc.type = Mgmt, NEW c \in Management, o.fc.sub = TypeOf[c].sub
  PROVE  o.class = c
<1>1. PICK d : Laid(d, o, base)
  BY DEF Comes
<1>2. /\ o.class \in Management => o.fc.sub = TypeOf[o.class].sub
      /\ o.class \notin {"ControlFrame", "DataFrame", "QosData"}
  BY <1>1, ClassesAre DEF Laid
<1>3. o.class \in Management
  BY <1>2, ClassesAre DEF IsObject
<1> QED
  BY <1>2, <1>3, SubtypesAre

\* A reader that has taken the fields of its body, too.
LEMMA BodyTaken ==
  ASSUME NEW b, NEW o, NEW base, Comes(b, o, base), IsObject(o), o.class # "Frame",
         NEW p, IsObject(p), Sourced(p), p.class \in Bodied
  PROVE  LET t == TakeNext(OwnSubtype(ManagementDisassemble(ReaderOf(p, b, base))), In(p.class).body) IN
         /\ Reads(t, b, base, o, Thirds(o) \cup BodyFields(p.class)) /\ Same(t, p)
         /\ t.ok => o.class = p.class /\ o.fc.type = Mgmt /\ o.fc.sub = TypeOf[p.class].sub
<1> DEFINE r == ManagementDisassemble(ReaderOf(p, b, base))
           s == OwnSubtype(r)
           q == Out(p.class).body
           t == TakeNext(s, q)
           K == Thirds(o)
<1>0. b.end \in Int /\ base \in Nat /\ Only(b, o) /\ AreParts(q) /\ In(p.class).body = q /\ p.class \in Management
  BY ComesIn, BodiesAre DEF IsObject, Bodied
<1>1. AtThird(r, b, base, o, p) /\ (r.ok => o.fc.type = Mgmt)
  BY TypedTaken DEF ManagementDisassemble
<1> HIDE DEF r
<1>2. /\ Reads(s, b, base, o, K) /\ s.o = r.o /\ s.at = r.at
      /\ s.ok => r.ok /\ r.o.fc.sub = TypeOf[r.o.class].sub
  <2> DEFINE cond == r.o.fc.sub = TypeOf[r.o.class].sub
  <2>1. s = Need(r, cond) /\ cond \in BOOLEAN
    BY DEF OwnSubtype
  <2>2. Reads(r, b, base, o, K)
    BY <1>1 DEF AtThird
  <2> HIDE DEF cond, s, K
  <2>3. LET x == Need(r, cond) IN
        Reads(x, b, base, o, K) /\ x.o = r.o /\ x.at = r.at /\ x.ok = (r.ok /\ cond)
    BY <2>1, <2>2, NeedTaken
  <2> QED
    BY <2>1, <2>3, Zenon DEF cond
<1> HIDE DEF s
<1>3. s.ok => s.at = base + 24 /\ s.o.val.addr2 # Unset
  BY <1>1, <1>2 DEF AtThird
<1>4. s.ok => o.class = p.class /\ o.fc.type = Mgmt /\ o.fc.sub = TypeOf[p.class].sub
  <2>1. s.ok => o.fc.sub = TypeOf[p.class].sub
    BY <1>1, <1>2 DEF AtThird, Reads, Same
  <2> QED
    BY <1>0, <1>1, <1>2, <2>1, ClassKnown
<1>5. s.ok => \A i \in DOMAIN q : Comes1(b, o, base + 24 + Skip(q, i), q[i][2], q[i][1])
  <2> SUFFICES ASSUME s.ok PROVE \A i \in DOMAIN q : Comes1(b, o, base + 24 + Skip(q, i), q[i][2], q[i][1])
    OBVIOUS
  <2>1. o.class \in Bodied /\ q = Out(o.class).body
    BY <1>4
  <2> HIDE DEF q
  <2> QED
    BY <2>1, BodyComes
<1> HIDE DEF q, K
<1>6. NextsTaken(t, s, b, base, o, K, q)
  <2>1. 24 \in Nat
    OBVIOUS
  <2>2. Ready(s, b, base, o, q, 24)
    BY <1>3, <1>5 DEF Ready
  <2> QED
    BY <1>0, <1>2, <2>1, <2>2, NextTaken
<1> HIDE DEF t
<1>7. Same(t, p)
  <2>1. IsObject(s.o) /\ Same(s, p) /\ Valued(t, s)
    BY <1>1, <1>2, <1>6 DEF Reads, AtThird, Same, NextsTaken
  <2> QED
    BY <2>1, SameStill
<1>8. K \cup {q[i][1] : i \in DOMAIN q} = Thirds(o) \cup BodyFields(p.class)
  BY DEF K, q, BodyFields
<1> QED
  BY <1>0, <1>4, <1>6, <1>7, <1>8, Zenon DEF t, s, r, NextsTaken

(***************************************************************************)
(* Members.                                                                *)
(***************************************************************************)
LEMMA MemberGot ==
  ASSUME NEW p, IsObject(p), NEW t, AreTags(t), Among(p.tags, t), NEW x \in Members(p.class)
  PROVE  LET q == GetMember(p, x) IN
         /\ q = [p EXCEPT !.member = q.member] /\ q.member \in [Members(p.class) -> Int]
         /\ q.member[x] \in Int
         /\ HasTag(p.tags, Id(x)) => HasTag(t, Id(x)) /\ q.member[x] = GetTag(t, Id(x))
         /\ ~HasTag(p.tags, Id(x)) => q = p
         /\ \A y \in Members(p.class) \ {x} : q.member[y] = p.member[y]
<1> DEFINE q == GetMember(p, x)
           v == GetTag(p.tags, Id(x))
<1>1. p.member \in [Members(p.class) -> Int]
  BY DEF IsObject
<1>2. p = [p EXCEPT !.member = p.member]
  BY DEF IsObject
<1>3. CASE ~HasTag(p.tags, Id(x))
  <2>1. q = p
    BY <1>3 DEF GetMember
  <2> HIDE DEF q
  <2> QED
    BY <1>1, <1>2, <1>3, <2>1 DEF q
<1>4. CASE HasTag(p.tags, Id(x))
  <2>1. v \in Int /\ HasTag(t, Id(x)) /\ GetTag(t, Id(x)) = v
    BY <1>4, AmongThem
  <2> HIDE DEF v
  <2> DEFINE w == [p.member EXCEPT ![x] = v]
  <2>2. q = [p EXCEPT !.member = w]
    BY <1>4 DEF GetMember, v
  <2>3. q.member = w
    <3>1. p = [class |-> p.class, fc |-> p.fc, val |-> p.val, member |-> p.member, tags |-> p.tags]
      BY DEF IsObject
    <3> HIDE DEF w, q
    <3>2. q = [class |-> p.class, fc |-> p.fc, val |-> p.val, member |-> w, tags |-> p.tags]
      BY <2>2, <3>1
    <3> QED
      BY <3>2
  <2>4. w \in [Members(p.class) -> Int] /\ w[x] = v /\ \A y \in Members(p.class) \ {x} : w[y] = p.member[y]
    BY <1>1, <2>1
  <2> HIDE DEF w, q
  <2> QED
    BY <1>4, <2>1, <2>2, <2>3, <2>4 DEF q
<1> QED
  BY <1>3, <1>4

LEMMA WithMembers ==
  ASSUME NEW p, IsObject(p), NEW v \in [Members(p.class) -> Int]
  PROVE  LET q == [p EXCEPT !.member = v] IN
         IsObject(q) /\ q.val = p.val /\ q.class = p.class /\ q.fc = p.fc /\ q.tags = p.tags
         /\ q.member = v /\ (Sourced(p) => Sourced(q))
<1> DEFINE q == [p EXCEPT !.member = v]
<1>1. q = [class |-> p.class, fc |-> p.fc, val |-> p.val, member |-> v, tags |-> p.tags]
  BY DEF IsObject
<1>2. q.val = p.val /\ q.class = p.class /\ q.fc = p.fc /\ q.tags = p.tags /\ q.member = v
      /\ q = [class |-> q.class, fc |-> q.fc, val |-> q.val, member |-> q.member, tags |-> q.tags]
  BY <1>1
<1> HIDE DEF q
<1>3. IsObject(q)
  BY <1>2 DEF IsObject
<1>4. Sourced(p) => Sourced(q)
  BY <1>2 DEF Sourced
<1> QED
  BY <1>2, <1>3, <1>4 DEF q

\* A reader that has tags of o, and got the members N from them.
Gets(r, b, base, o, K, c, N) ==
  /\ Reads(r, b, base, o, K) /\ r.o.class = c
  /\ r.ok => /\ Among(r.o.tags, o.tags)
             /\ \A x \in N : HasTag(o.tags, Id(x)) /\ r.o.member[x] = GetTag(o.tags, Id(x))

LEMMA TagsTaken ==
  ASSUME NEW b, NEW o, NEW base, Comes(b, o, base), IsObject(o), NEW K, NEW r, Reads(r, b, base, o, K)
  PROVE  LET t == DisassembleClassTags(r) IN
         Gets(t, b, base, o, K, r.o.class, {}) /\ (t.ok => r.ok)
<1> DEFINE t == DisassembleClassTags(r)
           q == IF r.o.class = "Beacon" THEN DisassembleSplit(r.b, r.at) ELSE DisassembleTags(r.b, r.at)
           p == [r.o EXCEPT !.tags = q]
<1>0. /\ IsReader(r) /\ r.b = b /\ r.base = base /\ r.at \in Nat /\ IsObject(r.o) /\ Sourced(r.o)
      /\ IsBuffer(b) /\ TagsIn(b, o.tags) /\ AreTags(o.tags)
  BY ComesIn DEF Reads, IsObject
<1>1. CASE ~r.ok
  <2>1. t = r
    BY <1>1 DEF DisassembleClassTags
  <2> QED
    BY <1>1, <2>1 DEF Gets
<1>2. CASE r.ok
  <2>1. Among(q, o.tags)
    BY <1>0, TakenAmong
  <2>2. t = [ok |-> TRUE, o |-> p, b |-> b, at |-> r.at, base |-> base]
    <3>1. IsReader(r) /\ r.b = b /\ r.base = base
      BY <1>0
    <3> QED
      BY <1>2, <3>1, Zenon DEF DisassembleClassTags, IsReader
  <2> HIDE DEF q, t
  <2>3. p = [class |-> r.o.class, fc |-> r.o.fc, val |-> r.o.val, member |-> r.o.member, tags |-> q]
    BY <1>0 DEF IsObject
  <2> HIDE DEF p
  <2>4. p.class = r.o.class /\ p.fc = r.o.fc /\ p.val = r.o.val /\ p.member = r.o.member /\ p.tags = q
        /\ p = [class |-> p.class, fc |-> p.fc, val |-> p.val, member |-> p.member, tags |-> p.tags]
    BY <2>3
  <2>5. IsObject(p)
    <3>1. AreTags(q)
      BY <2>1 DEF Among
    <3> QED
      BY <1>0, <2>4, <3>1 DEF IsObject
  <2>6. Sourced(p)
    BY <1>0, <2>4 DEF Sourced
  <2>7. IsReader(t) /\ t.ok /\ t.o = p /\ t.b = b /\ t.at = r.at /\ t.base = base
    BY <2>2 DEF IsReader
  <2>8. Reads(t, b, base, o, K)
    BY <1>2, <2>4, <2>5, <2>6, <2>7 DEF Reads
  <2> QED
    BY <1>2, <2>1, <2>4, <2>7, <2>8 DEF Gets, t
<1> QED
  BY <1>1, <1>2

LEMMA NeededGot ==
  ASSUME NEW b, NEW o, NEW base, IsObject(o), NEW K, NEW N, NEW c, NEW r, Gets(r, b, base, o, K, c, N),
         NEW x \in Members(c), N \subseteq Members(c)
  PROVE  LET t == GetNeeded(r, x) IN
         Gets(t, b, base, o, K, c, N \cup {x}) /\ (t.ok => r.ok)
<1> DEFINE t == GetNeeded(r, x)
           q == GetMember(r.o, x)
           h == HasTag(r.o.tags, Id(x))
<1>0. /\ IsReader(r) /\ r.b = b /\ r.base = base /\ r.at \in Nat /\ IsObject(r.o) /\ Sourced(r.o)
      /\ AreTags(o.tags) /\ r.o.class = c
  BY DEF Gets, Reads, IsObject
<1>1. CASE ~r.ok
  BY <1>1 DEF GetNeeded, Gets
<1>2. CASE r.ok
  <2>1. t = [ok |-> h, o |-> q, b |-> b, at |-> r.at, base |-> base]
    <3>1. IsReader(r) /\ r.b = b /\ r.base = base
      BY <1>0
    <3> QED
      BY <1>2, <3>1, Zenon DEF GetNeeded, IsReader
  <2>2. h \in BOOLEAN
    BY DEF HasTag
  <2>3. Among(r.o.tags, o.tags)
    BY <1>2 DEF Gets
  <2>4. /\ q = [r.o EXCEPT !.member = q.member] /\ q.member \in [Members(c) -> Int]
        /\ h => HasTag(o.tags, Id(x)) /\ q.member[x] = GetTag(o.tags, Id(x))
        /\ \A y \in Members(c) \ {x} : q.member[y] = r.o.member[y]
    BY <1>0, <2>3, MemberGot
  <2> HIDE DEF t, h, q
  <2>5. IsObject(q) /\ q.val = r.o.val /\ q.class = c /\ q.fc = r.o.fc /\ q.tags = r.o.tags /\ Sourced(q)
    <3> DEFINE v == q.member
    <3>1. q = [r.o EXCEPT !.member = v] /\ v \in [Members(r.o.class) -> Int]
      BY <1>0, <2>4
    <3> HIDE DEF v
    <3> QED
      BY <1>0, <3>1, WithMembers
  <2>6. IsReader(t) /\ t.ok = h /\ t.o = q /\ t.b = b /\ t.at = r.at /\ t.base = base
    BY <2>1, <2>2 DEF IsReader
  <2>7. Reads(t, b, base, o, K)
    BY <1>2, <2>5, <2>6 DEF Reads, Gets
  <2>8. \A y \in N : y # x => y \in Members(c) \ {x}
    OBVIOUS
  <2>9. h => \A y \in N \cup {x} : HasTag(o.tags, Id(y)) /\ q.member[y] = GetTag(o.tags, Id(y))
    BY <1>2, <2>4, <2>8 DEF Gets
  <2> QED
    BY <1>2, <2>3, <2>5, <2>6, <2>7, <2>9 DEF Gets, t
<1> QED
  BY <1>1, <1>2

LEMMA OthersGot ==
  ASSUME NEW b, NEW o, NEW base, IsObject(o), NEW K, NEW N, NEW c, NEW r, Gets(r, b, base, o, K, c, N),
         N \subseteq Members(c)
  PROVE  LET t == GetOthers(r) IN
         Gets(t, b, base, o, K, c, N) /\ (t.ok => r.ok)
<1> DEFINE t == GetOthers(r)
           v == [x \in DOMAIN r.o.member |->
                   IF x \in In(r.o.class).gets THEN GetMember(r.o, x).member[x] ELSE r.o.member[x]]
           q == [r.o EXCEPT !.member = v]
<1>0. /\ IsReader(r) /\ r.b = b /\ r.base = base /\ r.at \in Nat /\ IsObject(r.o) /\ Sourced(r.o)
      /\ AreTags(o.tags) /\ r.o.class = c /\ r.o.member \in [Members(c) -> Int]
  BY DEF Gets, Reads, IsObject
<1>1. CASE ~r.ok
  BY <1>1 DEF GetOthers, Gets
<1>2. CASE r.ok
  <2>1. t = [ok |-> TRUE, o |-> q, b |-> b, at |-> r.at, base |-> base]
    <3>1. IsReader(r) /\ r.b = b /\ r.base = base
      BY <1>0
    <3> QED
      BY <1>2, <3>1, Zenon DEF GetOthers, IsReader
  <2>3. Among(r.o.tags, o.tags)
    BY <1>2 DEF Gets
  <2>4. \A x \in Members(c) :
          LET g == GetMember(r.o, x) IN
          /\ g.member[x] \in Int
          /\ HasTag(r.o.tags, Id(x)) => HasTag(o.tags, Id(x)) /\ g.member[x] = GetTag(o.tags, Id(x))
          /\ ~HasTag(r.o.tags, Id(x)) => g.member[x] = r.o.member[x]
    BY <1>0, <2>3, MemberGot
  <2>5. v \in [Members(c) -> Int]
    BY <1>0, <2>4
  <2>6. \A x \in N : v[x] = GetTag(o.tags, Id(x)) /\ HasTag(o.tags, Id(x))
    <3> SUFFICES ASSUME NEW x \in N PROVE v[x] = GetTag(o.tags, Id(x)) /\ HasTag(o.tags, Id(x))
      OBVIOUS
    <3>1. r.o.member[x] = GetTag(o.tags, Id(x)) /\ HasTag(o.tags, Id(x)) /\ x \in Members(c)
      BY <1>2 DEF Gets
    <3>2. GetMember(r.o, x).member[x] = GetTag(o.tags, Id(x))
      BY <2>4, <3>1
    <3>3. v[x] = IF x \in In(r.o.class).gets THEN GetMember(r.o, x).member[x] ELSE r.o.member[x]
      BY <1>0, <3>1
    <3> HIDE DEF v
    <3> QED
      BY <3>1, <3>2, <3>3
  <2> HIDE DEF v, t
  <2>7. IsObject(q) /\ q.val = r.o.val /\ q.class = c /\ q.fc = r.o.fc /\ q.tags = r.o.tags /\ Sourced(q)
        /\ q.member = v
    <3>1. v \in [Members(r.o.class) -> Int]
      BY <1>0, <2>5
    <3> QED
      BY <1>0, <3>1, WithMembers
  <2> HIDE DEF q
  <2>8. IsReader(t) /\ t.ok /\ t.o = q /\ t.b = b /\ t.at = r.at /\ t.base = base
    BY <2>1 DEF IsReader
  <2>9. Reads(t, b, base, o, K)
    BY <1>2, <2>7, <2>8 DEF Reads, Gets
  <2> QED
    BY <1>2, <2>3, <2>6, <2>7, <2>8, <2>9 DEF Gets, t
<1> QED
  BY <1>1, <1>2

\* The members a class cannot do without.
Needed(c) == {In(c).needs[i] : i \in DOMAIN In(c).needs}

LEMMA NeedsAre ==
  ASSUME NEW c \in Classes
  PROVE  LET q == In(c).needs IN
         /\ DOMAIN q \in {{}, 1 .. 1, 1 .. 2} /\ \A i \in DOMAIN q : q[i] \in Members(c)
<1> DEFINE q == In(c).needs
           One == <<"Rates">>
           Two == <<"Ssid", "Rates">>
           Nil == << >>
<1>1. \/ q = Nil
      \/ q = One /\ "Rates" \in Members(c)
      \/ q = Two /\ "Ssid" \in Members(c) /\ "Rates" \in Members(c)
  <2>1. c \in {"Beacon", "ProbeRequest", "ProbeResponse", "AssociationRequest", "AssociationResponse",
               "ReassociationRequest", "ReassociationResponse", "Authentication", "Deauthentication",
               "Disassociation"} \/ In(c) = Nothing
    BY DEF In
  <2>2. CASE c = "Beacon"
    BY <2>2 DEF In, Members, BeaconIn, BeaconMembers
  <2>3. CASE c = "ProbeRequest"
    BY <2>3 DEF In, Members, ProbeRequestIn, ProbeRequestMembers
  <2>4. CASE c = "ProbeResponse"
    BY <2>4 DEF In, Members, ProbeResponseIn, ProbeResponseMembers
  <2>5. CASE c = "AssociationRequest"
    BY <2>5 DEF In, Members, AssociationRequestIn, AssociationRequestMembers
  <2>6. CASE c = "AssociationResponse"
    BY <2>6 DEF In, AssociationResponseIn
  <2>7. CASE c = "ReassociationRequest"
    BY <2>7 DEF In, Members, ReassociationRequestIn, ReassociationRequestMembers
  <2>8. CASE c = "ReassociationResponse"
    BY <2>8 DEF In, ReassociationResponseIn
  <2>9. CASE c \in {"Authentication", "Deauthentication", "Disassociation"}
    BY <2>9 DEF In, AuthenticationIn, DeauthenticationIn, DisassociationIn
  <2>10. CASE In(c) = Nothing
    BY <2>10 DEF Nothing
  <2> QED
    BY <2>1, <2>2, <2>3, <2>4, <2>5, <2>6, <2>7, <2>8, <2>9, <2>10
<1>2. DOMAIN Nil = {} /\ DOMAIN One = 1 .. 1 /\ One[1] = "Rates"
      /\ DOMAIN Two = 1 .. 2 /\ Two[1] = "Ssid" /\ Two[2] = "Rates"
  OBVIOUS
<1>3. \A i : (i \in 1 .. 1 => i = 1) /\ (i \in 1 .. 2 => i = 1 \/ i = 2)
  OBVIOUS
<1> HIDE DEF q, One, Two, Nil
<1>4. DOMAIN q \in {{}, 1 .. 1, 1 .. 2}
  BY <1>1, <1>2
<1>5. \A i \in DOMAIN q : q[i] \in Members(c)
  BY <1>1, <1>2, <1>3
<1> QED
  BY <1>4, <1>5 DEF q

LEMMA MembersGot ==
  ASSUME NEW b, NEW o, NEW base, IsObject(o), NEW K, NEW c \in Classes, NEW r, Gets(r, b, base, o, K, c, {})
  PROVE  LET t == GetMembers(r) IN
         Gets(t, b, base, o, K, c, Needed(c)) /\ (t.ok => r.ok)
<1> DEFINE q == In(c).needs
           do(x, i) == IF i \in DOMAIN q THEN GetNeeded(x, q[i]) ELSE x
           r1 == do(r, 1)
           r2 == do(r1, 2)
           r4 == do(do(r2, 3), 4)
           t == GetOthers(r4)
<1>1. DOMAIN q \in {{}, 1 .. 1, 1 .. 2} /\ \A i \in DOMAIN q : q[i] \in Members(c)
  BY NeedsAre
<1>2. r.o.class = c
  BY DEF Gets
<1>3. GetMembers(r) = t
  BY <1>2 DEF GetMembers, InTurn
<1>4. 3 \notin DOMAIN q /\ 4 \notin DOMAIN q
  <2>1. 3 \notin 1 .. 2 /\ 4 \notin 1 .. 2 /\ 3 \notin 1 .. 1 /\ 4 \notin 1 .. 1
    OBVIOUS
  <2> HIDE DEF q
  <2> QED
    BY <1>1, <2>1
<1>5. r4 = r2
  BY <1>4
<1> DEFINE N1 == IF 1 \in DOMAIN q THEN {q[1]} ELSE {}
           N2 == IF 2 \in DOMAIN q THEN N1 \cup {q[2]} ELSE N1
<1>6. Gets(r1, b, base, o, K, c, N1) /\ (r1.ok => r.ok)
  <2>1. CASE 1 \in DOMAIN q
    <3> DEFINE x == q[1]
    <3>1. x \in Members(c) /\ {} \subseteq Members(c)
      BY <1>1, <2>1
    <3> HIDE DEF x
    <3>2. LET y == GetNeeded(r, x) IN Gets(y, b, base, o, K, c, {} \cup {x}) /\ (y.ok => r.ok)
      BY <3>1, NeededGot
    <3>3. {} \cup {x} = {x}
      OBVIOUS
    <3> QED
      BY <2>1, <3>2, <3>3 DEF x
  <2>2. CASE 1 \notin DOMAIN q
    BY <2>2
  <2> QED
    BY <2>1, <2>2
<1>7. N1 \subseteq Members(c)
  BY <1>1
<1> HIDE DEF r1, N1
<1>8. Gets(r2, b, base, o, K, c, N2) /\ (r2.ok => r1.ok)
  <2>1. CASE 2 \in DOMAIN q
    <3> DEFINE x == q[2]
    <3>1. x \in Members(c)
      BY <1>1, <2>1
    <3> HIDE DEF x
    <3>2. LET y == GetNeeded(r1, x) IN Gets(y, b, base, o, K, c, N1 \cup {x}) /\ (y.ok => r1.ok)
      BY <1>6, <1>7, <3>1, NeededGot
    <3> QED
      BY <2>1, <3>2 DEF x
  <2>2. CASE 2 \notin DOMAIN q
    BY <1>6, <2>2
  <2> QED
    BY <2>1, <2>2
<1>9. N2 \subseteq Members(c)
  BY <1>1, <1>7
<1>10. N2 = Needed(c)
  <2>1. \A i \in DOMAIN q : i = 1 \/ i = 2
    <3>1. \A i : (i \in 1 .. 1 => i = 1) /\ (i \in 1 .. 2 => i = 1 \/ i = 2)
      OBVIOUS
    <3> HIDE DEF q
    <3> QED
      BY <1>1, <3>1
  <2>2. Needed(c) = {q[i] : i \in DOMAIN q}
    BY DEF Needed
  <2> HIDE DEF q
  <2> QED
    BY <2>1, <2>2 DEF N1
<1> HIDE DEF r2, N2, r4
<1>11. LET y == GetOthers(r2) IN Gets(y, b, base, o, K, c, N2) /\ (y.ok => r2.ok)
  BY <1>8, <1>9, OthersGot
<1> QED
  BY <1>3, <1>5, <1>6, <1>8, <1>10, <1>11

(***************************************************************************)
(* Whatever class reads.                                                   *)
(***************************************************************************)
\* What the fields are that a class cannot do without.
Read(c, o) ==
  CASE c = "ControlFrame" -> {"duration", "addr1"}
    [] c \in {"DataFrame", "QosData"} -> Quads(o)
    [] OTHER -> Thirds(o) \cup BodyFields(c)

\* A reader p of a frame of o has become t.
Got(t, p, o) ==
  /\ IsObject(t.o) /\ Sourced(t.o) /\ t.o.class = p.class
  /\ t.ok => /\ t.o.fc = o.fc /\ t.o.fc.type = TypeOf[p.class].type
             /\ p.class \in Management => t.o.fc.sub = TypeOf[p.class].sub /\ p.class = o.class
             /\ \A f \in Read(p.class, o) : t.o.val[f] = o.val[f]
             /\ \A m \in Needed(p.class) :
                  HasTag(o.tags, Id(m)) /\ t.o.member[m] = GetTag(o.tags, Id(m))

LEMMA BodyGot ==
  ASSUME NEW b, NEW o, NEW base, Comes(b, o, base), IsObject(o), o.class # "Frame",
         NEW p, IsObject(p), Sourced(p), p.class \in Bodied
  PROVE  Got(BodyDisassemble(ReaderOf(p, b, base)), p, o)
<1> DEFINE r == TakeNext(OwnSubtype(ManagementDisassemble(ReaderOf(p, b, base))), In(p.class).body)
           s == DisassembleClassTags(r)
           t == GetMembers(s)
           K == Thirds(o) \cup BodyFields(p.class)
<1>0. BodyDisassemble(ReaderOf(p, b, base)) = t
  BY DEF BodyDisassemble, ReaderOf
<1>1. /\ Reads(r, b, base, o, K) /\ Same(r, p)
      /\ r.ok => o.class = p.class /\ o.fc.type = Mgmt /\ o.fc.sub = TypeOf[p.class].sub
  BY BodyTaken
<1> HIDE DEF r, K
<1>2. Gets(s, b, base, o, K, p.class, {}) /\ (s.ok => r.ok)
  <2>1. Gets(s, b, base, o, K, r.o.class, {}) /\ (s.ok => r.ok)
    BY <1>1, TagsTaken
  <2> QED
    BY <1>1, <2>1 DEF Same
<1> HIDE DEF s
<1>3. Gets(t, b, base, o, K, p.class, Needed(p.class)) /\ (t.ok => s.ok)
  <2>1. p.class \in Classes
    BY DEF IsObject
  <2> QED
    BY <1>2, <2>1, MembersGot
<1> HIDE DEF t
<1>4. Read(p.class, o) = K
  BY ClassesAre DEF Read, K
<1>5. p.class \in Management /\ TypeOf[p.class].type = Mgmt
  BY ClassesAre, SubtypesAre
<1>6. IsObject(t.o) /\ Sourced(t.o) /\ t.o.class = p.class /\ (t.ok => t.o.fc = o.fc /\ \A f \in K : t.o.val[f] = o.val[f])
  BY <1>3 DEF Gets, Reads
<1>7. t.ok => \A m \in Needed(p.class) : HasTag(o.tags, Id(m)) /\ t.o.member[m] = GetTag(o.tags, Id(m))
  BY <1>3 DEF Gets
<1> QED
  BY <1>0, <1>1, <1>2, <1>3, <1>4, <1>5, <1>6, <1>7 DEF Got

LEMMA PlainGot ==
  ASSUME NEW b, NEW o, NEW base, Comes(b, o, base), IsObject(o),
         NEW p, IsObject(p), Sourced(p), p.class \in {"ControlFrame", "DataFrame", "QosData"}
  PROVE  Got(ClassDisassemble(ReaderOf(p, b, base)), p, o)
<1> DEFINE r == ReaderOf(p, b, base)
           t == ClassDisassemble(r)
<1>1. r.o.class = p.class /\ p.class \notin Management
  BY ClassesAre DEF ReaderOf
<1>2. Needed(p.class) = {}
  <2>1. In(p.class) = Nothing
    BY DEF In
  <2>2. DOMAIN Nothing.needs = {}
    BY DEF Nothing
  <2> QED
    BY <2>1, <2>2 DEF Needed
<1>3. CASE p.class = "ControlFrame"
  <2>1. t = ControlDisassemble(r)
    BY <1>1, <1>3 DEF ClassDisassemble
  <2>2. Reads(t, b, base, o, {"duration", "addr1"}) /\ Same(t, p) /\ (t.ok => o.fc.type = Cntl)
    BY <2>1, CntlTaken
  <2>3. TypeOf[p.class].type = Cntl /\ Read(p.class, o) = {"duration", "addr1"}
    BY <1>3 DEF TypeOf, Type, Read
  <2> HIDE DEF t
  <2> QED
    BY <1>1, <1>2, <2>2, <2>3 DEF Got, Reads, Same, t, r
<1>4. CASE p.class \in {"DataFrame", "QosData"}
  <2>1. t = DataDisassemble(r)
    BY <1>1, <1>4 DEF ClassDisassemble
  <2>2. Reads(t, b, base, o, Quads(o)) /\ Same(t, p) /\ (t.ok => o.fc.type = Data)
    BY <2>1, DataTaken
  <2>3. TypeOf[p.class].type = Data /\ Read(p.class, o) = Quads(o)
    BY <1>4 DEF TypeOf, Type, Read
  <2> HIDE DEF t
  <2> QED
    BY <1>1, <1>2, <2>2, <2>3 DEF Got, Reads, Same, t, r
<1> QED
  BY <1>3, <1>4

\* A frame object, used before or not, that Disassemble reads into.
LEMMA DisassembleGot ==
  ASSUME NEW b, NEW o, NEW base, NEW fcs \in BOOLEAN, Comes(TakeFcs(b, fcs), o, base), IsObject(o),
         o.class # "Frame", NEW p, IsObject(p), Sourced(p), p.class \notin {"Frame", "ActionRequest"}
  PROVE  Got(Disassemble(p, b, base, fcs), p, o)
<1> DEFINE c == TakeFcs(b, fcs)
           r == ReaderOf(p, c, base)
           t == Disassemble(p, b, base, fcs)
<1>1. t = ClassDisassemble(r)
  BY DEF Disassemble, ReaderOf
<1>2. r.o.class = p.class
  BY DEF ReaderOf
<1>3. p.class \in Bodied \/ p.class \in {"ControlFrame", "DataFrame", "QosData"}
  BY ClassesAre DEF IsObject
<1>4. Comes(c, o, base)
  OBVIOUS
<1> HIDE DEF c
<1>5. CASE p.class \in Bodied
  <2>1. p.class \in Management /\ p.class \notin {"ControlFrame", "DataFrame", "QosData"}
    BY <1>5, ClassesAre
  <2>2. t = BodyDisassemble(r)
    <3> HIDE DEF r
    <3> QED
      BY <1>1, <1>2, <2>1 DEF ClassDisassemble
  <2> QED
    BY <1>4, <1>5, <2>2, BodyGot
<1>6. CASE p.class \in {"ControlFrame", "DataFrame", "QosData"}
  BY <1>1, <1>4, <1>6, PlainGot
<1> QED
  BY <1>3, <1>5, <1>6

(***************************************************************************)
(* A WMM tag is valid whoever has it.                                      *)
(***************************************************************************)
WmmIs(o) ==
  /\ \A i \in DOMAIN o.tags : o.tags[i].id = 221 => o.tags[i].v \in Nat
  /\ "WmmWme" \in Members(o.class) => o.member["WmmWme"] \in Nat

\* A reader whose object is one of class c with such tags.
Numbered(r, c) == IsReader(r) /\ IsObject(r.o) /\ r.o.class = c /\ WmmIs(r.o)

LEMMA WmmGot ==
  ASSUME NEW q, AreTags(q), \A i \in DOMAIN q : q[i].id = 221 => q[i].v \in Nat, HasTag(q, 221)
  PROVE  GetTag(q, 221) \in Nat
<1> DEFINE i == FirstTag(q, 221)
<1>1. i \in DOMAIN q /\ q[i].id = 221 /\ GetTag(q, 221) = q[i].v
  BY FirstIs
<1> HIDE DEF i
<1> QED
  BY <1>1

LEMMA AmongSelf ==
  ASSUME NEW q, AreTags(q)
  PROVE  Among(q, q)
BY DEF Among

LEMMA NeededNumbered ==
  ASSUME NEW c, NEW r, Numbered(r, c), NEW x \in Members(c)
  PROVE  Numbered(GetNeeded(r, x), c)
<1> DEFINE t == GetNeeded(r, x)
           q == GetMember(r.o, x)
           h == HasTag(r.o.tags, Id(x))
<1>0. IsReader(r) /\ IsObject(r.o) /\ r.o.class = c /\ AreTags(r.o.tags) /\ WmmIs(r.o)
  BY DEF Numbered, IsObject
<1>1. CASE ~r.ok
  BY <1>1 DEF GetNeeded
<1>2. CASE r.ok
  <2>1. t = [ok |-> h, o |-> q, b |-> r.b, at |-> r.at, base |-> r.base]
    BY <1>0, <1>2, Zenon DEF GetNeeded, IsReader
  <2>2. h \in BOOLEAN
    BY DEF HasTag
  <2>3. /\ q = [r.o EXCEPT !.member = q.member] /\ q.member \in [Members(c) -> Int]
        /\ h => q.member[x] = GetTag(r.o.tags, Id(x))
        /\ ~h => q = r.o
        /\ \A y \in Members(c) \ {x} : q.member[y] = r.o.member[y]
    BY <1>0, MemberGot, AmongSelf
  <2> HIDE DEF t, h, q
  <2>4. IsObject(q) /\ q.class = c /\ q.tags = r.o.tags
    <3> DEFINE v == q.member
    <3>1. q = [r.o EXCEPT !.member = v] /\ v \in [Members(r.o.class) -> Int]
      BY <1>0, <2>3
    <3> HIDE DEF v
    <3> QED
      BY <1>0, <3>1, WithMembers
  <2>5. WmmIs(q)
    <3>1. \A i \in DOMAIN q.tags : q.tags[i].id = 221 => q.tags[i].v \in Nat
      BY <1>0, <2>4 DEF WmmIs
    <3>2. ASSUME "WmmWme" \in Members(c) PROVE q.member["WmmWme"] \in Nat
      <4>1. CASE x = "WmmWme" /\ h
        <5>1. HasTag(r.o.tags, 221) /\ q.member["WmmWme"] = GetTag(r.o.tags, 221)
          BY <2>3, <4>1, IdsAre DEF h
        <5> QED
          BY <1>0, <5>1, WmmGot DEF WmmIs
      <4>2. CASE x # "WmmWme" \/ ~h
        <5>1. q.member["WmmWme"] = r.o.member["WmmWme"]
          BY <2>3, <3>2, <4>2
        <5> QED
          BY <1>0, <3>2, <5>1 DEF WmmIs
      <4> QED
        BY <4>1, <4>2
    <3> QED
      BY <2>4, <3>1, <3>2 DEF WmmIs
  <2>6. IsReader(t) /\ t.o = q
    BY <2>1, <2>2 DEF IsReader
  <2> QED
    BY <2>4, <2>5, <2>6 DEF Numbered, t
<1> QED
  BY <1>1, <1>2

LEMMA OthersNumbered ==
  ASSUME NEW c, NEW r, Numbered(r, c)
  PROVE  Numbered(GetOthers(r), c)
<1> DEFINE t == GetOthers(r)
           v == [x \in DOMAIN r.o.member |->
                   IF x \in In(r.o.class).gets THEN GetMember(r.o, x).member[x] ELSE r.o.member[x]]
           q == [r.o EXCEPT !.member = v]
<1>0. IsReader(r) /\ IsObject(r.o) /\ r.o.class = c /\ AreTags(r.o.tags) /\ WmmIs(r.o)
      /\ r.o.member \in [Members(c) -> Int]
  BY DEF Numbered, IsObject
<1>1. CASE ~r.ok
  BY <1>1 DEF GetOthers
<1>2. CASE r.ok
  <2>1. t = [ok |-> TRUE, o |-> q, b |-> r.b, at |-> r.at, base |-> r.base]
    BY <1>0, <1>2, Zenon DEF GetOthers, IsReader
  <2>2. \A x \in Members(c) :
          LET g == GetMember(r.o, x) IN
          /\ g.member[x] \in Int
          /\ HasTag(r.o.tags, Id(x)) => g.member[x] = GetTag(r.o.tags, Id(x))
          /\ ~HasTag(r.o.tags, Id(x)) => g.member[x] = r.o.member[x]
    BY <1>0, MemberGot, AmongSelf
  <2>3. v \in [Members(c) -> Int]
    BY <1>0, <2>2
  <2>4. ASSUME "WmmWme" \in Members(c) PROVE v["WmmWme"] \in Nat
    <3>1. r.o.member["WmmWme"] \in Nat
      BY <1>0, <2>4 DEF WmmIs
    <3>2. HasTag(r.o.tags, 221) => GetTag(r.o.tags, 221) \in Nat
      BY <1>0, WmmGot DEF WmmIs
    <3>3. GetMember(r.o, "WmmWme").member["WmmWme"] \in Nat
      BY <2>2, <2>4, <3>1, <3>2, IdsAre
    <3>4. v["WmmWme"] \in {GetMember(r.o, "WmmWme").member["WmmWme"], r.o.member["WmmWme"]}
      BY <1>0, <2>4
    <3> HIDE DEF v
    <3> QED
      BY <3>1, <3>3, <3>4
  <2> HIDE DEF v, t
  <2>5. IsObject(q) /\ q.class = c /\ q.tags = r.o.tags /\ q.member = v
    <3>1. v \in [Members(r.o.class) -> Int]
      BY <1>0, <2>3
    <3> QED
      BY <1>0, <3>1, WithMembers
  <2> HIDE DEF q
  <2>6. WmmIs(q)
    BY <1>0, <2>4, <2>5 DEF WmmIs
  <2>7. IsReader(t) /\ t.o = q
    BY <2>1 DEF IsReader
  <2> QED
    BY <2>5, <2>6, <2>7 DEF Numbered, t
<1> QED
  BY <1>1, <1>2

LEMMA MembersNumbered ==
  ASSUME NEW c \in Classes, NEW r, Numbered(r, c)
  PROVE  Numbered(GetMembers(r), c)
<1> DEFINE q == In(c).needs
           do(x, i) == IF i \in DOMAIN q THEN GetNeeded(x, q[i]) ELSE x
           r1 == do(r, 1)
           r2 == do(r1, 2)
           r3 == do(r2, 3)
           r4 == do(r3, 4)
<1>1. \A i \in DOMAIN q : q[i] \in Members(c)
  BY NeedsAre
<1>2. r.o.class = c
  BY DEF Numbered
<1>3. GetMembers(r) = GetOthers(r4)
  BY <1>2 DEF GetMembers, InTurn
<1> HIDE DEF q
<1>4. \A i : \A x : Numbered(x, c) => Numbered(do(x, i), c)
  BY <1>1, NeededNumbered
<1>5. Numbered(r4, c)
  <2>1. Numbered(r1, c)
    BY <1>4
  <2> HIDE DEF r1
  <2>2. Numbered(r2, c)
    BY <1>4, <2>1
  <2> HIDE DEF r2
  <2>3. Numbered(r3, c)
    BY <1>4, <2>2
  <2> HIDE DEF r3
  <2> QED
    BY <1>4, <2>3
<1> HIDE DEF r4
<1> QED
  BY <1>3, <1>5, OthersNumbered

LEMMA TagsNumbered ==
  ASSUME NEW b, NEW o, NEW base, Comes(b, o, base), IsObject(o), WmmIs(o),
         NEW K, NEW r, Reads(r, b, base, o, K), WmmIs(r.o)
  PROVE  Numbered(DisassembleClassTags(r), r.o.class)
<1> DEFINE t == DisassembleClassTags(r)
           q == IF r.o.class = "Beacon" THEN DisassembleSplit(r.b, r.at) ELSE DisassembleTags(r.b, r.at)
<1>1. /\ IsReader(r) /\ r.b = b /\ r.at \in Nat /\ IsObject(r.o)
      /\ IsBuffer(b) /\ TagsIn(b, o.tags) /\ AreTags(o.tags)
  BY ComesIn DEF Reads, IsObject
<1>2. CASE ~r.ok
  BY <1>1, <1>2 DEF DisassembleClassTags, Numbered
<1>3. CASE r.ok
  <2>1. Among(q, o.tags)
    BY <1>1, TakenAmong
  <2>2. t = [ok |-> r.ok, o |-> [r.o EXCEPT !.tags = q], b |-> r.b, at |-> r.at, base |-> r.base]
    BY <1>1, <1>3, Zenon DEF DisassembleClassTags, IsReader
  <2>3. IsObject(t.o) /\ IsReader(t)
    <3>1. Gets(t, b, base, o, K, r.o.class, {})
      BY TagsTaken
    <3> QED
      BY <3>1 DEF Gets, Reads
  <2> HIDE DEF q
  <2>4. t.o = [r.o EXCEPT !.tags = q]
    BY <2>2
  <2>5. t.o = [class |-> r.o.class, fc |-> r.o.fc, val |-> r.o.val, member |-> r.o.member, tags |-> q]
    BY <1>1, <2>4 DEF IsObject
  <2>6. t.o.class = r.o.class /\ t.o.member = r.o.member /\ t.o.tags = q
    BY <2>5
  <2>7. \A i \in DOMAIN q : q[i].id = 221 => q[i].v \in Nat
    BY <2>1 DEF Among, WmmIs
  <2> HIDE DEF t
  <2> QED
    BY <2>3, <2>6, <2>7 DEF Numbered, WmmIs, t
<1> QED
  BY <1>2, <1>3

LEMMA DisassembleIs ==
  ASSUME NEW p, p.class # "ActionRequest", NEW b, NEW base, NEW fcs
  PROVE  Disassemble(p, b, base, fcs) = ClassDisassemble(ReaderOf(p, TakeFcs(b, fcs), base))
BY DEF Disassemble, ReaderOf

\* An object that read a frame of o.
LEMMA ReadNumbered ==
  ASSUME NEW p, IsObject(p), Sourced(p), p.class # "Frame", WmmIs(p),
         NEW o, IsObject(o), o.class # "Frame", WmmIs(o), NEW b, NEW base, NEW fcs \in BOOLEAN,
         Comes(TakeFcs(b, fcs), o, base)
  PROVE  WmmIs(Disassemble(p, b, base, fcs).o)
<1> DEFINE c == TakeFcs(b, fcs)
           r == ReaderOf(p, c, base)
           t == Disassemble(p, b, base, fcs)
<1>1. CASE p.class = "ActionRequest"
  BY <1>1 DEF Disassemble
<1>2. CASE p.class # "ActionRequest"
  <2>1. t = ClassDisassemble(r) /\ Comes(c, o, base)
    BY <1>2, DisassembleIs
  <2>2. IsObject(p) /\ Sourced(p) /\ IsObject(o) /\ o.class # "Frame" /\ r.o.class = p.class
    BY DEF ReaderOf
  <2> HIDE DEF t, c
  <2>3. CASE p.class \in Bodied
    <3> DEFINE u == TakeNext(OwnSubtype(ManagementDisassemble(r)), In(p.class).body)
               K == Thirds(o) \cup BodyFields(p.class)
    <3>1. t = GetMembers(DisassembleClassTags(u))
      <4>1. p.class \in Management /\ p.class \notin {"ControlFrame", "DataFrame", "QosData"}
        BY <2>3, ClassesAre
      <4> HIDE DEF r
      <4>2. t = BodyDisassemble(r)
        BY <2>1, <2>2, <4>1 DEF ClassDisassemble
      <4> QED
        BY <2>2, <4>2 DEF BodyDisassemble
    <3>2. Reads(u, c, base, o, K) /\ Same(u, p)
      BY <2>1, <2>2, <2>3, BodyTaken
    <3> HIDE DEF u, K, r
    <3>3. WmmIs(u.o) /\ u.o.class = p.class
      BY <3>2 DEF Same, WmmIs
    <3>4. Numbered(DisassembleClassTags(u), u.o.class)
      BY <2>1, <2>2, <3>2, <3>3, TagsNumbered
    <3>5. Numbered(t, p.class)
      <4>1. p.class \in Classes
        BY <2>2 DEF IsObject
      <4> QED
        BY <3>1, <3>3, <3>4, <4>1, MembersNumbered
    <3> QED
      BY <3>5 DEF Numbered, t
  <2>4. CASE p.class \in {"ControlFrame", "DataFrame", "QosData"}
    <3>1. Same(t, p)
      <4>0. p.class \notin Management
        BY <2>4, ClassesAre
      <4>1. CASE p.class = "ControlFrame"
        <5>1. t = ControlDisassemble(r)
          BY <2>1, <2>2, <4>0, <4>1 DEF ClassDisassemble
        <5> QED
          BY <2>1, <2>2, <5>1, CntlTaken
      <4>2. CASE p.class \in {"DataFrame", "QosData"}
        <5>1. t = DataDisassemble(r)
          BY <2>1, <2>2, <4>0, <4>2 DEF ClassDisassemble
        <5> QED
          BY <2>1, <2>2, <5>1, DataTaken
      <4> QED
        BY <2>4, <4>1, <4>2
    <3> QED
      BY <3>1 DEF Same, WmmIs, t
  <2> QED
    BY <1>2, <2>3, <2>4, ClassesAre DEF IsObject
<1> QED
  BY <1>1, <1>2

\* Putting the members of an object.
LEMMA PutNumbered ==
  ASSUME NEW q, AreTags(q), NEW id \in Ids, NEW v \in Int, id = 221 => v \in Nat,
         \A i \in DOMAIN q : q[i].id = 221 => q[i].v \in Nat
  PROVE  \A i \in DOMAIN PutTag(q, id, v) : PutTag(q, id, v)[i].id = 221 => PutTag(q, id, v)[i].v \in Nat
<1> DEFINE t == PutTag(q, id, v)
<1>1. /\ AreTags(t) /\ HasTag(t, id) /\ GetTag(t, id) = v
      /\ \A x : x # id => /\ HasTag(t, x) <=> HasTag(q, x)
                          /\ HasTag(q, x) => GetTag(t, x) = GetTag(q, x)
  BY TagPut
<1> HIDE DEF t
<1> SUFFICES ASSUME NEW i \in DOMAIN t, t[i].id = 221 PROVE t[i].v \in Nat
  BY DEF t
<1>2. HasTag(t, 221)
  BY DEF HasTag
<1>3. t[i].v = GetTag(t, 221)
  BY <1>1, <1>2, FirstIs
<1>4. CASE id = 221
  BY <1>1, <1>3, <1>4
<1>5. CASE id # 221
  <2>1. HasTag(q, 221) /\ GetTag(t, 221) = GetTag(q, 221)
    BY <1>1, <1>2, <1>5
  <2> QED
    BY <1>3, <2>1, WmmGot
<1> QED
  BY <1>4, <1>5

LEMMA MembersPutNumbered ==
  ASSUME NEW o, IsObject(o), WmmIs(o)
  PROVE  WmmIs(PutMembers(o))
<1> DEFINE puts == Out(o.class).puts
           k == Len(puts)
           Fine(q) == \A i \in DOMAIN q : q[i].id = 221 => q[i].v \in Nat
<1>1. k \in Nat /\ \A i \in 1 .. k : puts[i] \in Members(o.class) /\ puts[i] \in TagNames
  <2>1. puts \in Seq(Members(o.class) \cap TagNames)
    BY PutsAre DEF IsObject, ArePuts
  <2> HIDE DEF puts
  <2> QED
    BY <2>1, LenProperties, ElementOfSeq
<1>2. AreTags(o.tags) /\ Fine(o.tags) /\ (\A m \in Members(o.class) : o.member[m] \in Int)
  BY DEF IsObject, WmmIs
<1>3. PICK f : /\ f[0] = o.tags
               /\ \A i \in 1 .. k : f[i] = PutTag(f[i - 1], Id(puts[i]), o.member[puts[i]])
               /\ PutMembers(o) = [o EXCEPT !.tags = f[k]]
  BY <1>1, PutMembersTo
<1> HIDE DEF puts, k
<1> DEFINE I == {i \in 0 .. k : AreTags(f[i]) /\ Fine(f[i])}
<1>4. 0 \in I
  BY <1>1, <1>2, <1>3
<1>5. ASSUME NEW i \in 0 .. k, i < k, i \in I PROVE i + 1 \in I
  <2> DEFINE m == puts[i + 1]
             q == f[i]
  <2>1. i + 1 \in 1 .. k /\ (i + 1) - 1 = i /\ i + 1 \in 0 .. k
    BY <1>1, <1>5
  <2>2. f[i + 1] = PutTag(q, Id(m), o.member[m]) /\ AreTags(q) /\ Fine(q)
    BY <1>3, <1>5, <2>1
  <2>3. Id(m) \in Ids /\ o.member[m] \in Int
    BY <1>1, <1>2, <2>1 DEF Ids
  <2>4. Id(m) = 221 => o.member[m] \in Nat
    <3>1. m \in Members(o.class) /\ m \in TagNames
      BY <1>1, <2>1
    <3>2. Id(m) = 221 => m = "WmmWme"
      <4> HIDE DEF m
      <4> QED
        BY <3>1, IdsAre, NamesAre
    <3> QED
      BY <3>1, <3>2 DEF WmmIs
  <2> HIDE DEF m, q
  <2>5. AreTags(f[i + 1])
    BY <2>2, <2>3, TagPut
  <2>6. Fine(f[i + 1])
    <3>1. Fine(PutTag(q, Id(m), o.member[m]))
      BY <2>2, <2>3, <2>4, PutNumbered
    <3> QED
      BY <2>2, <3>1
  <2> QED
    BY <2>1, <2>5, <2>6
<1>6. k \in I
  <2> HIDE DEF I
  <2>1. \A i \in 0 .. k : i < k /\ i \in I => i + 1 \in I
    BY <1>5
  <2> QED
    BY <1>1, <1>4, <2>1, UpFrom
<1>7. PutMembers(o) = [class |-> o.class, fc |-> o.fc, val |-> o.val, member |-> o.member, tags |-> f[k]]
  BY <1>3 DEF IsObject
<1>8. Fine(PutMembers(o).tags) /\ PutMembers(o).class = o.class /\ PutMembers(o).member = o.member
  BY <1>6, <1>7
<1> QED
  BY <1>8 DEF WmmIs

\* What was sent, by an object that has such tags.
LEMMA AssembleNumbered ==
  ASSUME NEW o, IsObject(o), WmmIs(o), NEW b, Assemble(o, b).ok
  PROVE  WmmIs(Assemble(o, b).o)
<1>1. Assemble(o, b).o = IF o.class \in Bodied THEN PutMembers(o) ELSE o
  BY AssembleKeeps
<1> QED
  BY <1>1, MembersPutNumbered

(***************************************************************************)
(* The air.                                                                *)
(***************************************************************************)
IsFrame(o) == IsObject(o) /\ Sourced(o) /\ WmmIs(o) /\ o.class # "Frame"

\* What came of sending o.
SentAs(x, o, a) ==
  LET s == Assemble(o, TapFor[a]) IN
  s.ok /\ x = [b |-> Pop(WithFcs(s.b, a), a.lost), base |-> TapFor[a].end, from |-> s.o,
               fcs |-> HasFcs[a], lost |-> a.lost]

OnAir(x) == \E a \in Arrivals : \E o : IsFrame(o) /\ SentAs(x, o, a)

AirIInv ==
  /\ n \in Nat
  /\ IsFrame(tx) /\ tx.fc.type = TypeOf[tx.class].type
  /\ IsFrame(rx)
  /\ air # Silence => OnAir(air)
  /\ note # NoNote => air # Silence /\ note = Notification(air.b)
  /\ TakenIsOwn

LEMMA NewIs ==
  ASSUME NEW c \in Classes
  PROVE  IsObject(New(c)) /\ Sourced(New(c)) /\ WmmIs(New(c)) /\ New(c).class = c /\ New(c).fc = TypeOf[c]
<1> DEFINE o == New(c)
           v == [f \in Fields |-> Unset]
           m == [t \in Members(c) |-> IF t = "WmmWme" THEN Default ELSE Invalid]
           q == << >>
<1>1. o = [class |-> c, fc |-> TypeOf[c], val |-> v, member |-> m, tags |-> q]
  BY DEF New
<1>2. v \in [Fields -> Int] /\ v.addr3 = Unset
  <2>1. "addr3" \in Fields
    BY DEF Fields
  <2> QED
    BY <2>1 DEF Unset
<1>3. m \in [Members(c) -> Int]
  BY DEF Default, Invalid
<1>4. AreTags(q) /\ DOMAIN q = {}
  BY DEF AreTags
<1>7. "WmmWme" \in Members(c) => m["WmmWme"] \in Nat
  BY DEF Default
<1>5. TypeOf[c] \in [type : {Mgmt, Cntl, Data}, sub : Nat, ds : BOOLEAN]
  <2>1. \A y \in {Mgmt, Cntl, Data}, z \in Nat : Type(y, z) \in [type : {Mgmt, Cntl, Data}, sub : Nat, ds : BOOLEAN]
    BY DEF Type
  <2>2. \E y \in {Mgmt, Cntl, Data}, z \in Nat : TypeOf[c] = Type(y, z)
    BY DEF Classes, TypeOf
  <2> QED
    BY <2>1, <2>2, Zenon
<1> HIDE DEF v, m, q, o
<1>6. o.class = c /\ o.fc = TypeOf[c] /\ o.val = v /\ o.member = m /\ o.tags = q
      /\ o = [class |-> o.class, fc |-> o.fc, val |-> o.val, member |-> o.member, tags |-> o.tags]
  BY <1>1
<1> QED
  BY <1>2, <1>3, <1>4, <1>5, <1>6, <1>7 DEF IsObject, Sourced, WmmIs, o

LEMMA AssembleIs ==
  ASSUME NEW o, IsFrame(o), NEW b, Assemble(o, b).ok
  PROVE  IsFrame(Assemble(o, b).o) /\ Assemble(o, b).o.class = o.class /\ Assemble(o, b).o.fc = o.fc
<1> DEFINE p == Assemble(o, b).o
           q == p.tags
<1>1. IsObject(p) /\ p = [o EXCEPT !.tags = q] /\ WmmIs(p)
  BY AssembleKeeps, AssembleNumbered DEF IsFrame
<1> HIDE DEF p, q
<1>2. o = [class |-> o.class, fc |-> o.fc, val |-> o.val, member |-> o.member, tags |-> o.tags]
  BY DEF IsFrame, IsObject
<1>3. p = [class |-> o.class, fc |-> o.fc, val |-> o.val, member |-> o.member, tags |-> q]
  BY <1>1, <1>2
<1> QED
  BY <1>1, <1>3 DEF IsFrame, Sourced, p

LEMMA OnAirComes ==
  ASSUME NEW x, OnAir(x)
  PROVE  /\ Comes(TakeFcs(x.b, x.fcs), x.from, x.base) /\ x.fcs \in BOOLEAN
         /\ IsFrame(x.from)
<1>0. PICK a \in Arrivals : \E o : IsFrame(o) /\ SentAs(x, o, a)
  BY DEF OnAir
<1>1. PICK o : IsFrame(o) /\ SentAs(x, o, a)
  BY <1>0
<1> DEFINE s == Assemble(o, TapFor[a])
           b == TapFor[a]
<1>2. IsPlain(b) /\ a.lost \in Nat
  BY TapForPlain
<1>3. IsBuffer(b) /\ b.end \in Nat /\ Only(b, o) /\ NoTags(b)
  BY <1>2, PlainOnly DEF IsPlain
<1>4. s.ok
  BY <1>1 DEF SentAs
<1>5. IsFrame(s.o)
  BY <1>1, <1>4, AssembleIs
<1>6. Laid(s.b, s.o, b.end)
  <2> HIDE DEF b
  <2>1. Assemble(o, b).ok
    BY <1>4 DEF b
  <2>2. LET y == Assemble(o, b) IN Laid(y.b, y.o, b.end) /\ Ended(y.b, y.o, b.end)
    BY <1>1, <1>3, <2>1, AssembledHas DEF IsFrame
  <2> QED
    BY <2>2 DEF b
<1>7. HasFcs[a] \in BOOLEAN
  BY DEF HasFcs, FcsFlag
<1> DEFINE fcs == HasFcs[a]
<1>8. /\ x.b = Pop(IF fcs THEN Write(s.b, s.b.end, 4, "fcs", 0) ELSE s.b, a.lost) /\ x.base = b.end
      /\ x.from = s.o /\ x.fcs = fcs
  BY <1>1 DEF SentAs, WithFcs
<1> HIDE DEF fcs, s, b
<1>9. fcs \in BOOLEAN
  BY <1>7 DEF fcs
<1>10. Comes(TakeFcs(Pop(IF fcs THEN Write(s.b, s.b.end, 4, "fcs", 0) ELSE s.b, a.lost), fcs), s.o, b.end)
  BY <1>2, <1>6, <1>9, Arriving
<1> QED
  BY <1>5, <1>8, <1>9, <1>10

LEMMA SentIs ==
  ASSUME NEW o, IsFrame(o), NEW a \in Arrivals, Send(o, a)
  PROVE  /\ OnAir(air')
         /\ IsFrame(air'.from) /\ air'.from.class = o.class /\ air'.from.fc = o.fc /\ note' = NoNote
<1>1. SentAs(air', o, a) /\ note' = NoNote
  BY DEF Send, Sent, Arrive, SentAs
<1>2. air'.from = Assemble(o, TapFor[a]).o /\ Assemble(o, TapFor[a]).ok
  BY <1>1 DEF SentAs
<1> QED
  BY <1>1, <1>2, AssembleIs DEF OnAir

\* The fields each frame carries are read by whatever class reads it.
LEMMA CarriedRead ==
  ASSUME NEW p, NEW o, NEW t, IsObject(p), p.class \notin {"Frame", "ActionRequest"}, Got(t, p, o), t.ok
  PROVE  \A f \in Carried(o) \ (IF t.o.fc.type = Cntl THEN {"addr2"} ELSE {}) : t.o.val[f] = o.val[f]
<1>1. /\ t.o.fc = o.fc /\ o.fc.type = TypeOf[p.class].type
      /\ p.class \in Management => p.class = o.class
      /\ \A f \in Read(p.class, o) : t.o.val[f] = o.val[f]
  BY DEF Got
<1>2. Carried(o) \ (IF o.fc.type = Cntl THEN {"addr2"} ELSE {}) \subseteq Read(p.class, o)
  <2>1. p.class \in Management \/ p.class \in {"ControlFrame", "DataFrame", "QosData"}
    BY ClassesAre DEF IsObject
  <2>2. CASE p.class \in Management
    <3>1. o.fc.type = Mgmt
      BY <1>1, <2>2, SubtypesAre
    <3>2. p.class \notin {"ControlFrame", "DataFrame", "QosData"} /\ p.class = o.class
      BY <1>1, <2>2, ClassesAre
    <3>3. Read(p.class, o) = Thirds(o) \cup BodyFields(o.class)
      BY <3>2 DEF Read
    <3> QED
      BY <3>1, <3>3, ClassesAre DEF Carried, Thirds
  <2>3. CASE p.class = "ControlFrame"
    <3>1. o.fc.type = Cntl
      BY <1>1, <2>3 DEF TypeOf, Type
    <3>2. Read(p.class, o) = {"duration", "addr1"}
      BY <2>3 DEF Read
    <3> QED
      BY <3>1, <3>2, ClassesAre DEF Carried
  <2>4. CASE p.class \in {"DataFrame", "QosData"}
    <3>1. o.fc.type = Data
      BY <1>1, <2>4 DEF TypeOf, Type
    <3>2. Read(p.class, o) = Quads(o)
      BY <2>4 DEF Read
    <3> QED
      BY <3>1, <3>2, ClassesAre DEF Carried, Quads, Thirds
  <2> QED
    BY <2>1, <2>2, <2>3, <2>4
<1> QED
  BY <1>1, <1>2

\* What was read into an object that reads a frame of o is the frame's own.
OwnIs(t, o) ==
  t.ok /\ t.o.class # "ActionRequest" =>
    /\ t.o.fc = o.fc
    /\ t.o.fc.type = TypeOf[t.o.class].type
    /\ t.o.class \in Management => t.o.fc.sub = TypeOf[t.o.class].sub
    /\ \A f \in Carried(o) \ (IF t.o.fc.type = Cntl THEN {"addr2"} ELSE {}) : t.o.val[f] = o.val[f]
    /\ \A i \in DOMAIN In(t.o.class).needs :
         LET m == In(t.o.class).needs[i] IN
         HasTag(o.tags, Id(m)) /\ t.o.member[m] = GetTag(o.tags, Id(m))

\* The reader's object when it has read what arrived.
LEMMA TakenOwn ==
  ASSUME NEW p, IsFrame(p), NEW o, IsFrame(o), NEW b, NEW base, NEW fcs \in BOOLEAN,
         Comes(TakeFcs(b, fcs), o, base)
  PROVE  LET t == Disassemble(p, b, base, fcs) IN IsFrame(t.o) /\ OwnIs(t, o)
<1> DEFINE t == Disassemble(p, b, base, fcs)
<1>1. CASE p.class = "ActionRequest"
  <2>1. t.o = p
    BY <1>1 DEF Disassemble
  <2> QED
    BY <1>1, <2>1 DEF OwnIs
<1>2. CASE p.class # "ActionRequest"
  <2>1. Got(t, p, o)
    BY <1>2, DisassembleGot DEF IsFrame
  <2>0. WmmIs(t.o)
    BY ReadNumbered DEF IsFrame
  <2> HIDE DEF t
  <2>2. IsFrame(t.o) /\ t.o.class = p.class
    BY <2>0, <2>1 DEF Got, IsFrame
  <2>3. ASSUME t.ok PROVE \A f \in Carried(o) \ (IF t.o.fc.type = Cntl THEN {"addr2"} ELSE {}) : t.o.val[f] = o.val[f]
    BY <1>2, <2>1, <2>3, CarriedRead DEF IsFrame
  <2>4. t.ok => \A m \in Needed(p.class) : HasTag(o.tags, Id(m)) /\ t.o.member[m] = GetTag(o.tags, Id(m))
    BY <2>1 DEF Got
  <2>5. t.ok => \A i \in DOMAIN In(t.o.class).needs :
                   LET m == In(t.o.class).needs[i] IN
                   HasTag(o.tags, Id(m)) /\ t.o.member[m] = GetTag(o.tags, Id(m))
    BY <2>2, <2>4 DEF Needed
  <2>6. t.ok => t.o.fc = o.fc /\ t.o.fc.type = TypeOf[t.o.class].type
                /\ (t.o.class \in Management => t.o.fc.sub = TypeOf[t.o.class].sub)
    BY <2>1, <2>2 DEF Got
  <2> QED
    BY <2>2, <2>3, <2>5, <2>6 DEF t, OwnIs
<1> QED
  BY <1>1, <1>2

LEMMA InitAir == AirInit => AirIInv
<1> SUFFICES ASSUME AirInit PROVE AirIInv
  OBVIOUS
<1>1. PICK p \in Pairs : tx = New(p[1]) /\ rx = New(p[2])
  BY DEF AirInit
<1>2. p[1] \in Classes \ {"Frame"} /\ p[2] \in Classes \ {"Frame"}
  BY AirAssumption
<1>3. IsFrame(tx) /\ tx.fc.type = TypeOf[tx.class].type /\ IsFrame(rx)
  BY <1>1, <1>2, NewIs DEF IsFrame
<1> QED
  BY <1>3 DEF AirInit, AirIInv, TakenIsOwn

LEMMA ComposeAir ==
  ASSUME AirIInv, NEW S, NEW source \in BOOLEAN, NEW ds \in BOOLEAN, NEW payload \in BOOLEAN,
         Compose(S, source, ds, payload)
  PROVE  AirIInv'
<1> DEFINE v == n + 1
           c == [tx.fc EXCEPT !.ds = ds]
           w == [f \in Fields |->
                  CASE f = "addr2" -> IF source THEN v ELSE Unset
                    [] f = "payload" -> IF payload THEN v ELSE Unset
                    [] f \in {"duration", "addr1", "addr3", "seqcntl", "qoscntl", "addr4", "llc"}
                             \cup BodyFields(tx.class) -> v
                    [] OTHER -> tx.val[f]]
           m == [x \in DOMAIN tx.member |-> IF x \in S THEN SetTag(x, tx.member[x], v) ELSE tx.member[x]]
<1>0. n \in Nat /\ IsFrame(tx) /\ tx.fc.type = TypeOf[tx.class].type /\ IsFrame(rx)
  BY DEF AirIInv
<1>1. v \in Int /\ v # 0 /\ n' \in Nat
  BY <1>0 DEF Compose
<1>2. IsObject(tx) /\ Sourced(tx)
  BY <1>0 DEF IsFrame
<1>3. tx' = [class |-> tx.class, fc |-> c, val |-> w, member |-> m, tags |-> tx.tags]
  <2>1. tx = [class |-> tx.class, fc |-> tx.fc, val |-> tx.val, member |-> tx.member, tags |-> tx.tags]
    BY <1>2 DEF IsObject
  <2>2. tx' = [tx EXCEPT !.fc.ds = ds, !.val = w, !.member = m]
    BY DEF Compose
  <2> HIDE DEF w, m
  <2>3. tx' = [tx EXCEPT !.fc = c, !.val = w, !.member = m]
    BY <2>2
  <2> HIDE DEF c
  <2> QED
    BY <2>1, <2>3, Zenon
<1>4. c \in [type : {Mgmt, Cntl, Data}, sub : Nat, ds : BOOLEAN] /\ c.type = tx.fc.type
  <2>1. tx.fc \in [type : {Mgmt, Cntl, Data}, sub : Nat, ds : BOOLEAN]
    BY <1>2 DEF IsObject
  <2> QED
    BY <2>1
<1>5. w \in [Fields -> Int]
  <2>1. tx.val \in [Fields -> Int] /\ Unset \in Int
    BY <1>2 DEF IsObject, Unset
  <2> QED
    BY <1>1, <2>1
<1>6. w.addr2 = IF source THEN v ELSE Unset
  <2>1. "addr2" \notin BodyFields(tx.class)
    <3>1. AreParts(Out(tx.class).body)
      BY <1>2, BodiesAre DEF IsObject
    <3> QED
      BY <3>1 DEF AreParts, BodyFields
  <2>2. "addr2" \in Fields
    BY DEF Fields
  <2> QED
    BY <2>1, <2>2
<1>7. m \in [Members(tx.class) -> Int]
  <2>1. tx.member \in [Members(tx.class) -> Int]
    BY <1>2 DEF IsObject
  <2>2. \A x \in Members(tx.class) : SetTag(x, tx.member[x], v) \in Int
    BY <1>1, <2>1 DEF SetTag, WmmWmeTag
  <2> QED
    BY <2>1, <2>2
<1>8. tx.class = "ControlFrame" \/ source
  <2>1. source \/ tx.fc.type = Cntl
    BY DEF Compose
  <2>2. tx.fc.type = Cntl => tx.class = "ControlFrame"
    <3>1. tx.class \in Management => TypeOf[tx.class].type # Cntl
      BY SubtypesAre, ClassesAre
    <3>2. tx.class \in {"DataFrame", "QosData"} => TypeOf[tx.class].type # Cntl
      BY DEF TypeOf, Type, Data, Cntl
    <3> QED
      BY <1>0, <3>1, <3>2, ClassesAre DEF IsFrame, IsObject
  <2> QED
    BY <2>1, <2>2
<1>14. "WmmWme" \in Members(tx.class) => m["WmmWme"] \in Nat
  <2> SUFFICES ASSUME "WmmWme" \in Members(tx.class) PROVE m["WmmWme"] \in Nat
    OBVIOUS
  <2>1. tx.member["WmmWme"] \in Nat /\ DOMAIN tx.member = Members(tx.class)
    BY <1>0, <1>2 DEF IsFrame, WmmIs, IsObject
  <2>2. v \in Nat
    BY <1>0
  <2> HIDE DEF v
  <2>3. SetTag("WmmWme", tx.member["WmmWme"], v) \in Nat
    BY <2>1, <2>2 DEF SetTag, WmmWmeTag
  <2>4. m["WmmWme"] \in {SetTag("WmmWme", tx.member["WmmWme"], v), tx.member["WmmWme"]}
    BY <2>1
  <2> HIDE DEF m
  <2> QED
    BY <2>1, <2>3, <2>4
<1> HIDE DEF v, c, w, m
<1>15. WmmIs(tx')
  BY <1>0, <1>3, <1>14 DEF IsFrame, WmmIs
<1>9. /\ tx'.class = tx.class /\ tx'.fc = c /\ tx'.val = w /\ tx'.member = m /\ tx'.tags = tx.tags
      /\ tx' = [class |-> tx'.class, fc |-> tx'.fc, val |-> tx'.val, member |-> tx'.member, tags |-> tx'.tags]
  BY <1>3
<1>10. IsObject(tx')
  BY <1>2, <1>4, <1>5, <1>7, <1>9 DEF IsObject
<1>11. Sourced(tx')
  BY <1>1, <1>6, <1>8, <1>9 DEF Sourced, Unset
<1>12. IsFrame(tx') /\ tx'.fc.type = TypeOf[tx'.class].type
  BY <1>0, <1>4, <1>9, <1>10, <1>11, <1>15 DEF IsFrame
<1>13. rx' = rx /\ air' = Silence /\ note' = NoNote /\ took' = "none"
  BY DEF Compose, Forget
<1> QED
  BY <1>0, <1>1, <1>12, <1>13 DEF AirIInv, TakenIsOwn

LEMMA AddTagAir ==
  ASSUME AirIInv, NEW id \in AddedTags, AddTag(id)
  PROVE  AirIInv'
<1> DEFINE q == PutTag(tx.tags, id, n)
<1>0. n \in Nat /\ IsFrame(tx) /\ tx.fc.type = TypeOf[tx.class].type /\ IsFrame(rx)
  BY DEF AirIInv
<1>1. IsObject(tx) /\ Sourced(tx)
  BY <1>0 DEF IsFrame
<1>2. AreTags(q)
  <2>1. id \in Ids
    BY AirAssumption DEF Ids
  <2> QED
    BY <1>0, <1>1, <2>1, TagPut DEF IsObject
<1>7. \A i \in DOMAIN q : q[i].id = 221 => q[i].v \in Nat
  <2>1. id \in Ids
    BY AirAssumption DEF Ids
  <2>2. AreTags(tx.tags) /\ \A i \in DOMAIN tx.tags : tx.tags[i].id = 221 => tx.tags[i].v \in Nat
    BY <1>0 DEF IsFrame, IsObject, WmmIs
  <2> QED
    BY <1>0, <2>1, <2>2, PutNumbered
<1>3. tx' = [class |-> tx.class, fc |-> tx.fc, val |-> tx.val, member |-> tx.member, tags |-> q]
  <2>1. tx = [class |-> tx.class, fc |-> tx.fc, val |-> tx.val, member |-> tx.member, tags |-> tx.tags]
    BY <1>1 DEF IsObject
  <2>2. tx' = [tx EXCEPT !.tags = q]
    BY DEF AddTag
  <2> HIDE DEF q
  <2> QED
    BY <2>1, <2>2
<1> HIDE DEF q
<1>4. /\ tx'.class = tx.class /\ tx'.fc = tx.fc /\ tx'.val = tx.val /\ tx'.member = tx.member /\ tx'.tags = q
      /\ tx' = [class |-> tx'.class, fc |-> tx'.fc, val |-> tx'.val, member |-> tx'.member, tags |-> tx'.tags]
  BY <1>3
<1>8. WmmIs(tx')
  BY <1>0, <1>4, <1>7 DEF IsFrame, WmmIs
<1>5. IsFrame(tx') /\ tx'.fc.type = TypeOf[tx'.class].type
  BY <1>0, <1>1, <1>2, <1>4, <1>8 DEF IsObject, Sourced, IsFrame
<1>6. rx' = rx /\ n' = n /\ air' = Silence /\ note' = NoNote /\ took' = "none"
  BY DEF AddTag, Forget
<1> QED
  BY <1>0, <1>5, <1>6 DEF AirIInv, TakenIsOwn

LEMMA SendTxAir ==
  ASSUME AirIInv, NEW a \in Arrivals, SendTx(a)
  PROVE  AirIInv'
<1>0. n \in Nat /\ IsFrame(tx) /\ tx.fc.type = TypeOf[tx.class].type /\ IsFrame(rx)
  BY DEF AirIInv
<1>1. Send(tx, a) /\ took' = "none" /\ tx' = air'.from /\ rx' = rx /\ n' = n
  BY DEF SendTx
<1>2. OnAir(air') /\ IsFrame(air'.from) /\ air'.from.class = tx.class /\ air'.from.fc = tx.fc /\ note' = NoNote
  BY <1>0, <1>1, SentIs
<1> QED
  BY <1>0, <1>1, <1>2 DEF AirIInv, TakenIsOwn

LEMMA ForwardAir ==
  ASSUME AirIInv, NEW a \in Arrivals, Forward(a)
  PROVE  AirIInv'
<1>0. n \in Nat /\ IsFrame(tx) /\ tx.fc.type = TypeOf[tx.class].type /\ IsFrame(rx)
  BY DEF AirIInv
<1>1. Send(rx, a) /\ took' = "forwarded" /\ rx' = air'.from /\ tx' = tx /\ n' = n
  BY DEF Forward
<1>2. OnAir(air') /\ IsFrame(air'.from) /\ note' = NoNote
  BY <1>0, <1>1, SentIs
<1> QED
  BY <1>0, <1>1, <1>2 DEF AirIInv, TakenIsOwn

LEMMA RecvAir == ASSUME AirIInv, Recv PROVE AirIInv'
<1>0. /\ n \in Nat /\ IsFrame(tx) /\ tx.fc.type = TypeOf[tx.class].type /\ IsFrame(rx)
      /\ air # Silence => OnAir(air)
  BY DEF AirIInv
<1>1. air # Silence /\ took # "ok" /\ note' = Notification(air.b) /\ tx' = tx /\ rx' = rx /\ air' = air
      /\ took' = took /\ n' = n
  BY DEF Recv
<1> QED
  BY <1>0, <1>1 DEF AirIInv, TakenIsOwn

LEMMA TakeFrameAir == ASSUME AirIInv, TakeFrame PROVE AirIInv'
<1> DEFINE d == Disassemble(rx, air.b, air.base, air.fcs)
<1>0. /\ n \in Nat /\ IsFrame(tx) /\ tx.fc.type = TypeOf[tx.class].type /\ IsFrame(rx)
      /\ air # Silence => OnAir(air)
  BY DEF AirIInv
<1>1. air # Silence /\ note = NoNote /\ rx' = d.o /\ took' = (IF d.ok THEN "ok" ELSE "failed")
      /\ tx' = tx /\ air' = air /\ note' = note /\ n' = n
  BY DEF TakeFrame, Taken
<1>2. Comes(TakeFcs(air.b, air.fcs), air.from, air.base) /\ air.fcs \in BOOLEAN /\ IsFrame(air.from)
  BY <1>0, <1>1, OnAirComes
<1>3. IsFrame(d.o) /\ OwnIs(d, air.from)
  BY <1>0, <1>2, TakenOwn
<1> HIDE DEF d
<1>4. TakenIsOwn'
  BY <1>1, <1>3 DEF TakenIsOwn, OwnIs
<1> QED
  BY <1>0, <1>1, <1>3, <1>4 DEF AirIInv

LEMMA NextAir == ASSUME AirIInv, AirNext \/ UNCHANGED airVars PROVE AirIInv'
<1>1. CASE \E S \in TagSets, source, ds, payload \in BOOLEAN : Compose(S, source, ds, payload)
  BY <1>1, ComposeAir
<1>2. CASE \E id \in AddedTags : AddTag(id)
  BY <1>2, AddTagAir
<1>3. CASE \E a \in Arrivals : SendTx(a) \/ Forward(a)
  BY <1>3, SendTxAir, ForwardAir
<1>4. CASE Recv
  BY <1>4, RecvAir
<1>5. CASE TakeFrame
  BY <1>5, TakeFrameAir
<1>6. CASE UNCHANGED airVars
  BY <1>6 DEF airVars, AirIInv, TakenIsOwn
<1> QED
  BY <1>1, <1>2, <1>3, <1>4, <1>5, <1>6 DEF AirNext

LEMMA NewFrameIs == IsObject(New("Frame")) /\ New("Frame").class = "Frame" /\ New("Frame").fc = TypeOf["Frame"]
<1>1. "Frame" \in Classes
  BY ClassesAre
<1> QED
  BY <1>1, NewIs

(***************************************************************************)
(* What was in the buffer before a frame is assembled behind it stays.     *)
(***************************************************************************)
\* A writer whose frame begins within its buffer.
Rooted(s) == IsWriter(s) /\ s.base \in Nat /\ (s.ok => s.b.end \in Nat /\ s.base <= s.b.end)
\* t is s, having written behind the place where its frame begins.
Lifted(t, s) == Rooted(t) /\ t.o = s.o /\ t.base = s.base /\ (t.ok => s.ok /\ Kept(t.b, s.b, s.base))

LEMMA Lifts ==
  ASSUME NEW s, NEW t, NEW u, Rooted(s), Lifted(t, s), Lifted(u, t)
  PROVE  Lifted(u, s)
<1>1. s.base \in Int
  BY DEF Rooted
<1>2. u.ok => Kept(u.b, s.b, s.base)
  BY <1>1, KeptOn DEF Lifted
<1> QED
  BY <1>2 DEF Lifted

LEMMA PutLifted ==
  ASSUME NEW s, Rooted(s), NEW at \in Nat, NEW w \in Nat \ {0}, NEW f
  PROVE  Lifted(Put(s, at, w, f), s)
<1> DEFINE t == Put(s, at, w, f)
           c == Write(s.b, s.base + at, w, f, s.o.val[f])
<1>1. IsWriter(t) /\ t.o = s.o /\ t.base = s.base /\ t.ok = s.ok /\ (t.ok => t.b = c)
  BY PutOne DEF Rooted, Onward
<1>2. c.end = s.b.end + w
  BY DEF Write
<1>3. Kept(c, s.b, s.base)
  <2>1. s.base + at \in Nat /\ s.base + at \in Int /\ s.base \in Int /\ s.base <= s.base + at
    BY DEF Rooted
  <2>2. Kept(c, s.b, s.base + at)
    BY <2>1, WriteKept
  <2> QED
    BY <2>1, <2>2, KeptLess
<1> HIDE DEF t, c
<1>4. Rooted(t)
  BY <1>1, <1>2 DEF Rooted
<1> QED
  BY <1>1, <1>3, <1>4 DEF Lifted, t

LEMMA NeedLifted ==
  ASSUME NEW s, Rooted(s), NEW cond \in BOOLEAN
  PROVE  Lifted(Need(s, cond), s)
<1> DEFINE t == Need(s, cond)
<1>1. IsWriter(t) /\ t.o = s.o /\ t.base = s.base /\ t.b = s.b /\ t.ok = (s.ok /\ cond)
  BY NeedOne DEF Rooted, Onward
<1> HIDE DEF t
<1> QED
  BY <1>1 DEF Lifted, Rooted, Kept, t

LEMMA NoneLifted == ASSUME NEW s, Rooted(s) PROVE Lifted(s, s)
  BY DEF Lifted, Kept

LEMMA FrameLifted ==
  ASSUME NEW s, Rooted(s)
  PROVE  Lifted(FrameAssemble(s), s)
<1> DEFINE s1 == Need(s, s.o.val.addr1 # Unset)
           s2 == PutControl(s1)
           s3 == Put(s2, 2, 2, "duration")
           s4 == Put(s3, 4, 6, "addr1")
           t == PutSource(s4)
<1>1. FrameAssemble(s) = t
  BY DEF FrameAssemble
<1>a. 2 \in Nat \ {0} /\ 2 \in Nat /\ 4 \in Nat /\ 6 \in Nat \ {0} /\ 10 \in Nat
  OBVIOUS
<1>2. Lifted(s1, s)
  BY NeedLifted
<1> HIDE DEF s1
<1>3. Lifted(s2, s1)
  <2>1. IsWriter(s2) /\ s2.o = s1.o /\ s2.base = s1.base /\ s2.ok = s1.ok
        /\ s2.b = Write(s1.b, s1.base, 2, "fc", s1.o.fc)
    BY <1>2, PutControlOne DEF Lifted, Rooted, Onward
  <2>2. s2.b.end = s1.b.end + 2
    BY <2>1 DEF Write
  <2>3. Kept(s2.b, s1.b, s1.base)
    BY <1>2, <1>a, <2>1, WriteKept DEF Lifted, Rooted
  <2> HIDE DEF s2
  <2> QED
    BY <1>2, <2>1, <2>2, <2>3 DEF Lifted, Rooted
<1> HIDE DEF s2
<1>4. Lifted(s3, s2)
  BY <1>3, <1>a, PutLifted DEF Lifted
<1> HIDE DEF s3
<1>5. Lifted(s4, s3)
  BY <1>4, <1>a, PutLifted DEF Lifted
<1> HIDE DEF s4
<1>6. Lifted(t, s4)
  BY <1>5, <1>a, PutLifted, NoneLifted DEF Lifted, PutSource
<1> HIDE DEF t
<1> QED
  BY <1>1, <1>2, <1>3, <1>4, <1>5, <1>6, Lifts

LEMMA ThirdLifted ==
  ASSUME NEW s, Rooted(s)
  PROVE  Lifted(PutThird(s), s)
<1> DEFINE s1 == Need(s, s.o.val.addr3 # Unset)
           s2 == Put(s1, 16, 6, "addr3")
           t == Put(s2, 22, 2, "seqcntl")
<1>1. PutThird(s) = t
  BY DEF PutThird
<1>a. 16 \in Nat /\ 6 \in Nat \ {0} /\ 22 \in Nat /\ 2 \in Nat \ {0}
  OBVIOUS
<1>2. Lifted(s1, s)
  BY NeedLifted
<1> HIDE DEF s1
<1>3. Lifted(s2, s1)
  BY <1>2, <1>a, PutLifted DEF Lifted
<1> HIDE DEF s2
<1>4. Lifted(t, s2)
  BY <1>3, <1>a, PutLifted DEF Lifted
<1> HIDE DEF t
<1> QED
  BY <1>1, <1>2, <1>3, <1>4, Lifts

LEMMA ManagementLifted ==
  ASSUME NEW s, Rooted(s)
  PROVE  Lifted(ManagementAssemble(s), s)
<1> DEFINE s1 == Need(s, s.o.fc.type = Mgmt)
           s2 == FrameAssemble(s1)
<1>1. Lifted(s1, s)
  BY NeedLifted
<1> HIDE DEF s1
<1>2. Lifted(s2, s1)
  BY <1>1, FrameLifted DEF Lifted
<1> HIDE DEF s2
<1>3. Lifted(PutThird(s2), s2)
  BY <1>2, ThirdLifted DEF Lifted
<1> QED
  BY <1>1, <1>2, <1>3, Lifts DEF ManagementAssemble, s1, s2

LEMMA FourthLifted ==
  ASSUME NEW s, Rooted(s)
  PROVE  Lifted(PutFourth(PutQos(s)), s)
<1> DEFINE s1 == PutQos(s)
           s2 == Need(s1, s1.o.val.addr4 # Unset)
<1>a. 24 \in Nat /\ 6 \in Nat \ {0} /\ 2 \in Nat \ {0}
  OBVIOUS
<1>1. Lifted(s1, s)
  BY <1>a, PutLifted, NoneLifted DEF PutQos
<1> HIDE DEF s1
<1>2. Lifted(s2, s1)
  BY <1>1, NeedLifted DEF Lifted
<1> HIDE DEF s2
<1>3. Lifted(Put(s2, 24, 6, "addr4"), s2)
  BY <1>2, <1>a, PutLifted DEF Lifted
<1>4. Lifted(Put(s2, 24, 6, "addr4"), s1)
  BY <1>1, <1>2, <1>3, Lifts DEF Lifted
<1>5. Lifted(PutFourth(s1), s1)
  BY <1>1, <1>4, NoneLifted DEF PutFourth, s2, Lifted
<1> QED
  BY <1>1, <1>5, Lifts DEF s1

\* c has what b has before place edge, and ends behind it.
Raised(c, b, edge) == c.end \in Nat /\ edge <= c.end /\ Kept(c, b, edge)

LEMMA OneRaised ==
  ASSUME NEW b, NEW edge \in Nat, NEW c, Raised(c, b, edge), NEW w \in Nat \ {0}, NEW f, NEW v
  PROVE  Raised(Write(c, c.end, w, f, v), b, edge)
<1> DEFINE d == Write(c, c.end, w, f, v)
<1>1. d.end = c.end + w
  BY DEF Write
<1>2. Kept(d, c, c.end) /\ c.end \in Int /\ edge \in Int
  BY WriteKept DEF Raised
<1> HIDE DEF d
<1>3. Kept(d, b, edge)
  BY <1>2, KeptOn DEF Raised
<1> QED
  BY <1>1, <1>3 DEF Raised, d

LEMMA NextRaised ==
  ASSUME NEW b, NEW edge \in Nat, Raised(b, b, edge), NEW q, AreParts(q), NEW val
  PROVE  Raised(WriteNext(b, q, val), b, edge)
<1> DEFINE do(c, i) == IF i \in DOMAIN q THEN Write(c, c.end, q[i][2], q[i][1], val[q[i][1]]) ELSE c
<1>1. WriteNext(b, q, val) = do(do(do(do(b, 1), 2), 3), 4)
  BY DEF WriteNext, InTurn
<1>2. \A i \in DOMAIN q : q[i][2] \in Nat \ {0}
  BY PartsKnown
<1>3. ASSUME NEW c, NEW i, Raised(c, b, edge) PROVE Raised(do(c, i), b, edge)
  BY <1>2, <1>3, OneRaised
<1> HIDE DEF do
<1> QED
  BY <1>1, <1>3

LEMMA NextLifted ==
  ASSUME NEW s, Rooted(s), NEW q, AreParts(q)
  PROVE  Lifted(PutNext(s, q), s)
<1> DEFINE t == PutNext(s, q)
<1>1. IsWriter(t) /\ t.o = s.o /\ t.base = s.base /\ t.ok = s.ok
      /\ (t.ok => t.b = WriteNext(s.b, q, s.o.val))
  BY PutNextOne DEF Rooted, Onward
<1>2. CASE s.ok
  <2>1. Raised(s.b, s.b, s.base) /\ s.base \in Nat
    BY <1>2 DEF Rooted, Raised, Kept
  <2>2. Raised(WriteNext(s.b, q, s.o.val), s.b, s.base)
    BY <2>1, NextRaised
  <2> HIDE DEF t
  <2> QED
    BY <1>1, <1>2, <2>1, <2>2 DEF Lifted, Rooted, Raised, t
<1>3. CASE ~s.ok
  BY <1>1, <1>3 DEF Lifted, Rooted
<1> QED
  BY <1>2, <1>3

LEMMA PayloadLifted ==
  ASSUME NEW s, Rooted(s), NEW header \in {<< >>, LlcPart}
  PROVE  Lifted(PutPayload(s, header), s)
<1>1. AreParts(Append(header, PayloadPart))
  BY HeadersAre
<1>2. Lifted(PutNext(s, Append(header, PayloadPart)), s)
  BY <1>1, NextLifted
<1> QED
  BY <1>2, NoneLifted DEF PutPayload, PayloadPart

LEMMA BeforeLifted ==
  ASSUME NEW s, Rooted(s), s.o.class \in Classes
  PROVE  Lifted(Before(s), s)
<1> DEFINE s1 == OwnSubtype(s)
           s2 == ManagementAssemble(s1)
           q == Out(s.o.class).body
<1>1. Lifted(s1, s)
  BY NeedLifted DEF OwnSubtype
<1> HIDE DEF s1
<1>2. Lifted(s2, s1)
  BY <1>1, ManagementLifted DEF Lifted
<1> HIDE DEF s2
<1>3. AreParts(q)
  BY BodiesAre
<1> HIDE DEF q
<1>4. Lifted(PutNext(s2, q), s2)
  BY <1>2, <1>3, NextLifted DEF Lifted
<1> QED
  BY <1>1, <1>2, <1>4, Lifts DEF Before, s1, s2, q

\* What a frame is assembled behind stays in the buffer.
LEMMA AssembledBehind ==
  ASSUME NEW o, IsObject(o), o.class # "Frame", Sourced(o),
         NEW b, IsBuffer(b), b.end \in Nat, Only(b, o), NoTags(b),
         Assemble(o, b).ok
  PROVE  Kept(Assemble(o, b).b, b, b.end)
<1> DEFINE s == WriterOf(o, b)
           a == Assemble(o, b)
<1>1. IsWriter(s) /\ s.o = o /\ s.base = b.end /\ s.b = b /\ s.ok
  BY DEF IsWriter, WriterOf
<1>2. Rooted(s)
  BY <1>1 DEF Rooted
<1>3. a = ClassAssemble(s)
  BY DEF Assemble, WriterOf
<1>4. o.class \in Classes /\ o.class \in Bodied \cup {"ActionRequest", "ControlFrame", "DataFrame", "QosData"}
  BY ClassesAre DEF IsObject
<1> HIDE DEF s
<1>5. ASSUME NEW t, Lifted(t, s), a = t PROVE Kept(a.b, b, b.end)
  BY <1>1, <1>5 DEF Lifted
<1>6. CASE o.class \in Bodied
  <2> DEFINE t == Before(s)
             u == PutMembers(o)
             q == InOrder(u.tags)
  <2>1. Lifted(t, s)
    BY <1>1, <1>2, <1>4, BeforeLifted
  <2>2. a = IF t.ok THEN [ok |-> TRUE, o |-> u, base |-> s.base, b |-> AssembleTags(t.b, u.tags)] ELSE t
    <3>1. a = BodyAssemble(s)
      BY <1>6, AssembledBy DEF s
    <3> QED
      BY <1>1, <3>1, BodyIs
  <2>3. a.ok
    OBVIOUS
  <2> HIDE DEF t, a
  <2>4. t.ok /\ a.b = AssembleTags(t.b, u.tags)
    BY <2>2, <2>3
  <2>5. IsObject(u)
    BY MembersPut
  <2> HIDE DEF u
  <2>6. AreTags(u.tags)
    BY <2>5 DEF IsObject
  <2>7. AreTags(q) /\ q \in Seq(TagRecord) /\ a.b = WriteTags(t.b, q)
    BY <2>4, <2>6, InOrderIs, Zenon DEF AssembleTags, InOrder, AreTags
  <2>8. IsFine(t)
    <3>1. IsFine(s) /\ s.b.end = s.base
      BY <1>1 DEF IsFine
    <3>2. s.o.val.addr2 = Unset => s.o.val.addr3 = Unset
      BY <1>1, <1>6, ClassesAre DEF Sourced
    <3> QED
      BY <1>1, <1>4, <2>4, <3>1, <3>2, BeforeHas DEF t
  <2>9. PICK at : Tagged(a.b, t.b, q, at)
    BY <2>7, <2>8, TagsWritten DEF IsFine
  <2>10. Kept(a.b, t.b, t.b.end) /\ Kept(t.b, b, b.end) /\ b.end \in Int /\ t.b.end \in Int /\ b.end <= t.b.end
    <3>1. Kept(a.b, t.b, t.b.end)
      BY <2>9 DEF Tagged, Kept
    <3>2. Kept(t.b, b, b.end) /\ b.end \in Int /\ t.b.end \in Int /\ b.end <= t.b.end
      BY <1>1, <2>1, <2>4 DEF Lifted, Rooted
    <3> QED
      BY <3>1, <3>2
  <2> QED
    BY <2>10, KeptOn DEF a
<1>7. CASE o.class = "ActionRequest"
  <2> DEFINE s1 == OwnSubtype(s)
  <2>1. a = ManagementAssemble(s1)
    BY <1>1, <1>3, <1>7 DEF ClassAssemble, ActionAssemble
  <2>2. Lifted(s1, s)
    BY <1>2, NeedLifted DEF OwnSubtype
  <2> HIDE DEF s1
  <2>3. Lifted(ManagementAssemble(s1), s1)
    BY <2>2, ManagementLifted DEF Lifted
  <2> QED
    BY <1>2, <1>5, <2>1, <2>2, <2>3, Lifts
<1>8. CASE o.class = "ControlFrame"
  <2> DEFINE s1 == Need(s, s.o.fc.type = Cntl)
             s2 == FrameAssemble(s1)
  <2>1. a = PutPayload(s2, << >>)
    BY <1>1, <1>3, <1>8, ClassesAre DEF ClassAssemble, ControlAssemble
  <2>2. Lifted(s1, s)
    BY <1>2, NeedLifted
  <2> HIDE DEF s1
  <2>3. Lifted(s2, s1)
    BY <2>2, FrameLifted DEF Lifted
  <2> HIDE DEF s2
  <2>4. Lifted(PutPayload(s2, << >>), s2)
    BY <2>3, PayloadLifted DEF Lifted
  <2> QED
    BY <1>2, <1>5, <2>1, <2>2, <2>3, <2>4, Lifts
<1>9. CASE o.class \in {"DataFrame", "QosData"}
  <2> DEFINE s1 == Need(s, s.o.fc.type = Data)
             s2 == FrameAssemble(s1)
             s3 == PutThird(s2)
             s4 == PutFourth(PutQos(s3))
  <2>1. a = PutPayload(s4, LlcPart)
    BY <1>1, <1>3, <1>9, ClassesAre DEF ClassAssemble, DataAssemble, LlcPart
  <2>2. Lifted(s1, s)
    BY <1>2, NeedLifted
  <2> HIDE DEF s1
  <2>3. Lifted(s2, s1)
    BY <2>2, FrameLifted DEF Lifted
  <2> HIDE DEF s2
  <2>4. Lifted(s3, s2)
    BY <2>3, ThirdLifted DEF Lifted
  <2> HIDE DEF s3
  <2>5. Lifted(s4, s3)
    BY <2>4, FourthLifted DEF Lifted
  <2> HIDE DEF s4
  <2>6. Lifted(PutPayload(s4, LlcPart), s4)
    BY <2>5, PayloadLifted DEF Lifted
  <2>7. Lifted(s4, s)
    BY <1>2, <2>2, <2>3, <2>4, <2>5, Lifts
  <2> QED
    BY <1>2, <1>5, <2>1, <2>6, <2>7, Lifts
<1> QED
  BY <1>4, <1>6, <1>7, <1>8, <1>9

(***************************************************************************)
(* Tags that arrive whole.                                                 *)
(***************************************************************************)
LEMMA Rising ==
  ASSUME NEW m \in Nat, NEW at \in [1 .. m + 1 -> Nat], \A i \in 1 .. m : at[i] < at[i + 1]
  PROVE  \A i, j \in 1 .. m + 1 : i < j => at[i] < at[j]
<1> SUFFICES ASSUME NEW i \in 1 .. m + 1, NEW j \in 1 .. m + 1, i < j PROVE at[i] < at[j]
  OBVIOUS
<1> DEFINE S == {d \in Nat : i + 1 + d <= m + 1 => at[i] < at[i + 1 + d]}
           k == j - i - 1
<1>1. k \in Nat /\ i + 1 + k = j
  OBVIOUS
<1>2. 0 \in S
  OBVIOUS
<1>3. ASSUME NEW d \in 0 .. k, d < k, d \in S PROVE d + 1 \in S
  <2> SUFFICES ASSUME i + 1 + (d + 1) <= m + 1 PROVE at[i] < at[i + 1 + (d + 1)]
    OBVIOUS
  <2> DEFINE e == i + 1 + d
  <2>1. e \in 1 .. m /\ e + 1 = i + 1 + (d + 1) /\ e + 1 \in 1 .. m + 1 /\ e \in 1 .. m + 1
    OBVIOUS
  <2>2. at[i] < at[e]
    BY <1>3
  <2> HIDE DEF e
  <2>3. at[e] < at[e + 1] /\ at[e] \in Nat /\ at[e + 1] \in Nat /\ at[i] \in Nat
    BY <2>1
  <2>4. at[i] < at[e + 1]
    BY <2>2, <2>3
  <2> QED
    BY <2>1, <2>4, Zenon
<1> HIDE DEF S
<1>4. k \in S
  BY <1>1, <1>2, <1>3, UpFrom
<1> QED
  BY <1>1, <1>4 DEF S

\* Tags in order are in order already.
LEMMA InOrderAgain ==
  ASSUME NEW q, AreTags(q), NEW h, HeadsFirst(q, h)
  PROVE  InOrder(q) = q
<1> DEFINE m == Len(q)
           S(head) == {i \in DOMAIN q : q[i].v # Invalid /\ IsHead(q[i].id) = head}
           a == ValidTags(q, TRUE)
           c == ValidTags(q, FALSE)
<1>1. /\ DOMAIN q = 1 .. m /\ m \in Nat /\ h \in 0 .. m /\ q \in Seq(TagRecord)
      /\ \A i \in 1 .. m : q[i].v # Invalid /\ (IsHead(q[i].id) <=> i <= h)
  BY TagsKnown DEF HeadsFirst, AreTags
<1>2. \A i \in 1 .. m : IsHead(q[i].id) \in BOOLEAN
  BY DEF IsHead
<1>3. S(TRUE) = 1 .. h
  BY <1>1, <1>2
<1>4. S(FALSE) = h + 1 .. m
  BY <1>1, <1>2
<1>5. Ascending(S(TRUE)) = [i \in 1 .. h |-> i]
  <2> DEFINE R == 1 .. h  f == [i \in 1 .. h |-> i]
  <2>1. h \in Nat /\ (\A u \in R : u \in 0 .. m) /\ f \in [1 .. h -> R]
    BY <1>1
  <2>2. (\A i, j \in 1 .. h : i < j => f[i] < f[j]) /\ \A x \in R : \E i \in 1 .. h : f[i] = x
    OBVIOUS
  <2>3. R = S(TRUE)
    BY <1>3
  <2> HIDE DEF R, f, S
  <2>4. Ascending(R) = f
    BY <1>1, <2>1, <2>2, ListsOnce
  <2> QED
    BY <2>3, <2>4 DEF f
<1>6. Ascending(S(FALSE)) = [i \in 1 .. m - h |-> h + i]
  <2> DEFINE R == h + 1 .. m  e == m - h  f == [i \in 1 .. e |-> h + i]
  <2>1. e \in Nat /\ (\A u \in R : u \in 0 .. m) /\ f \in [1 .. e -> R]
    BY <1>1
  <2>2. \A i, j \in 1 .. e : i < j => f[i] < f[j]
    BY <1>1
  <2>3. \A x \in R : \E i \in 1 .. e : f[i] = x
    <3> SUFFICES ASSUME NEW x \in R PROVE \E i \in 1 .. e : f[i] = x
      OBVIOUS
    <3>1. x - h \in 1 .. e /\ h + (x - h) = x
      BY <1>1
    <3> QED
      BY <3>1
  <2>4. R = S(FALSE)
    BY <1>4
  <2>0. m \in Nat
    BY <1>1
  <2> HIDE DEF R, f, S, e, m
  <2>5. Ascending(R) = f
    BY <2>0, <2>1, <2>2, <2>3, ListsOnce
  <2> QED
    BY <2>4, <2>5 DEF f, e
<1>7. a = [k \in 1 .. h |-> q[k]]
  BY <1>5 DEF ValidTags
<1>8. c = [k \in 1 .. m - h |-> q[h + k]]
  BY <1>6 DEF ValidTags
<1> HIDE DEF a, c, S, m
<1>9. a \in Seq(TagRecord) /\ Len(a) = h
  <2>1. h \in Nat /\ DOMAIN a = 1 .. h /\ a = [i \in DOMAIN a |-> a[i]] /\ \A i \in 1 .. h : a[i] \in TagRecord
    BY <1>1, <1>7, TagsKnown
  <2> QED
    BY <2>1, ListOf
<1>10. c \in Seq(TagRecord) /\ Len(c) = m - h
  <2>1. m - h \in Nat /\ DOMAIN c = 1 .. m - h /\ c = [i \in DOMAIN c |-> c[i]]
        /\ \A i \in 1 .. m - h : c[i] \in TagRecord
    BY <1>1, <1>8, TagsKnown
  <2> QED
    BY <2>1, ListOf
<1>11. a \o c \in Seq(TagRecord) /\ Len(a \o c) = m
       /\ \A i \in 1 .. m : (a \o c)[i] = IF i <= h THEN a[i] ELSE c[i - h]
  BY <1>1, <1>9, <1>10
<1>12. \A i \in 1 .. m : (a \o c)[i] = q[i]
  BY <1>1, <1>7, <1>8, <1>11
<1>13. a \o c = q
  BY <1>1, <1>11, <1>12, SeqEqual DEF m
<1> QED
  BY <1>13 DEF InOrder, a, c

\* The tags that are read from a buffer with all of them in it.
LEMMA TagsWhole ==
  ASSUME NEW c, NEW d, NEW q \in Seq(TagRecord), NEW at, Tagged(c, d, q, at), NoTags(d),
         NEW b, IsBuffer(b), Part(b, c), Kept(b, c, c.end)
  PROVE  TagsAt(b, d.end) = q
<1> DEFINE m == Len(q)
           S == {p \in TagPlaces(b) : p >= d.end /\ d.end \in TagPlaces(b)}
           f == [i \in 1 .. m |-> at[i]]
<1>1. m \in Nat /\ DOMAIN q = 1 .. m /\ \A i \in 1 .. m : Width(q[i]) \in Nat \ {0}
  BY WidthIs
<1>2. /\ at \in [1 .. m + 1 -> Nat] /\ at[1] = d.end /\ c.end = at[m + 1]
      /\ \A i \in 1 .. m : at[i + 1] = at[i] + Width(q[i])
      /\ \A i \in 1 .. m : Holds(c, at[i], Width(q[i]), "tag", q[i])
      /\ \A p \in DOMAIN c.at : (\E i \in 1 .. m : p = at[i]) \/ (p \in DOMAIN d.at /\ c.at[p] = d.at[p])
  BY DEF Tagged
<1> HIDE DEF m
<1>3. \A i \in 1 .. m : at[i] < at[i + 1] /\ at[i] \in Nat
  BY <1>1, <1>2
<1>4. \A i, j \in 1 .. m + 1 : i < j => at[i] < at[j]
  BY <1>1, <1>2, <1>3, Rising
<1>5. ASSUME NEW i \in 1 .. m
      PROVE  Holds(b, at[i], Width(q[i]), "tag", q[i]) /\ d.end <= at[i]
  <2>1. at[i] + Width(q[i]) <= c.end
    <3>1. at[i + 1] = at[i] + Width(q[i]) /\ at[i + 1] \in Nat /\ at[m + 1] \in Nat
      <4>1. i + 1 \in 1 .. m + 1 /\ m + 1 \in 1 .. m + 1
        BY <1>1
      <4>2. at[i + 1] = at[i] + Width(q[i])
        BY <1>2, Zenon
      <4> QED
        BY <1>2, <4>1, <4>2
    <3>2. CASE i = m
      BY <1>2, <3>1, <3>2
    <3>3. CASE i # m
      <4>1. i + 1 \in 1 .. m + 1 /\ m + 1 \in 1 .. m + 1 /\ i + 1 < m + 1
        BY <1>1, <3>3
      <4>2. at[i + 1] < at[m + 1]
        BY <1>4, <4>1
      <4> QED
        BY <1>2, <3>1, <4>2
    <3> QED
      BY <3>2, <3>3
  <2>2. at[i] \in Nat /\ Width(q[i]) \in Nat \ {0}
    BY <1>1, <1>2
  <2>3. i = 1 \/ at[1] < at[i]
    BY <1>1, <1>4
  <2>4. Holds(c, at[i], Width(q[i]), "tag", q[i])
    BY <1>2
  <2>5. Holds(b, at[i], Width(q[i]), "tag", q[i])
    BY <2>1, <2>2, <2>4, Zenon DEF Kept
  <2>6. d.end <= at[i]
    BY <1>1, <1>2, <2>3
  <2> QED
    BY <2>5, <2>6
<1>6. ASSUME NEW i \in 1 .. m
      PROVE  at[i] \in TagPlaces(b) /\ b.at[at[i]].v = q[i] /\ d.end <= at[i]
  <2>1. at[i] \in DOMAIN b.at /\ b.at[at[i]] = [f |-> "tag", w |-> Width(q[i]), v |-> q[i]] /\ d.end <= at[i]
    BY <1>5 DEF Holds
  <2>2. b.at[at[i]].f = "tag" /\ b.at[at[i]].v = q[i]
    BY <2>1
  <2> QED
    BY <2>1, <2>2 DEF TagPlaces
<1>7. ASSUME NEW p \in TagPlaces(b) PROVE \E i \in 1 .. m : p = at[i]
  <2>1. p \in DOMAIN b.at /\ b.at[p].f = "tag" /\ "tag" # "fcs"
    BY DEF TagPlaces
  <2>2. p \in DOMAIN c.at /\ c.at[p].f = "tag"
    BY <2>1 DEF Part
  <2> QED
    BY <1>2, <2>2 DEF NoTags
<1>8. S = {at[i] : i \in 1 .. m}
  <2>1. \A p \in S : \E i \in 1 .. m : p = at[i]
    BY <1>7
  <2>2. ASSUME NEW i \in 1 .. m PROVE at[i] \in S
    <3>1. 1 \in 1 .. m
      BY <1>1
    <3> QED
      BY <1>2, <1>6, <3>1
  <2> QED
    BY <2>1, <2>2
<1>9. Ascending(S) = f
  <2>1. c.end \in Nat /\ \A u \in S : u \in 0 .. c.end
    BY <1>1, <1>2, <1>4, <1>8
  <2>2. f \in [1 .. m -> S] /\ \A x \in S : \E i \in 1 .. m : f[i] = x
    BY <1>8
  <2>3. \A i, j \in 1 .. m : i < j => f[i] < f[j]
    BY <1>1, <1>4
  <2> HIDE DEF S, f
  <2> QED
    BY <1>1, <2>1, <2>2, <2>3, ListsOnce
<1>10. TagsAt(b, d.end) = ValuesAt(b, f)
  BY <1>9 DEF TagsAt
<1>11. ValuesAt(b, f) = [i \in 1 .. m |-> q[i]]
  BY <1>6 DEF ValuesAt
<1> QED
  BY <1>1, <1>10, <1>11 DEF m

(***************************************************************************)
(* Reading a frame that arrived whole.                                     *)
(***************************************************************************)
\* A reader that no step failed, with its data pointer at place at.
At(r, b, base, at) == IsReader(r) /\ r.ok = TRUE /\ r.b = b /\ r.base = base /\ r.at = at

LEMMA TakeAt ==
  ASSUME NEW b, NEW base, NEW at, NEW r, At(r, b, base, at), NEW offset, NEW w, NEW f, at + w <= b.end
  PROVE  At(Take(r, offset, w, f), b, base, at + w)
<1>1. r.ok /\ r.at + w <= r.b.end
  BY DEF At
<1> QED
  BY <1>1 DEF Take, At, IsReader

LEMMA NeedAt ==
  ASSUME NEW b, NEW base, NEW at, NEW r, At(r, b, base, at), NEW cond, cond = TRUE
  PROVE  At(Need(r, cond), b, base, at) /\ Need(r, cond).o = r.o
BY DEF Need, At, IsReader

\* Frame::Disassemble, when what it reads is there.
LEMMA FrameAt ==
  ASSUME NEW b, NEW o, NEW base, Comes(b, o, base), IsObject(o), NEW p, IsObject(p), Sourced(p),
         base + HeadLength(o) <= b.end, o.val.addr2 = Unset => b.end = base + 10
  PROVE  At(FrameDisassemble(ReaderOf(p, b, base)), b, base, base + HeadLength(o))
<1> DEFINE r == ReaderOf(p, b, base)
           c == TakeControl(r)
           d == Take(c, 2, 2, "duration")
           e == Take(d, 4, 6, "addr1")
<1>1. base \in Nat /\ b.end \in Int
  BY ComesIn
<1>2. (HeadLength(o) = 10 /\ b.end = base + 10) \/ (HeadLength(o) = 16 /\ base + 16 <= b.end)
  <2>1. CASE o.val.addr2 = Unset
    <3>1. HeadLength(o) = 10
      BY <2>1 DEF HeadLength
    <3> QED
      BY <2>1, <3>1, Zenon
  <2>2. CASE o.val.addr2 # Unset
    <3>1. HeadLength(o) = 16
      BY <2>2 DEF HeadLength
    <3> QED
      BY <3>1, Zenon
  <2> QED
    BY <2>1, <2>2
<1>3. base + 10 <= b.end
  BY <1>1, <1>2
<1>4. At(c, b, base, base + 2)
  <2>1. Left(r) >= 2
    BY <1>1, <1>3 DEF Left, ReaderOf
  <2> QED
    BY <2>1 DEF TakeControl, At, IsReader, ReaderOf
<1>5. At(d, b, base, (base + 2) + 2)
  <2>1. (base + 2) + 2 <= b.end
    BY <1>1, <1>3
  <2> HIDE DEF c
  <2> QED
    BY <1>4, <2>1, TakeAt
<1>6. At(e, b, base, ((base + 2) + 2) + 6)
  <2>1. ((base + 2) + 2) + 6 <= b.end
    BY <1>1, <1>3
  <2> HIDE DEF d
  <2> QED
    BY <1>5, <2>1, TakeAt
<1>7. At(e, b, base, base + 10)
  <2>1. ((base + 2) + 2) + 6 = base + 10
    BY <1>1
  <2> QED
    BY <1>6, <2>1, Zenon
<1>8. FrameDisassemble(r) = TakeSource(e)
  BY DEF FrameDisassemble
<1> HIDE DEF e, r
<1>9. At(TakeSource(e), b, base, base + HeadLength(o))
  <2>1. e.ok /\ Left(e) = b.end - (base + 10)
    BY <1>7 DEF At, Left
  <2>2. CASE HeadLength(o) = 10 /\ b.end = base + 10
    <3>1. TakeSource(e) = e
      BY <1>1, <2>1, <2>2 DEF TakeSource
    <3> QED
      BY <1>7, <2>2, <3>1, Zenon
  <2>3. CASE HeadLength(o) = 16 /\ base + 16 <= b.end
    <3>1. TakeSource(e) = Take(e, 10, 6, "addr2")
      BY <1>1, <2>1, <2>3 DEF TakeSource
    <3>2. (base + 10) + 6 <= b.end /\ (base + 10) + 6 = base + 16
      BY <1>1, <2>3
    <3>3. At(Take(e, 10, 6, "addr2"), b, base, (base + 10) + 6)
      BY <1>7, <3>2, TakeAt
    <3> QED
      BY <2>3, <3>1, <3>2, <3>3, Zenon
  <2> QED
    BY <1>2, <2>2, <2>3
<1> QED
  BY <1>8, <1>9 DEF r

LEMMA TypedAt ==
  ASSUME NEW b, NEW o, NEW base, Comes(b, o, base), IsObject(o), NEW p, IsObject(p), Sourced(p),
         o.val.addr2 # Unset, base + 24 <= b.end
  PROVE  At(TakeThird(OfType(FrameDisassemble(ReaderOf(p, b, base)), o.fc.type)), b, base, base + 24)
<1> DEFINE h == FrameDisassemble(ReaderOf(p, b, base))
           r == OfType(h, o.fc.type)
           c == Take(r, 16, 6, "addr3")
<1>1. base \in Nat /\ b.end \in Int
  BY ComesIn
<1>2. HeadLength(o) = 16
  BY DEF HeadLength
<1>3. At(h, b, base, base + 16)
  <2>1. base + HeadLength(o) <= b.end
    BY <1>1, <1>2
  <2>2. At(h, b, base, base + HeadLength(o))
    BY <2>1, FrameAt
  <2> QED
    BY <1>2, <2>2, Zenon
<1>4. h.o.fc = o.fc
  <2>1. Reads(h, b, base, o, {"duration", "addr1"})
    BY FrameTaken
  <2> QED
    BY <1>3, <2>1 DEF Reads, At
<1> HIDE DEF h
<1>5. At(r, b, base, base + 16)
  <2>1. (h.o.fc.type = o.fc.type) = TRUE
    BY <1>4
  <2> QED
    BY <1>3, <2>1, NeedAt DEF OfType
<1> HIDE DEF r
<1>6. At(c, b, base, (base + 16) + 6)
  <2>1. (base + 16) + 6 <= b.end
    BY <1>1
  <2> QED
    BY <1>5, <2>1, TakeAt
<1> HIDE DEF c
<1>7. At(Take(c, 22, 2, "seqcntl"), b, base, ((base + 16) + 6) + 2)
  <2>1. ((base + 16) + 6) + 2 <= b.end
    BY <1>1
  <2> QED
    BY <1>6, <2>1, TakeAt
<1>8. At(TakeThird(r), b, base, ((base + 16) + 6) + 2)
  BY <1>7 DEF c, TakeThird
<1>9. ((base + 16) + 6) + 2 = base + 24
  BY <1>1
<1> QED
  BY <1>8, <1>9, Zenon DEF r, h

LEMMA FourthAtEnd ==
  ASSUME NEW b, b.end \in Int, NEW o, IsObject(o), NEW base \in Nat, NEW r, At(r, b, base, base + 24), r.o.fc = o.fc,
         NEW K, Reads(TakeQos(r), b, base, o, K), base + DataLength(o) <= b.end
  PROVE  At(TakeFourth(TakeQos(r)), b, base, base + DataLength(o))
<1> DEFINE q == IF HasQos(o.fc.sub) THEN 2 ELSE 0
           d == IF o.fc.ds THEN 6 ELSE 0
<1>1. DataLength(o) = 24 + q + d /\ q \in {0, 2} /\ d \in {0, 6} /\ o.fc.ds \in BOOLEAN
  BY DEF DataLength, IsObject
<1>2. At(TakeQos(r), b, base, base + 24 + q)
  <2>1. CASE HasQos(o.fc.sub)
    <3>1. TakeQos(r) = Take(r, 24, 2, "qoscntl") /\ q = 2
      BY <2>1 DEF TakeQos
    <3>2. base + 24 + 2 <= b.end
      BY <1>1, <3>1
    <3>3. At(Take(r, 24, 2, "qoscntl"), b, base, base + 24 + 2)
      BY <3>2, TakeAt
    <3> QED
      BY <3>1, <3>3, Zenon
  <2>2. CASE ~HasQos(o.fc.sub)
    <3>1. TakeQos(r) = r /\ q = 0
      BY <2>2 DEF TakeQos
    <3>2. base + 24 + 0 = base + 24
      OBVIOUS
    <3> QED
      BY <3>1, <3>2, Zenon
  <2> QED
    BY <2>1, <2>2
<1>3. TakeQos(r).o.fc = o.fc
  BY <1>2 DEF Reads, At
<1> DEFINE t == TakeQos(r)
<1> HIDE DEF t
<1>4. At(TakeFourth(t), b, base, base + 24 + q + d)
  <2> HIDE DEF q
  <2>0. At(t, b, base, base + 24 + q) /\ t.o.fc = o.fc
    BY <1>2, <1>3 DEF t
  <2>1. CASE o.fc.ds
    <3>1. TakeFourth(t) = Take(t, 24, 6, "addr4") /\ d = 6
      BY <2>0, <2>1 DEF TakeFourth
    <3>2. base + 24 + q + 6 <= b.end
      BY <1>1, <3>1
    <3>3. At(Take(t, 24, 6, "addr4"), b, base, base + 24 + q + 6)
      BY <2>0, <3>2, TakeAt
    <3> QED
      BY <3>1, <3>3, Zenon
  <2>2. CASE ~o.fc.ds
    <3>1. TakeFourth(t) = t /\ d = 0
      BY <2>0, <2>2 DEF TakeFourth
    <3>2. base + 24 + q + 0 = base + 24 + q
      BY <1>1
    <3> QED
      BY <2>0, <3>1, <3>2, Zenon
  <2> QED
    BY <2>1, <2>2
<1> HIDE DEF q, d
<1>5. base + 24 + q + d = base + DataLength(o)
  BY <1>1
<1> QED
  BY <1>4, <1>5, Zenon DEF t

\* A payload of o, if it has one, is what is in b from place at on.
PayloadFrom(b, o, at) ==
  IF o.val.payload = Unset THEN b.end = at
  ELSE b.end = at + 4 /\ Holds(b, at, 4, "payload", o.val["payload"])
\* t is r, having read it.
PayloadGot(t, r, o) ==
  /\ t.ok = TRUE /\ t.o.val["payload"] = o.val["payload"]
  /\ \A g \in Fields \ {"payload"} : t.o.val[g] = r.o.val[g]

LEMMA PayloadRead ==
  ASSUME NEW b, b.end \in Int, NEW base, NEW at \in Nat, NEW r, At(r, b, base, at), IsObject(r.o),
         NEW o, PayloadFrom(b, o, at)
  PROVE  PayloadGot(TakePayload(r), r, o)
<1> DEFINE t == TakePayload(r)
           x == o.val["payload"]
           v == [r.o.val EXCEPT !["payload"] = x]
<1>1. r.ok = TRUE /\ Left(r) = b.end - at /\ r.at = at /\ r.b = b
  BY DEF At, Left
<1>2. /\ r.o = [class |-> r.o.class, fc |-> r.o.fc, val |-> r.o.val, member |-> r.o.member, tags |-> r.o.tags]
      /\ r.o.val \in [Fields -> Int] /\ "payload" \in Fields
  BY DEF IsObject, Fields
<1>3. t.ok = TRUE /\ t.o.val = v
  <2>1. CASE x = Unset
    <3>1. Left(r) = 0
      BY <1>1, <2>1 DEF PayloadFrom
    <3>2. t = [r EXCEPT !.o.val.payload = Unset]
      BY <1>1, <3>1, Zenon DEF TakePayload
    <3> HIDE DEF t
    <3> QED
      BY <1>1, <1>2, <2>1, <3>2 DEF At, IsReader
  <2>2. CASE x # Unset
    <3>1. Left(r) = 4 /\ Left(r) # 0 /\ Holds(b, at, 4, "payload", x)
      BY <1>1, <2>2 DEF PayloadFrom
    <3>2. t = [r EXCEPT !.o.val.payload = ReadAt(r.b, r.at, Left(r), "payload"), !.at = r.b.end]
      BY <1>1, <3>1, Zenon DEF TakePayload
    <3>3. ReadAt(r.b, r.at, Left(r), "payload") = x
      <4>1. ReadAt(b, at, 4, "payload") = x
        BY <3>1, HoldsReads
      <4> QED
        BY <1>1, <3>1, <4>1, Zenon
    <3>4. t = [r EXCEPT !.o.val.payload = x, !.at = r.b.end]
      BY <3>2, <3>3, Zenon
    <3> HIDE DEF t, x
    <3> QED
      BY <1>2, <3>4 DEF At, IsReader, x
  <2> QED
    BY <2>1, <2>2
<1>4. v["payload"] = x /\ \A g \in Fields \ {"payload"} : v[g] = r.o.val[g]
  BY <1>2
<1> HIDE DEF t, v
<1>5. t.ok = TRUE /\ t.o.val["payload"] = x /\ \A g \in Fields \ {"payload"} : t.o.val[g] = r.o.val[g]
  BY <1>3, <1>4
<1> QED
  BY <1>5 DEF t, PayloadGot

LEMMA LlcIs ==
  ASSUME NEW r
  PROVE  TakeLlc(r) = IF Left(r) > 0 THEN Take(r, r.at - r.base, 8, "llc") ELSE r
<1> DEFINE e == << <<"llc", 8>> >>
           u == Take(r, r.at - r.base, 8, "llc")
           do(c, i) == IF i \in DOMAIN e THEN Take(c, c.at - c.base, e[i][2], e[i][1]) ELSE c
<1>1. DOMAIN e = 1 .. 1 /\ e[1] = <<"llc", 8>>
  OBVIOUS
<1>2. TakeNext(r, e) = do(do(do(do(r, 1), 2), 3), 4)
  BY DEF TakeNext, InTurn
<1>3. 1 \in 1 .. 1 /\ 2 \notin 1 .. 1 /\ 3 \notin 1 .. 1 /\ 4 \notin 1 .. 1
  OBVIOUS
<1>4. TakeLlc(r) = IF Left(r) > 0 THEN TakeNext(r, e) ELSE r
  BY DEF TakeLlc
<1> HIDE DEF e
<1>5. do(r, 1) = u
  BY <1>1, <1>3
<1>6. \A c : do(c, 2) = c /\ do(c, 3) = c /\ do(c, 4) = c
  BY <1>1, <1>3
<1> HIDE DEF do
<1>7. TakeNext(r, e) = u
  BY <1>2, <1>5, <1>6
<1> QED
  BY <1>4, <1>7 DEF u

LEMMA LlcRead ==
  ASSUME NEW b, b.end \in Int, NEW o, IsObject(o), Only(b, o), NEW base \in Nat, NEW K, "llc" \notin K,
         NEW at \in Nat, NEW r, At(r, b, base, at), Reads(r, b, base, o, K), PayloadAt(b, o, at, LlcPart)
  PROVE  LET t == TakeLlc(r) IN
         IF o.val.payload = Unset THEN t = r /\ b.end = at
         ELSE /\ At(t, b, base, at + 8) /\ t.o.val["llc"] = o.val["llc"]
              /\ b.end = at + 8 + 4 /\ Holds(b, at + 8, 4, "payload", o.val["payload"])
<1> DEFINE t == TakeLlc(r)
           u == Take(r, r.at - r.base, 8, "llc")
<1>1. Left(r) = b.end - at /\ r.at = at /\ r.base = base /\ base <= at /\ r.b = b /\ r.ok = TRUE
  BY DEF At, Left, Reads
<1>2. CASE o.val.payload = Unset
  <2>1. b.end = at
    BY <1>2 DEF PayloadAt
  <2>2. t = r
    BY <1>1, <2>1, LlcIs
  <2> QED
    BY <1>2, <2>1, <2>2
<1>3. CASE o.val.payload # Unset
  <2>1. /\ b.end = at + Length(LlcPart) + 4 /\ Holds(b, at, 8, "llc", o.val["llc"])
        /\ Holds(b, at + Length(LlcPart), 4, "payload", o.val["payload"])
    BY <1>3 DEF PayloadAt
  <2>2. Length(LlcPart) = 8
    BY HeadersAre
  <2>3. b.end = at + 8 + 4 /\ Holds(b, at + 8, 4, "payload", o.val["payload"])
    BY <2>1, <2>2, Zenon
  <2>4. Left(r) > 0 /\ at + 8 <= b.end
    BY <1>1, <2>3
  <2>5. t = u
    BY <2>4, LlcIs, Zenon
  <2>6. At(u, b, base, at + 8)
    BY <2>4, TakeAt
  <2>7. u.o.val["llc"] = o.val["llc"]
    <3> DEFINE x == r.at - r.base
    <3>1. x \in Nat /\ "llc" \in Fields /\ 8 \in Nat \ {0} /\ base + x = at
      BY <1>1 DEF Fields
    <3>2. AfterSource(r, 8, "llc")
      BY DEF AfterSource
    <3> HIDE DEF x
    <3> DEFINE y == Take(r, x, 8, "llc")
    <3>3. HasTaken(y, r, b, base, o, K, x, 8, "llc")
      BY <3>1, <3>2, TakeOne
    <3>4. y = u
      BY DEF x
    <3> HIDE DEF y, u
    <3>5. y.ok
      BY <2>6, <3>4 DEF At
    <3>6. y.o.val["llc"] = ReadAt(b, base + x, 8, "llc")
      BY <3>3, <3>5 DEF HasTaken
    <3>7. ReadAt(b, at, 8, "llc") = o.val["llc"]
      BY <2>1, HoldsReads
    <3> QED
      BY <3>1, <3>4, <3>6, <3>7, Zenon
  <2> HIDE DEF t, u
  <2> QED
    BY <1>3, <2>3, <2>5, <2>6, <2>7 DEF t
<1> QED
  BY <1>2, <1>3

\* What is behind the header of t's frame is o's payload.
TrailingIs(t, o) ==
  /\ t.ok = TRUE /\ t.o.val["payload"] = o.val["payload"]
  /\ o.fc.type = Data /\ o.val.payload # Unset => t.o.val["llc"] = o.val["llc"]
  /\ o.fc.type = Cntl /\ o.val.addr2 # Unset => t.o.val["addr2"] = o.val["addr2"]

LEMMA CntlRead ==
  ASSUME NEW b, NEW o, NEW base, Comes(b, o, base), IsObject(o), NEW p, IsObject(p), Sourced(p),
         o.fc.type = Cntl, PayloadAt(b, o, base + HeadLength(o), << >>),
         o.val.addr2 = Unset => o.val.payload = Unset
  PROVE  TrailingIs(ControlDisassemble(ReaderOf(p, b, base)), o)
<1> DEFINE h == FrameDisassemble(ReaderOf(p, b, base))
           r == OfType(h, Cntl)
           at == base + HeadLength(o)
<1>0. base \in Nat /\ b.end \in Int /\ at \in Nat
  BY ComesIn DEF HeadLength
<1>1. PayloadFrom(b, o, at)
  <2>1. IF o.val.payload = Unset THEN b.end = at
        ELSE b.end = at + Length(<< >>) + 4 /\ Holds(b, at + Length(<< >>), 4, "payload", o.val["payload"])
    BY Zenon DEF PayloadAt
  <2>2. at + Length(<< >>) = at
    BY <1>0, HeadersAre
  <2> HIDE DEF at
  <2> QED
    BY <2>1, <2>2, Zenon DEF PayloadFrom
<1>2. at <= b.end
  BY <1>0, <1>1 DEF PayloadFrom
<1>3. o.val.addr2 = Unset => b.end = base + 10
  BY <1>1 DEF HeadLength, PayloadFrom
<1>4. At(h, b, base, at)
  BY <1>2, <1>3, FrameAt
<1>5. Reads(h, b, base, o, {"duration", "addr1"}) /\ Headed(h, b, base, o)
  BY FrameTaken
<1>6. o.val.addr2 # Unset => h.o.val.addr2 = o.val.addr2
  <2> SUFFICES ASSUME o.val.addr2 # Unset PROVE h.o.val.addr2 = o.val.addr2
    OBVIOUS
  <2>1. at = base + 16
    BY DEF HeadLength
  <2>2. h.ok /\ h.at = base + 16
    BY <1>4, <2>1 DEF At
  <2>3. base + 16 # base + 10
    BY <1>0
  <2> HIDE DEF h
  <2> QED
    BY <1>5, <2>2, <2>3 DEF Headed
<1> HIDE DEF h
<1>7. h.o.fc.type = Cntl /\ IsObject(h.o)
  BY <1>4, <1>5 DEF Reads, At
<1>8. At(r, b, base, at) /\ r.o = h.o
  <2> DEFINE cond == h.o.fc.type = Cntl
  <2>1. cond = TRUE
    BY <1>7
  <2>3. r = Need(h, cond)
    BY DEF OfType
  <2> HIDE DEF at, cond
  <2>2. At(Need(h, cond), b, base, at) /\ Need(h, cond).o = h.o
    BY <1>4, <2>1 DEF Need, At, IsReader
  <2> HIDE DEF r
  <2> QED
    BY <2>2, <2>3
<1>9. ControlDisassemble(ReaderOf(p, b, base)) = TakePayload(r)
  BY DEF ControlDisassemble, h
<1> HIDE DEF r, at
<1> DEFINE t == TakePayload(r)
<1>10. PayloadGot(t, r, o)
  BY <1>0, <1>1, <1>7, <1>8, PayloadRead
<1>11. "addr2" \in Fields \ {"payload"} /\ Cntl # Data
  BY ClassesAre DEF Fields
<1> HIDE DEF t
<1>12. TrailingIs(t, o)
  BY <1>6, <1>8, <1>10, <1>11 DEF TrailingIs, PayloadGot
<1> QED
  BY <1>9, <1>12 DEF t

LEMMA DataRead ==
  ASSUME NEW b, NEW o, NEW base, Comes(b, o, base), IsObject(o), NEW p, IsObject(p), Sourced(p),
         o.fc.type = Data, PayloadAt(b, o, base + DataLength(o), LlcPart), o.val.addr2 # Unset
  PROVE  TrailingIs(DataDisassemble(ReaderOf(p, b, base)), o)
<1> DEFINE r == TakeThird(OfType(FrameDisassemble(ReaderOf(p, b, base)), Data))
           r1 == TakeFourth(TakeQos(r))
           r2 == TakeLlc(r1)
           t == TakePayload(r2)
           at == base + DataLength(o)
<1>t. DataDisassemble(ReaderOf(p, b, base)) = t
  BY DEF DataDisassemble
<1>0. b.end \in Int /\ base \in Nat /\ Only(b, o) /\ "llc" \notin Quads(o) /\ "payload" \notin Quads(o)
  BY ComesIn DEF Quads, Thirds
<1>1. DataLength(o) \in 24 .. 32
  BY DEF DataLength
<1>2. at <= b.end /\ base + 24 <= b.end /\ at \in Nat
  <2>1. CASE o.val.payload = Unset
    BY <1>0, <1>1, <2>1 DEF PayloadAt
  <2>2. CASE o.val.payload # Unset
    <3>1. b.end = at + Length(LlcPart) + 4 /\ Length(LlcPart) = 8
      BY <2>2, HeadersAre DEF PayloadAt
    <3> QED
      BY <1>0, <1>1, <3>1
  <2> QED
    BY <2>1, <2>2
<1>3. At(r, b, base, base + 24)
  <2>1. At(TakeThird(OfType(FrameDisassemble(ReaderOf(p, b, base)), o.fc.type)), b, base, base + 24)
    BY <1>2, TypedAt
  <2> QED
    BY <2>1, Zenon
<1>4. AtThird(r, b, base, o, p) /\ (r.ok => o.fc.type = Data)
  BY TypedTaken
<1> HIDE DEF r
<1>5. r.o.fc = o.fc
  BY <1>3, <1>4 DEF AtThird, Reads, At
<1>6. \E K : Reads(TakeQos(r), b, base, o, K)
  BY <1>4, QosTaken
<1>7. At(r1, b, base, at)
  BY <1>0, <1>2, <1>3, <1>5, <1>6, FourthAtEnd
<1>8. Reads(r1, b, base, o, Quads(o)) /\ Same(r1, p)
  BY <1>4, FourthTaken
<1> HIDE DEF r1, at
<1>9. PayloadAt(b, o, at, LlcPart)
  BY DEF at
<1>10. Reads(r2, b, base, o, Quads(o))
  BY <1>0, <1>8, LlcTaken
<1>11. IF o.val.payload = Unset THEN r2 = r1 /\ b.end = at
       ELSE /\ At(r2, b, base, at + 8) /\ r2.o.val["llc"] = o.val["llc"]
            /\ b.end = at + 8 + 4 /\ Holds(b, at + 8, 4, "payload", o.val["payload"])
  BY <1>0, <1>2, <1>7, <1>8, <1>9, LlcRead
<1> HIDE DEF r2
<1>12. IsObject(r2.o)
  BY <1>10 DEF Reads
<1>13. PayloadGot(t, r2, o)
  <2>1. CASE o.val.payload = Unset
    <3>1. At(r2, b, base, at) /\ b.end = at
      BY <1>7, <1>11, <2>1
    <3>2. PayloadFrom(b, o, at)
      BY <2>1, <3>1 DEF PayloadFrom
    <3> QED
      BY <1>0, <1>2, <1>12, <3>1, <3>2, PayloadRead
  <2>2. CASE o.val.payload # Unset
    <3>1. At(r2, b, base, at + 8) /\ b.end = at + 8 + 4 /\ Holds(b, at + 8, 4, "payload", o.val["payload"])
      BY <1>11, <2>2
    <3>2. at + 8 \in Nat
      BY <1>2
    <3>3. PayloadFrom(b, o, at + 8)
      BY <2>2, <3>1 DEF PayloadFrom
    <3> QED
      BY <1>0, <1>12, <3>1, <3>2, <3>3, PayloadRead
  <2> QED
    BY <2>1, <2>2
<1>14. "llc" \in Fields \ {"payload"} /\ Cntl # Data
  BY ClassesAre DEF Fields
<1> HIDE DEF t
<1>15. TrailingIs(t, o)
  BY <1>11, <1>13, <1>14 DEF TrailingIs, PayloadGot
<1> QED
  BY <1>t, <1>15

LEMMA SkipsRise ==
  ASSUME NEW q, AreParts(q), NEW i \in DOMAIN q
  PROVE  Skip(q, i + 1) <= Length(q)
<1>1. /\ Len(q) \in 0 .. 3 /\ i \in 1 .. Len(q)
      /\ \A j \in 1 .. Len(q) : q[j][2] \in Nat \ {0}
      /\ \A j \in 1 .. Len(q) : Skip(q, j) \in Nat /\ Skip(q, j + 1) = Skip(q, j) + q[j][2]
      /\ Length(q) = Skip(q, Len(q) + 1) /\ Length(q) \in Nat
  BY PartsKnown DEF Length
<1>2. CASE i = Len(q)
  BY <1>1, <1>2
<1>3. CASE i + 1 = Len(q)
  <2>1. i + 1 \in 1 .. Len(q)
    BY <1>1, <1>3
  <2>2. Skip(q, i + 1 + 1) = Skip(q, i + 1) + q[i + 1][2] /\ q[i + 1][2] \in Nat /\ Skip(q, i + 1) \in Nat
    BY <1>1, <2>1
  <2>3. Skip(q, i + 1 + 1) = Length(q)
    BY <1>1, <1>3, Zenon
  <2> QED
    BY <1>1, <2>2, <2>3
<1>4. CASE i = 1 /\ Len(q) = 3
  <2>1. 2 \in 1 .. Len(q) /\ 3 \in 1 .. Len(q) /\ i + 1 = 2 /\ 2 + 1 = 3 /\ Len(q) + 1 = 4 /\ 3 + 1 = 4
    BY <1>4
  <2>2. Skip(q, 2 + 1) = Skip(q, 2) + q[2][2] /\ Skip(q, 3 + 1) = Skip(q, 3) + q[3][2]
        /\ q[2][2] \in Nat /\ q[3][2] \in Nat /\ Skip(q, 2) \in Nat /\ Skip(q, 3) \in Nat
    BY <1>1, <2>1
  <2>3. Skip(q, 3) = Skip(q, 2) + q[2][2] /\ Skip(q, 4) = Skip(q, 3) + q[3][2] /\ Length(q) = Skip(q, 4)
    BY <1>1, <2>1, <2>2, Zenon
  <2>4. Skip(q, 2) <= Length(q)
    BY <2>2, <2>3
  <2> QED
    BY <2>1, <2>4, Zenon
<1>5. i = Len(q) \/ i + 1 = Len(q) \/ (i = 1 /\ Len(q) = 3)
  <2>1. \A k \in 0 .. 3 : \A j \in 1 .. k : j = k \/ j + 1 = k \/ (j = 1 /\ k = 3)
    OBVIOUS
  <2> QED
    BY <1>1, <2>1, Zenon
<1> QED
  BY <1>2, <1>3, <1>4, <1>5

LEMMA NextStepAt ==
  ASSUME NEW b, b.end \in Int, NEW base, NEW at \in Nat, NEW q, AreParts(q), at + Length(q) <= b.end,
         NEW i \in 1 .. 4, NEW c, At(c, b, base, at + Skip(q, UpToEnd(q, i)))
  PROVE  At(IF i \in DOMAIN q THEN Take(c, c.at - c.base, q[i][2], q[i][1]) ELSE c, b, base,
            at + Skip(q, UpToEnd(q, i + 1)))
<1>0. /\ Len(q) \in 0 .. 3 /\ DOMAIN q = 1 .. Len(q) /\ Length(q) \in Nat
      /\ \A j \in 1 .. Len(q) : q[j][2] \in Nat \ {0}
      /\ \A j \in 1 .. Len(q) : Skip(q, j) \in Nat /\ Skip(q, j + 1) = Skip(q, j) + q[j][2]
  BY PartsKnown
<1>1. CASE i \notin DOMAIN q
  <2>1. UpToEnd(q, i + 1) = UpToEnd(q, i)
    BY <1>0, <1>1 DEF UpToEnd
  <2> QED
    BY <1>1, <2>1, Zenon
<1>2. CASE i \in DOMAIN q
  <2> DEFINE w == q[i][2]
             k == Skip(q, i)
             x == c.at - c.base
  <2>1. UpToEnd(q, i) = i /\ UpToEnd(q, i + 1) = i + 1
    BY <1>0, <1>2 DEF UpToEnd
  <2>2. k \in Nat /\ w \in Nat /\ Skip(q, i + 1) = k + w
    BY <1>0, <1>2
  <2>3. Skip(q, i + 1) <= Length(q)
    BY <1>2, SkipsRise
  <2>4. At(c, b, base, at + k)
    BY <2>1, Zenon
  <2> HIDE DEF w, k, x
  <2>5. (at + k) + w <= b.end /\ (at + k) + w = at + Skip(q, i + 1)
    BY <1>0, <2>2, <2>3
  <2>6. At(Take(c, x, w, q[i][1]), b, base, (at + k) + w)
    BY <2>4, <2>5, TakeAt
  <2>7. At(Take(c, x, w, q[i][1]), b, base, at + Skip(q, UpToEnd(q, i + 1)))
    BY <2>1, <2>5, <2>6, Zenon
  <2> QED
    BY <1>2, <2>7 DEF x, w
<1> QED
  BY <1>1, <1>2

LEMMA NextsAt ==
  ASSUME NEW b, b.end \in Int, NEW base, NEW at \in Nat, NEW q, AreParts(q), at + Length(q) <= b.end,
         NEW r, At(r, b, base, at)
  PROVE  At(TakeNext(r, q), b, base, at + Length(q))
<1> DEFINE do(c, i) == IF i \in DOMAIN q THEN Take(c, c.at - c.base, q[i][2], q[i][1]) ELSE c
           c1 == do(r, 1)
           c2 == do(c1, 2)
           c3 == do(c2, 3)
           c4 == do(c3, 4)
           to(i) == at + Skip(q, UpToEnd(q, i))
<1>1. TakeNext(r, q) = c4
  BY DEF TakeNext, InTurn
<1>2. \A i \in 1 .. 4 : \A c : At(c, b, base, to(i)) => At(do(c, i), b, base, to(i + 1))
  BY NextStepAt, Zenon
<1>3. to(1) = at /\ to(5) = at + Length(q)
  <2>0. Len(q) \in 0 .. 3 /\ Skip(q, 1) = 0
    BY PartsKnown
  <2>1. UpToEnd(q, 1) = 1 /\ UpToEnd(q, 5) = Len(q) + 1
    <3>1. \A k \in 0 .. 3 : ~(5 <= k + 1) /\ 1 <= k + 1
      OBVIOUS
    <3>2. ~(5 <= Len(q) + 1) /\ 1 <= Len(q) + 1
      BY <2>0, <3>1, Zenon
    <3> QED
      BY <3>2, Zenon DEF UpToEnd
  <2> QED
    BY <2>0, <2>1 DEF Length
<1> HIDE DEF do, to
<1>4. At(r, b, base, to(1))
  BY <1>3, Zenon
<1>5. At(c1, b, base, to(2))
  BY <1>2, <1>4
<1>6. At(c2, b, base, to(3))
  <2> HIDE DEF c1
  <2> QED
    BY <1>2, <1>5
<1>7. At(c3, b, base, to(4))
  <2> HIDE DEF c2
  <2> QED
    BY <1>2, <1>6
<1>8. At(c4, b, base, to(5))
  <2> HIDE DEF c3
  <2> QED
    BY <1>2, <1>7
<1> HIDE DEF c4
<1> QED
  BY <1>1, <1>3, <1>8, Zenon

\* A management frame of o that is in b whole, from place base on.
BodyWhole(b, o, base) ==
  /\ o.class \in Bodied /\ o.fc.type = Mgmt /\ o.fc.sub = TypeOf[o.class].sub /\ o.val.addr2 # Unset
  /\ BodyEnd(o, base) <= b.end /\ TagsAt(b, BodyEnd(o, base)) = InOrder(o.tags)

\* Its fields are read.
LEMMA BodyReadTo ==
  ASSUME NEW b, NEW o, NEW base, Comes(b, o, base), IsObject(o), BodyWhole(b, o, base),
         NEW p, IsObject(p), Sourced(p), p.class = o.class
  PROVE  LET t == TakeNext(OwnSubtype(ManagementDisassemble(ReaderOf(p, b, base))), In(p.class).body) IN
         At(t, b, base, BodyEnd(o, base)) /\ Same(t, p) /\ IsObject(t.o)
<1> DEFINE r == ManagementDisassemble(ReaderOf(p, b, base))
           s == OwnSubtype(r)
           q == Out(p.class).body
           t == TakeNext(s, q)
<1>0. /\ b.end \in Int /\ base \in Nat /\ AreParts(q) /\ In(p.class).body = q /\ p.class \in Bodied
      /\ o.class # "Frame" /\ Length(q) \in Nat /\ BodyEnd(o, base) = base + 24 + Length(q)
  <2>1. p.class \in Classes /\ o.class \in Bodied
    BY DEF IsObject, BodyWhole
  <2>2. AreParts(q) /\ In(p.class).body = q
    BY <2>1, BodiesAre
  <2>3. o.class # "Frame"
    BY <2>1, ClassesAre
  <2>4. Length(q) \in Nat
    BY <2>2, PartsKnown
  <2> QED
    BY <2>1, <2>2, <2>3, <2>4, ComesIn DEF BodyEnd
<1>1. base + 24 <= b.end
  BY <1>0 DEF BodyWhole
<1>2. At(r, b, base, base + 24)
  <2>1. At(TakeThird(OfType(FrameDisassemble(ReaderOf(p, b, base)), o.fc.type)), b, base, base + 24)
    BY <1>1, TypedAt DEF BodyWhole
  <2>2. o.fc.type = Mgmt
    BY DEF BodyWhole
  <2> QED
    BY <2>1, <2>2, Zenon DEF ManagementDisassemble
<1>3. AtThird(r, b, base, o, p)
  BY TypedTaken DEF ManagementDisassemble
<1> HIDE DEF r
<1>4. At(s, b, base, base + 24)
  <2> DEFINE cond == r.o.fc.sub = TypeOf[r.o.class].sub
  <2>1. cond = TRUE
    BY <1>2, <1>3 DEF BodyWhole, AtThird, Same, Reads, At
  <2>2. s = Need(r, cond)
    BY DEF OwnSubtype
  <2> HIDE DEF cond, s
  <2>3. At(Need(r, cond), b, base, base + 24)
    BY <1>2, <2>1 DEF Need, At, IsReader
  <2> QED
    BY <2>2, <2>3
<1> HIDE DEF s
<1>5. At(t, b, base, base + 24 + Length(q))
  <2>1. base + 24 \in Nat /\ base + 24 + Length(q) <= b.end
    BY <1>0 DEF BodyWhole
  <2> HIDE DEF q
  <2> QED
    BY <1>0, <1>4, <2>1, NextsAt
<1>6. Same(t, p) /\ IsObject(t.o)
  <2>1. LET x == TakeNext(OwnSubtype(ManagementDisassemble(ReaderOf(p, b, base))), In(p.class).body) IN
        Reads(x, b, base, o, Thirds(o) \cup BodyFields(p.class)) /\ Same(x, p)
    BY <1>0, BodyTaken
  <2>2. t = TakeNext(OwnSubtype(ManagementDisassemble(ReaderOf(p, b, base))), In(p.class).body)
    BY <1>0 DEF s, r
  <2> HIDE DEF t
  <2> QED
    BY <2>1, <2>2 DEF Reads
<1> HIDE DEF q
<1>7. At(t, b, base, BodyEnd(o, base))
  BY <1>0, <1>5, Zenon
<1> QED
  BY <1>0, <1>6, <1>7 DEF s, r

\* The tags that are sent are those that are valid.
LEMMA InOrderHas ==
  ASSUME NEW t, AreTags(t), NEW id
  PROVE  LET q == InOrder(t) IN
         /\ HasTag(q, id) <=> HasTag(t, id) /\ GetTag(t, id) # Invalid
         /\ HasTag(q, id) => GetTag(q, id) = GetTag(t, id)
<1> DEFINE q == InOrder(t)
<1>1. /\ AreTags(q) /\ \E h : HeadsFirst(q, h)
      /\ \A i \in DOMAIN q : \E j \in DOMAIN t : q[i] = t[j]
      /\ \A j \in DOMAIN t : t[j].v # Invalid => \E i \in DOMAIN q : q[i] = t[j]
  BY InOrderIs
<1> HIDE DEF q
<1>2. Among(q, t)
  BY <1>1 DEF Among
<1>3. ASSUME HasTag(q, id)
      PROVE  HasTag(t, id) /\ GetTag(q, id) = GetTag(t, id) /\ GetTag(t, id) # Invalid
  <2>1. HasTag(t, id) /\ GetTag(q, id) = GetTag(t, id)
    BY <1>2, <1>3, AmongThem
  <2>2. FirstTag(q, id) \in DOMAIN q /\ GetTag(q, id) = q[FirstTag(q, id)].v
    BY <1>1, <1>3, FirstIs
  <2>3. \A i \in DOMAIN q : q[i].v # Invalid
    BY <1>1 DEF HeadsFirst
  <2> QED
    BY <2>1, <2>2, <2>3
<1>4. ASSUME HasTag(t, id), GetTag(t, id) # Invalid PROVE HasTag(q, id)
  <2> DEFINE j == FirstTag(t, id)
  <2>1. j \in DOMAIN t /\ t[j].id = id /\ t[j].v # Invalid
    BY <1>4, FirstIs
  <2> HIDE DEF j
  <2>2. PICK i \in DOMAIN q : q[i] = t[j]
    BY <1>1, <2>1
  <2> QED
    BY <2>1, <2>2 DEF HasTag
<1>5. /\ HasTag(q, id) <=> HasTag(t, id) /\ GetTag(t, id) # Invalid
      /\ HasTag(q, id) => GetTag(q, id) = GetTag(t, id)
  BY <1>3, <1>4
<1> QED
  BY <1>5 DEF q

\* What a member is when it was looked for among the tags T, and d before.
Found(T, x, d) == IF HasTag(T, Id(x)) THEN GetTag(T, Id(x)) ELSE d
\* A reader that has the tags T and looked for the members N.
Tagging(t, T, p, N) ==
  /\ IsReader(t) /\ t.ok = TRUE /\ IsObject(t.o) /\ t.o.class = p.class /\ t.o.tags = T
  /\ \A x \in Members(p.class) : t.o.member[x] = IF x \in N THEN Found(T, x, p.member[x]) ELSE p.member[x]

LEMMA TagsRead ==
  ASSUME NEW b, NEW o, NEW base, IsObject(o), BodyWhole(b, o, base), NEW p,
         NEW r, At(r, b, base, BodyEnd(o, base)), Same(r, p), IsObject(r.o)
  PROVE  Tagging(DisassembleClassTags(r), InOrder(o.tags), p, {})
<1> DEFINE t == DisassembleClassTags(r)
           T == InOrder(o.tags)
           q == [r.o EXCEPT !.tags = T]
<1>1. AreTags(T) /\ \E h : HeadsFirst(T, h)
  BY InOrderIs DEF IsObject
<1>2. TagsAt(r.b, r.at) = T
  BY DEF BodyWhole, At
<1> HIDE DEF T
<1>3. HeadThenTail(T) = T
  BY <1>1, HeadThenTailIs
<1>4. (IF r.o.class = "Beacon" THEN DisassembleSplit(r.b, r.at) ELSE DisassembleTags(r.b, r.at)) = T
  BY <1>2, <1>3 DEF DisassembleSplit, DisassembleTags
<1>5. t = [r EXCEPT !.o.tags = T]
  BY <1>4, Zenon DEF At, DisassembleClassTags
<1>6. r.o = [class |-> r.o.class, fc |-> r.o.fc, val |-> r.o.val, member |-> r.o.member, tags |-> r.o.tags]
  BY DEF IsObject
<1> HIDE DEF t
<1>7. IsReader(t) /\ t.ok = TRUE /\ t.o = q
  BY <1>5 DEF At, IsReader
<1>8. q = [class |-> r.o.class, fc |-> r.o.fc, val |-> r.o.val, member |-> r.o.member, tags |-> T]
  BY <1>6
<1> HIDE DEF q
<1>9. q.class = r.o.class /\ q.fc = r.o.fc /\ q.val = r.o.val /\ q.member = r.o.member /\ q.tags = T
      /\ q = [class |-> q.class, fc |-> q.fc, val |-> q.val, member |-> q.member, tags |-> q.tags]
  BY <1>8
<1>10. IsObject(q)
  BY <1>1, <1>9 DEF IsObject
<1>11. Tagging(t, T, p, {})
  BY <1>7, <1>9, <1>10 DEF Tagging, Same
<1> QED
  BY <1>11 DEF t, T

LEMMA NeededRead ==
  ASSUME NEW T, NEW p, NEW N, NEW r, Tagging(r, T, p, N), NEW x \in Members(p.class), HasTag(T, Id(x))
  PROVE  Tagging(GetNeeded(r, x), T, p, N \cup {x})
<1> DEFINE t == GetNeeded(r, x)
           q == GetMember(r.o, x)
           M == Members(p.class)
<1>0. IsReader(r) /\ r.ok = TRUE /\ IsObject(r.o) /\ r.o.class = p.class /\ r.o.tags = T /\ AreTags(T)
  BY DEF Tagging, IsObject
<1>1. Among(T, T)
  BY <1>0 DEF Among
<1>2. /\ q = [r.o EXCEPT !.member = q.member] /\ q.member \in [M -> Int]
      /\ q.member[x] = GetTag(T, Id(x))
      /\ \A y \in M \ {x} : q.member[y] = r.o.member[y]
  BY <1>0, <1>1, MemberGot
<1>3. t = [r EXCEPT !.ok = HasTag(r.o.tags, Id(x)), !.o = q]
  BY <1>0, Zenon DEF GetNeeded
<1> HIDE DEF t, q
<1>4. IsReader(t) /\ t.ok = TRUE /\ t.o = q
  <2> DEFINE c == HasTag(r.o.tags, Id(x))
  <2>1. c = TRUE
    BY <1>0
  <2>2. t = [r EXCEPT !.ok = c, !.o = q]
    BY <1>3
  <2> HIDE DEF c
  <2>3. t = [r EXCEPT !.ok = TRUE, !.o = q]
    BY <2>1, <2>2, Zenon
  <2> QED
    BY <1>0, <2>3 DEF IsReader
<1>5. IsObject(q) /\ q.class = p.class /\ q.tags = T
  <2> DEFINE v == q.member
  <2>1. q = [r.o EXCEPT !.member = v] /\ v \in [Members(r.o.class) -> Int]
    BY <1>0, <1>2
  <2> HIDE DEF v
  <2> QED
    BY <1>0, <2>1, WithMembers
<1>6. \A y \in M : q.member[y] = IF y \in N \cup {x} THEN Found(T, y, p.member[y]) ELSE p.member[y]
  <2> SUFFICES ASSUME NEW y \in M
               PROVE  q.member[y] = IF y \in N \cup {x} THEN Found(T, y, p.member[y]) ELSE p.member[y]
    OBVIOUS
  <2>1. CASE y = x
    BY <1>2, <2>1 DEF Found
  <2>2. CASE y # x
    BY <1>2, <2>2 DEF Tagging
  <2> QED
    BY <2>1, <2>2
<1>7. Tagging(t, T, p, N \cup {x})
  BY <1>4, <1>5, <1>6 DEF Tagging
<1> QED
  BY <1>7 DEF t

LEMMA OthersRead ==
  ASSUME NEW T, NEW p, NEW N, NEW r, Tagging(r, T, p, N)
  PROVE  Tagging(GetOthers(r), T, p, N \cup In(p.class).gets)
<1> DEFINE t == GetOthers(r)
           G == In(p.class).gets
           M == Members(p.class)
           v == [x \in DOMAIN r.o.member |->
                   IF x \in In(r.o.class).gets THEN GetMember(r.o, x).member[x] ELSE r.o.member[x]]
<1>0. /\ IsReader(r) /\ r.ok = TRUE /\ IsObject(r.o) /\ r.o.class = p.class /\ r.o.tags = T /\ AreTags(T)
      /\ r.o.member \in [M -> Int]
  BY DEF Tagging, IsObject
<1>1. Among(T, T)
  BY <1>0 DEF Among
<1>2. \A x \in M : LET g == GetMember(r.o, x) IN
        g.member[x] \in Int /\ g.member[x] = Found(T, x, r.o.member[x])
  <2> SUFFICES ASSUME NEW x \in M
               PROVE  LET g == GetMember(r.o, x) IN g.member[x] \in Int /\ g.member[x] = Found(T, x, r.o.member[x])
    OBVIOUS
  <2> DEFINE g == GetMember(r.o, x)
  <2>1. /\ g.member[x] \in Int
        /\ HasTag(T, Id(x)) => g.member[x] = GetTag(T, Id(x))
        /\ ~HasTag(T, Id(x)) => g = r.o
    BY <1>0, <1>1, MemberGot
  <2> HIDE DEF g
  <2>2. g.member[x] \in Int /\ g.member[x] = Found(T, x, r.o.member[x])
    BY <2>1 DEF Found
  <2> QED
    BY <2>2 DEF g
<1>3. t = [r EXCEPT !.o.member = v]
  BY <1>0, Zenon DEF GetOthers
<1>4. v \in [M -> Int] /\ \A x \in M : v[x] = IF x \in G THEN Found(T, x, r.o.member[x]) ELSE r.o.member[x]
  BY <1>0, <1>2
<1> HIDE DEF t, v
<1> DEFINE q == [r.o EXCEPT !.member = v]
<1>5. IsReader(t) /\ t.ok = TRUE /\ t.o = q
  BY <1>0, <1>3 DEF IsReader
<1>6. IsObject(q) /\ q.class = p.class /\ q.tags = T /\ q.member = v
  <2>1. v \in [Members(r.o.class) -> Int]
    BY <1>0, <1>4
  <2> QED
    BY <1>0, <2>1, WithMembers
<1> HIDE DEF q
<1>7. \A x \in M : v[x] = IF x \in N \cup G THEN Found(T, x, p.member[x]) ELSE p.member[x]
  <2> SUFFICES ASSUME NEW x \in M
               PROVE  v[x] = IF x \in N \cup G THEN Found(T, x, p.member[x]) ELSE p.member[x]
    OBVIOUS
  <2>1. r.o.member[x] = IF x \in N THEN Found(T, x, p.member[x]) ELSE p.member[x]
    BY DEF Tagging
  <2>2. v[x] = IF x \in G THEN Found(T, x, r.o.member[x]) ELSE r.o.member[x]
    BY <1>4
  <2> HIDE DEF G
  <2> QED
    BY <2>1, <2>2 DEF Found
<1>8. Tagging(t, T, p, N \cup G)
  BY <1>5, <1>6, <1>7 DEF Tagging
<1> QED
  BY <1>8 DEF t

LEMMA MembersRead ==
  ASSUME NEW T, NEW p, p.class \in Classes, NEW r, Tagging(r, T, p, {}),
         \A x \in Needed(p.class) : HasTag(T, Id(x))
  PROVE  Tagging(GetMembers(r), T, p, Needed(p.class) \cup In(p.class).gets)
<1> DEFINE q == In(p.class).needs
           do(x, i) == IF i \in DOMAIN q THEN GetNeeded(x, q[i]) ELSE x
           r1 == do(r, 1)
           r2 == do(r1, 2)
           r4 == do(do(r2, 3), 4)
           N1 == IF 1 \in DOMAIN q THEN {q[1]} ELSE {}
           N2 == IF 2 \in DOMAIN q THEN N1 \cup {q[2]} ELSE N1
<1>1. DOMAIN q \in {{}, 1 .. 1, 1 .. 2} /\ \A i \in DOMAIN q : q[i] \in Members(p.class)
  BY NeedsAre
<1>2. r.o.class = p.class
  BY DEF Tagging
<1>3. GetMembers(r) = GetOthers(r4)
  BY <1>2 DEF GetMembers, InTurn
<1>4. 3 \notin DOMAIN q /\ 4 \notin DOMAIN q
  <2>1. 3 \notin 1 .. 2 /\ 4 \notin 1 .. 2 /\ 3 \notin 1 .. 1 /\ 4 \notin 1 .. 1
    OBVIOUS
  <2> HIDE DEF q
  <2> QED
    BY <1>1, <2>1
<1>5. r4 = r2
  BY <1>4
<1>6. \A i \in DOMAIN q : HasTag(T, Id(q[i]))
  BY DEF Needed
<1> HIDE DEF q
<1>7. Tagging(r1, T, p, N1)
  <2>1. CASE 1 \in DOMAIN q
    <3>1. Tagging(GetNeeded(r, q[1]), T, p, {} \cup {q[1]})
      BY <1>1, <1>6, <2>1, NeededRead
    <3> QED
      BY <2>1, <3>1
  <2>2. CASE 1 \notin DOMAIN q
    BY <2>2
  <2> QED
    BY <2>1, <2>2
<1> HIDE DEF r1, N1
<1>8. Tagging(r2, T, p, N2)
  <2>1. CASE 2 \in DOMAIN q
    <3>1. Tagging(GetNeeded(r1, q[2]), T, p, N1 \cup {q[2]})
      BY <1>1, <1>6, <1>7, <2>1, NeededRead
    <3> QED
      BY <2>1, <3>1
  <2>2. CASE 2 \notin DOMAIN q
    BY <1>7, <2>2
  <2> QED
    BY <2>1, <2>2
<1>10. N2 = Needed(p.class)
  <2>1. \A i \in DOMAIN q : i = 1 \/ i = 2
    <3>1. \A i : (i \in 1 .. 1 => i = 1) /\ (i \in 1 .. 2 => i = 1 \/ i = 2)
      OBVIOUS
    <3> QED
      BY <1>1, <3>1
  <2>2. Needed(p.class) = {q[i] : i \in DOMAIN q}
    BY DEF Needed, q
  <2> QED
    BY <2>1, <2>2 DEF N1
<1> HIDE DEF r2, N2, r4
<1>11. Tagging(GetOthers(r2), T, p, N2 \cup In(p.class).gets)
  BY <1>8, OthersRead
<1> QED
  BY <1>3, <1>5, <1>10, <1>11, Zenon

LEMMA BodyRead ==
  ASSUME NEW b, NEW o, NEW base, Comes(b, o, base), IsObject(o), BodyWhole(b, o, base), Complete(o),
         NEW p, IsObject(p), Sourced(p), p.class = o.class
  PROVE  Tagging(BodyDisassemble(ReaderOf(p, b, base)), InOrder(o.tags), p, Needed(p.class) \cup In(p.class).gets)
<1> DEFINE r == TakeNext(OwnSubtype(ManagementDisassemble(ReaderOf(p, b, base))), In(p.class).body)
           s == DisassembleClassTags(r)
           t == GetMembers(s)
           T == InOrder(o.tags)
<1>1. BodyDisassemble(ReaderOf(p, b, base)) = t
  BY DEF BodyDisassemble, ReaderOf
<1>2. At(r, b, base, BodyEnd(o, base)) /\ Same(r, p) /\ IsObject(r.o)
  BY BodyReadTo
<1> HIDE DEF r
<1>3. Tagging(s, T, p, {})
  BY <1>2, TagsRead
<1>4. \A x \in Needed(p.class) : HasTag(T, Id(x))
  <2> SUFFICES ASSUME NEW i \in DOMAIN In(o.class).needs PROVE HasTag(T, Id(In(o.class).needs[i]))
    BY DEF Needed
  <2> DEFINE id == Id(In(o.class).needs[i])
  <2>1. HasTag(o.tags, id) /\ GetTag(o.tags, id) # Invalid
    BY DEF Complete
  <2>2. AreTags(o.tags)
    BY DEF IsObject
  <2> HIDE DEF id
  <2>3. HasTag(T, id)
    BY <2>1, <2>2, InOrderHas
  <2> QED
    BY <2>3 DEF id
<1>5. p.class \in Classes
  BY DEF IsObject
<1> HIDE DEF s, T
<1>6. Tagging(t, T, p, Needed(p.class) \cup In(p.class).gets)
  BY <1>3, <1>4, <1>5, MembersRead
<1> QED
  BY <1>1, <1>6 DEF T

\* The members that o puts are among its tags; a WMM tag of its own is valid.
PutIs(o) ==
  /\ \A i \in DOMAIN Out(o.class).puts :
       LET m == Out(o.class).puts[i] IN HasTag(o.tags, Id(m)) /\ GetTag(o.tags, Id(m)) = o.member[m]
  /\ "WmmWme" \in Members(o.class) => o.member["WmmWme"] # Invalid

\* f has o's tags in order, and the members N of o that o puts.
MembersCome(f, o, N) ==
  /\ \A m \in N \cap {Out(o.class).puts[i] : i \in DOMAIN Out(o.class).puts} : f.member[m] = o.member[m]
  /\ InOrder(f.tags) = InOrder(o.tags)

\* What a fresh object has of o that read it.
LEMMA MembersDelivered ==
  ASSUME NEW o, IsObject(o), PutIs(o), NEW t, NEW N, Tagging(t, InOrder(o.tags), New(o.class), N)
  PROVE  MembersCome(t.o, o, N)
<1> DEFINE T == InOrder(o.tags)
           puts == Out(o.class).puts
           d == New(o.class).member
<1>1. AreTags(o.tags) /\ o.class \in Classes
  BY DEF IsObject
<1>2. AreTags(T) /\ \E h : HeadsFirst(T, h)
  BY <1>1, InOrderIs
<1>3. New(o.class).class = o.class /\ \A m \in Members(o.class) : d[m] = IF m = "WmmWme" THEN Default ELSE Invalid
  BY DEF New
<1>4. /\ t.o.tags = T
      /\ \A x \in Members(o.class) : t.o.member[x] = IF x \in N THEN Found(T, x, d[x]) ELSE d[x]
  BY <1>3 DEF Tagging
<1>5. ASSUME NEW i \in DOMAIN puts, puts[i] \in N PROVE t.o.member[puts[i]] = o.member[puts[i]]
  <2> DEFINE m == puts[i]
  <2>1. m \in Members(o.class)
    <3>1. ArePuts(puts, Members(o.class))
      BY <1>1, PutsAre
    <3> HIDE DEF puts
    <3> QED
      BY <3>1 DEF ArePuts
  <2>2. HasTag(o.tags, Id(m)) /\ GetTag(o.tags, Id(m)) = o.member[m]
    BY DEF PutIs
  <2>3. /\ HasTag(T, Id(m)) <=> o.member[m] # Invalid
        /\ HasTag(T, Id(m)) => GetTag(T, Id(m)) = o.member[m]
    BY <1>1, <2>2, InOrderHas
  <2>4. t.o.member[m] = Found(T, m, d[m])
    BY <1>4, <1>5, <2>1
  <2> HIDE DEF m, T
  <2>5. CASE o.member[m] # Invalid
    BY <2>3, <2>4, <2>5 DEF Found, m
  <2>6. CASE o.member[m] = Invalid
    <3>1. m # "WmmWme"
      BY <2>1, <2>6 DEF PutIs
    <3>2. d[m] = Invalid
      BY <1>3, <2>1, <3>1
    <3> QED
      BY <2>3, <2>4, <2>6, <3>2 DEF Found, m
  <2> QED
    BY <2>5, <2>6
<1>6. InOrder(T) = T
  BY <1>2, InOrderAgain
<1> HIDE DEF T
<1> QED
  BY <1>4, <1>5, <1>6 DEF T, MembersCome

-----------------------------------------------------------------------------
(***************************************************************************)
(* The class that reads a frame.                                           *)
(***************************************************************************)
LEMMA ClassForIs ==
  ASSUME NEW o, IsObject(o), o.class \in Management => o.fc.type = Mgmt /\ o.fc.sub = TypeOf[o.class].sub
  PROVE  /\ o.fc.type = Cntl => ClassFor(o.fc) = "ControlFrame"
         /\ o.fc.type = Data => ClassFor(o.fc) = "DataFrame"
         /\ o.class \in Management =>
              ClassFor(o.fc) = IF o.class = "ReassociationResponse" THEN "Frame" ELSE o.class
<1>0. Mgmt # Cntl /\ Mgmt # Data /\ Cntl # Data
  BY ClassesAre
<1>1. o.fc.type = Cntl => ClassFor(o.fc) = "ControlFrame"
  BY <1>0 DEF ClassFor
<1>2. o.fc.type = Data => ClassFor(o.fc) = "DataFrame"
  BY <1>0 DEF ClassFor
<1>3. ASSUME o.class \in Management
      PROVE  ClassFor(o.fc) = IF o.class = "ReassociationResponse" THEN "Frame" ELSE o.class
  <2> DEFINE C == {c \in Dispatched : TypeOf[c].sub = o.fc.sub}
  <2>1. ClassFor(o.fc) = IF C = {} THEN "Frame" ELSE CHOOSE c \in C : TRUE
    BY <1>0, <1>3 DEF ClassFor
  <2>2. \A c \in C : c = o.class
    BY <1>3, SubtypesAre DEF Dispatched
  <2>3. CASE o.class = "ReassociationResponse"
    <3>1. C = {}
      BY <2>2, <2>3 DEF Dispatched
    <3> QED
      BY <2>1, <2>3, <3>1
  <2>4. CASE o.class # "ReassociationResponse"
    <3>1. o.class \in C
      BY <1>3, <2>4 DEF Dispatched
    <3> HIDE DEF C
    <3>2. (CHOOSE c \in C : TRUE) \in C /\ C # {}
      BY <3>1
    <3>3. (CHOOSE c \in C : TRUE) = o.class
      BY <2>2, <3>2
    <3> QED
      BY <2>1, <2>4, <3>2, <3>3
  <2> QED
    BY <2>3, <2>4
<1> QED
  BY <1>1, <1>2, <1>3

-----------------------------------------------------------------------------
(***************************************************************************)
(* A frame that arrived whole.                                             *)
(***************************************************************************)
Whole(b, o, base) ==
  /\ Comes(b, o, base)
  /\ o.fc.type # Cntl => o.val.addr2 # Unset
  /\ o.class \in Management => o.fc.type = Mgmt /\ o.fc.sub = TypeOf[o.class].sub
  /\ o.class = "ControlFrame" => o.fc.type = Cntl
  /\ o.class \in {"DataFrame", "QosData"} => o.fc.type = Data
  /\ o.fc.type = Cntl => PayloadAt(b, o, base + HeadLength(o), << >>)
  /\ o.fc.type = Data => PayloadAt(b, o, base + DataLength(o), LlcPart)
  /\ o.class = "ActionRequest" => base + 24 <= b.end
  /\ o.class \in Bodied => BodyWhole(b, o, base)

LEMMA PayloadAtKept ==
  ASSUME NEW b, NEW c, NEW o, NEW edge \in Nat, NEW header \in {<< >>, LlcPart}, PayloadAt(c, o, edge, header),
         b.end = c.end, Kept(b, c, c.end)
  PROVE  PayloadAt(b, o, edge, header)
<1>1. CASE o.val.payload = Unset
  BY <1>1 DEF PayloadAt
<1>2. CASE o.val.payload # Unset
  <2> DEFINE k == Length(header)
  <2>1. /\ c.end = edge + k + 4
        /\ header = LlcPart => Holds(c, edge, 8, "llc", o.val["llc"])
        /\ Holds(c, edge + k, 4, "payload", o.val["payload"])
    BY <1>2 DEF PayloadAt
  <2>2. k \in Nat /\ (header = LlcPart => k = 8)
    BY HeadersAre
  <2> HIDE DEF k
  <2>3. edge + k \in Nat /\ (edge + k) + 4 <= c.end /\ edge + 8 \in Nat /\ (k = 8 => edge + 8 <= c.end)
    BY <2>1, <2>2
  <2>4. 4 \in Nat \ {0} /\ 8 \in Nat \ {0}
    OBVIOUS
  <2>5. Holds(b, edge + k, 4, "payload", o.val["payload"])
    BY <2>1, <2>3, <2>4, Zenon DEF Kept
  <2>6. header = LlcPart => Holds(b, edge, 8, "llc", o.val["llc"])
    BY <2>1, <2>2, <2>3, <2>4, Zenon DEF Kept
  <2> QED
    BY <1>2, <2>1, <2>5, <2>6 DEF PayloadAt, k
<1> QED
  BY <1>1, <1>2

\* The tags do not end before they begin.
LEMMA TaggedEnd ==
  ASSUME NEW c, NEW d, NEW q \in Seq(TagRecord), NEW at, Tagged(c, d, q, at)
  PROVE  d.end <= c.end
<1> DEFINE m == Len(q)
<1>1. /\ m \in Nat /\ at \in [1 .. m + 1 -> Nat] /\ at[1] = d.end /\ c.end = at[m + 1]
      /\ \A i \in 1 .. m : at[i + 1] = at[i] + Width(q[i]) /\ Width(q[i]) \in Nat \ {0}
  BY WidthIs DEF Tagged
<1> HIDE DEF m
<1>2. \A i \in 1 .. m : at[i] < at[i + 1]
  BY <1>1
<1>3. m = 0 \/ at[1] < at[m + 1]
  <2> SUFFICES ASSUME m # 0 PROVE at[1] < at[m + 1]
    OBVIOUS
  <2>1. 1 \in 1 .. m + 1 /\ m + 1 \in 1 .. m + 1 /\ 1 < m + 1
    BY <1>1
  <2> QED
    BY <1>1, <1>2, <2>1, Rising
<1>4. at[1] \in Nat /\ at[m + 1] \in Nat
  BY <1>1
<1> QED
  BY <1>1, <1>3, <1>4

LEMMA ArrivesWhole ==
  ASSUME NEW c, NEW o, IsObject(o), NEW base, Laid(c, o, base), Ended(c, o, base), NEW fcs \in BOOLEAN
  PROVE  Whole(TakeFcs(Pop(IF fcs THEN Write(c, c.end, 4, "fcs", 0) ELSE c, 0), fcs), o, base)
<1> DEFINE b == TakeFcs(Pop(IF fcs THEN Write(c, c.end, 4, "fcs", 0) ELSE c, 0), fcs)
<1>1. Comes(b, o, base) /\ b.end = c.end - 0 /\ Kept(b, c, b.end) /\ Part(b, c)
  <2>1. 0 \in Nat
    OBVIOUS
  <2> QED
    BY <2>1, Arriving
<1> HIDE DEF b
<1>2. base \in Nat /\ c.end \in Nat /\ HeadLength(o) \in Nat /\ DataLength(o) \in Nat
  BY DEF Laid, HeadLength, DataLength
<1>3. b.end = c.end /\ Kept(b, c, c.end)
  <2>1. c.end - 0 = c.end
    BY <1>2
  <2> QED
    BY <1>1, <2>1, Zenon
<1>4. base + HeadLength(o) \in Nat /\ base + DataLength(o) \in Nat
  BY <1>2
<1>5. o.fc.type = Cntl => PayloadAt(b, o, base + HeadLength(o), << >>)
  BY <1>3, <1>4, PayloadAtKept DEF Ended
<1>6. o.fc.type = Data => PayloadAt(b, o, base + DataLength(o), LlcPart)
  BY <1>3, <1>4, PayloadAtKept DEF Ended
<1>7. o.class = "ActionRequest" => base + 24 <= b.end
  BY <1>2, <1>3 DEF Ended
<1>8. o.class \in Bodied => BodyWhole(b, o, base)
  <2> SUFFICES ASSUME o.class \in Bodied PROVE BodyWhole(b, o, base)
    OBVIOUS
  <2>1. PICK d, at : Tagged(c, d, InOrder(o.tags), at) /\ d.end = BodyEnd(o, base) /\ NoTags(d)
    BY DEF Ended
  <2> DEFINE T == InOrder(o.tags)
  <2>2. T \in Seq(TagRecord)
    BY InOrderIs DEF IsObject, AreTags
  <2> HIDE DEF T
  <2>3. IsBuffer(b)
    BY <1>1 DEF Comes
  <2>4. Tagged(c, d, T, at)
    BY <2>1 DEF T
  <2>5. TagsAt(b, d.end) = T
    BY <1>1, <1>3, <2>1, <2>2, <2>3, <2>4, TagsWhole
  <2>6. d.end <= c.end
    BY <2>2, <2>4, TaggedEnd
  <2>7. /\ o.class \in Management /\ o.fc.type = Mgmt /\ o.fc.sub = TypeOf[o.class].sub /\ o.val.addr2 # Unset
    <3>1. o.class \in Management /\ Mgmt # Cntl
      BY ClassesAre
    <3> QED
      BY <3>1 DEF Laid
  <2> QED
    BY <1>3, <2>1, <2>5, <2>6, <2>7 DEF BodyWhole, T
<1>9. /\ o.fc.type # Cntl => o.val.addr2 # Unset
      /\ o.class \in Management => o.fc.type = Mgmt /\ o.fc.sub = TypeOf[o.class].sub
      /\ o.class = "ControlFrame" => o.fc.type = Cntl
      /\ o.class \in {"DataFrame", "QosData"} => o.fc.type = Data
  BY DEF Laid
<1>10. Whole(b, o, base)
  BY <1>1, <1>5, <1>6, <1>7, <1>8, <1>9 DEF Whole
<1> QED
  BY <1>10 DEF b

\* The header of a frame that arrived whole is there.
LEMMA FrameReady ==
  ASSUME NEW b, NEW o, NEW base, Whole(b, o, base), IsObject(o), o.class # "Frame", Readable(o)
  PROVE  base + HeadLength(o) <= b.end /\ (o.val.addr2 = Unset => b.end = base + 10)
<1>0. base \in Nat /\ b.end \in Int /\ Mgmt # Cntl /\ Mgmt # Data
  BY ComesIn, ClassesAre DEF Whole
<1>1. CASE o.fc.type = Cntl
  <2>1. PayloadAt(b, o, base + HeadLength(o), << >>) /\ (o.val.addr2 = Unset => o.val.payload = Unset)
    BY <1>1 DEF Whole, Readable
  <2>2. HeadLength(o) \in Nat /\ (o.val.addr2 = Unset => HeadLength(o) = 10) /\ Length(<< >>) = 0
    BY HeadersAre DEF HeadLength
  <2>3. /\ o.val.payload = Unset => b.end = base + HeadLength(o)
        /\ o.val.payload # Unset => b.end = base + HeadLength(o) + Length(<< >>) + 4
    BY <2>1 DEF PayloadAt
  <2> QED
    BY <1>0, <2>1, <2>2, <2>3
<1>2. CASE o.fc.type # Cntl
  <2>1. o.val.addr2 # Unset /\ HeadLength(o) = 16
    BY <1>2 DEF Whole, HeadLength
  <2>2. base + 24 <= b.end
    <3>1. CASE o.fc.type = Data
      <4>1. PayloadAt(b, o, base + DataLength(o), LlcPart)
        BY <3>1 DEF Whole
      <4>2. DataLength(o) \in Nat /\ 24 <= DataLength(o) /\ Length(LlcPart) = 8
        BY HeadersAre DEF DataLength
      <4>3. /\ o.val.payload = Unset => b.end = base + DataLength(o)
            /\ o.val.payload # Unset => b.end = base + DataLength(o) + Length(LlcPart) + 4
        BY <4>1 DEF PayloadAt
      <4> QED
        BY <1>0, <4>2, <4>3
    <3>2. CASE o.class = "ActionRequest"
      BY <3>2 DEF Whole
    <3>3. CASE o.class \in Bodied
      <4>1. BodyEnd(o, base) <= b.end
        BY <3>3 DEF Whole, BodyWhole
      <4>2. Length(Out(o.class).body) \in Nat
        BY BodiesAre, PartsKnown DEF IsObject
      <4> QED
        BY <1>0, <4>1, <4>2 DEF BodyEnd
    <3> QED
      BY <1>2, <3>1, <3>2, <3>3, ClassesAre DEF Whole, IsObject
  <2> QED
    BY <1>0, <2>1, <2>2
<1> QED
  BY <1>1, <1>2

\* A look at the header of a frame that arrived whole.
HeaderIs(t, o) ==
  /\ t.ok = TRUE /\ t.o.class = "Frame" /\ t.o.fc = o.fc
  /\ o.val.addr2 # Unset => \A x \in HeaderOnly : t.o.val[x] = o.val[x]

LEMMA HeaderRead ==
  ASSUME NEW b, NEW o, NEW base, NEW fcs \in BOOLEAN, Whole(TakeFcs(b, fcs), o, base), IsFrame(o), Readable(o)
  PROVE  HeaderIs(Disassemble(New("Frame"), b, base, fcs), o)
<1> DEFINE p == New("Frame")
           c == TakeFcs(b, fcs)
           t == FrameDisassemble(ReaderOf(p, c, base))
<1>1. IsObject(p) /\ Sourced(p) /\ p.class = "Frame" /\ "Frame" \notin Management
  BY NewIs, ClassesAre
<1>2. Disassemble(p, b, base, fcs) = t
  <2> HIDE DEF p, c
  <2>1. Disassemble(p, b, base, fcs) = ClassDisassemble(ReaderOf(p, c, base))
    BY <1>1 DEF Disassemble, ReaderOf, c
  <2>2. ClassDisassemble(ReaderOf(p, c, base)) = t
    BY <1>1 DEF ClassDisassemble, ReaderOf
  <2> QED
    BY <2>1, <2>2
<1> HIDE DEF p, c
<1>3. Whole(c, o, base) /\ IsObject(o)
  BY DEF c, IsFrame
<1>4. Comes(c, o, base) /\ base \in Nat
  BY <1>3, ComesIn DEF Whole
<1>5. base + HeadLength(o) <= c.end /\ (o.val.addr2 = Unset => c.end = base + 10)
  BY <1>3, FrameReady DEF IsFrame
<1>6. At(t, c, base, base + HeadLength(o))
  BY <1>1, <1>3, <1>4, <1>5, FrameAt
<1>7. Reads(t, c, base, o, {"duration", "addr1"}) /\ Same(t, p) /\ Headed(t, c, base, o)
  BY <1>1, <1>3, <1>4, FrameTaken
<1> HIDE DEF t
<1>8. t.ok = TRUE /\ t.at = base + HeadLength(o)
  BY <1>6 DEF At
<1>9. t.o.fc = o.fc /\ t.o.val["duration"] = o.val["duration"] /\ t.o.val["addr1"] = o.val["addr1"]
  BY <1>7, <1>8 DEF Reads
<1>10. t.o.class = "Frame"
  BY <1>1, <1>7 DEF Same
<1>11. o.val.addr2 # Unset => t.o.val.addr2 = o.val.addr2
  <2> SUFFICES ASSUME o.val.addr2 # Unset PROVE t.o.val.addr2 = o.val.addr2
    OBVIOUS
  <2>1. t.at = base + 16 /\ t.at # base + 10
    BY <1>4, <1>8 DEF HeadLength
  <2> QED
    BY <1>7, <1>8, <2>1 DEF Headed
<1>12. HeaderIs(t, o)
  BY <1>8, <1>9, <1>10, <1>11 DEF HeaderIs, HeaderOnly
<1> QED
  BY <1>2, <1>12 DEF p

\* What the application gets of a frame of o that arrived whole, see Delivered.
FrameIs(f, o) ==
  LET gets == {In(o.class).needs[i] : i \in DOMAIN In(o.class).needs} \cup In(o.class).gets
      puts == {Out(o.class).puts[i] : i \in DOMAIN Out(o.class).puts} IN
  /\ f.fc = o.fc \/ f.class = "ActionRequest"
  /\ CASE f.class = "ActionRequest" -> o.class = "ActionRequest"
       [] f.class = "Frame" -> /\ o.class = "ReassociationResponse"
                               /\ \A x \in HeaderOnly : f.val[x] = o.val[x]
       [] OTHER ->
            /\ f.class = o.class \/ <<f.class, o.class>> = <<"DataFrame", "QosData">>
            /\ \A x \in Carried(o) \cup Trailing(o) : f.val[x] = o.val[x]
            /\ \A m \in gets \cap puts : f.member[m] = o.member[m]
            /\ o.fc.type = Mgmt => InOrder(f.tags) = InOrder(o.tags)

\* What o carries is what was taken and what is behind it.
LEMMA TrailingRead ==
  ASSUME NEW p, NEW o, NEW t, IsObject(p), p.class \in {"ControlFrame", "DataFrame", "QosData"},
         Got(t, p, o), TrailingIs(t, o)
  PROVE  \A x \in Carried(o) \cup Trailing(o) : t.o.val[x] = o.val[x]
<1>1. t.ok /\ t.o.fc = o.fc
  BY DEF Got, TrailingIs
<1>2. \A f \in Carried(o) \ (IF o.fc.type = Cntl THEN {"addr2"} ELSE {}) : t.o.val[f] = o.val[f]
  <2>1. p.class \notin {"Frame", "ActionRequest"}
    OBVIOUS
  <2> QED
    BY <1>1, <2>1, CarriedRead
<1>3. o.fc.type = Cntl /\ "addr2" \in Carried(o) => t.o.val["addr2"] = o.val["addr2"]
  <2> SUFFICES ASSUME o.fc.type = Cntl, o.val.addr2 = Unset PROVE "addr2" \notin Carried(o)
    BY DEF TrailingIs
  <2> QED
    BY ClassesAre DEF Carried
<1>4. \A f \in Trailing(o) : t.o.val[f] = o.val[f]
  BY DEF TrailingIs, Trailing
<1> QED
  BY <1>2, <1>3, <1>4

\* Control and data frames.
LEMMA PlainDelivered ==
  ASSUME NEW b, NEW o, NEW base, NEW fcs \in BOOLEAN, Whole(TakeFcs(b, fcs), o, base), IsFrame(o), Readable(o),
         o.class \in {"ControlFrame", "DataFrame", "QosData"},
         NEW d, d = Disassemble(New(ClassFor(o.fc)), b, base, fcs)
  PROVE  d.ok = TRUE /\ FrameIs(d.o, o)
<1> DEFINE k == ClassFor(o.fc)
           p == New(k)
           c == TakeFcs(b, fcs)
<1>1. /\ o.class = "ControlFrame" => o.fc.type = Cntl
      /\ o.class \in {"DataFrame", "QosData"} => o.fc.type = Data /\ o.val.addr2 # Unset
      /\ Mgmt # Cntl /\ Mgmt # Data /\ Cntl # Data /\ o.class \notin Management
  BY ClassesAre DEF Whole
<1>2. k = IF o.class = "ControlFrame" THEN "ControlFrame" ELSE "DataFrame"
  BY <1>1, ClassForIs DEF IsFrame
<1> HIDE DEF k
<1>3. IsObject(p) /\ Sourced(p) /\ p.class = k
  BY <1>2, NewIs, ClassesAre
<1> HIDE DEF p
<1>4. d = ClassDisassemble(ReaderOf(p, c, base))
  BY <1>2, <1>3, DisassembleIs DEF p, k
<1>5. Comes(c, o, base) /\ IsObject(o) /\ o.class # "Frame"
  BY DEF Whole, IsFrame
<1>6. Got(d, p, o)
  <2>1. p.class \notin {"Frame", "ActionRequest"}
    BY <1>2, <1>3
  <2> QED
    BY <1>3, <1>5, <2>1, DisassembleGot DEF p, k
<1> HIDE DEF c
<1>7. TrailingIs(d, o)
  <2>1. CASE o.class = "ControlFrame"
    <3>1. d = ControlDisassemble(ReaderOf(p, c, base))
      <4>1. p.class = "ControlFrame" /\ "ControlFrame" \notin Management
        BY <1>2, <1>3, <2>1, ClassesAre
      <4> QED
        BY <1>4, <4>1 DEF ClassDisassemble, ReaderOf
    <3>2. PayloadAt(c, o, base + HeadLength(o), << >>) /\ (o.val.addr2 = Unset => o.val.payload = Unset)
      BY <1>1, <2>1 DEF Whole, Readable, c
    <3> QED
      BY <1>1, <1>3, <1>5, <2>1, <3>1, <3>2, CntlRead
  <2>2. CASE o.class # "ControlFrame"
    <3>1. d = DataDisassemble(ReaderOf(p, c, base))
      <4>1. p.class = "DataFrame" /\ "DataFrame" \notin Management
        BY <1>2, <1>3, <2>2, ClassesAre
      <4> QED
        BY <1>4, <4>1 DEF ClassDisassemble, ReaderOf
    <3>2. PayloadAt(c, o, base + DataLength(o), LlcPart) /\ o.fc.type = Data /\ o.val.addr2 # Unset
      BY <1>1, <2>2 DEF Whole, c
    <3> QED
      BY <1>3, <1>5, <3>1, <3>2, DataRead
  <2> QED
    BY <2>1, <2>2
<1>8. \A x \in Carried(o) \cup Trailing(o) : d.o.val[x] = o.val[x]
  BY <1>2, <1>3, <1>6, <1>7, TrailingRead
<1>9. d.ok = TRUE /\ d.o.fc = o.fc /\ d.o.class = k
  BY <1>3, <1>6, <1>7 DEF Got, TrailingIs
<1>10. {In(o.class).needs[i] : i \in DOMAIN In(o.class).needs} \cup In(o.class).gets = {}
  <2>1. In(o.class) = Nothing
    BY DEF In
  <2>2. Nothing.gets = {} /\ DOMAIN Nothing.needs = {}
    BY DEF Nothing
  <2> QED
    BY <2>1, <2>2
<1>11. d.o.class = o.class \/ <<d.o.class, o.class>> = <<"DataFrame", "QosData">>
  BY <1>2, <1>9
<1>12. d.o.class \notin {"ActionRequest", "Frame"} /\ o.fc.type # Mgmt
  BY <1>1, <1>2, <1>9
<1> HIDE DEF p
<1> QED
  BY <1>8, <1>9, <1>10, <1>11, <1>12 DEF FrameIs

\* Management frames with a class of their own.
LEMMA BodyDelivered ==
  ASSUME NEW b, NEW o, NEW base, NEW fcs \in BOOLEAN, Whole(TakeFcs(b, fcs), o, base), IsFrame(o), Readable(o),
         PutIs(o), o.class \in Bodied, o.class # "ReassociationResponse",
         NEW d, d = Disassemble(New(ClassFor(o.fc)), b, base, fcs)
  PROVE  d.ok = TRUE /\ FrameIs(d.o, o)
<1> DEFINE p == New(o.class)
           c == TakeFcs(b, fcs)
           N == Needed(o.class) \cup In(o.class).gets
<1>1. /\ o.class \in Management /\ o.class # "ActionRequest" /\ o.class # "Frame"
      /\ o.class \notin {"ControlFrame", "DataFrame", "QosData"}
      /\ Mgmt # Cntl /\ Mgmt # Data
  BY ClassesAre
<1>2. ClassFor(o.fc) = o.class /\ o.fc.type = Mgmt
  BY <1>1, ClassForIs DEF Whole, IsFrame
<1>3. IsObject(p) /\ Sourced(p) /\ p.class = o.class
  BY NewIs DEF IsFrame, IsObject
<1>4. d = BodyDisassemble(ReaderOf(p, c, base))
  <2>1. d = Disassemble(p, b, base, fcs)
    BY <1>2
  <2> HIDE DEF p, c
  <2>2. d = ClassDisassemble(ReaderOf(p, c, base))
    BY <1>1, <1>3, <2>1, DisassembleIs DEF c
  <2> QED
    BY <1>1, <1>3, <2>2 DEF ClassDisassemble, ReaderOf
<1>5. Comes(c, o, base) /\ IsObject(o) /\ BodyWhole(c, o, base) /\ Complete(o)
  BY DEF Whole, IsFrame, Readable
<1>6. Tagging(d, InOrder(o.tags), p, N)
  <2> HIDE DEF p, c
  <2>1. Tagging(d, InOrder(o.tags), p, Needed(p.class) \cup In(p.class).gets)
    BY <1>3, <1>4, <1>5, BodyRead
  <2> QED
    BY <1>3, <2>1
<1>7. d.ok = TRUE /\ d.o.class = o.class
  BY <1>3, <1>6 DEF Tagging
<1>8. MembersCome(d.o, o, N)
  <2> HIDE DEF N
  <2> QED
    BY <1>5, <1>6, MembersDelivered, Zenon
<1>9. Got(d, p, o)
  <2>1. d = Disassemble(p, b, base, fcs)
    BY <1>2
  <2> HIDE DEF p, c
  <2>2. Comes(TakeFcs(b, fcs), o, base)
    BY <1>5 DEF c
  <2> QED
    BY <1>1, <1>3, <1>5, <2>1, <2>2, DisassembleGot
<1>10. d.o.fc = o.fc
  BY <1>7, <1>9 DEF Got
<1>11. \A x \in Carried(o) \cup Trailing(o) : d.o.val[x] = o.val[x]
  <2> HIDE DEF p
  <2>1. \A x \in Carried(o) \ (IF d.o.fc.type = Cntl THEN {"addr2"} ELSE {}) : d.o.val[x] = o.val[x]
    <3>1. p.class \notin {"Frame", "ActionRequest"} /\ d.ok
      BY <1>1, <1>3, <1>7
    <3> QED
      BY <1>3, <1>9, <3>1, CarriedRead
  <2>2. d.o.fc.type # Cntl
    BY <1>1, <1>2, <1>10
  <2>3. Trailing(o) = {}
    BY <1>1, <1>2 DEF Trailing
  <2> QED
    BY <2>1, <2>2, <2>3
<1>12. N = {In(o.class).needs[i] : i \in DOMAIN In(o.class).needs} \cup In(o.class).gets
  BY DEF Needed
<1> HIDE DEF p, c, N
<1> QED
  BY <1>1, <1>7, <1>8, <1>10, <1>11, <1>12 DEF FrameIs, MembersCome

\* Whatever the class of the frame.
LEMMA FrameDelivered ==
  ASSUME NEW b, NEW o, NEW base, NEW fcs \in BOOLEAN, Whole(TakeFcs(b, fcs), o, base), IsFrame(o), Readable(o),
         o.class \in Bodied => PutIs(o), NEW d, d = Disassemble(New(ClassFor(o.fc)), b, base, fcs)
  PROVE  d.ok = TRUE /\ FrameIs(d.o, o)
<1>0. o.class \in Management => ClassFor(o.fc) = IF o.class = "ReassociationResponse" THEN "Frame" ELSE o.class
  BY ClassForIs DEF Whole, IsFrame
<1>1. CASE o.class = "ActionRequest"
  <2>1. ClassFor(o.fc) = "ActionRequest"
    BY <1>0, <1>1, ClassesAre
  <2>2. New("ActionRequest").class = "ActionRequest"
    BY DEF New
  <2>3. d.ok = TRUE /\ d.o = New("ActionRequest")
    BY <2>1, <2>2 DEF Disassemble
  <2> QED
    BY <1>1, <2>2, <2>3 DEF FrameIs
<1>2. CASE o.class = "ReassociationResponse"
  <2>1. o.class \in Management /\ o.fc.type = Mgmt /\ o.val.addr2 # Unset
    <3>1. o.class \in Management
      BY <1>2 DEF Management, Classes, TypeOf, Type, Mgmt
    <3> QED
      BY <3>1, ClassesAre DEF Whole
  <2>2. d = Disassemble(New("Frame"), b, base, fcs)
    BY <1>0, <1>2, <2>1
  <2>3. HeaderIs(d, o)
    BY <2>2, HeaderRead
  <2> QED
    BY <1>2, <2>1, <2>3 DEF FrameIs, HeaderIs
<1>3. CASE o.class \in {"ControlFrame", "DataFrame", "QosData"}
  BY <1>3, PlainDelivered
<1>4. CASE o.class \in Bodied /\ o.class # "ReassociationResponse"
  BY <1>4, BodyDelivered
<1> QED
  BY <1>1, <1>2, <1>3, <1>4, ClassesAre DEF IsFrame, IsObject

\* An object that was sent has the members it put.
LEMMA AssembledPutIs ==
  ASSUME NEW o, IsObject(o), o.class # "Frame", WmmIs(o), NEW b, Assemble(o, b).ok
  PROVE  Assemble(o, b).o.class \in Bodied => PutIs(Assemble(o, b).o)
<1> DEFINE u == PutMembers(o)
           p == Assemble(o, b).o
<1>1. p = IF o.class \in Bodied THEN u ELSE o
  BY AssembleKeeps
<1> HIDE DEF p
<1> SUFFICES ASSUME p.class \in Bodied PROVE PutIs(p)
  BY DEF p
<1>2. IsObject(u) /\ u = [o EXCEPT !.tags = u.tags]
  BY MembersPut
<1>3. u.class = o.class /\ u.member = o.member
  BY <1>2 DEF IsObject
<1>4. \A i \in DOMAIN Out(o.class).puts :
        LET m == Out(o.class).puts[i] IN HasTag(u.tags, Id(m)) /\ GetTag(u.tags, Id(m)) = o.member[m]
  BY MembersPut, Zenon
<1>5. p = u
  BY <1>1
<1> HIDE DEF u
<1>6. "WmmWme" \in Members(o.class) => o.member["WmmWme"] # Invalid
  BY DEF WmmIs, Invalid
<1> QED
  BY <1>3, <1>4, <1>5, <1>6 DEF PutIs

\* What arrived as x, of the frame of an object that was sent, when none of it was lost.
Landed(x, a) ==
  LET c == TapFor[a] IN
  /\ x.base = c.end /\ x.fcs = HasFcs[a]
  /\ IsFrame(x.from) /\ (x.from.class \in Bodied => PutIs(x.from))
  /\ Whole(TakeFcs(x.b, x.fcs), x.from, x.base)
  /\ x.b.end \in Int /\ c.end <= x.b.end /\ Kept(x.b, c, c.end)

LEMMA LandedIs ==
  ASSUME NEW x, NEW a \in Arrivals, NEW o, IsFrame(o), SentAs(x, o, a), x.lost = 0, Readable(x.from)
  PROVE  Landed(x, a)
<1> DEFINE b == TapFor[a]
           s == Assemble(o, b)
           fcs == HasFcs[a]
           w == IF fcs THEN Write(s.b, s.b.end, 4, "fcs", 0) ELSE s.b
<1>1. IsPlain(b) /\ IsBuffer(b) /\ b.end \in Nat /\ Only(b, o) /\ NoTags(b)
  <2>1. IsPlain(b)
    BY TapForPlain
  <2> QED
    BY <2>1, PlainOnly DEF IsPlain
<1>2. s.ok /\ x.b = Pop(w, 0) /\ x.base = b.end /\ x.from = s.o /\ x.fcs = fcs
  BY DEF SentAs, WithFcs
<1>3. fcs \in BOOLEAN
  BY DEF HasFcs, FcsFlag
<1> HIDE DEF b, fcs
<1>4. IsObject(o) /\ Sourced(o) /\ WmmIs(o) /\ o.class # "Frame"
  BY DEF IsFrame
<1>5. Laid(s.b, s.o, b.end) /\ Ended(s.b, s.o, b.end)
  BY <1>1, <1>2, <1>4, AssembledHas
<1>6. IsFrame(s.o) /\ (s.o.class \in Bodied => PutIs(s.o))
  BY <1>2, <1>4, AssembleIs, AssembledPutIs
<1>7. Kept(s.b, b, b.end)
  BY <1>1, <1>2, <1>4, AssembledBehind
<1> HIDE DEF s
<1>8. Whole(TakeFcs(x.b, fcs), s.o, b.end)
  <2>1. IsObject(s.o)
    BY <1>6 DEF IsFrame
  <2>2. Whole(TakeFcs(Pop(w, 0), fcs), s.o, b.end)
    BY <1>3, <1>5, <2>1, ArrivesWhole
  <2> QED
    BY <1>2, <2>2
<1>9. /\ IsBuffer(s.b) /\ s.b.end \in Nat
      /\ TakeFcs(Pop(w, 0), fcs).end = s.b.end - 0
  BY <1>3, <1>5, Arriving DEF Laid
<1>10. b.end <= s.b.end
  <2>1. IsObject(s.o) /\ s.o.class # "Frame" /\ Readable(s.o)
    BY <1>2, <1>6 DEF IsFrame
  <2>2. b.end + HeadLength(s.o) <= TakeFcs(x.b, fcs).end
    BY <1>8, <2>1, FrameReady
  <2>3. HeadLength(s.o) \in Nat
    BY DEF HeadLength
  <2> QED
    BY <1>1, <1>2, <1>9, <2>2, <2>3
<1>11. IsBuffer(w) /\ w.end \in Nat /\ b.end <= w.end /\ Kept(w, b, b.end)
  <2>1. CASE fcs
    <3> DEFINE v == Write(s.b, s.b.end, 4, "fcs", 0)
    <3>1. IsBuffer(v) /\ v.end = s.b.end + 4
      BY <1>9, Written
    <3>2. Kept(v, s.b, s.b.end)
      BY <1>9, WriteKept
    <3>3. Kept(v, b, b.end)
      <4> HIDE DEF v
      <4> QED
        BY <1>1, <1>7, <1>9, <1>10, <3>2, KeptOn
    <3>4. w = v
      BY <2>1
    <3> HIDE DEF v, w
    <3> QED
      BY <1>1, <1>9, <1>10, <3>1, <3>3, <3>4
  <2>2. CASE ~fcs
    <3>1. w = s.b
      BY <2>2
    <3> HIDE DEF w
    <3> QED
      BY <1>7, <1>9, <1>10, <3>1
  <2> QED
    BY <2>1, <2>2
<1> HIDE DEF w
<1>12. x.b.end \in Int /\ b.end <= x.b.end /\ Kept(x.b, b, b.end)
  <2> DEFINE v == Pop(w, 0)
  <2>1. v.end = w.end - 0
    BY DEF Pop
  <2>2. Kept(w, w, w.end)
    BY DEF Kept
  <2>3. Kept(v, w, w.end - 0)
    BY <1>11, <2>2, PopKept
  <2>4. x.b = v
    BY <1>2
  <2> HIDE DEF v
  <2>5. Kept(v, b, b.end)
    <3>1. w.end - 0 \in Int /\ b.end \in Int /\ b.end <= w.end - 0
      BY <1>1, <1>11
    <3> QED
      BY <1>11, <2>3, <3>1, KeptOn
  <2> QED
    BY <1>11, <2>1, <2>4, <2>5
<1> QED
  BY <1>2, <1>6, <1>8, <1>12 DEF Landed, b, fcs
-----------------------------------------------------------------------------
\* What the application gets of what landed.
LEMMA LandedDelivered ==
  ASSUME NEW x, NEW a \in Arrivals, Landed(x, a), Readable(x.from)
  PROVE  LET r == DisassembleRadioTap(x.b)
             f == Notification(x.b) IN
         \/ f.sub = "PKT_ERR" /\ BadFcsFlag(r.h)
         \/ f.sub \in {"PKT_RCVD", "PKT_SENT"} /\ FrameIs(f.frame, x.from)
<1> DEFINE c == TapFor[a]
           h == a.header
           r == DisassembleRadioTap(x.b)
           fcs == FcsFlag(r.h)
           p == Peek(x.b, r.at, fcs)
           d == Disassemble(New(ClassFor(p.o.fc)), x.b, r.at, fcs)
           f == Notification(x.b)
<1>1. c = AssembleRadioTap(RadioTapOf(h)) /\ HasFcs[a] = FcsFlag(RadioTapOf(h)) /\ IsTap(h)
  BY AirAssumption DEF TapFor, HasFcs
<1>2. /\ x.base = c.end /\ x.fcs = HasFcs[a] /\ IsFrame(x.from)
      /\ (x.from.class \in Bodied => PutIs(x.from))
      /\ Whole(TakeFcs(x.b, x.fcs), x.from, x.base)
      /\ x.b.end \in Int /\ c.end <= x.b.end /\ Kept(x.b, c, c.end)
  BY DEF Landed
<1> HIDE DEF c, r, h
<1>3. r.ok = TRUE /\ r.at = c.end /\ r.h.fields = h
  BY <1>1, <1>2, TapRead DEF r
<1>4. RadioTapOf(h).fields = h
  BY <1>1, TapOfIs
<1>5. fcs = x.fcs
  BY <1>1, <1>2, <1>3, <1>4 DEF FcsFlag, GetField
<1>6. fcs \in BOOLEAN
  BY DEF FcsFlag
<1> HIDE DEF fcs
<1>7. Whole(TakeFcs(x.b, fcs), x.from, r.at)
  BY <1>2, <1>3, <1>5
<1>8. p.ok = TRUE /\ p.o.fc = x.from.fc
  <2>1. HeaderIs(Disassemble(New("Frame"), x.b, r.at, fcs), x.from)
    BY <1>2, <1>6, <1>7, HeaderRead
  <2>2. p = Disassemble(New("Frame"), x.b, r.at, fcs)
    BY DEF Peek
  <2> HIDE DEF p
  <2> QED
    BY <2>1, <2>2 DEF HeaderIs
<1> HIDE DEF p
<1>9. d.ok = TRUE /\ FrameIs(d.o, x.from)
  <2>1. d = Disassemble(New(ClassFor(x.from.fc)), x.b, r.at, fcs)
    BY <1>8
  <2> HIDE DEF d
  <2> QED
    BY <1>2, <1>6, <1>7, <2>1, FrameDelivered
<1>10. f = Tapped(r, x.b)
  BY DEF Notification, r
<1>11. CASE BadFcsFlag(r.h)
  <2>1. f = PktErr
    BY <1>10, <1>11 DEF Tapped
  <2>2. PktErr.sub = "PKT_ERR"
    BY DEF PktErr, NoNote
  <2> QED
    BY <1>11, <2>1, <2>2 DEF r
<1>12. CASE ~BadFcsFlag(r.h)
  <2>1. f = Peeked(p, x.b, r)
    BY <1>3, <1>10, <1>12 DEF Tapped, p, fcs
  <2>2. f = Decoded(d, Subtype(r.h))
    <3> HIDE DEF f
    <3> QED
      BY <1>8, <2>1 DEF Peeked, fcs
  <2> HIDE DEF d, f
  <2>3. f = [sub |-> Subtype(r.h), frame |-> d.o]
    BY <1>9, <2>2 DEF Decoded
  <2>4. f.sub = Subtype(r.h) /\ f.frame = d.o
    BY <2>3
  <2>5. f.sub \in {"PKT_RCVD", "PKT_SENT"}
    BY <2>4 DEF Subtype
  <2> QED
    BY <1>9, <2>4, <2>5 DEF f
<1> QED
  BY <1>11, <1>12

\* What arrives whole by air.
LEMMA AirDelivers == AirIInv => Delivered
<1> SUFFICES ASSUME AirIInv, note # NoNote, air.lost = 0, Readable(air.from) PROVE Delivered
  BY DEF Delivered
<1>1. OnAir(air) /\ note = Notification(air.b)
  BY DEF AirIInv
<1>2. PICK a \in Arrivals : \E o : IsFrame(o) /\ SentAs(air, o, a)
  BY <1>1 DEF OnAir
<1>3. Landed(air, a)
  BY <1>2, LandedIs
<1>4. \/ note.sub = "PKT_ERR" /\ BadFcsFlag(DisassembleRadioTap(air.b).h)
      \/ note.sub \in {"PKT_RCVD", "PKT_SENT"} /\ FrameIs(note.frame, air.from)
  BY <1>1, <1>3, LandedDelivered
<1> QED
  BY <1>4 DEF Delivered, FrameIs

(***************************************************************************)
(* The wire.  Ethernet is an instance of its own of the buffer.            *)
(***************************************************************************)
LEMMA EtherBuffer ==
  /\ \A b, at, w, f, v : E!Write(b, at, w, f, v) = Write(b, at, w, f, v)
  /\ \A b, w : E!Pop(b, w) = Pop(b, w)
  /\ \A b, p, w, f : E!ReadAt(b, p, w, f) = ReadAt(b, p, w, f)
  /\ E!Empty = Empty /\ E!Garbled = Garbled
<1>1. \A b, at, w, f, v : E!Write(b, at, w, f, v) = Write(b, at, w, f, v)
  BY DEF E!Write, Write, E!Apart, Apart
<1>2. \A b, w : E!Pop(b, w) = Pop(b, w)
  BY DEF E!Pop, Pop, E!Restrict, Restrict
<1>3. \A b, p, w, f : E!ReadAt(b, p, w, f) = ReadAt(b, p, w, f)
  BY DEF E!ReadAt, ReadAt, E!Garbled, Garbled
<1>4. E!Empty = Empty /\ E!Garbled = Garbled
  BY DEF E!Empty, Empty, E!Garbled, Garbled
<1> QED
  BY <1>1, <1>2, <1>3, <1>4

\* A buffer with a frame of o, to octet e.
HasEther(b, o) ==
  /\ IsBuffer(b)
  /\ 6 <= b.end => Holds(b, 0, 6, "dst", o.dst)
  /\ 12 <= b.end => Holds(b, 6, 6, "src", o.src)
  /\ 14 <= b.end => Holds(b, 12, 2, "type", o.type)
  /\ 16 <= b.end => Holds(b, 14, 2, "payload", o.payload)
  /\ 14 \in DOMAIN b.at => Holds(b, 14, 2, "payload", o.payload)

LEMMA HeaderHas ==
  ASSUME NEW o
  PROVE  HasEther(E!Header(o), o) /\ E!Header(o).end = 16
         /\ Holds(E!Header(o), 14, 2, "payload", o.payload)
<1> DEFINE q == <<<<"dst", 6>>, <<"src", 6>>, <<"type", 2>>, <<"payload", E!PayloadLength>>>>
           do(c, i) == IF i \in DOMAIN q THEN E!Write(c, c.end, q[i][2], q[i][1], o[q[i][1]]) ELSE c
           b1 == Write(Empty, 0, 6, "dst", o.dst)
           b2 == Write(b1, 6, 6, "src", o.src)
           b3 == Write(b2, 12, 2, "type", o.type)
           b4 == Write(b3, 14, 2, "payload", o.payload)
<1>1. E!Header(o) = do(do(do(do(Empty, 1), 2), 3), 4)
  BY EtherBuffer DEF E!Header, E!WriteNext, E!InTurn
<1>2. /\ DOMAIN q = 1 .. 4 /\ q[1] = <<"dst", 6>> /\ q[2] = <<"src", 6>> /\ q[3] = <<"type", 2>>
      /\ q[4] = <<"payload", 2>>
  BY DEF E!PayloadLength
<1>3. 1 \in 1 .. 4 /\ 2 \in 1 .. 4 /\ 3 \in 1 .. 4 /\ 4 \in 1 .. 4
  OBVIOUS
<1>4. IsBuffer(Empty) /\ Empty.end = 0 /\ DOMAIN Empty.at = {}
  BY DEF IsBuffer, Empty
<1>a. 0 \in Nat /\ 6 \in Nat \ {0} /\ 2 \in Nat \ {0} /\ 4 \in Nat \ {0} /\ 6 \in Nat /\ 12 \in Nat /\ 14 \in Nat
  OBVIOUS
<1> HIDE DEF q
<1>5. /\ \A c : do(c, 1) = Write(c, c.end, 6, "dst", o.dst)
      /\ \A c : do(c, 2) = Write(c, c.end, 6, "src", o.src)
      /\ \A c : do(c, 3) = Write(c, c.end, 2, "type", o.type)
      /\ \A c : do(c, 4) = Write(c, c.end, 2, "payload", o.payload)
  BY <1>2, <1>3, EtherBuffer
<1> HIDE DEF do
<1>6. do(Empty, 1) = b1
  BY <1>4, <1>5
<1>7. /\ IsBuffer(b1) /\ b1.end = 6 /\ Holds(b1, 0, 6, "dst", o.dst)
      /\ \A p \in DOMAIN b1.at : p # 14
  BY <1>4, <1>a, Written
<1>8. do(b1, 2) = b2
  <2> HIDE DEF b1
  <2> QED
    BY <1>5, <1>7
<1> HIDE DEF b1
<1>9. /\ IsBuffer(b2) /\ b2.end = 12 /\ Holds(b2, 0, 6, "dst", o.dst) /\ Holds(b2, 6, 6, "src", o.src)
      /\ \A p \in DOMAIN b2.at : p # 14
  BY <1>7, <1>a, Written, WriteKeeps
<1>10. do(b2, 3) = b3
  <2> HIDE DEF b2
  <2> QED
    BY <1>5, <1>9
<1> HIDE DEF b2
<1>11. /\ IsBuffer(b3) /\ b3.end = 14 /\ Holds(b3, 0, 6, "dst", o.dst) /\ Holds(b3, 6, 6, "src", o.src)
       /\ Holds(b3, 12, 2, "type", o.type) /\ \A p \in DOMAIN b3.at : p # 14
  BY <1>9, <1>a, Written, WriteKeeps
<1>12. do(b3, 4) = b4
  <2> HIDE DEF b3
  <2> QED
    BY <1>5, <1>11
<1> HIDE DEF b3
<1>13. /\ IsBuffer(b4) /\ b4.end = 16 /\ Holds(b4, 0, 6, "dst", o.dst) /\ Holds(b4, 6, 6, "src", o.src)
       /\ Holds(b4, 12, 2, "type", o.type) /\ Holds(b4, 14, 2, "payload", o.payload)
  <2>1. IsBuffer(b4) /\ b4.end = 16 /\ Holds(b4, 14, 2, "payload", o.payload)
    <3>1. b4 = Write(b3, 14, 2, "payload", o.payload)
      OBVIOUS
    <3> HIDE DEF b4
    <3>2. IsBuffer(b4) /\ b4.end = b3.end + 2 /\ Holds(b4, 14, 2, "payload", o.payload)
      BY <1>11, <1>a, <3>1, Written
    <3> QED
      BY <1>11, <3>2
  <2>2. Holds(b4, 0, 6, "dst", o.dst)
    BY <1>11, <1>a, WriteKeeps
  <2>3. Holds(b4, 6, 6, "src", o.src)
    BY <1>11, <1>a, WriteKeeps
  <2>4. Holds(b4, 12, 2, "type", o.type)
    BY <1>11, <1>a, WriteKeeps
  <2> QED
    BY <2>1, <2>2, <2>3, <2>4
<1> HIDE DEF b4
<1>14. E!Header(o) = b4
  BY <1>1, <1>6, <1>8, <1>10, <1>12
<1> QED
  BY <1>13, <1>14 DEF HasEther

LEMMA ArrivedHas ==
  ASSUME NEW o, NEW d \in Deliveries
  PROVE  LET b == E!Arrived(E!Header(o), d) IN
         /\ HasEther(b, o) /\ b.end = (IF d.padded THEN 20 ELSE 16 - d.lost)
<1> DEFINE h == E!Header(o)
           b == E!Arrived(h, d)
<1>0. d.lost \in Nat /\ d.padded \in BOOLEAN
  BY WireAssumption
<1>1. HasEther(h, o) /\ h.end = 16 /\ Holds(h, 14, 2, "payload", o.payload) /\ IsBuffer(h)
  BY HeaderHas DEF HasEther
<1> HIDE DEF h
<1>2. Holds(h, 0, 6, "dst", o.dst) /\ Holds(h, 6, 6, "src", o.src) /\ Holds(h, 12, 2, "type", o.type)
  BY <1>1 DEF HasEther
<1>a. /\ 0 \in Nat /\ 6 \in Nat \ {0} /\ 2 \in Nat \ {0} /\ 4 \in Nat \ {0} /\ 6 \in Nat /\ 12 \in Nat /\ 14 \in Nat
      /\ 16 \in Nat /\ 2 \in Nat /\ 4 \in Nat
  OBVIOUS
<1>3. CASE d.padded
  <2>1. b = Write(h, 16, 4, "pad", 0)
    BY <1>1, <1>3, EtherBuffer DEF E!Arrived
  <2>2. IsBuffer(b) /\ b.end = 20
    BY <1>1, <1>a, <2>1, Written
  <2>3. Holds(b, 0, 6, "dst", o.dst)
    BY <1>2, <1>a, <2>1, WriteKeeps
  <2>4. Holds(b, 6, 6, "src", o.src)
    BY <1>2, <1>a, <2>1, WriteKeeps
  <2>5. Holds(b, 12, 2, "type", o.type)
    BY <1>2, <1>a, <2>1, WriteKeeps
  <2>6. Holds(b, 14, 2, "payload", o.payload)
    BY <1>1, <1>a, <2>1, WriteKeeps
  <2> HIDE DEF b
  <2>7. HasEther(b, o)
    BY <2>2, <2>3, <2>4, <2>5, <2>6 DEF HasEther
  <2> QED
    BY <1>3, <2>2, <2>7 DEF b, h
<1>4. CASE ~d.padded
  <2>1. b = Pop(h, d.lost)
    BY <1>4, EtherBuffer DEF E!Arrived
  <2> HIDE DEF b
  <2>2. /\ IsBuffer(b) /\ b.end = 16 - d.lost
        /\ \A p \in DOMAIN b.at : p \in DOMAIN h.at /\ b.at[p] = h.at[p]
    <3>1. /\ IsBuffer(Pop(h, d.lost)) /\ Pop(h, d.lost).end = h.end - d.lost
          /\ \A p \in DOMAIN Pop(h, d.lost).at : p \in DOMAIN h.at /\ Pop(h, d.lost).at[p] = h.at[p]
      BY <1>0, <1>1, Popped
    <3> QED
      BY <1>1, <2>1, <3>1, Zenon
  <2>3. h.end \in Int
    BY <1>1
  <2>4. 6 <= b.end => Holds(b, 0, 6, "dst", o.dst)
    BY <1>0, <1>1, <1>2, <1>a, <2>1, <2>2, <2>3, PopKeeps
  <2>5. 12 <= b.end => Holds(b, 6, 6, "src", o.src)
    BY <1>0, <1>1, <1>2, <1>a, <2>1, <2>2, <2>3, PopKeeps
  <2>6. 14 <= b.end => Holds(b, 12, 2, "type", o.type)
    BY <1>0, <1>1, <1>2, <1>a, <2>1, <2>2, <2>3, PopKeeps
  <2>7. 16 <= b.end => Holds(b, 14, 2, "payload", o.payload)
    BY <1>0, <1>1, <1>2, <1>a, <2>1, <2>2, <2>3, PopKeeps
  <2>8. 14 \in DOMAIN b.at => Holds(b, 14, 2, "payload", o.payload)
    BY <1>1, <2>2 DEF Holds
  <2>9. HasEther(b, o)
    BY <2>2, <2>4, <2>5, <2>6, <2>7, <2>8 DEF HasEther
  <2> QED
    BY <1>4, <2>2, <2>9 DEF b, h
<1> QED
  BY <1>0, <1>3, <1>4

Ethers == {"ETHER", "ETHER2", "LLC", "VLAN"}
Payloads == [v : Int, sap : BOOLEAN]

IsEther(o) ==
  /\ o = [class |-> o.class, subtype |-> o.subtype, dst |-> o.dst, src |-> o.src, type |-> o.type,
          payload |-> o.payload]
  /\ o.dst \in Int /\ o.src \in Int /\ o.type \in Int /\ o.payload \in Payloads

\* A reader.
IsEtherReader(r) ==
  r.ok \in BOOLEAN /\ r = [ok |-> r.ok, o |-> r.o, b |-> r.b, at |-> r.at] /\ IsEther(r.o)

LEMMA EtherTakes ==
  ASSUME NEW r, IsEtherReader(r), NEW w, NEW f \in {"dst", "src", "type"},
         NEW x \in Int, ReadAt(r.b, r.at, w, f) = x
  PROVE  LET t == E!Take(r, w, f) IN
         /\ IsEtherReader(t) /\ t.b = r.b /\ t.o.class = r.o.class /\ t.o.subtype = r.o.subtype
         /\ t.o.payload = r.o.payload
         /\ t.ok = (r.ok /\ r.at + w <= r.b.end)
         /\ t.ok => /\ t.at = r.at + w /\ t.o[f] = x
                    /\ \A g \in {"dst", "src", "type"} \ {f} : t.o[g] = r.o[g]
<1> DEFINE t == E!Take(r, w, f)
           o == [r.o EXCEPT ![f] = x]
           p == r.o
<1>1. CASE r.ok /\ r.at + w <= r.b.end
  <2>1. t = [ok |-> TRUE, o |-> o, b |-> r.b, at |-> r.at + w]
    BY <1>1, EtherBuffer, Zenon DEF E!Take, IsEtherReader
  <2>2. p = [class |-> p.class, subtype |-> p.subtype, dst |-> p.dst, src |-> p.src, type |-> p.type,
             payload |-> p.payload]
    BY DEF IsEtherReader, IsEther
  <2>3. CASE f = "dst"
    <3>1. o = [class |-> p.class, subtype |-> p.subtype, dst |-> x, src |-> p.src, type |-> p.type,
               payload |-> p.payload]
      BY <2>2, <2>3
    <3> HIDE DEF o
    <3>2. /\ o.class = p.class /\ o.subtype = p.subtype /\ o.payload = p.payload /\ o["dst"] = x
          /\ \A g \in {"dst", "src", "type"} \ {"dst"} : o[g] = p[g]
          /\ o = [class |-> o.class, subtype |-> o.subtype, dst |-> o.dst, src |-> o.src, type |-> o.type,
                  payload |-> o.payload]
      BY <3>1
    <3>3. IsEther(o)
      BY <3>1, <3>2 DEF IsEther, IsEtherReader
    <3> HIDE DEF t
    <3>4. IsEtherReader(t) /\ t.ok /\ t.o = o /\ t.b = r.b /\ t.at = r.at + w
      BY <2>1, <3>3 DEF IsEtherReader
    <3> QED
      BY <1>1, <2>3, <3>2, <3>4, Zenon DEF t
  <2>4. CASE f = "src"
    <3>1. o = [class |-> p.class, subtype |-> p.subtype, dst |-> p.dst, src |-> x, type |-> p.type,
               payload |-> p.payload]
      BY <2>2, <2>4
    <3> HIDE DEF o
    <3>2. /\ o.class = p.class /\ o.subtype = p.subtype /\ o.payload = p.payload /\ o["src"] = x
          /\ \A g \in {"dst", "src", "type"} \ {"src"} : o[g] = p[g]
          /\ o = [class |-> o.class, subtype |-> o.subtype, dst |-> o.dst, src |-> o.src, type |-> o.type,
                  payload |-> o.payload]
      BY <3>1
    <3>3. IsEther(o)
      BY <3>1, <3>2 DEF IsEther, IsEtherReader
    <3> HIDE DEF t
    <3>4. IsEtherReader(t) /\ t.ok /\ t.o = o /\ t.b = r.b /\ t.at = r.at + w
      BY <2>1, <3>3 DEF IsEtherReader
    <3> QED
      BY <1>1, <2>4, <3>2, <3>4, Zenon DEF t
  <2>5. CASE f = "type"
    <3>1. o = [class |-> p.class, subtype |-> p.subtype, dst |-> p.dst, src |-> p.src, type |-> x,
               payload |-> p.payload]
      BY <2>2, <2>5
    <3> HIDE DEF o
    <3>2. /\ o.class = p.class /\ o.subtype = p.subtype /\ o.payload = p.payload /\ o["type"] = x
          /\ \A g \in {"dst", "src", "type"} \ {"type"} : o[g] = p[g]
          /\ o = [class |-> o.class, subtype |-> o.subtype, dst |-> o.dst, src |-> o.src, type |-> o.type,
                  payload |-> o.payload]
      BY <3>1
    <3>3. IsEther(o)
      BY <3>1, <3>2 DEF IsEther, IsEtherReader
    <3> HIDE DEF t
    <3>4. IsEtherReader(t) /\ t.ok /\ t.o = o /\ t.b = r.b /\ t.at = r.at + w
      BY <2>1, <3>3 DEF IsEtherReader
    <3> QED
      BY <1>1, <2>5, <3>2, <3>4, Zenon DEF t
  <2> QED
    BY <2>3, <2>4, <2>5
<1>2. CASE ~(r.ok /\ r.at + w <= r.b.end)
  <2>1. t = [ok |-> FALSE, o |-> r.o, b |-> r.b, at |-> r.at]
    BY <1>2 DEF E!Take, IsEtherReader
  <2> HIDE DEF t
  <2>2. IsEtherReader(t) /\ t.ok = FALSE /\ t.o = r.o /\ t.b = r.b /\ t.at = r.at
    BY <2>1 DEF IsEtherReader
  <2> QED
    BY <1>2, <2>2, Zenon DEF t
<1> QED
  BY <1>1, <1>2

LEMMA EtherReadsInt ==
  ASSUME NEW b, NEW o, IsEther(o), HasEther(b, o), b.end \in Int
  PROVE  /\ 6 <= b.end => ReadAt(b, 0, 6, "dst") = o.dst
         /\ 12 <= b.end => ReadAt(b, 6, 6, "src") = o.src
         /\ 14 <= b.end => ReadAt(b, 12, 2, "type") = o.type /\ E!TypeAt(b) = o.type
<1>1. 6 <= b.end => ReadAt(b, 0, 6, "dst") = o.dst
  BY HoldsReads DEF HasEther
<1>2. 12 <= b.end => ReadAt(b, 6, 6, "src") = o.src
  BY HoldsReads DEF HasEther
<1>3. 14 <= b.end => ReadAt(b, 12, 2, "type") = o.type
  BY HoldsReads DEF HasEther
<1> QED
  BY <1>1, <1>2, <1>3, EtherBuffer DEF E!TypeAt

\* t is r, having taken field f of width w from a buffer that is long enough.
EtherTook(t, r, w, f, o) ==
  /\ IsEtherReader(t) /\ t.b = r.b /\ t.o.class = r.o.class /\ t.o.subtype = r.o.subtype
  /\ t.o.payload = r.o.payload
  /\ t.ok <=> r.ok /\ r.at + w <= r.b.end
  /\ t.ok => /\ t.at = r.at + w /\ t.o[f] = o[f]
             /\ \A g \in {"dst", "src", "type"} \ {f} : t.o[g] = r.o[g]

\* What is read if there is enough, as EtherTakes wants it.
LEMMA EtherTakeOwn ==
  ASSUME NEW r, IsEtherReader(r), NEW w, NEW f \in {"dst", "src", "type"}, NEW o, IsEther(o),
         r.ok /\ r.at + w <= r.b.end => ReadAt(r.b, r.at, w, f) = o[f]
  PROVE  EtherTook(E!Take(r, w, f), r, w, f, o)
<1>1. o[f] \in Int
  <2>1. o["dst"] \in Int /\ o["src"] \in Int /\ o["type"] \in Int
    BY DEF IsEther
  <2> QED
    BY <2>1
<1>2. CASE r.ok /\ r.at + w <= r.b.end
  <2> DEFINE x == o[f]
  <2>1. ReadAt(r.b, r.at, w, f) = x /\ x \in Int
    BY <1>1, <1>2
  <2> HIDE DEF x
  <2>2. LET t == E!Take(r, w, f) IN
         /\ IsEtherReader(t) /\ t.b = r.b /\ t.o.class = r.o.class /\ t.o.subtype = r.o.subtype
         /\ t.o.payload = r.o.payload
         /\ t.ok = (r.ok /\ r.at + w <= r.b.end)
         /\ t.ok => /\ t.at = r.at + w /\ t.o[f] = x
                    /\ \A g \in {"dst", "src", "type"} \ {f} : t.o[g] = r.o[g]
    BY <2>1, EtherTakes
  <2> QED
    BY <2>2, Zenon DEF EtherTook, x
<1>3. CASE ~(r.ok /\ r.at + w <= r.b.end)
  <2> DEFINE t == E!Take(r, w, f)
  <2>1. t = [ok |-> FALSE, o |-> r.o, b |-> r.b, at |-> r.at]
    BY <1>3 DEF E!Take, IsEtherReader
  <2> HIDE DEF t
  <2>2. IsEtherReader(t) /\ t.ok = FALSE /\ t.o = r.o /\ t.b = r.b /\ t.at = r.at
    BY <2>1 DEF IsEtherReader
  <2> QED
    BY <1>3, <2>2 DEF t, EtherTook
<1> QED
  BY <1>2, <1>3

\* The addresses, and the subtype the frame has.
EtherHeaded(t, p, b, o) ==
  /\ IsEtherReader(t) /\ t.b = b /\ t.o.class = p.class /\ t.o.payload = p.payload
  /\ t.ok <=> 14 <= b.end
  /\ t.ok => t.at = 12 /\ t.o.dst = o.dst /\ t.o.src = o.src /\ t.o.subtype = E!SubtypeOf(b)

LEMMA EtherFrame ==
  ASSUME NEW b, NEW o, IsEther(o), HasEther(b, o), b.end \in Int, NEW p, IsEther(p)
  PROVE  EtherHeaded(E!FrameDisassemble(E!Reading(p, b)), p, b, o)
<1> DEFINE r0 == E!Reading(p, b)
           r1 == E!Take(r0, 6, "dst")
           r2 == E!Take(r1, 6, "src")
           t == E!SetSubtype(r2)
<1>0. E!FrameDisassemble(r0) = t
  BY DEF E!FrameDisassemble
<1>1. IsEtherReader(r0) /\ r0.ok /\ r0.at = 0 /\ r0.b = b /\ r0.o = p
  BY DEF E!Reading, IsEtherReader
<1> HIDE DEF r0
<1>2. EtherTook(r1, r0, 6, "dst", o)
  <2>1. r0.at + 6 <= r0.b.end => ReadAt(r0.b, r0.at, 6, "dst") = o["dst"]
    BY <1>1, EtherReadsInt
  <2> QED
    BY <1>1, <2>1, EtherTakeOwn
<1> HIDE DEF r1
<1>3. EtherTook(r2, r1, 6, "src", o)
  <2>1. IsEtherReader(r1)
    BY <1>2 DEF EtherTook
  <2>2. r1.ok /\ r1.at + 6 <= r1.b.end => ReadAt(r1.b, r1.at, 6, "src") = o["src"]
    BY <1>1, <1>2, EtherReadsInt DEF EtherTook
  <2> QED
    BY <2>1, <2>2, EtherTakeOwn
<1> HIDE DEF r2
<1>4. /\ IsEtherReader(r2) /\ r2.b = b /\ r2.o.class = p.class /\ r2.o.payload = p.payload
      /\ r2.ok <=> 12 <= b.end
      /\ r2.ok => r2.at = 12 /\ r2.o.dst = o.dst /\ r2.o.src = o.src
  <2>1. /\ IsEtherReader(r1) /\ r1.b = b /\ r1.o.class = p.class /\ r1.o.payload = p.payload
        /\ r1.ok <=> 6 <= b.end
        /\ r1.ok => r1.at = 6 /\ r1.o["dst"] = o["dst"]
    BY <1>1, <1>2 DEF EtherTook
  <2>2. /\ IsEtherReader(r2) /\ r2.b = b /\ r2.o.class = p.class /\ r2.o.payload = p.payload
        /\ r2.ok <=> r1.ok /\ r1.at + 6 <= r1.b.end
        /\ r2.ok => /\ r2.at = r1.at + 6 /\ r2.o["src"] = o["src"] /\ r2.o["dst"] = r1.o["dst"]
    BY <1>3, <2>1 DEF EtherTook
  <2> QED
    BY <2>1, <2>2
<1>5. CASE 14 <= b.end
  <2> DEFINE s == E!SubtypeOf(b)
             u == [r2.o EXCEPT !.subtype = s]
  <2>0. r2.ok /\ r2.at + 2 <= r2.b.end /\ r2.b = b
    BY <1>4, <1>5
  <2>1. t = [ok |-> TRUE, o |-> u, b |-> b, at |-> 12]
    BY <1>4, <2>0, Zenon DEF E!SetSubtype, IsEtherReader
  <2> HIDE DEF s
  <2>2. u = [class |-> r2.o.class, subtype |-> s, dst |-> r2.o.dst, src |-> r2.o.src, type |-> r2.o.type,
             payload |-> r2.o.payload]
    BY <1>4 DEF IsEtherReader, IsEther
  <2> HIDE DEF u, t
  <2>3. IsEther(u) /\ u.class = r2.o.class /\ u.subtype = s /\ u.dst = r2.o.dst /\ u.src = r2.o.src
        /\ u.payload = r2.o.payload
    BY <1>4, <2>2 DEF IsEther, IsEtherReader
  <2>4. IsEtherReader(t) /\ t.ok /\ t.o = u /\ t.b = b /\ t.at = 12
    BY <2>1, <2>3 DEF IsEtherReader
  <2> QED
    BY <1>0, <1>4, <1>5, <2>0, <2>3, <2>4 DEF EtherHeaded, s, r0, t
<1>6. CASE ~(14 <= b.end)
  <2>1. ~(r2.ok /\ r2.at + 2 <= r2.b.end)
    BY <1>4, <1>6
  <2>2. t = [ok |-> FALSE, o |-> r2.o, b |-> b, at |-> r2.at]
    BY <1>4, <2>1, Zenon DEF E!SetSubtype, IsEtherReader
  <2> HIDE DEF t
  <2>3. IsEtherReader(t) /\ t.ok = FALSE /\ t.o = r2.o /\ t.b = b
    BY <1>4, <2>2 DEF IsEtherReader
  <2> QED
    BY <1>0, <1>4, <1>6, <2>3 DEF EtherHeaded, r0, t
<1> QED
  BY <1>5, <1>6

\* An object p that read a frame of o, that came as b, has become t.
EtherGot(t, p, b, o) ==
  /\ IsEther(t.o) /\ t.o.class = p.class
  /\ t.ok => /\ 14 <= b.end /\ p.class \notin E!Unfinished
             /\ t.o.subtype = p.class /\ p.class = E!SubtypeOf(b)
             /\ t.o.dst = o.dst /\ t.o.src = o.src /\ t.o.type = o.type
             /\ t.o.payload = E!Rest([b |-> b, at |-> 14])
  /\ 14 <= b.end /\ p.class \notin E!Unfinished /\ p.class = E!SubtypeOf(b)
       /\ (p.class = "ETHER2" => o.type \in E!PROTO_IPv4 .. E!PROTO_LAST) => t.ok

LEMMA RestIs ==
  ASSUME NEW r, r.at = 14, NEW b, r.b = b, NEW o, IsEther(o), HasEther(b, o)
  PROVE  /\ E!Rest(r) = E!Rest([b |-> b, at |-> 14])
         /\ E!Rest(r) \in {o.payload, E!Lost, E!NoPayload} /\ E!Rest(r) \in Payloads
         /\ b.end = 16 => E!Rest(r) = o.payload
<1> DEFINE q == [b |-> b, at |-> 14]
<1>1. q.b = b /\ q.at = 14
  OBVIOUS
<1> HIDE DEF q
<1>2. E!Rest(r) = E!Rest(q)
  BY <1>1 DEF E!Rest
<1>3. 14 \in DOMAIN b.at => b.at[14] = [f |-> "payload", w |-> 2, v |-> o.payload]
  BY DEF HasEther, Holds
<1>4. 14 \in DOMAIN b.at => b.at[14].w = 2 /\ b.at[14].v = o.payload
  BY <1>3
<1>5. E!Rest(r) \in {o.payload, E!Lost, E!NoPayload}
  BY <1>4 DEF E!Rest
<1>6. o.payload \in Payloads /\ E!Lost \in Payloads /\ E!NoPayload \in Payloads
  BY DEF IsEther, E!Lost, E!NoPayload, E!Garbled, Payloads
<1>7. b.end = 16 => 14 \in DOMAIN b.at
  BY DEF HasEther, Holds
<1>8. b.end = 16 => E!Rest(r) = o.payload
  BY <1>4, <1>7 DEF E!Rest
<1> QED
  BY <1>2, <1>5, <1>6, <1>8 DEF q

LEMMA EtherDisassembleGot ==
  ASSUME NEW b, NEW o, IsEther(o), HasEther(b, o), b.end \in Int, NEW p, IsEther(p)
  PROVE  EtherGot(E!Disassemble(p, b), p, b, o)
<1> DEFINE t == E!Disassemble(p, b)
           f == E!FrameDisassemble(E!Reading(p, b))
           r == E!OfClass(f)
<1>1. CASE p.class \in E!Unfinished
  <2>1. t = [ok |-> FALSE, o |-> p, b |-> b, at |-> 0]
    BY <1>1, Zenon DEF E!Disassemble, E!Reading
  <2> HIDE DEF t
  <2>2. t.ok = FALSE /\ t.o = p
    BY <2>1
  <2> QED
    BY <1>1, <2>2 DEF EtherGot, t
<1>2. CASE p.class \notin E!Unfinished
  <2>1. t = IF r.ok THEN E!TakePayload(E!TakeType(r)) ELSE r
    BY <1>2 DEF E!Disassemble
  <2>2. EtherHeaded(f, p, b, o)
    BY EtherFrame
  <2> HIDE DEF f, t
  <2>3. /\ IsEtherReader(f) /\ f.b = b /\ f.o.class = p.class /\ f.o.payload = p.payload
        /\ f.ok <=> 14 <= b.end
        /\ f.ok => f.at = 12 /\ f.o.dst = o.dst /\ f.o.src = o.src /\ f.o.subtype = E!SubtypeOf(b)
    BY <2>2 DEF EtherHeaded
  <2> DEFINE c == f.ok /\ E!OwnSubtype(f.o)
  <2>4. r = [ok |-> c, o |-> f.o, b |-> b, at |-> f.at]
    <3>1. IsEtherReader(f) /\ f.b = b
      BY <2>3
    <3> QED
      BY <3>1 DEF E!OfClass, IsEtherReader
  <2>5. c \in BOOLEAN /\ (c <=> f.ok /\ f.o.subtype = p.class)
    BY <2>3 DEF E!OwnSubtype, IsEtherReader
  <2> HIDE DEF c, r
  <2>6. IsEtherReader(r) /\ r.ok = c /\ r.o = f.o /\ r.b = b /\ r.at = f.at
    BY <2>3, <2>4, <2>5 DEF IsEtherReader
  <2>7. CASE ~c
    <3>1. t = r /\ ~t.ok /\ t.o = f.o
      BY <2>1, <2>6, <2>7
    <3>2. IsEther(f.o) /\ f.o.class = p.class
      BY <2>3 DEF IsEtherReader
    <3>3. ~(14 <= b.end /\ p.class = E!SubtypeOf(b))
      BY <2>3, <2>5, <2>7
    <3> QED
      BY <3>1, <3>2, <3>3 DEF EtherGot, t
  <2>8. CASE c
    <3> DEFINE u == E!TakeType(r)
    <3>0. 14 <= b.end /\ f.ok /\ f.at = 12 /\ f.o.subtype = p.class /\ p.class = E!SubtypeOf(b)
      BY <2>3, <2>5, <2>8
    <3>1. t = E!TakePayload(u)
      BY <2>1, <2>6, <2>8
    <3>2. E!TypeAt(b) = o.type /\ ReadAt(b, 12, 2, "type") = o.type
      BY <3>0, EtherReadsInt
    <3>3. CASE p.class = "ETHER2" /\ o.type \notin E!PROTO_IPv4 .. E!PROTO_LAST
      <4>1. u = [ok |-> FALSE, o |-> f.o, b |-> b, at |-> f.at]
        BY <2>3, <2>6, <3>2, <3>3, Zenon DEF E!TakeType, IsEtherReader
      <4> HIDE DEF u
      <4>2. t = u
        BY <3>1, <4>1 DEF E!TakePayload
      <4>3. t.ok = FALSE /\ t.o = f.o
        BY <4>1, <4>2
      <4>4. IsEther(f.o) /\ f.o.class = p.class
        BY <2>3 DEF IsEtherReader
      <4> QED
        BY <3>3, <4>3, <4>4 DEF EtherGot, t
    <3>4. CASE ~(p.class = "ETHER2" /\ o.type \notin E!PROTO_IPv4 .. E!PROTO_LAST)
      <4>1. u = E!Take(r, 2, "type")
        BY <2>3, <2>6, <3>2, <3>4 DEF E!TakeType
      <4>2. EtherTook(u, r, 2, "type", o)
        <5>1. r.at + 2 <= r.b.end => ReadAt(r.b, r.at, 2, "type") = o["type"]
          BY <2>6, <3>0, <3>2
        <5> HIDE DEF u
        <5> QED
          BY <2>6, <4>1, <5>1, EtherTakeOwn
      <4> HIDE DEF u
      <4>3. /\ IsEtherReader(u) /\ u.b = b /\ u.ok /\ u.at = 14 /\ u.o.class = p.class /\ u.o.subtype = p.class
            /\ u.o.type = o.type /\ u.o.dst = o.dst /\ u.o.src = o.src
        <5>1. u.o["type"] = o["type"] /\ u.o["dst"] = r.o["dst"] /\ u.o["src"] = r.o["src"] /\ u.ok /\ u.at = 14
          BY <2>6, <2>8, <3>0, <4>2 DEF EtherTook
        <5> QED
          BY <2>3, <2>6, <3>0, <4>2, <5>1 DEF EtherTook
      <4> DEFINE x == E!Rest(u)
                 y == [u.o EXCEPT !.payload = x]
      <4>4. x = E!Rest([b |-> b, at |-> 14]) /\ x \in Payloads
        BY <4>3, RestIs
      <4>5. t = [ok |-> TRUE, o |-> y, b |-> b, at |-> b.end]
        <5>1. IsEtherReader(u) /\ u.b = b /\ u.ok
          BY <4>3
        <5> QED
          BY <3>1, <5>1, Zenon DEF E!TakePayload, IsEtherReader
      <4> HIDE DEF x
      <4>6. y = [class |-> u.o.class, subtype |-> u.o.subtype, dst |-> u.o.dst, src |-> u.o.src,
                 type |-> u.o.type, payload |-> x]
        BY <4>3 DEF IsEtherReader, IsEther
      <4> HIDE DEF y
      <4>7. t.ok /\ t.o = y
        BY <4>5
      <4>8. /\ y.class = p.class /\ y.subtype = p.class /\ y.dst = o.dst /\ y.src = o.src /\ y.type = o.type
            /\ y.payload = x /\ IsEther(y)
        BY <4>3, <4>4, <4>6 DEF IsEther, IsEtherReader
      <4> QED
        BY <1>2, <3>0, <4>4, <4>7, <4>8 DEF EtherGot, t
    <3> QED
      BY <3>3, <3>4
  <2> QED
    BY <2>5, <2>7, <2>8
<1> QED
  BY <1>1, <1>2

IsEtherFrame(o) == IsEther(o) /\ o.class \in Ethers

\* What came of sending o.
WiredAs(x, o, d) ==
  /\ IsEtherFrame(o) /\ E!CanAssemble(o)
  /\ x = [b |-> E!Arrived(E!Header(o), d), from |-> o, lost |-> d.lost, padded |-> d.padded]

OnWire(x) == \E d \in Deliveries : \E o : WiredAs(x, o, d)

WireIInv ==
  /\ n \in Nat
  /\ IsEtherFrame(etx) /\ IsEtherFrame(erx)
  /\ wire # E!Silence => OnWire(wire)
  /\ enote # E!NoNote => wire # E!Silence /\ enote = E!Notification(wire.b)
  /\ E!TakenIsOwn

LEMMA NewEther ==
  ASSUME NEW c
  PROVE  IsEther(E!New(c)) /\ E!New(c).class = c /\ E!New(c).subtype = c
<1> DEFINE q == E!NoPayload
           o == E!New(c)
<1>1. o = [class |-> c, subtype |-> c, dst |-> 0, src |-> 0, type |-> 0, payload |-> q]
  BY DEF E!New
<1>2. q \in Payloads
  BY DEF E!NoPayload, Payloads
<1> HIDE DEF q, o
<1> QED
  BY <1>1, <1>2 DEF IsEther, o

LEMMA OnWireHas ==
  ASSUME NEW x, OnWire(x)
  PROVE  /\ HasEther(x.b, x.from) /\ x.b.end \in Int /\ IsEtherFrame(x.from) /\ E!CanAssemble(x.from)
         /\ x.lost = 0 => 16 <= x.b.end
         /\ x.lost = 0 /\ ~x.padded => x.b.end = 16
<1>0. PICK d \in Deliveries : \E o : WiredAs(x, o, d)
  BY DEF OnWire
<1>1. PICK o : WiredAs(x, o, d)
  BY <1>0
<1> DEFINE b == E!Arrived(E!Header(o), d)
<1>2. HasEther(b, o) /\ b.end = (IF d.padded THEN 20 ELSE 16 - d.lost)
  BY ArrivedHas
<1>3. d.lost \in Nat /\ d.padded \in BOOLEAN
  BY WireAssumption
<1>4. x.b = b /\ x.from = o /\ x.lost = d.lost /\ x.padded = d.padded /\ IsEtherFrame(o) /\ E!CanAssemble(o)
  BY <1>1 DEF WiredAs
<1> HIDE DEF b
<1>5. b.end \in Int
  BY <1>2 DEF HasEther, IsBuffer
<1> QED
  BY <1>2, <1>3, <1>4, <1>5

\* The type of a frame that tells its class does so.
LEMMA Tells ==
  ASSUME NEW b, NEW o, IsEtherFrame(o), E!CanAssemble(o), HasEther(b, o), b.end \in Int, 14 <= b.end, E!Telling(o)
  PROVE  E!SubtypeOf(b) = o.class /\ o.class \notin E!Unfinished
         /\ (o.class = "ETHER2" => o.type \in E!PROTO_IPv4 .. E!PROTO_LAST)
<1>1. E!TypeAt(b) = o.type
  BY EtherReadsInt DEF IsEtherFrame
<1>2. o.class = "ETHER" \/ o.class = "ETHER2"
  BY DEF IsEtherFrame, Ethers, E!CanAssemble, E!Unfinished
<1>3. o.class \notin E!Unfinished
  BY DEF E!CanAssemble
<1>4. CASE o.class = "ETHER"
  <2>1. o.type < 1500 /\ ~o.payload.sap
    BY <1>4 DEF E!Telling
  <2>2. ~E!BeginsAsLlc(b)
    <3>1. 14 \in DOMAIN b.at => b.at[14].v = o.payload
      BY DEF HasEther, Holds
    <3> QED
      BY <2>1, <3>1 DEF E!BeginsAsLlc
  <2> QED
    BY <1>1, <1>3, <1>4, <2>1, <2>2 DEF E!SubtypeOf
<1>5. CASE o.class = "ETHER2"
  <2>1. o.type \in E!PROTO_IPv4 .. E!PROTO_LAST /\ o.type # E!PROTO_VLAN
    BY <1>5 DEF E!Telling
  <2>2. ~(o.type < 1500)
    <3> DEFINE low == E!PROTO_IPv4
               high == E!PROTO_LAST
    <3>1. low \in Int /\ high \in Int /\ 1500 <= low
      BY DEF E!PROTO_IPv4, E!PROTO_LAST
    <3> HIDE DEF low, high
    <3>2. \A y \in low .. high : ~(y < 1500)
      BY <3>1
    <3> QED
      BY <2>1, <3>2 DEF low, high
  <2> QED
    BY <1>1, <1>3, <1>5, <2>1, <2>2 DEF E!SubtypeOf
<1> QED
  BY <1>2, <1>4, <1>5

LEMMA WireTaken ==
  ASSUME NEW p, IsEtherFrame(p), NEW x, OnWire(x)
  PROVE  LET t == E!Disassemble(p, x.b) IN
         /\ IsEtherFrame(t.o)
         /\ t.ok =>
              /\ t.o.subtype = t.o.class
              /\ E!Telling(x.from) => t.o.class = x.from.class
              /\ <<t.o.dst, t.o.src, t.o.type>> = <<x.from.dst, x.from.src, x.from.type>>
              /\ t.o.payload \in {x.from.payload, E!Lost, E!NoPayload}
              /\ x.lost = 0 /\ ~x.padded => t.o.payload = x.from.payload
<1> DEFINE t == E!Disassemble(p, x.b)
           b == x.b
           o == x.from
           r == [b |-> b, at |-> 14]
<1>1. /\ HasEther(b, o) /\ b.end \in Int /\ IsEtherFrame(o) /\ E!CanAssemble(o)
      /\ x.lost = 0 /\ ~x.padded => b.end = 16
  BY OnWireHas
<1>2. EtherGot(t, p, b, o)
  BY <1>1, EtherDisassembleGot DEF IsEtherFrame
<1>3. E!Rest(r) \in {o.payload, E!Lost, E!NoPayload} /\ (b.end = 16 => E!Rest(r) = o.payload)
  <2>1. r.b = b /\ r.at = 14
    OBVIOUS
  <2> HIDE DEF r, b, o
  <2> QED
    BY <1>1, <2>1, RestIs, Zenon DEF IsEtherFrame
<1> HIDE DEF t, b, o
<1>4. /\ IsEtherFrame(t.o)
      /\ t.ok => /\ 14 <= b.end /\ t.o.subtype = t.o.class /\ t.o.class = E!SubtypeOf(b)
                 /\ t.o.dst = o.dst /\ t.o.src = o.src /\ t.o.type = o.type /\ t.o.payload = E!Rest(r)
  BY <1>2 DEF EtherGot, IsEtherFrame
<1>5. t.ok /\ E!Telling(o) => t.o.class = o.class
  BY <1>1, <1>4, Tells
<1> HIDE DEF r
<1> QED
  BY <1>1, <1>3, <1>4, <1>5 DEF t, b, o

LEMMA InitWire == E!Init => WireIInv
<1> SUFFICES ASSUME E!Init PROVE WireIInv
  OBVIOUS
<1>1. PICK p \in EtherPairs : etx = E!New(p[1]) /\ erx = E!New(p[2])
  BY DEF E!Init
<1>2. p[1] \in Ethers /\ p[2] \in Ethers
  BY WireAssumption DEF Ethers
<1>3. IsEtherFrame(etx) /\ IsEtherFrame(erx)
  BY <1>1, <1>2, NewEther DEF IsEtherFrame
<1> QED
  BY <1>3 DEF E!Init, WireIInv, E!TakenIsOwn

LEMMA ComposeWire ==
  ASSUME WireIInv, NEW type \in Lengths \cup Protos, NEW sap \in BOOLEAN, E!Compose(type, sap)
  PROVE  WireIInv'
<1> DEFINE v == n + 1
           q == [v |-> v, sap |-> sap]
<1>0. n \in Nat /\ IsEtherFrame(etx) /\ IsEtherFrame(erx)
  BY DEF WireIInv
<1>1. v \in Nat /\ n' = v /\ type \in Nat
  BY <1>0, WireAssumption DEF E!Compose
<1>2. q \in Payloads
  BY <1>1 DEF Payloads
<1>3. etx' = [class |-> etx.class, subtype |-> etx.subtype, dst |-> v, src |-> v, type |-> type, payload |-> q]
  BY <1>0, Zenon DEF E!Compose, IsEtherFrame, IsEther
<1> HIDE DEF v, q
<1>4. IsEtherFrame(etx')
  BY <1>0, <1>1, <1>2, <1>3 DEF IsEtherFrame, IsEther
<1>5. erx' = erx /\ wire' = E!Silence /\ enote' = E!NoNote /\ took' = "none"
  BY DEF E!Compose
<1> QED
  BY <1>0, <1>1, <1>4, <1>5 DEF WireIInv, E!TakenIsOwn

LEMMA SendWire ==
  ASSUME WireIInv, NEW d \in Deliveries, NEW o, IsEtherFrame(o), E!Send(o, d), took' # "ok"
  PROVE  WireIInv'
<1>1. OnWire(wire')
  BY DEF E!Send, OnWire, WiredAs
<1> QED
  BY <1>1 DEF E!Send, WireIInv, E!TakenIsOwn

LEMMA RecvWire == ASSUME WireIInv, E!Recv PROVE WireIInv'
<1>1. took # "ok"
  BY DEF E!Recv
<1> QED
  BY <1>1 DEF E!Recv, WireIInv, E!TakenIsOwn

LEMMA TakeFrameWire == ASSUME WireIInv, E!TakeFrame PROVE WireIInv'
<1> DEFINE t == E!Disassemble(erx, wire.b)
<1>1. /\ wire # E!Silence /\ erx' = t.o /\ took' = (IF t.ok THEN "ok" ELSE "failed")
      /\ etx' = etx /\ wire' = wire /\ enote' = enote /\ n' = n
  BY DEF E!TakeFrame
<1>2. /\ IsEtherFrame(t.o)
      /\ t.ok =>
           /\ t.o.subtype = t.o.class
           /\ E!Telling(wire.from) => t.o.class = wire.from.class
           /\ <<t.o.dst, t.o.src, t.o.type>> = <<wire.from.dst, wire.from.src, wire.from.type>>
           /\ t.o.payload \in {wire.from.payload, E!Lost, E!NoPayload}
           /\ wire.lost = 0 /\ ~wire.padded => t.o.payload = wire.from.payload
  BY <1>1, WireTaken DEF WireIInv
<1> HIDE DEF t
<1>3. E!TakenIsOwn'
  BY <1>1, <1>2 DEF E!TakenIsOwn
<1> QED
  BY <1>1, <1>2, <1>3 DEF WireIInv

LEMMA NextWire == ASSUME WireIInv, E!Next \/ UNCHANGED <<wireVars, took, n>> PROVE WireIInv'
<1>1. CASE \E type \in Lengths \cup Protos, sap \in BOOLEAN : E!Compose(type, sap)
  BY <1>1, ComposeWire
<1>2. CASE \E d \in Deliveries : E!SendTx(d) \/ E!Forward(d)
  <2>1. PICK d \in Deliveries : E!SendTx(d) \/ E!Forward(d)
    BY <1>2
  <2>2. IsEtherFrame(etx) /\ IsEtherFrame(erx)
    BY DEF WireIInv
  <2> QED
    BY <2>1, <2>2, SendWire DEF E!SendTx, E!Forward
<1>3. CASE E!Recv
  BY <1>3, RecvWire
<1>4. CASE E!TakeFrame
  BY <1>4, TakeFrameWire
<1>5. CASE UNCHANGED <<wireVars, took, n>>
  BY <1>5 DEF wireVars, WireIInv, E!TakenIsOwn
<1> QED
  BY <1>1, <1>2, <1>3, <1>4, <1>5 DEF E!Next

\* What arrives whole by wire.
LEMMA WireDelivers == WireIInv => E!Delivered
<1> SUFFICES ASSUME WireIInv, enote # E!NoNote, wire.lost = 0, E!Telling(wire.from)
             PROVE  LET o == wire.from f == enote.frame IN
                    /\ enote.sub = "PKT_RCVD"
                    /\ <<f.class, f.subtype, f.dst, f.src, f.type>> = <<o.class, o.class, o.dst, o.src, o.type>>
                    /\ wire.padded \/ f.payload = o.payload
  BY DEF E!Delivered
<1> DEFINE b == wire.b
           o == wire.from
           z == E!New("NONE")
           k == E!Peek(b)
           t == E!Disassemble(E!New(k.o.subtype), b)
           r == [b |-> b, at |-> 14]
<1>1. OnWire(wire) /\ enote = E!Notification(b)
  BY DEF WireIInv
<1>2. /\ HasEther(b, o) /\ b.end \in Int /\ IsEtherFrame(o) /\ E!CanAssemble(o) /\ 16 <= b.end
      /\ ~wire.padded => b.end = 16
  BY <1>1, OnWireHas
<1> HIDE DEF b, o
<1>3. 14 <= b.end
  BY <1>2
<1>4. E!SubtypeOf(b) = o.class /\ o.class \notin E!Unfinished
      /\ (o.class = "ETHER2" => o.type \in E!PROTO_IPv4 .. E!PROTO_LAST)
  BY <1>2, <1>3, Tells DEF o
<1>5. k.ok /\ k.o.subtype = o.class
  <2>1. IsEther(z)
    BY NewEther
  <2>2. EtherHeaded(k, z, b, o)
    BY <1>2, <2>1, EtherFrame DEF E!Peek, IsEtherFrame
  <2> QED
    BY <1>3, <1>4, <2>2 DEF EtherHeaded
<1> DEFINE p == E!New(o.class)
<1>6. IsEther(p) /\ p.class = o.class
  BY NewEther
<1>7. t = E!Disassemble(p, b)
  BY <1>5
<1>8. enote = [sub |-> IF t.ok THEN "PKT_RCVD" ELSE "PKT_ERR", frame |-> t.o]
  BY <1>1, <1>5 DEF E!Notification
<1> HIDE DEF t, p, k
<1>9. EtherGot(t, p, b, o)
  BY <1>2, <1>6, <1>7, EtherDisassembleGot DEF IsEtherFrame
<1>10. t.ok
  BY <1>3, <1>4, <1>6, <1>9 DEF EtherGot
<1>11. /\ t.o.class = o.class /\ t.o.subtype = o.class /\ t.o.dst = o.dst /\ t.o.src = o.src /\ t.o.type = o.type
       /\ t.o.payload = E!Rest(r)
  BY <1>6, <1>9, <1>10 DEF EtherGot
<1>12. b.end = 16 => E!Rest(r) = o.payload
  <2>1. r.b = b /\ r.at = 14
    OBVIOUS
  <2> HIDE DEF r
  <2> QED
    BY <1>2, <2>1, RestIs, Zenon DEF IsEtherFrame
<1>13. enote.sub = "PKT_RCVD" /\ enote.frame = t.o
  BY <1>8, <1>10
<1> HIDE DEF r
<1>14. wire.padded \/ t.o.payload = o.payload
  BY <1>2, <1>11, <1>12
<1> QED
  BY <1>11, <1>13, <1>14 DEF o

(***************************************************************************)
(* Air and wire together.                                                  *)
(***************************************************************************)
NetIInv ==
  /\ about \in {"air", "wire", "parts"}
  /\ IF about = "air" THEN AirIInv ELSE NoAir
  /\ IF about = "wire" THEN WireIInv ELSE NoWire

LEMMA InitNet == NetInit => NetIInv
BY InitAir, InitWire DEF NetInit, NetIInv

LEMMA NextNet == NetIInv /\ [NetNext]_<<airVars, about, wireVars, partVars>> => NetIInv'
<1> SUFFICES ASSUME NetIInv, [NetNext]_<<airVars, about, wireVars, partVars>> PROVE NetIInv'
  OBVIOUS
<1>1. CASE about = "air"
  <2>1. /\ AirNext \/ UNCHANGED airVars
        /\ UNCHANGED about /\ UNCHANGED wireVars
    BY <1>1 DEF NetNext
  <2>2. AirIInv'
    BY <1>1, <2>1, NextAir DEF NetIInv
  <2> QED
    BY <1>1, <2>1, <2>2 DEF NetIInv, NoWire, wireVars
<1>2. CASE about = "wire"
  <2>1. /\ E!Next \/ UNCHANGED <<wireVars, took, n>>
        /\ UNCHANGED about /\ UNCHANGED <<tx, rx, air, note>>
    BY <1>2 DEF NetNext, airVars
  <2>2. WireIInv'
    BY <1>2, <2>1, NextWire DEF NetIInv
  <2> QED
    BY <1>2, <2>1, <2>2 DEF NetIInv, NoAir
<1>3. CASE about = "parts"
  <2>1. UNCHANGED about /\ UNCHANGED airVars /\ UNCHANGED wireVars
    BY <1>3 DEF NetNext
  <2> QED
    BY <1>3, <2>1 DEF NetIInv, NoAir, NoWire, airVars, wireVars
<1> QED
  BY <1>1, <1>2, <1>3 DEF NetIInv

\* Every step in the air, on the wire or of the parts keeps the invariant.
LEMMA NetInvariance == NetSpec => []NetIInv
BY InitNet, NextNet, PTL DEF NetSpec

(***************************************************************************)
(* A frame object that Socket::Send has assembled, and so put its members  *)
(* into its own list of tags, gives the same frame when it is sent again.  *)
(***************************************************************************)
THEOREM SameIsSent == NetSpec => []SentAgain
<1>1. NetIInv => SentAgain
  <2> SUFFICES ASSUME NetIInv PROVE IsObject(tx) /\ IsObject(rx)
    BY SendsAgain DEF SentAgain
  <2> QED
    BY NewFrameIs DEF NetIInv, AirIInv, IsFrame, NoAir
<1> QED
  BY <1>1, NetInvariance, PTL

(***************************************************************************)
(* When Disassemble accepts a frame, or what is left of it, the object has *)
(* that frame's class and that frame's fields, although it may have been   *)
(* used for others before.                                                 *)
(***************************************************************************)
THEOREM WhatIsReadIsOwn == NetSpec => []ReadIsOwn
<1>1. NoAir => TakenIsOwn
  <2> SUFFICES ASSUME NoAir PROVE TakenIsOwn
    OBVIOUS
  <2>1. rx = New("Frame") /\ air.from = New("Frame")
    BY DEF NoAir, Silence
  <2>2. "Frame" \notin Management
    BY ClassesAre
  <2>3. DOMAIN In("Frame").needs = {}
    BY DEF In, Nothing
  <2> QED
    BY <2>1, <2>2, <2>3, NewFrameIs DEF TakenIsOwn
<1>2. NoWire => E!TakenIsOwn
  <2> SUFFICES ASSUME NoWire PROVE E!TakenIsOwn
    OBVIOUS
  <2>1. erx = E!New("NONE") /\ wire.from = E!New("NONE")
    BY DEF NoWire, E!Silence
  <2>2. erx.subtype = "NONE" /\ erx.class = "NONE"
    BY <2>1, NewEther
  <2> QED
    BY <2>1, <2>2 DEF E!TakenIsOwn
<1>3. NetIInv => ReadIsOwn
  BY <1>1, <1>2 DEF NetIInv, AirIInv, WireIInv, ReadIsOwn
<1> QED
  BY <1>3, NetInvariance, PTL

(***************************************************************************)
(* What Socket::Send assembles and arrives with nothing lost is notified   *)
(* as a received frame of the sender's class with the sender's contents.   *)
(***************************************************************************)
THEOREM WholeArrives == NetSpec => []ArrivesAsSent
<1>1. NetIInv => ArrivesAsSent
  <2> SUFFICES ASSUME NetIInv PROVE ArrivesAsSent
    OBVIOUS
  <2>1. Delivered
    BY AirDelivers DEF NetIInv, NoAir, Delivered
  <2>2. E!Delivered
    BY WireDelivers DEF NetIInv, NoWire, E!Delivered
  <2> QED
    BY <2>1, <2>2 DEF ArrivesAsSent
<1> QED
  BY <1>1, NetInvariance, PTL
=============================================================================
