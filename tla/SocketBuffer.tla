----------------------------- MODULE SocketBuffer -----------------------------
(***************************************************************************)
(* zSocket::Buffer, as far as the makers and readers of frames use it.     *)
(* A buffer holds the fields that can still be read from it whole, by      *)
(* their places in octets: for each its name, its width and its value.     *)
(* Writing over a part of a field destroys it.  end is the tail: the       *)
(* octets that Put has taken and Pull has passed.                          *)
(*                                                                         *)
(* A writer writes to the place its struct gives the field, which need not *)
(* be where the data pointer is; Put and Pull move by the field's width.   *)
(* A page is longer than any frame here, so that Put does not fail.        *)
(***************************************************************************)
EXTENDS Integers, FiniteSets, Sequences, SequencesExt

Garbled == -1     \* what a field reads as that is not there whole

Empty == [end |-> 0, at |-> <<>>]

Apart(p, x, at, w) == p + x.w <= at \/ at + w <= p

(***************************************************************************)
(* Put(w), store at at, Pull(w).                                           *)
(***************************************************************************)
Write(b, at, w, f, v) ==
  [end |-> b.end + w,
   at  |-> [p \in {q \in DOMAIN b.at : Apart(q, b.at[q], at, w)} \cup {at} |->
              IF p = at THEN [f |-> f, w |-> w, v |-> v] ELSE b.at[p]]]

(***************************************************************************)
(* Store at at what was Put before.                                        *)
(***************************************************************************)
Overwrite(b, at, w, f, v) == [Write(b, at, w, f, v) EXCEPT !.end = b.end]

(***************************************************************************)
(* The statements of a method, one for each of a list, of four at most.    *)
(***************************************************************************)
InTurn(op(_, _), first, q) ==
  LET do(c, i) == IF i \in DOMAIN q THEN op(c, q[i]) ELSE c IN do(do(do(do(first, 1), 2), 3), 4)

(***************************************************************************)
(* Fields that follow each other from the data pointer, from a record of   *)
(* values.                                                                 *)
(***************************************************************************)
WriteNext(b, fields, val) ==
  InTurn(LAMBDA c, x : Write(c, c.end, x[2], x[1], val[x[1]]), b, fields)

(***************************************************************************)
(* Pop(w): the tail moves back; nothing is left whole beyond it.           *)
(***************************************************************************)
Pop(b, w) ==
  [end |-> b.end - w,
   at  |-> Restrict(b.at, {p \in DOMAIN b.at : p + b.at[p].w <= b.end - w})]

(***************************************************************************)
(* What Pull(w) and a look at place at give a reader that expects field f. *)
(***************************************************************************)
ReadAt(b, at, w, f) ==
  IF at \in DOMAIN b.at /\ b.at[at].f = f /\ b.at[at].w = w THEN b.at[at].v ELSE Garbled

(***************************************************************************)
(* The numbers of a finite set, the smallest first; the elements of one,   *)
(* each of a rank of its own, in the order of their ranks.                 *)
(***************************************************************************)
Ascending(S) ==
  [i \in 1..Cardinality(S) |-> CHOOSE x \in S : Cardinality({y \in S : y < x}) = i - 1]

InRankOrder(S, rank(_)) ==
  LET q == Ascending({rank(x) : x \in S}) IN
  [i \in DOMAIN q |-> LET r == q[i] IN CHOOSE x \in S : rank(x) = r]
=============================================================================
