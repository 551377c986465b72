------------------------------- MODULE RadioTap -------------------------------
(***************************************************************************)
(* The radiotap header in front of a frame that a monitor hands over.  A   *)
(* header object has a vector of present words, here sets of bit numbers,  *)
(* and a map from field keys (identifier and index of the word) to values. *)
(***************************************************************************)
EXTENDS SocketBuffer

Ext == 31
Namespace == 29

Field(id, align, size) == [id |-> id, align |-> align, size |-> size]

RadioTapFieldTsft         == Field(0, 8, 8)
RadioTapFieldFlags        == Field(1, 1, 1)
RadioTapFieldRate         == Field(2, 1, 1)
RadioTapFieldChannel      == Field(3, 2, 4)
RadioTapFieldSignalLevel  == Field(5, 1, 1)
RadioTapFieldSignalNoise  == Field(6, 1, 1)
RadioTapFieldTxPower      == Field(10, 1, 1)
RadioTapFieldAntenna      == Field(11, 1, 1)
RadioTapFieldRxFlags      == Field(14, 2, 2)
RadioTapFieldTxFlags      == Field(15, 2, 2)
RadioTapFieldDataRetries  == Field(17, 1, 1)
RadioTapFieldMcs          == Field(19, 1, 3)

(***************************************************************************)
(* The table of alignments and sizes.  Identifier 18 has none, and the     *)
(* loop over the bits of a present word ends before IdLast.                *)
(***************************************************************************)
FieldTable ==
  {RadioTapFieldTsft, RadioTapFieldFlags, RadioTapFieldRate, RadioTapFieldChannel,
   RadioTapFieldSignalLevel, RadioTapFieldSignalNoise, RadioTapFieldTxPower,
   RadioTapFieldAntenna, RadioTapFieldRxFlags, RadioTapFieldTxFlags,
   RadioTapFieldDataRetries, RadioTapFieldMcs,
   Field(4, 2, 2), Field(7, 2, 2), Field(8, 2, 2), Field(9, 2, 2), Field(12, 1, 1),
   Field(13, 1, 1), Field(16, 1, 1), Field(18, 0, 0), Field(20, 4, 8), Field(21, 2, 12),
   Field(22, 8, 12)}
IdLast == 23
MaxPresent == 8

FieldOf(id) == CHOOSE x \in FieldTable : x.id = id

NewRadioTap == [present |-> <<>>, fields |-> {}]

(***************************************************************************)
(* PutField extends the present vector as needed, marks the word before it *)
(* as having an extension, and sets the field's bit and value.             *)
(***************************************************************************)
PutField(h, id, index, v) ==
  LET old(i) == IF i \in DOMAIN h.present THEN h.present[i] ELSE {} IN
  [present |-> [i \in DOMAIN h.present \cup 1..(index + 1) |->
                  old(i) \cup (IF i = index THEN {Ext, Namespace} ELSE {})
                         \cup (IF i = index + 1 THEN {id} ELSE {})],
   fields  |-> {x \in h.fields : x.id # id \/ x.index # index}
                 \cup {[id |-> id, index |-> index, v |-> v]}]

GetField(h, id, index) ==
  LET X == {x \in h.fields : x.id = id /\ x.index = index} IN
  IF X = {} THEN 0 ELSE (CHOOSE x \in X : TRUE).v
HasField(h, id) == \E x \in h.fields : x.id = id /\ x.index = 0

(***************************************************************************)
(* The octets from place at to the next multiple of align.                 *)
(***************************************************************************)
Pad(at, align) == (align - (at % align)) % align

-----------------------------------------------------------------------------
(***************************************************************************)
(* Assemble: version, pad, length (written last), the present words, then  *)
(* the fields in the order of the map's keys, each at its alignment.       *)
(***************************************************************************)
HeaderFields == <<<<"version", 1>>, <<"pad", 1>>, <<"length", 2>>>>

InKeyOrder(fields) ==
  InRankOrder(fields, LAMBDA x : x.index * 32 + x.id)

WriteField(b, at, x, v) == [Write(b, at, x.size, "field", v) EXCEPT !.end = at + x.size]

AssembleField(b, k) ==
  WriteField(b, b.end + Pad(b.end, FieldOf(k.id).align), FieldOf(k.id), k.v)

AssembleHeader == WriteNext(Empty, HeaderFields, [version |-> 0, pad |-> 0, length |-> 0])

AssemblePresent(b, words) ==
  LET to[i \in 0..Len(words)] ==
        IF i = 0 THEN b ELSE Write(to[i - 1], to[i - 1].end, 4, "present", words[i])
  IN to[Len(words)]

AssembleFields(b, q) ==
  LET to[i \in 0..Len(q)] == IF i = 0 THEN b ELSE AssembleField(to[i - 1], q[i]) IN to[Len(q)]

AssembleLength(b) == Overwrite(b, 2, 2, "length", b.end)

AssembleRadioTap(h) ==
  AssembleLength(AssembleFields(AssemblePresent(AssembleHeader, h.present), InKeyOrder(h.fields)))

(***************************************************************************)
(* Disassemble: the version is 0 and the length is in the buffer; present  *)
(* words until one has no extension, at most eight; then every bit of      *)
(* every word that the table knows, read at its alignment and put.         *)
(* The data pointer ends up behind the last field read, wherever the       *)
(* length says the header ends.                                            *)
(***************************************************************************)
Words(b) ==
  LET more(n) == Ext \in ReadAt(b, 4 * n, 4, "present")
      N == {n \in 1..MaxPresent : \A k \in 1..(n - 1) : more(k)}
      len == CHOOSE n \in N : \A k \in N : k <= n IN
  [n \in 1..len |-> ReadAt(b, 4 * n, 4, "present")]

Bits(words) ==
  LET K == {k \in [index : 0..(Len(words) - 1), id : 0..(IdLast - 1)] : k.id \in words[k.index + 1]}
  IN InKeyOrder(K)

TakeField(b, r, k, at, size) ==
  IF r.ok /\ size # 0 /\ at + size <= b.end
  THEN [ok |-> TRUE, at |-> at + size,
        h  |-> PutField(r.h, k.id, k.index, ReadAt(b, at, size, "field"))]
  ELSE [r EXCEPT !.ok = FALSE]

DisassembleField(b, r, k) ==
  TakeField(b, r, k, r.at + Pad(r.at, FieldOf(k.id).align), FieldOf(k.id).size)

DisassembleFields(b, words) ==
  LET q == Bits(words)
      to[i \in 0..Len(q)] ==
        IF i = 0
        THEN [ok |-> ReadAt(b, 0, 1, "version") = 0 /\ ReadAt(b, 2, 2, "length") <= b.end,
              at |-> 4 + 4 * Len(words), h |-> [present |-> words, fields |-> {}]]
        ELSE DisassembleField(b, to[i - 1], q[i])
  IN to[Len(q)]

DisassembleRadioTap(b) == DisassembleFields(b, Words(b))
=============================================================================
