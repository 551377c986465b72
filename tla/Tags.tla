--------------------------------- MODULE Tags ---------------------------------
(***************************************************************************)
(* The tagged elements of 802.11 management frames.  A tag object has an   *)
(* identifier, a value and a flag that says whether a value was put; here  *)
(* a value is a number that stands for the octets, or Invalid.  What the   *)
(* accessors of the tag classes make of the octets is left out; the number *)
(* of octets is what their setters put.                                    *)
(***************************************************************************)
EXTENDS SocketBuffer

Invalid == -2
Default == 0

Tag(id, len) == [id |-> id, len |-> len]

SsidTag          == Tag(0, 4)
RatesTag         == Tag(1, 8)
DsssTag          == Tag(3, 1)
TimTag           == Tag(5, 4)
CountryTag       == Tag(7, 6)
PowerCapsTag     == Tag(33, 2)
ChannelsTag      == Tag(36, 2)
ChannelSwitchTag == Tag(37, 3)
ErpInfoTag       == Tag(42, 1)
HtCapsTag        == Tag(45, 26)
RsnTag           == Tag(48, 20)
ExtRatesTag      == Tag(50, 4)
SuppOpClassesTag == Tag(59, 2)
HtInfoTag        == Tag(61, 22)
ExtCapsTag       == Tag(127, 8)
VhtCapsTag       == Tag(191, 1)
VendorSpecificTag == Tag(221, 4)

TagOf == [Ssid |-> SsidTag, Rates |-> RatesTag, Dsss |-> DsssTag, Tim |-> TimTag,
          Country |-> CountryTag, PowerCaps |-> PowerCapsTag, Channels |-> ChannelsTag,
          ChannelSwitch |-> ChannelSwitchTag, ErpInfo |-> ErpInfoTag, HtCaps |-> HtCapsTag,
          RsnElement |-> RsnTag, ExtRates |-> ExtRatesTag, SuppOpClass |-> SuppOpClassesTag,
          SuppOpClasses |-> SuppOpClassesTag, HtInfo |-> HtInfoTag, ExtCaps |-> ExtCapsTag,
          VhtCaps |-> VhtCapsTag, WmmWme |-> VendorSpecificTag]

TagNames == DOMAIN TagOf
Id(name) == TagOf[name].id

(***************************************************************************)
(* A WMM tag starts with its OUI in place, so it is always valid, and each *)
(* set adds a parameter block of 20 octets to what is there.  The digits   *)
(* of its value are the blocks.                                            *)
(***************************************************************************)
WmmWmeTag(v, x) == 10 * v + x
WmmBlocks(v) == IF v = Default THEN 0 ELSE IF v < 10 THEN 1 ELSE 2

(***************************************************************************)
(* The accessor of each tag class that sets it: PutValue.                  *)
(***************************************************************************)
SetTag(name, v, x) == IF name = "WmmWme" THEN WmmWmeTag(v, x) ELSE x

TagLength(id, v) ==
  LET t == CHOOSE n \in TagNames : Id(n) = id IN
  IF id = VendorSpecificTag.id THEN VendorSpecificTag.len + 20 * WmmBlocks(v) ELSE TagOf[t].len

-----------------------------------------------------------------------------
(***************************************************************************)
(* The tag list of a frame object.  The code keeps one list for each type; *)
(* here they are one sequence, whose order within a type is all that is    *)
(* ever used.                                                              *)
(***************************************************************************)
IsHead(id) == id <= TimTag.id

HasTag(tags, id) == \E i \in DOMAIN tags : tags[i].id = id

FirstTag(tags, id) == SelectInSeq(tags, LAMBDA t : t.id = id)

GetTag(tags, id) == tags[FirstTag(tags, id)].v

(* Faults, see Mutex. *)
PutTagAppend(tags, id, v) == Append(tags, [id |-> id, v |-> v])

(***************************************************************************)
(* PutTag replaces the first tag with the identifier, or adds one.  The    *)
(* tag put need not be valid.                                              *)
(***************************************************************************)
PutTag(tags, id, v) ==
  IF HasTag(tags, id) THEN [tags EXCEPT ![FirstTag(tags, id)].v = v]
  ELSE Append(tags, [id |-> id, v |-> v])

ValidTags(tags, head) ==
  LET I == Ascending({i \in DOMAIN tags : tags[i].v # Invalid /\ IsHead(tags[i].id) = head}) IN
  [k \in DOMAIN I |-> tags[I[k]]]

(***************************************************************************)
(* The tags of a list are assembled one behind the other.                  *)
(***************************************************************************)
WriteTag(b, t) == Write(b, b.end, 2 + TagLength(t.id, t.v), "tag", t)

WriteTags(b, q) ==
  LET to[i \in 0..Len(q)] == IF i = 0 THEN b ELSE WriteTag(to[i - 1], q[i]) IN to[Len(q)]

(* Faults, see Mutex. *)
AssembleTagsTailFirst(b, tags) == WriteTags(b, ValidTags(tags, FALSE) \o ValidTags(tags, TRUE))

(***************************************************************************)
(* AssembleTags: head tags, then tail tags; those not valid are skipped.   *)
(***************************************************************************)
AssembleTags(b, tags) == WriteTags(b, ValidTags(tags, TRUE) \o ValidTags(tags, FALSE))

(***************************************************************************)
(* The tags found from place at on; octets that are no tag end them, as a  *)
(* tag longer than what is left does.                                      *)
(***************************************************************************)
ValuesAt(b, q) == [i \in DOMAIN q |-> b.at[q[i]].v]

TagPlaces(b) == {p \in DOMAIN b.at : b.at[p].f = "tag"}

TagsAt(b, at) ==
  ValuesAt(b, Ascending({p \in TagPlaces(b) : p >= at /\ at \in TagPlaces(b)}))

(***************************************************************************)
(* DisassembleTags of all types takes every tag.                           *)
(***************************************************************************)
DisassembleTags(b, at) == TagsAt(b, at)

UpTo(q, n) == IF n = 0 THEN q ELSE SubSeq(q, 1, n - 1)

Run(q, head) == UpTo(q, SelectInSeq(q, LAMBDA t : IsHead(t.id) # head))

(***************************************************************************)
(* A beacon takes head tags as long as there are some, then tail tags; the *)
(* first tag of the other type is put back and what follows it is lost.    *)
(***************************************************************************)
ThenTail(q, heads) == heads \o Run(SubSeq(q, Len(heads) + 1, Len(q)), FALSE)

HeadThenTail(q) == ThenTail(q, Run(q, TRUE))

DisassembleSplit(b, at) == HeadThenTail(TagsAt(b, at))
=============================================================================
