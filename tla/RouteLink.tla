------------------------------ MODULE RouteLink ------------------------------
(***************************************************************************)
(* The links of rtnetlink (lib/zInterface/netlink/RouteLink.cpp) and the   *)
(* commands about them, which call libnl's synchronous functions.          *)
(***************************************************************************)
EXTENDS Nl80211

LinkIndex    == Number("IFI_INDEX", 4, 0)
MasterIndex  == Number("IFLA_LINK", 4, 0)
LinkName     == Text("IFLA_IFNAME")
LinkArpType  == Number("IFI_TYPE", 4, 0)
LinkType     == Text("IFLA_INFO_KIND")
LinkFlags    == Number("IFI_FLAGS", 4, 0)
LinkMtu      == Number("IFLA_MTU", 4, 0)
LinkOper     == Number("IFLA_OPERSTATE", 1, 0)
LinkCarrier  == Number("IFLA_CARRIER", 1, 0)
LinkAddress  == Octets("IFLA_ADDRESS", 6, 6)

Members == {LinkIndex, LinkName, LinkArpType, LinkType, LinkFlags, LinkMtu, LinkAddress}
LinkClasses == Members \cup {MasterIndex, LinkOper, LinkCarrier}

(***************************************************************************)
(* OperationalState and CarrierState read the kernel's numbers, as this    *)
(* code takes them, and write them back: unknown, or any other state, is   *)
(* written as 0.                                                           *)
(***************************************************************************)
OperationalState(t) ==
  CASE Value(t, LinkOper) = 1 -> "up" [] Value(t, LinkOper) = 2 -> "down"
    [] Value(t, LinkOper) = 4 -> "unknown" [] OTHER -> "error"
CarrierState(t) ==
  CASE Value(t, LinkCarrier) = 0 -> "down" [] Value(t, LinkCarrier) = 1 -> "up" [] OTHER -> "error"

OperNumber(s) == CASE s = "up" -> 1 [] s = "down" -> 2 [] OTHER -> 0
CarrierNumber(s) == IF s = "up" THEN 1 ELSE 0

\* A copy of a link: of all but the link that it is on.
Copy(t) ==
  Over(PutAll(t, Members),
       Over(Entry(LinkOper.id, Data(1, OperNumber(OperationalState(t)))),
            Entry(LinkCarrier.id, Data(1, CarrierNumber(CarrierState(t))))))

(***************************************************************************)
(* The commands: they need an index, a new link a name and the link that   *)
(* it is on. What libnl answers replaces the link of the object.           *)
(***************************************************************************)
RouteCommand(cmd, puts) ==
  [Execs(cmd, LinkClasses, puts, Acked) EXCEPT !.guard = {LinkIndex}, !.made = {LinkIndex}]

GetLinkCommand == RouteCommand("RTM_GETLINK", {})
SetLinkCommand == RouteCommand("RTM_SETLINK", LinkClasses)
DelLinkCommand == RouteCommand("RTM_DELLINK", {LinkIndex})
NewLinkCommand ==
  [RouteCommand("RTM_NEWLINK", LinkClasses) EXCEPT !.guard = {MasterIndex, LinkName},
                                                  !.made = {LinkName}]
ListLinksCommand == [RouteCommand("RTM_GETLINKS", {}) EXCEPT !.guard = {}, !.made = {}, !.dump = TRUE]

RouteCommands ==
  [GetLink |-> GetLinkCommand, SetLink |-> SetLinkCommand, DelLink |-> DelLinkCommand,
   NewLink |-> NewLinkCommand, ListLinks |-> ListLinksCommand]

\* ListLinks asks the cache for the indices below LinkLast, and keeps what an
\* earlier Exec listed.
LinkLast == 50
=============================================================================
