----------------------------- MODULE PcapDevices ----------------------------
(***************************************************************************)
(* Device enumeration in luomu-libpcap (src/luomu-libpcap/src/lib.rs):     *)
(* PcapIfT keeps the native pcap_if_t list from pcap_findalldevs and frees *)
(* it with pcap_freealldevs on drop; InterfaceIter walks the list through  *)
(* raw pointers and converts each node with try_interface_from, whose      *)
(* AddressIter skips addresses of unknown families; get_interfaces        *)
(* collects the iterator into a HashSet, and find_interface_with_name /    *)
(* find_interface_with_ip scan that set.                                   *)
(*                                                                         *)
(* Data: a native node is its name, whether try_interface_from converts it *)
(* (its strings are valid UTF-8), and its address list; a native address   *)
(* is a model value whose family is told by the set it belongs to.  The    *)
(* description, the flags and the netmask / broadcast / destination of an  *)
(* address are left out: no property tells them apart.                     *)
(*                                                                         *)
(* The caller may walk the list itself with PcapIfT::iter().  InterfaceIter *)
(* has no lifetime tied to the PcapIfT, so with KeepListAlive FALSE the    *)
(* caller may drop the PcapIfT while its iterator is still in use.         *)
(***************************************************************************)
EXTENDS Naturals, Sequences

CONSTANTS
  Names,          \* interface names
  V4s, V6s, Macs, \* native addresses of the families AddressIter converts
  Unknowns,       \* native addresses of families it skips
  MaxNodes,       \* longest native device list
  MaxAddrs,       \* longest native address list of one node
  KeepListAlive,  \* the caller keeps the PcapIfT alive while iterating
  NoName          \* the None of find_interface_with_*

ASSUME NamesAssumption == Names # {}
ASSUME MaxNodesAssumption == MaxNodes \in Nat \ {0}
ASSUME MaxAddrsAssumption == MaxAddrs \in Nat
ASSUME KeepListAliveAssumption == KeepListAlive \in BOOLEAN
ASSUME NoNameAssumption == NoName \notin Names
(* A native address belongs to one family: its sockaddr's sa_family is   *)
(* AF_INET, AF_INET6, the link layer's, or another one.                    *)
ASSUME FamiliesAssumption ==
  /\ V4s \cap V6s = {} /\ V4s \cap Macs = {} /\ V6s \cap Macs = {}
  /\ Unknowns \cap (V4s \cup V6s \cup Macs) = {}

VARIABLES
  alloc,     \* the native list: "none", "live" (kept by a PcapIfT), "freed"
  devs,      \* the native list's nodes
  frees,     \* pcap_freealldevs calls
  iter,      \* the caller's InterfaceIter and the interfaces it collected
  lastRead,  \* the state of the native list at the last node read
  found      \* the last find_interface_with_* call and its answer

vars == <<alloc, devs, frees, iter, lastRead, found>>

IPs == V4s \cup V6s
NativeAddrs == IPs \cup Macs \cup Unknowns

(* Sequences over S of length at most n.                                  *)
SeqsUpTo(S, n) == UNION {[1..k -> S] : k \in 0..n}

Nodes == [name : Names, ok : BOOLEAN, addrs : SeqsUpTo(NativeAddrs, MaxAddrs)]

(* The nodes as the type invariant checks them.                          *)
NodeType == [name : Names, ok : BOOLEAN, addrs : Seq(NativeAddrs)]

(* Address: the tagged union Ipv4 / Ipv6 / Mac.                           *)
Addresses == [kind : {"Ipv4"}, val : V4s] \cup [kind : {"Ipv6"}, val : V6s]
             \cup [kind : {"Mac"}, val : Macs]

(* try_address_from: the Address of a native address, for the families    *)
(* it knows.                                                              *)
Known == V4s \cup V6s \cup Macs
ToAddress(a) ==
  IF a \in V4s THEN [kind |-> "Ipv4", val |-> a]
  ELSE IF a \in V6s THEN [kind |-> "Ipv6", val |-> a]
  ELSE [kind |-> "Mac", val |-> a]

(* The Address accessors and conversions.  An Option or a Result is the  *)
(* set of its values: {} for None or Err(InvalidAddress), {v} for Some(v) *)
(* or Ok(v).  An IpAddr is a member of IPs, its variant told by the set.  *)

(* Address::is_ipv4 / is_ipv6 / is_ip / is_mac.                           *)
IsIpv4(a) == a.kind = "Ipv4"
IsIpv6(a) == a.kind = "Ipv6"
IsIp(a) == IsIpv4(a) \/ IsIpv6(a)
IsMac(a) == a.kind = "Mac"

(* Address::as_ipv4 / as_ipv6 / as_ip / as_mac.                           *)
AsIpv4(a) == IF a.kind = "Ipv4" THEN {a.val} ELSE {}
AsIpv6(a) == IF a.kind = "Ipv6" THEN {a.val} ELSE {}
AsIp(a) == IF a.kind \in {"Ipv4", "Ipv6"} THEN {a.val} ELSE {}
AsMac(a) == IF a.kind = "Mac" THEN {a.val} ELSE {}

(* From<IpAddr> for Address.                                              *)
FromIp(v) == IF v \in V4s THEN [kind |-> "Ipv4", val |-> v]
                          ELSE [kind |-> "Ipv6", val |-> v]

(* TryFrom<Address> for IpAddr, and its copy TryFrom<&Address>.           *)
TryIp(a) == IF a.kind \in {"Ipv4", "Ipv6"} THEN {a.val} ELSE {}

(* Mutant: the borrowed conversion lacks the Ipv6 arm.                    *)
TryRefIpV4Only(a) == IF a.kind = "Ipv4" THEN {a.val} ELSE {}

TryRefIp(a) == IF a.kind \in {"Ipv4", "Ipv6"} THEN {a.val} ELSE {}

(* TryFrom<Address> for MacAddr.                                          *)
TryMac(a) == IF a.kind = "Mac" THEN {a.val} ELSE {}

(* Mutant: AddressIter returns None at an address of unknown family       *)
(* instead of moving on to the next one, ending the BTreeSet there.        *)
AddressesOfStopAtUnknown(s) ==
  {ToAddress(s[i]) : i \in {j \in DOMAIN s : \A k \in 1..j : s[k] \in Known}}

(* AddressIter collected into the BTreeSet of an Interface: the addresses *)
(* of the node, unknown families skipped.                                 *)
AddressesOf(s) == {ToAddress(s[i]) : i \in {j \in DOMAIN s : s[j] \in Known}}

(* try_interface_from on a node it converts.                              *)
ToInterface(n) == [name |-> n.name, addresses |-> AddressesOf(n.addrs)]

Interfaces == [name : Names, addresses : SUBSET Addresses]

(* Interface::get_ip_addresses: filter_map of IpAddr::try_from(&addr).ok() *)
(* over the addresses; has_address tests membership in it.               *)
IpAddressesOf(i) == UNION {TryRefIp(a) : a \in i.addresses}

(* Interface::get_ether_address: the first Mac of the BTreeSet.  Its      *)
(* order among MACs is the byte order, which the model values do not      *)
(* have, so the model picks one MAC by CHOOSE.                            *)
EtherAddressOf(i) ==
  LET macs == UNION {AsMac(a) : a \in i.addresses}
  IN  IF macs = {} THEN {} ELSE {CHOOSE m \in macs : TRUE}

(* The nodes InterfaceIter converts before try_interface_from fails: the  *)
(* iterator returns None on the first failure and collect() stops there.  *)
Reached(l) == {i \in 1..Len(l) : \A j \in 1..i : l[j].ok}

(* PcapIfT::get_interfaces: self.iter().collect() into a HashSet.         *)
Collected(l) == {ToInterface(l[i]) : i \in Reached(l)}

NoIter == [live |-> FALSE, nxt |-> 0, done |-> FALSE, acc |-> {}]

TypeOK ==
  /\ alloc \in {"none", "live", "freed"}
  /\ devs \in Seq(NodeType) /\ Len(devs) <= MaxNodes
  /\ frees \in 0..1
  /\ iter \in [live : BOOLEAN, nxt : 0..MaxNodes, done : BOOLEAN,
               acc : SUBSET Interfaces]
  /\ lastRead \in {"none", "live", "freed"}
  /\ found \in [op : {"none", "name", "ip"}, arg : Names \cup IPs,
                res : Names \cup {NoName}]

Init ==
  /\ alloc = "none"
  /\ devs = << >>
  /\ frees = 0
  /\ iter = NoIter
  /\ lastRead = "none"
  /\ found = [op |-> "none", arg |-> CHOOSE n \in Names : TRUE, res |-> NoName]

-----------------------------------------------------------------------------
(* PcapIfT::new: pcap_findalldevs hands out a list of devices.  Its       *)
(* failure allocates nothing and changes no state.                        *)
FindAllDevs ==
  /\ alloc = "none"
  /\ \E l \in SeqsUpTo(Nodes, MaxNodes) : devs' = l
  /\ alloc' = "live"
  /\ UNCHANGED <<frees, iter, lastRead, found>>

(* PcapIfT::iter: an InterfaceIter starting at the head of the list.      *)
(* An empty list (a null head) gives an iterator that yields nothing.     *)
Iter ==
  /\ alloc = "live"
  /\ ~iter.live
  /\ iter' = [NoIter EXCEPT !.live = TRUE, !.nxt = IF devs = << >> THEN 0 ELSE 1]
  /\ UNCHANGED <<alloc, devs, frees, lastRead, found>>

(* Mutant: next() tests the successor one node early and ends the walk    *)
(* before the last node.                                                  *)
IfNextStopsEarly ==
  /\ iter.live /\ ~iter.done
  /\ lastRead' = IF iter.nxt = 0 THEN lastRead ELSE alloc
  /\ IF iter.nxt = 0
       THEN iter' = [iter EXCEPT !.done = TRUE]
       ELSE \E n \in (IF alloc = "live" THEN {devs[iter.nxt]} ELSE Nodes),
               succ \in (IF alloc = "live"
                           THEN {IF iter.nxt + 1 >= Len(devs) THEN 0 ELSE iter.nxt + 1}
                           ELSE 0..MaxNodes) :
              iter' = [iter EXCEPT !.nxt = succ, !.done = ~n.ok,
                                   !.acc = IF n.ok THEN @ \cup {ToInterface(n)}
                                           ELSE @]
  /\ UNCHANGED <<alloc, devs, frees, found>>

(* InterfaceIter::next: read the node, advance to its successor (None at  *)
(* the end), and return Some(interface) or, when try_interface_from       *)
(* fails, None.  The caller's for loop stops at the first None.  A node   *)
(* read after pcap_freealldevs is whatever the freed memory holds.        *)
IfNext ==
  /\ iter.live /\ ~iter.done
  /\ lastRead' = IF iter.nxt = 0 THEN lastRead ELSE alloc
  /\ IF iter.nxt = 0
       THEN iter' = [iter EXCEPT !.done = TRUE]
       ELSE \E n \in (IF alloc = "live" THEN {devs[iter.nxt]} ELSE Nodes),
               succ \in (IF alloc = "live"
                           THEN {IF iter.nxt = Len(devs) THEN 0 ELSE iter.nxt + 1}
                           ELSE 0..MaxNodes) :
              iter' = [iter EXCEPT !.nxt = succ, !.done = ~n.ok,
                                   !.acc = IF n.ok THEN @ \cup {ToInterface(n)}
                                           ELSE @]
  /\ UNCHANGED <<alloc, devs, frees, found>>

(* The caller drops its InterfaceIter.                                    *)
EndIter ==
  /\ iter.live
  /\ iter' = NoIter
  /\ UNCHANGED <<alloc, devs, frees, lastRead, found>>

(* PcapIfT::find_interface_with_name: the first interface of              *)
(* get_interfaces() with that name, in the HashSet's arbitrary order.     *)
FindName(n) ==
  /\ alloc = "live"
  /\ LET m == {i \in Collected(devs) : i.name = n}
     IN  \/ m = {} /\ found' = [op |-> "name", arg |-> n, res |-> NoName]
         \/ \E i \in m : found' = [op |-> "name", arg |-> n, res |-> i.name]
  /\ UNCHANGED <<alloc, devs, frees, iter, lastRead>>

(* PcapIfT::find_interface_with_ip: the name of the first interface of    *)
(* get_interfaces() whose has_address(ip) holds.                          *)
FindIp(ip) ==
  /\ alloc = "live"
  /\ LET m == {i \in Collected(devs) : ip \in IpAddressesOf(i)}
     IN  \/ m = {} /\ found' = [op |-> "ip", arg |-> ip, res |-> NoName]
         \/ \E i \in m : found' = [op |-> "ip", arg |-> ip, res |-> i.name]
  /\ UNCHANGED <<alloc, devs, frees, iter, lastRead>>

(* Mutant: the list is freed again by a second drop of the same pointer.  *)
DropListTwice ==
  /\ alloc \in {"live", "freed"}
  /\ KeepListAlive => ~iter.live
  /\ alloc' = "freed"
  /\ frees' = frees + 1
  /\ UNCHANGED <<devs, iter, lastRead, found>>

(* PcapIfT::drop: pcap_freealldevs.  Nothing in the types stops it while  *)
(* an InterfaceIter made by iter() still points into the list.            *)
DropList ==
  /\ alloc = "live"
  /\ KeepListAlive => ~iter.live
  /\ alloc' = "freed"
  /\ frees' = frees + 1
  /\ UNCHANGED <<devs, iter, lastRead, found>>

Next ==
  \/ FindAllDevs \/ Iter \/ IfNext \/ EndIter \/ DropList
  \/ \E n \in Names : FindName(n)
  \/ \E ip \in IPs : FindIp(ip)

Spec == Init /\ [][Next]_vars

-----------------------------------------------------------------------------
(* The caller's own walk agrees with get_interfaces: once its for loop    *)
(* over PcapIfT::iter() has ended, it has collected exactly the set       *)
(* get_interfaces() returns for the same list.                            *)
IterAgreesWithCollect == (iter.live /\ iter.done) => iter.acc = Collected(devs)

(* find_interface_with_ip answers from the native addresses: it names a   *)
(* reached node that lists the IP, and answers None only when no reached  *)
(* node lists it, whatever families are skipped around it.                *)
FindIpCorrect ==
  found.op = "ip" =>
    /\ (found.res = NoName) <=>
         \A i \in Reached(devs) : found.arg \notin {devs[i].addrs[k] : k \in DOMAIN devs[i].addrs}
    /\ found.res # NoName =>
         \E i \in Reached(devs) :
           /\ devs[i].name = found.res
           /\ found.arg \in {devs[i].addrs[k] : k \in DOMAIN devs[i].addrs}

(* The Address accessors and conversions agree with each other and with  *)
(* the native addresses: is_* and as_* tell the same variant, the owned    *)
(* and the borrowed TryFrom conversions give what as_ip / as_mac give,     *)
(* From<IpAddr> inverts them, and on every interface get_interfaces()      *)
(* returns, get_ip_addresses is exactly the node's IPv4 and IPv6 addresses *)
(* and get_ether_address is one of its MACs, present when it has one.      *)
AddressAccessorsAgree ==
  /\ \A a \in Addresses :
       /\ AsIpv4(a) # {} <=> IsIpv4(a)
       /\ AsIpv6(a) # {} <=> IsIpv6(a)
       /\ AsIp(a) = AsIpv4(a) \cup AsIpv6(a)
       /\ AsIp(a) # {} <=> IsIp(a)
       /\ AsMac(a) # {} <=> IsMac(a)
       /\ TryIp(a) = AsIp(a) /\ TryRefIp(a) = AsIp(a) /\ TryMac(a) = AsMac(a)
       /\ \A v \in AsIp(a) : FromIp(v) = a
  /\ \A v \in IPs : AsIp(FromIp(v)) = {v}
  /\ \A i \in Reached(devs) :
       LET native == {devs[i].addrs[k] : k \in DOMAIN devs[i].addrs}
           intf == ToInterface(devs[i])
       IN  /\ IpAddressesOf(intf) = native \cap IPs
           /\ EtherAddressOf(intf) \subseteq native \cap Macs
           /\ (EtherAddressOf(intf) = {}) <=> (native \cap Macs = {})

(* The interfaces an InterfaceIter has yielded once it is at node k: all *)
(* nodes before k, each of which try_interface_from converted.            *)
Prefix(l, k) == {ToInterface(l[j]) : j \in 1..k - 1}

(* Why the walk and the lookups are right, in a form every step keeps:    *)
(* the list is freed once and only after it was allocated; a lookup has   *)
(* seen the list, an IP lookup was asked for an IP and its answer is      *)
(* FindIpCorrect's; a live iterator walks an allocated list, and one kept *)
(* by KeepListAlive walks a live one; and while the list is live the      *)
(* iterator has collected exactly the nodes before its position, all      *)
(* converted, or get_interfaces() once it is past the end or has stopped. *)
DevicesInv ==
  /\ TypeOK
  /\ frees = IF alloc = "freed" THEN 1 ELSE 0
  /\ found.op # "none" => alloc # "none"
  /\ found.op = "ip" => found.arg \in IPs
  /\ FindIpCorrect
  /\ iter.live => alloc # "none"
  /\ KeepListAlive /\ iter.live => alloc = "live"
  /\ iter.live /\ alloc = "live" =>
       /\ iter.done \/ iter.nxt = 0 => iter.acc = Collected(devs)
       /\ ~iter.done /\ iter.nxt # 0 =>
            /\ iter.nxt \in 1..Len(devs)
            /\ \A j \in 1..iter.nxt - 1 : devs[j].ok
            /\ iter.acc = Prefix(devs, iter.nxt)
  /\ ~iter.live => iter = NoIter

(* Enumeration completeness (spec 8): get_interfaces() yields an Interface *)
(* for every node that try_interface_from converts.  The iterator returns  *)
(* None on the first node it cannot convert, so this is expected to fail.  *)
EnumerationComplete ==
  alloc = "live" =>
    \A i \in 1..Len(devs) : devs[i].ok => ToInterface(devs[i]) \in Collected(devs)

(* No node of the native list is read after pcap_freealldevs freed it.     *)
(* Expected to fail: InterfaceIter outlives the PcapIfT it came from.      *)
NoReadAfterFree == lastRead # "freed"

=============================================================================
