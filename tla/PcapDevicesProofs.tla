------------------------- MODULE PcapDevicesProofs -------------------------
(***************************************************************************)
(* Proofs about PcapDevices for every set of names and addresses and every *)
(* bound: the inductive invariant DevicesInv, the type invariant, the      *)
(* correctness of find_interface_with_ip, and, for a caller that keeps the *)
(* PcapIfT alive while it iterates, the agreement of its own walk with     *)
(* get_interfaces.                                                         *)
(***************************************************************************)
EXTENDS PcapDevices, SequenceTheorems, TLAPS

(* A sequence of SeqsUpTo(S, n) is a sequence over S of length at most n. *)
LEMMA SeqsUpToFacts ==
  ASSUME NEW S, NEW n \in Nat, NEW l \in SeqsUpTo(S, n)
  PROVE  l \in Seq(S) /\ Len(l) <= n
<1>1. PICK k \in 0..n : l \in [1..k -> S]
  BY DEF SeqsUpTo
<1>2. l \in Seq(S)
  BY <1>1, SeqDef
<1>3. Len(l) = k
  BY <1>1, <1>2, LenProperties
<1>4. QED
  BY <1>2, <1>3

LEMMA NodesType == Nodes \subseteq NodeType
BY SeqsUpToFacts, MaxAddrsAssumption DEF Nodes, NodeType

(* try_address_from gives an Address for every family it knows, and      *)
(* try_interface_from an Interface for every node.                        *)
LEMMA ToAddressType ==
  ASSUME NEW x \in Known
  PROVE  ToAddress(x) \in Addresses
BY DEF Known, ToAddress, Addresses

LEMMA ToInterfaceType ==
  ASSUME NEW n \in NodeType
  PROVE  ToInterface(n) \in Interfaces
<1>1. AddressesOf(n.addrs) \subseteq Addresses
  BY ToAddressType DEF AddressesOf
<1>2. QED
  BY <1>1 DEF ToInterface, Interfaces, NodeType

(* get_ip_addresses of a converted node is the node's IPv4 and IPv6       *)
(* addresses: AddressIter drops only unknown families, and the borrowed   *)
(* IpAddr conversion keeps exactly the IP ones.                           *)
LEMMA IpOfInterface ==
  ASSUME NEW n \in NodeType
  PROVE  IpAddressesOf(ToInterface(n)) = {n.addrs[k] : k \in DOMAIN n.addrs} \cap IPs
<1>1. \A x \in Known : TryRefIp(ToAddress(x)) = IF x \in IPs THEN {x} ELSE {}
  BY DEF Known, ToAddress, TryRefIp, IPs
<1>2. IpAddressesOf(ToInterface(n))
        = UNION {TryRefIp(ToAddress(n.addrs[k])) : k \in {j \in DOMAIN n.addrs : n.addrs[j] \in Known}}
  BY DEF IpAddressesOf, ToInterface, AddressesOf
<1>3. IPs \subseteq Known
  BY DEF IPs, Known
<1>4. QED
  BY <1>1, <1>2, <1>3


(* The native addresses of a node, as FindIpCorrect states them.          *)
Native(n) == {n.addrs[k] : k \in DOMAIN n.addrs}

(* The nodes of a well-typed list are nodes, and what get_interfaces()    *)
(* collects from it are Interfaces.                                       *)
LEMMA DevsElem ==
  ASSUME TypeOK, NEW j \in 1..Len(devs)
  PROVE  devs[j] \in NodeType
BY ElementOfSeq DEF TypeOK

LEMMA CollectedType ==
  ASSUME TypeOK
  PROVE  Collected(devs) \subseteq Interfaces
BY DevsElem, ToInterfaceType DEF Collected, Reached

(* A sequence of nodes as FindAllDevs draws it is a well-typed list.      *)
LEMMA FreshListType ==
  ASSUME NEW l \in SeqsUpTo(Nodes, MaxNodes)
  PROVE  l \in Seq(NodeType) /\ Len(l) <= MaxNodes
<1>1. l \in Seq(Nodes) /\ Len(l) <= MaxNodes
  BY SeqsUpToFacts, MaxNodesAssumption
<1>2. QED
  BY <1>1, NodesType, SeqMonotonic

-----------------------------------------------------------------------------
LEMMA InitDevicesInv == Init => DevicesInv
<1> SUFFICES ASSUME Init PROVE DevicesInv
  OBVIOUS
<1>1. devs \in Seq(NodeType) /\ Len(devs) <= MaxNodes
  BY EmptySeq, MaxNodesAssumption DEF Init
<1>2. iter \in [live : BOOLEAN, nxt : 0..MaxNodes, done : BOOLEAN, acc : SUBSET Interfaces]
  BY MaxNodesAssumption DEF Init, NoIter
<1>3. found \in [op : {"none", "name", "ip"}, arg : Names \cup IPs, res : Names \cup {NoName}]
  BY NamesAssumption DEF Init
<1>4. TypeOK
  BY <1>1, <1>2, <1>3 DEF Init, TypeOK
<1>5. QED
  BY <1>4 DEF Init, DevicesInv, FindIpCorrect, NoIter

(* find_interface_with_ip answers as FindIpCorrect says, from any list.   *)
LEMMA FindIpStep ==
  ASSUME TypeOK, NEW ip \in IPs, FindIp(ip)
  PROVE  FindIpCorrect'
<1> DEFINE m == {i \in Collected(devs) : ip \in IpAddressesOf(i)}
<1>1. devs' = devs
  BY DEF FindIp
<1>2. \A r \in Reached(devs) : ip \in IpAddressesOf(ToInterface(devs[r])) <=> ip \in Native(devs[r])
  BY DevsElem, IpOfInterface DEF Reached, Native
<1>3. m = {} <=> \A r \in Reached(devs) : ip \notin Native(devs[r])
  BY <1>2 DEF Collected
<1>4. CASE m = {} /\ found' = [op |-> "ip", arg |-> ip, res |-> NoName]
  BY <1>1, <1>3, <1>4 DEF FindIpCorrect, Native
<1>5. CASE \E i \in m : found' = [op |-> "ip", arg |-> ip, res |-> i.name]
  <2>1. PICK r \in Reached(devs) : ip \in Native(devs[r])
                                   /\ found' = [op |-> "ip", arg |-> ip, res |-> devs[r].name]
    BY <1>2, <1>5 DEF Collected, ToInterface
  <2>2. devs[r].name \in Names
    BY DevsElem DEF Reached, NodeType
  <2>3. devs[r].name # NoName
    BY <2>2, NoNameAssumption
  <2>4. QED
    BY <1>1, <2>1, <2>3 DEF FindIpCorrect, Native
<1>6. QED
  BY <1>4, <1>5 DEF FindIp


(* pcap_findalldevs allocates a list: nothing refers to it yet.           *)
LEMMA FindAllDevsStep ==
  ASSUME DevicesInv, FindAllDevs
  PROVE  DevicesInv'
<1>1. PICK l \in SeqsUpTo(Nodes, MaxNodes) : devs' = l
  BY DEF FindAllDevs
<1>2. devs' \in Seq(NodeType) /\ Len(devs') <= MaxNodes
  BY <1>1, FreshListType
<1>3. iter = NoIter /\ found.op = "none" /\ frees = 0
  BY DEF FindAllDevs, DevicesInv, NoIter
<1>4. TypeOK'
  BY <1>2 DEF FindAllDevs, DevicesInv, TypeOK
<1>5. QED
  BY <1>3, <1>4 DEF FindAllDevs, DevicesInv, FindIpCorrect, NoIter

(* iter() starts at the head of a live list, with nothing collected.      *)
LEMMA IterStep ==
  ASSUME DevicesInv, Iter
  PROVE  DevicesInv'
<1>1. TypeOK
  BY DEF DevicesInv
<1>0. iter' = [live |-> TRUE, nxt |-> IF devs = << >> THEN 0 ELSE 1, done |-> FALSE, acc |-> {}]
  BY DEF Iter, NoIter
<1>2. iter' \in [live : BOOLEAN, nxt : 0..MaxNodes, done : BOOLEAN, acc : SUBSET Interfaces]
  BY <1>0, MaxNodesAssumption
<1>3. TypeOK'
  BY <1>1, <1>2 DEF Iter, TypeOK
<1>4. CASE devs = << >>
  <2>1. Reached(devs) = {}
    BY <1>4, EmptySeq DEF Reached
  <2>2. iter'.acc = Collected(devs) /\ iter'.nxt = 0
    BY <1>4, <2>1 DEF Iter, NoIter, Collected
  <2>3. QED
    BY <1>3, <2>2 DEF Iter, DevicesInv, FindIpCorrect, NoIter
<1>5. CASE devs # << >>
  <2>1. 1 \in 1..Len(devs)
    BY <1>1, <1>5, EmptySeq DEF TypeOK
  <2>2. iter'.acc = Prefix(devs, 1) /\ iter'.nxt = 1 /\ ~iter'.done
    BY <1>5 DEF Iter, NoIter, Prefix
  <2>3. QED
    BY <1>3, <2>1, <2>2 DEF Iter, DevicesInv, FindIpCorrect, NoIter
<1>6. QED
  BY <1>4, <1>5

(* Dropping the InterfaceIter resets it.                                  *)
LEMMA EndIterStep ==
  ASSUME DevicesInv, EndIter
  PROVE  DevicesInv'
<1>1. TypeOK'
  BY MaxNodesAssumption DEF EndIter, DevicesInv, TypeOK, NoIter
<1>2. QED
  BY <1>1 DEF EndIter, DevicesInv, FindIpCorrect, NoIter

(* pcap_freealldevs runs once, on a live list; under KeepListAlive no     *)
(* iterator is live then.                                                 *)
LEMMA DropListStep ==
  ASSUME DevicesInv, DropList
  PROVE  DevicesInv'
<1>1. TypeOK'
  BY DEF DropList, DevicesInv, TypeOK
<1>2. QED
  BY <1>1 DEF DropList, DevicesInv, FindIpCorrect

(* find_interface_with_name on a live list.                               *)
LEMMA FindNameStep ==
  ASSUME DevicesInv, NEW n \in Names, FindName(n)
  PROVE  DevicesInv'
<1>1. Collected(devs) \subseteq Interfaces
  BY CollectedType DEF DevicesInv
<1>2. found' \in [op : {"name"}, arg : Names, res : Names \cup {NoName}]
  BY <1>1 DEF FindName, Interfaces
<1>3. TypeOK'
  BY <1>2 DEF FindName, DevicesInv, TypeOK
<1>4. QED
  BY <1>2, <1>3 DEF FindName, DevicesInv, FindIpCorrect

(* find_interface_with_ip on a live list.                                 *)
LEMMA FindIpInvStep ==
  ASSUME DevicesInv, NEW ip \in IPs, FindIp(ip)
  PROVE  DevicesInv'
<1>1. Collected(devs) \subseteq Interfaces
  BY CollectedType DEF DevicesInv
<1>2. found' \in [op : {"ip"}, arg : {ip}, res : Names \cup {NoName}]
  BY <1>1 DEF FindIp, Interfaces
<1>3. TypeOK'
  BY <1>2 DEF FindIp, DevicesInv, TypeOK
<1>4. FindIpCorrect'
  BY FindIpStep DEF DevicesInv
<1>5. QED
  BY <1>2, <1>3, <1>4 DEF FindIp, DevicesInv


(* One more converted node extends what the iterator has yielded.         *)
LEMMA PrefixGrows ==
  ASSUME NEW l, NEW k \in Nat \ {0}
  PROVE  Prefix(l, k + 1) = Prefix(l, k) \cup {ToInterface(l[k])}
<1>1. 1..(k + 1) - 1 = (1..k - 1) \cup {k}
  OBVIOUS
<1>2. QED
  BY <1>1 DEF Prefix

(* get_interfaces() on a list whose nodes all convert collects them all.  *)
LEMMA CollectAll ==
  ASSUME TypeOK, \A j \in 1..Len(devs) : devs[j].ok
  PROVE  Collected(devs) = Prefix(devs, Len(devs) + 1)
<1>1. Len(devs) \in Nat
  BY LenProperties DEF TypeOK
<1>2. Reached(devs) = 1..(Len(devs) + 1) - 1
  BY <1>1 DEF Reached
<1>3. QED
  BY <1>2 DEF Collected, Prefix

(* get_interfaces() stops at the first node try_interface_from rejects.   *)
LEMMA CollectStops ==
  ASSUME TypeOK, NEW k \in 1..Len(devs),
         \A j \in 1..k - 1 : devs[j].ok, ~devs[k].ok
  PROVE  Collected(devs) = Prefix(devs, k)
<1>1. Len(devs) \in Nat
  BY LenProperties DEF TypeOK
<1>2. Reached(devs) = 1..k - 1
  BY <1>1 DEF Reached
<1>3. QED
  BY <1>2 DEF Collected, Prefix

(* InterfaceIter::next, on a live list or on a freed one.                 *)
LEMMA IfNextStep ==
  ASSUME DevicesInv, IfNext
  PROVE  DevicesInv'
<1>0. TypeOK /\ iter.live /\ ~iter.done
  BY DEF DevicesInv, IfNext
<1>u. UNCHANGED <<alloc, devs, frees, found>>
  BY DEF IfNext
<1>l. lastRead' \in {"none", "live", "freed"}
  BY <1>0 DEF IfNext, TypeOK
<1>t. iter \in [live : BOOLEAN, nxt : 0..MaxNodes, done : BOOLEAN, acc : SUBSET Interfaces]
  BY <1>0 DEF TypeOK
<1>1. CASE iter.nxt = 0
  <2>1. iter' = [iter EXCEPT !.done = TRUE]
    BY <1>1 DEF IfNext
  <2>2. TypeOK'
    BY <1>0, <1>u, <1>l, <2>1 DEF TypeOK
  <2>3. QED
    BY <1>0, <1>1, <1>u, <2>1, <2>2 DEF DevicesInv, FindIpCorrect
<1>2. CASE iter.nxt # 0 /\ alloc # "live"
  <2>1. PICK n \in Nodes, succ \in 0..MaxNodes :
          iter' = [iter EXCEPT !.nxt = succ, !.done = ~n.ok,
                               !.acc = IF n.ok THEN @ \cup {ToInterface(n)} ELSE @]
    BY <1>2 DEF IfNext
  <2>2. ToInterface(n) \in Interfaces
    BY NodesType, ToInterfaceType
  <2>3. TypeOK'
    BY <1>0, <1>u, <1>l, <2>1, <2>2 DEF TypeOK
  <2>4. QED
    BY <1>0, <1>2, <1>u, <2>1, <2>3 DEF DevicesInv, FindIpCorrect
<1>3. CASE iter.nxt # 0 /\ alloc = "live"
  <2> DEFINE k == iter.nxt
  <2>1. /\ k \in 1..Len(devs)
        /\ \A j \in 1..k - 1 : devs[j].ok
        /\ iter.acc = Prefix(devs, k)
    BY <1>0, <1>3 DEF DevicesInv
  <2>2. devs[k] \in NodeType /\ ToInterface(devs[k]) \in Interfaces
    BY <1>0, <2>1, DevsElem, ToInterfaceType
  <2>3. Len(devs) \in Nat /\ Len(devs) <= MaxNodes
    BY <1>0, LenProperties DEF TypeOK
  <2>4. iter' = [iter EXCEPT !.nxt = IF k = Len(devs) THEN 0 ELSE k + 1,
                             !.done = ~devs[k].ok,
                             !.acc = IF devs[k].ok THEN @ \cup {ToInterface(devs[k])} ELSE @]
    BY <1>3 DEF IfNext
  <2>5. iter' = [live |-> TRUE, nxt |-> IF k = Len(devs) THEN 0 ELSE k + 1,
                  done |-> ~devs[k].ok,
                  acc |-> IF devs[k].ok THEN iter.acc \cup {ToInterface(devs[k])} ELSE iter.acc]
    BY <1>0, <1>t, <2>4
  <2>6. devs[k].ok \in BOOLEAN
    BY <2>2 DEF NodeType
  <2>7. iter' \in [live : BOOLEAN, nxt : 0..MaxNodes, done : BOOLEAN, acc : SUBSET Interfaces]
    <3>1. (IF k = Len(devs) THEN 0 ELSE k + 1) \in 0..MaxNodes
      BY <2>1, <2>3, MaxNodesAssumption
    <3>2. (IF devs[k].ok THEN iter.acc \cup {ToInterface(devs[k])} ELSE iter.acc) \in SUBSET Interfaces
      BY <1>t, <2>2
    <3>3. QED
      BY <2>5, <2>6, <3>1, <3>2
  <2>8. TypeOK'
    BY <1>0, <1>u, <1>l, <2>7 DEF TypeOK
  <2>9. CASE devs[k].ok /\ k = Len(devs)
    <3>1. iter'.acc = Collected(devs)
      BY <1>0, <2>1, <2>5, <2>9, PrefixGrows, CollectAll
    <3>2. QED
      BY <1>0, <1>3, <1>u, <2>5, <2>8, <2>9, <3>1 DEF DevicesInv, FindIpCorrect
  <2>10. CASE devs[k].ok /\ k # Len(devs)
    <3>z. k \in Nat \ {0}
      BY <2>1, <2>3
    <3>0. Prefix(devs, k + 1) = Prefix(devs, k) \cup {ToInterface(devs[k])}
      BY <3>z, PrefixGrows
    <3>1. iter'.acc = Prefix(devs, k + 1)
      BY <2>1, <2>5, <2>10, <3>0
    <3>a. iter'.nxt = k + 1 /\ k + 1 \in 1..Len(devs)
      BY <2>1, <2>3, <2>5, <2>10
    <3>b. ~iter'.done
      BY <2>5, <2>10
    <3>c. \A j \in 1..(k + 1) - 1 : devs[j].ok
      <4>1. \A j \in 1..(k + 1) - 1 : j \in 1..k - 1 \/ j = k
        BY <2>1
      <4>2. QED
        BY <4>1, <2>1, <2>10
    <3>2. /\ iter'.nxt = k + 1 /\ k + 1 \in 1..Len(devs) /\ ~iter'.done
          /\ \A j \in 1..(k + 1) - 1 : devs[j].ok
      BY <3>a, <3>b, <3>c
    <3>3. QED
      BY <1>0, <1>3, <1>u, <2>5, <2>8, <3>1, <3>2 DEF DevicesInv, FindIpCorrect
  <2>11. CASE ~devs[k].ok
    <3>1. iter'.acc = Collected(devs) /\ iter'.done
      BY <1>0, <2>1, <2>5, <2>11, CollectStops
    <3>2. QED
      BY <1>0, <1>3, <1>u, <2>5, <2>8, <3>1 DEF DevicesInv, FindIpCorrect
  <2>12. QED
    BY <2>6, <2>9, <2>10, <2>11
<1>4. QED
  BY <1>1, <1>2, <1>3


LEMMA NextDevicesInv ==
  ASSUME DevicesInv, [Next]_vars
  PROVE  DevicesInv'
<1>1. CASE FindAllDevs
  BY <1>1, FindAllDevsStep
<1>2. CASE Iter
  BY <1>2, IterStep
<1>3. CASE IfNext
  BY <1>3, IfNextStep
<1>4. CASE EndIter
  BY <1>4, EndIterStep
<1>5. CASE DropList
  BY <1>5, DropListStep
<1>6. CASE \E n \in Names : FindName(n)
  BY <1>6, FindNameStep
<1>7. CASE \E ip \in IPs : FindIp(ip)
  BY <1>7, FindIpInvStep
<1>8. CASE UNCHANGED vars
  BY <1>8 DEF vars, DevicesInv, TypeOK, FindIpCorrect, Collected, Reached, Prefix
<1>9. QED
  BY <1>1, <1>2, <1>3, <1>4, <1>5, <1>6, <1>7, <1>8 DEF Next

-----------------------------------------------------------------------------
(* DevicesInv holds in every state: the list is freed at most once, and   *)
(* the walk of InterfaceIter and the answers of find_interface_with_ip    *)
(* are right while the PcapIfT is alive.                                  *)
THEOREM DevicesInvHolds == Spec => []DevicesInv
<1>1. Init => DevicesInv
  BY InitDevicesInv
<1>2. DevicesInv /\ [Next]_vars => DevicesInv'
  BY NextDevicesInv
<1>3. QED
  BY <1>1, <1>2, PTL DEF Spec

(* Every state is well typed: the native list, the iterator, the          *)
(* collected Interfaces and the lookups' answers.                         *)
THEOREM DevicesTypeCorrect == Spec => []TypeOK
<1>1. DevicesInv => TypeOK
  BY DEF DevicesInv
<1>2. QED
  BY <1>1, DevicesInvHolds, PTL

(* find_interface_with_ip names a reached node listing the IP, and answers *)
(* None only when none lists it, for every list pcap_findalldevs returns.  *)
THEOREM FindIpCorrectHolds == Spec => []FindIpCorrect
<1>1. DevicesInv => FindIpCorrect
  BY DEF DevicesInv
<1>2. QED
  BY <1>1, DevicesInvHolds, PTL

(* A caller that keeps the PcapIfT alive while it iterates collects, by   *)
(* its own for loop over iter(), exactly what get_interfaces() returns.   *)
THEOREM IterAgreesHolds ==
  ASSUME KeepListAlive
  PROVE  Spec => []IterAgreesWithCollect
<1>1. DevicesInv => IterAgreesWithCollect
  BY DEF DevicesInv, IterAgreesWithCollect
<1>2. QED
  BY <1>1, DevicesInvHolds, PTL


-----------------------------------------------------------------------------
(* What the accessors make of one Address: the families are disjoint, so  *)
(* the variant an Address has decides every is_*, as_* and TryFrom.       *)
LEMMA AccessorsOfAddress ==
  ASSUME NEW a \in Addresses
  PROVE  /\ AsIpv4(a) # {} <=> IsIpv4(a)
         /\ AsIpv6(a) # {} <=> IsIpv6(a)
         /\ AsIp(a) = AsIpv4(a) \cup AsIpv6(a)
         /\ AsIp(a) # {} <=> IsIp(a)
         /\ AsMac(a) # {} <=> IsMac(a)
         /\ TryIp(a) = AsIp(a) /\ TryRefIp(a) = AsIp(a) /\ TryMac(a) = AsMac(a)
         /\ \A v \in AsIp(a) : FromIp(v) = a
<1>1. CASE a \in [kind : {"Ipv4"}, val : V4s]
  BY <1>1 DEF IsIpv4, IsIpv6, IsIp, IsMac, AsIpv4, AsIpv6, AsIp, AsMac, FromIp, TryIp, TryRefIp, TryMac
<1>2. CASE a \in [kind : {"Ipv6"}, val : V6s]
  BY <1>2, FamiliesAssumption DEF IsIpv4, IsIpv6, IsIp, IsMac, AsIpv4, AsIpv6, AsIp, AsMac, FromIp, TryIp, TryRefIp, TryMac
<1>3. CASE a \in [kind : {"Mac"}, val : Macs]
  BY <1>3 DEF IsIpv4, IsIpv6, IsIp, IsMac, AsIpv4, AsIpv6, AsIp, AsMac, FromIp, TryIp, TryRefIp, TryMac
<1>4. QED
  BY <1>1, <1>2, <1>3 DEF Addresses

(* From<IpAddr> then as_ip gives back the IpAddr.                         *)
LEMMA FromIpInverse == \A v \in IPs : AsIp(FromIp(v)) = {v}
BY DEF IPs, FromIp, AsIp

(* try_address_from then the accessors of Interface: a known native       *)
(* address of an IP family gives that IP, of the link layer that MAC.     *)
LEMMA KnownAddress ==
  ASSUME NEW x \in Known
  PROVE  /\ TryRefIp(ToAddress(x)) = IF x \in IPs THEN {x} ELSE {}
         /\ AsMac(ToAddress(x)) = IF x \in Macs THEN {x} ELSE {}
BY FamiliesAssumption DEF Known, IPs, ToAddress, TryRefIp, AsMac

(* On the Interface try_interface_from makes of a node, get_ip_addresses   *)
(* is the node's IP addresses and the MACs are its link-layer addresses,   *)
(* whatever unknown families sit among them.                              *)
LEMMA InterfaceAddresses ==
  ASSUME NEW n
  PROVE  LET native == {n.addrs[k] : k \in DOMAIN n.addrs}
             intf == ToInterface(n)
         IN  /\ IpAddressesOf(intf) = native \cap IPs
             /\ EtherAddressOf(intf) \subseteq native \cap Macs
             /\ (EtherAddressOf(intf) = {}) <=> (native \cap Macs = {})
<1> DEFINE s == n.addrs
           native == {s[k] : k \in DOMAIN s}
           addrs == {ToAddress(s[i]) : i \in {j \in DOMAIN s : s[j] \in Known}}
<1>1. ToInterface(n).addresses = addrs
  BY DEF ToInterface, AddressesOf
<1>2. IpAddressesOf(ToInterface(n)) = native \cap IPs
  <2>1. ASSUME NEW x \in IpAddressesOf(ToInterface(n)) PROVE x \in native \cap IPs
    <3>1. PICK i \in DOMAIN s : s[i] \in Known /\ x \in TryRefIp(ToAddress(s[i]))
      BY <1>1, <2>1 DEF IpAddressesOf
    <3>2. QED
      BY <3>1, KnownAddress
  <2>2. ASSUME NEW x \in native \cap IPs PROVE x \in IpAddressesOf(ToInterface(n))
    <3>1. PICK k \in DOMAIN s : s[k] = x
      BY <2>2
    <3>2. x \in Known /\ ToAddress(x) \in addrs
      BY <2>2, <3>1 DEF Known, IPs
    <3>3. x \in TryRefIp(ToAddress(x))
      BY <2>2, <3>2, KnownAddress
    <3>4. QED
      BY <1>1, <3>2, <3>3 DEF IpAddressesOf
  <2>3. QED
    BY <2>1, <2>2
<1>3. UNION {AsMac(a) : a \in ToInterface(n).addresses} = native \cap Macs
  <2>1. ASSUME NEW x \in UNION {AsMac(a) : a \in ToInterface(n).addresses}
        PROVE  x \in native \cap Macs
    <3>1. PICK i \in DOMAIN s : s[i] \in Known /\ x \in AsMac(ToAddress(s[i]))
      BY <1>1, <2>1
    <3>2. QED
      BY <3>1, KnownAddress
  <2>2. ASSUME NEW x \in native \cap Macs
        PROVE  x \in UNION {AsMac(a) : a \in ToInterface(n).addresses}
    <3>1. PICK k \in DOMAIN s : s[k] = x
      BY <2>2
    <3>2. x \in Known /\ ToAddress(x) \in addrs
      BY <2>2, <3>1 DEF Known
    <3>3. x \in AsMac(ToAddress(x))
      BY <2>2, <3>2, KnownAddress
    <3>4. QED
      BY <1>1, <3>2, <3>3
  <2>3. QED
    BY <2>1, <2>2
<1>4. QED
  BY <1>2, <1>3 DEF EtherAddressOf

(* The Address accessors and conversions agree with each other and with   *)
(* the native addresses in every state, for every set of addresses of the  *)
(* four families and every list pcap_findalldevs returns: the variant      *)
(* tests, the as_* views, the owned and the borrowed TryFrom conversions   *)
(* and From<IpAddr> tell the same address, and get_ip_addresses and        *)
(* get_ether_address see exactly the node's IPs and MACs.                  *)
THEOREM AddressAccessorsAgreeHolds == Spec => []AddressAccessorsAgree
<1>1. AddressAccessorsAgree
  <2>1. ASSUME NEW i \in Reached(devs)
        PROVE  LET native == {devs[i].addrs[k] : k \in DOMAIN devs[i].addrs}
                   intf == ToInterface(devs[i])
               IN  /\ IpAddressesOf(intf) = native \cap IPs
                   /\ EtherAddressOf(intf) \subseteq native \cap Macs
                   /\ (EtherAddressOf(intf) = {}) <=> (native \cap Macs = {})
    BY InterfaceAddresses
  <2>2. QED
    BY <2>1, AccessorsOfAddress, FromIpInverse DEF AddressAccessorsAgree
<1>2. QED
  BY <1>1, PTL

=============================================================================
