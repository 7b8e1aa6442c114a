------------------------- MODULE PcapCaptureProofs -------------------------
(***************************************************************************)
(* Proofs about PcapCapture for every MaxPackets and MaxHeld: the          *)
(* inductive invariant CaptureInv for a consumer that calls to_owned       *)
(* before next(), the packet integrity it implies, and the refinement of   *)
(* the safety part of PacketStream under the mapping of PcapCapture.       *)
(***************************************************************************)
EXTENDS PcapCapture, TLAPS

(* A fresh Borrowed packet and an Owned copy are Packet values.           *)
LEMMA FreshPacketType ==
  ASSUME TypeOK, delivered < MaxPackets
  PROVE  [id |-> delivered + 1, variant |-> "Borrowed", bytes |-> 0,
          retained |-> FALSE] \in Packets
BY MaxPacketsAssumption DEF TypeOK, Packets, PacketIds

(* The fields of a Packet value, and of a held packet.                    *)
LEMMA PacketFields ==
  ASSUME NEW p \in Packets
  PROVE  /\ p.id \in 1..MaxPackets
         /\ p.variant \in {"Borrowed", "Owned"}
         /\ p.bytes \in 0..MaxPackets
         /\ p.retained \in BOOLEAN
BY DEF Packets, PacketIds

LEMMA HeldFacts ==
  ASSUME TypeOK, NEW p \in held
  PROVE  /\ p.id \in 1..MaxPackets
         /\ p.variant \in {"Borrowed", "Owned"}
         /\ p.bytes \in 0..MaxPackets
         /\ p.retained \in BOOLEAN
BY PacketFields DEF TypeOK

LEMMA OwnedCopyType ==
  ASSUME TypeOK, NEW p \in held
  PROVE  OwnedCopy(p) \in Packets
BY DEF TypeOK, Packets, PacketIds, OwnedCopy, View

LEMMA InitCaptureInv == Init => CaptureInv
<1> SUFFICES ASSUME Init PROVE CaptureInv
  OBVIOUS
<1>1. TypeOK
  <2>1. buf \in 0..MaxPackets /\ delivered \in 0..MaxPackets
    BY MaxPacketsAssumption DEF Init
  <2>2. held \in SUBSET Packets
    BY DEF Init
  <2>3. QED
    BY <2>1, <2>2 DEF Init, TypeOK
<1>2. held = {}
  BY DEF Init
<1>3. QED
  BY <1>1, <1>2 DEF CaptureInv

(* Every step preserves CaptureInv; only CallNext needs the discipline.   *)
LEMMA NextCaptureInv ==
  ASSUME Disciplined, CaptureInv, [Next]_vars
  PROVE  CaptureInv'
<1> USE MaxPacketsAssumption DEF CaptureInv
<1>0. \A p \in held : /\ p.id \in 1..MaxPackets
                      /\ p.variant \in {"Borrowed", "Owned"}
  BY HeldFacts
<1>1. CASE CallNext
  <2>1. /\ pc' = "polling"
        /\ UNCHANGED <<buf, delivered, held, ended, broken>>
    BY <1>1 DEF CallNext
  <2>2. \A p \in held : p.retained
    BY <1>1 DEF CallNext
  <2>3. \A p \in held : p.variant = "Owned"
    BY <2>2
  <2>4. TypeOK'
    BY <2>1 DEF TypeOK
  <2>5. QED
    BY <2>1, <2>3, <2>4
<1>2. CASE PollPacket
  <2> DEFINE np == [id |-> delivered + 1, variant |-> "Borrowed", bytes |-> 0,
                    retained |-> FALSE]
  <2>1. held' = held \cup {np}
    BY <1>2 DEF PollPacket
  <2>2. /\ delivered' = delivered + 1 /\ buf' = delivered + 1
        /\ pc' = "idle" /\ delivered < MaxPackets
        /\ UNCHANGED <<ended, broken>>
    BY <1>2 DEF PollPacket
  <2>3. np \in Packets
    BY <2>2, FreshPacketType
  <2>4. \A p \in held : p.variant = "Owned"
    BY <1>0, <1>2 DEF PollPacket
  <2>5. TypeOK'
    <3>1. held' \in SUBSET Packets
      BY <2>1, <2>3 DEF TypeOK
    <3>2. buf' \in 0..MaxPackets /\ delivered' \in 0..MaxPackets
      BY <2>2 DEF TypeOK
    <3>3. QED
      BY <2>2, <3>1, <3>2 DEF TypeOK
  <2>6. \A p \in held : p.id # np.id /\ p.id <= delivered'
    BY <1>0, <2>2 DEF TypeOK
  <2>7. \A p \in held' : p.id <= delivered'
    BY <2>1, <2>2, <2>6
  <2>10. \A p, q \in held' : p.id = q.id => p = q
    BY <2>1, <2>6
  <2>8. \A p \in held' : /\ p.retained <=> p.variant = "Owned"
                         /\ p.variant = "Owned" => p.bytes = p.id
                         /\ p.variant = "Borrowed" => p.id = buf' /\ pc' = "idle"
    BY <2>1, <2>2, <2>4
  <2>9. QED
    BY <2>5, <2>7, <2>8, <2>10
<1>3. CASE PollTimeout
  <2>1. \A p \in held : p.variant = "Owned"
    BY <1>0, <1>3 DEF PollTimeout
  <2>2. TypeOK'
    BY <1>3 DEF PollTimeout, Released, TypeOK
  <2>3. QED
    BY <1>3, <2>1, <2>2 DEF PollTimeout
<1>4. CASE PollError
  <2>1. \A p \in held : p.variant = "Owned"
    BY <1>0, <1>4 DEF PollError
  <2>2. broken' \in BOOLEAN
    BY <1>4 DEF PollError
  <2>4. buf' \in 0..MaxPackets
    BY <1>4 DEF PollError, Released, TypeOK
  <2>5. TypeOK'
    BY <1>4, <2>2, <2>4 DEF PollError, TypeOK
  <2>3. QED
    BY <1>4, <2>1, <2>5 DEF PollError
<1>5. ASSUME NEW p \in held, ToOwned(p)
      PROVE  CaptureInv'
  <2>1. OwnedCopy(p) \in Packets
    BY OwnedCopyType
  <2>2. View(p) = p.id
    BY <1>0 DEF View
  <2>3. /\ held' = (held \ {p}) \cup {OwnedCopy(p)}
        /\ UNCHANGED <<pc, buf, delivered, ended, broken>>
    BY <1>5 DEF ToOwned
  <2>4. /\ OwnedCopy(p).id = p.id /\ OwnedCopy(p).variant = "Owned"
        /\ OwnedCopy(p).bytes = p.id /\ OwnedCopy(p).retained
    BY <2>2 DEF OwnedCopy
  <2>5. TypeOK'
    BY <2>1, <2>3 DEF TypeOK
  <2>6. \A q \in held' : q.id <= delivered'
    BY <2>3, <2>4
  <2>7. \A q, r \in held' : q.id = r.id => q = r
    BY <2>3, <2>4
  <2>8. \A q \in held' : /\ q.retained <=> q.variant = "Owned"
                         /\ q.variant = "Owned" => q.bytes = q.id
                         /\ q.variant = "Borrowed" => q.id = buf' /\ pc' = "idle"
    BY <2>3, <2>4
  <2>9. QED
    BY <2>5, <2>6, <2>7, <2>8
<1>6. ASSUME NEW p \in held, DropPacket(p)
      PROVE  CaptureInv'
  <2>1. /\ held' = held \ {p}
        /\ UNCHANGED <<pc, buf, delivered, ended, broken>>
    BY <1>6 DEF DropPacket
  <2>2. TypeOK'
    BY <2>1 DEF TypeOK
  <2>3. QED
    BY <2>1, <2>2
<1>7. CASE UNCHANGED vars
  BY <1>7 DEF vars, TypeOK
<1>8. QED
  BY <1>1, <1>2, <1>3, <1>4, <1>5, <1>6, <1>7 DEF Next

(* For a disciplined consumer CaptureInv holds in every reachable state.  *)
THEOREM CaptureInvHolds ==
  ASSUME Disciplined
  PROVE  Spec => []CaptureInv
BY InitCaptureInv, NextCaptureInv, PTL DEF Spec

(* Packet integrity (spec 3, 4.4): a consumer that converts with to_owned *)
(* before calling PcapIter::next() again only ever holds packets that    *)
(* show the bytes libpcap delivered for them, through any number of later *)
(* polls, timeouts and errors that reuse libpcap's buffer.                *)
THEOREM PacketIntegrityHolds ==
  ASSUME Disciplined
  PROVE  Spec => []PacketIntegrity
<1>1. CaptureInv => PacketIntegrity
  BY HeldFacts DEF CaptureInv, PacketIntegrity, View
<1>2. QED
  BY <1>1, CaptureInvHolds, PTL

-----------------------------------------------------------------------------
(* The packets a set of held packets stands for, each showing its own     *)
(* bytes.                                                                 *)
Recs(H) == {[id |-> p.id, bytes |-> p.id] : p \in H}

(* When every Owned packet of H keeps its own bytes and every Borrowed    *)
(* one is the packet in buffer b, the records of H as deref shows them    *)
(* are Recs(H).                                                           *)
LEMMA ViewRecs ==
  ASSUME NEW H \in SUBSET Packets, NEW b,
         \A p \in H : p.variant = "Owned" => p.bytes = p.id,
         \A p \in H : p.variant = "Borrowed" => p.id = b
  PROVE  {[id |-> p.id, bytes |-> IF p.variant = "Borrowed" THEN b ELSE p.bytes]
            : p \in H} = Recs(H)
<1>1. \A p \in H : (IF p.variant = "Borrowed" THEN b ELSE p.bytes) = p.id
  BY PacketFields
<1>2. QED
  BY <1>1 DEF Recs

(* Every step of PcapCapture is a step of PacketStream or leaves the      *)
(* mapped state alone.                                                    *)
LEMMA StepRefines ==
  ASSUME Disciplined, CaptureInv, [Next]_vars
  PROVE  [Stream!Next]_Stream!svars
<1>0. CaptureInv'
  BY NextCaptureInv
<1>1. Kept = Recs(held)
  BY ViewRecs DEF Kept, View, CaptureInv, TypeOK
<1>2. Kept' = Recs(held')
  BY <1>0, ViewRecs DEF Kept, View, CaptureInv, TypeOK
<1> USE <1>1, <1>2 DEF Stream!Next, Stream!svars
<1>3. CASE CallNext
  BY <1>3 DEF CallNext, Stream!Request
<1>4. CASE PollPacket
  <2> DEFINE np == [id |-> delivered + 1, variant |-> "Borrowed", bytes |-> 0,
                    retained |-> FALSE]
  <2>1. held' = held \cup {np}
    BY <1>4 DEF PollPacket
  <2>2. Recs(held \cup {np}) = Recs(held) \cup {[id |-> np.id, bytes |-> np.id]}
    BY DEF Recs
  <2>3. Recs(held') = Recs(held) \cup {[id |-> delivered + 1, bytes |-> delivered + 1]}
    BY <2>1, <2>2
  <2>4. QED
    BY <1>4, <2>3 DEF PollPacket, Stream!Yield
<1>5. CASE PollTimeout
  BY <1>5 DEF PollTimeout
<1>6. CASE PollError
  BY <1>6 DEF PollError, Stream!Fail
<1>7. ASSUME NEW p \in held, ToOwned(p)
      PROVE  [Stream!Next]_Stream!svars
  <2>1. OwnedCopy(p).id = p.id
    BY DEF OwnedCopy
  <2>2. Recs(held') = Recs(held)
    BY <1>7, <2>1 DEF ToOwned, Recs
  <2>3. QED
    BY <1>7, <2>2 DEF ToOwned
<1>8. ASSUME NEW p \in held, DropPacket(p)
      PROVE  [Stream!Next]_Stream!svars
  <2> DEFINE k == [id |-> p.id, bytes |-> p.id]
  <2>1. k \in Recs(held)
    BY DEF Recs
  <2>2. \A q \in held : q.id = p.id => q = p
    BY DEF CaptureInv
  <2>3. Recs(held') = Recs(held) \ {k}
    BY <1>8, <2>2 DEF DropPacket, Recs
  <2>4. Stream!Release(k)
    BY <1>8, <2>1, <2>3 DEF DropPacket, Stream!Release
  <2>5. QED
    BY <2>1, <2>4
<1>9. CASE UNCHANGED vars
  BY <1>9 DEF vars
<1>10. QED
  BY <1>3, <1>4, <1>5, <1>6, <1>7, <1>8, <1>9 DEF Next

(* ImplementsStream: PcapIter, driven by a consumer that calls to_owned  *)
(* before next(), implements the safety part of the packet stream: its    *)
(* initial state is one of the stream's, and every poll, timeout, error,  *)
(* to_owned and drop is a step of the stream or invisible to it.          *)
THEOREM StreamRefinement ==
  ASSUME Disciplined
  PROVE  Spec => ImplementsStream
<1>1. Init => Stream!Init
  BY DEF Init, Stream!Init, Kept
<1>2. CaptureInv /\ [Next]_vars => [Stream!Next]_Stream!svars
  BY StepRefines
<1>3. QED
  BY <1>1, <1>2, CaptureInvHolds, PTL DEF Spec, ImplementsStream, Stream!SafetySpec


-----------------------------------------------------------------------------
(* Every step keeps the types, whatever the consumer does: a new packet is *)
(* numbered within MaxPackets, a to_owned copy holds bytes the buffer or   *)
(* the packet had, and libpcap only ever hands back the buffer.           *)
LEMMA TypeNext ==
  ASSUME TypeOK, [Next]_vars
  PROVE  TypeOK'
<1> USE MaxPacketsAssumption
<1>1. CASE CallNext
  BY <1>1 DEF CallNext, TypeOK
<1>2. CASE PollPacket
  <2>1. delivered < MaxPackets /\ delivered' = delivered + 1 /\ buf' = delivered + 1
    BY <1>2 DEF PollPacket
  <2>2. held' \in SUBSET Packets
    BY <1>2, <2>1, FreshPacketType DEF PollPacket, TypeOK
  <2>3. QED
    BY <1>2, <2>1, <2>2 DEF PollPacket, TypeOK
<1>3. CASE PollTimeout
  BY <1>3 DEF PollTimeout, Released, TypeOK
<1>4. CASE PollError
  <2>1. broken' \in BOOLEAN
    BY <1>4 DEF PollError, TypeOK
  <2>2. QED
    BY <1>4, <2>1 DEF PollError, Released, TypeOK
<1>5. ASSUME NEW p \in held, ToOwned(p) PROVE TypeOK'
  BY <1>5, OwnedCopyType DEF ToOwned, TypeOK
<1>6. ASSUME NEW p \in held, DropPacket(p) PROVE TypeOK'
  BY <1>6 DEF DropPacket, TypeOK
<1>7. CASE UNCHANGED vars
  BY <1>7 DEF vars, TypeOK
<1>8. QED
  BY <1>1, <1>2, <1>3, <1>4, <1>5, <1>6, <1>7 DEF Next

(* The capture is well typed in every reachable state, for every          *)
(* MaxPackets and MaxHeld and for a consumer that keeps Borrowed packets   *)
(* across next() as well as for one that converts them first.             *)
THEOREM CaptureTypeCorrect == Spec => []TypeOK
<1>1. Init => TypeOK
  BY InitCaptureInv DEF CaptureInv
<1>2. QED
  BY <1>1, TypeNext, PTL DEF Spec

=============================================================================
