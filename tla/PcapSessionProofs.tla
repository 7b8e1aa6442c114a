------------------------- MODULE PcapSessionProofs --------------------------
(***************************************************************************)
(* Proofs about PcapSession for every set of handles and filters and every *)
(* bound: the borrow count of the capture's PcapT is exact, and no kept    *)
(* packet outlives its Pcap.  The handle's and the capture's own inductive *)
(* invariants are reused from PcapHandleProofs and PcapCaptureProofs.      *)
(***************************************************************************)
EXTENDS PcapSession, FiniteSetTheorems, TLAPS

HP == INSTANCE PcapHandleProofs
CP == INSTANCE PcapCaptureProofs

(***************************************************************************)
(* PcapSession uses the models through H and C, the proof modules through  *)
(* HP and CP: the same definitions under the same substitution.            *)
(***************************************************************************)
LEMMA InstanceAssumptions ==
  /\ HP!HandlesAssumption /\ HP!MaxBorrowsAssumption
  /\ CP!MaxPacketsAssumption /\ CP!MaxHeldAssumption /\ CP!DisciplinedAssumption
BY SessionBoundsAssumption DEF HP!HandlesAssumption, HP!MaxBorrowsAssumption,
   CP!MaxPacketsAssumption, CP!MaxHeldAssumption, CP!DisciplinedAssumption

(* C's Cardinality is the one of FiniteSets.                              *)
LEMMA SameCard == \A S : C!Cardinality(S) = Cardinality(S)
BY DEF C!Cardinality, Cardinality

LEMMA SameIInv == H!IInv <=> HP!IInv
BY DEF H!IInv, HP!IInv, H!TypeOK, HP!TypeOK, H!HandleInv, HP!HandleInv, H!FilterInv, HP!FilterInv, H!LastCallInv, HP!LastCallInv, H!NativeStates, HP!NativeStates, H!OwnerKinds, HP!OwnerKinds, H!Calls, HP!Calls, H!Ops, HP!Ops, H!SessionOps, HP!SessionOps

LEMMA SameHInit == H!Init <=> HP!Init
BY DEF H!Init, HP!Init, H!NoCall, HP!NoCall

LEMMA SameHNext == [H!Next]_hvars <=> [HP!Next]_(HP!vars)
BY DEF hvars, H!Next, HP!Next, H!vars, HP!vars, H!New, HP!New, H!Builder, HP!Builder, H!Create, HP!Create, H!SetOption, HP!SetOption, H!BuilderActivate, HP!BuilderActivate, H!PcapActivate, HP!PcapActivate, H!SetFilter, HP!SetFilter, H!Compile, HP!Compile, H!Install, HP!Install, H!DropFilter, HP!DropFilter, H!Capture, HP!Capture, H!IterNext, HP!IterNext, H!EndBorrow, HP!EndBorrow, H!Inject, HP!Inject, H!Stats, HP!Stats, H!DropPcap, HP!DropPcap, H!DropBuilder, HP!DropBuilder, H!Call, HP!Call, H!Close, HP!Close

LEMMA SameCType == C!TypeOK <=> CP!TypeOK
BY DEF C!TypeOK, CP!TypeOK, C!Packets, CP!Packets, C!PacketIds, CP!PacketIds

(* A step that the composition takes on the handles alone is a step of     *)
(* PcapHandle, and none of those steps changes a borrow.                   *)
LEMMA HandleStepFacts ==
  ASSUME HandleStep
  PROVE  [H!Next]_hvars /\ borrows' = borrows
<1>1. [H!Next]_hvars
  BY DEF HandleStep, H!Next
<1>2. borrows' = borrows
  BY DEF HandleStep, H!New, H!Builder, H!Create, H!SetOption, H!BuilderActivate,
         H!PcapActivate, H!Inject, H!Stats, H!DropPcap, H!DropBuilder,
         H!SetFilter, H!Compile, H!Install, H!DropFilter
<1>3. QED
  BY <1>1, <1>2

(* A step of PcapHandle keeps its inductive invariant.                    *)
LEMMA HStepIInv ==
  ASSUME H!IInv, [H!Next]_hvars
  PROVE  H!IInv'
BY SameHNext, InstanceAssumptions, HP!NextIInv
   DEF H!IInv, HP!IInv, H!TypeOK, HP!TypeOK, H!HandleInv, HP!HandleInv, H!FilterInv, HP!FilterInv, H!LastCallInv, HP!LastCallInv, H!NativeStates, HP!NativeStates, H!OwnerKinds, HP!OwnerKinds, H!Calls, HP!Calls, H!Ops, HP!Ops, H!SessionOps, HP!SessionOps

-----------------------------------------------------------------------------
LEMMA InitSessionInv == Init => SessionInv
<1> SUFFICES ASSUME Init PROVE SessionInv
  OBVIOUS
<1>1. H!IInv
  BY SameIInv, SameHInit, InstanceAssumptions, HP!InitIInv DEF Init
<1>2. C!TypeOK
  BY SameCType, InstanceAssumptions, CP!InitCaptureInv DEF Init, C!Init, CP!Init, CP!CaptureInv
<1>3. session \in [state : {"none", "live", "dropped"}, h : Handles]
  BY SessionBoundsAssumption DEF Init
<1>4. \A h \in Handles : borrows[h] = 0
  BY DEF Init, H!Init
<1>5. QED
  BY <1>1, <1>2, <1>3, <1>4, FS_EmptySet DEF Init, C!Init, SessionInv, BorrowsAccount


(* What SessionInv says of the variables' types.                          *)
LEMMA InvTypes ==
  ASSUME SessionInv
  PROVE  /\ borrows \in [Handles -> 0..MaxBorrows]
         /\ session \in [state : {"none", "live", "dropped"}, h : Handles]
         /\ IsFiniteSet(held) /\ Cardinality(held) \in Nat
         /\ delivered \in 0..MaxPackets
         /\ held \subseteq C!Packets
<1>1. H!TypeOK /\ C!TypeOK
  BY DEF SessionInv, H!IInv
<1>2. IsFiniteSet(held)
  BY DEF SessionInv
<1>3. QED
  BY <1>1, <1>2, FS_CardinalityType DEF SessionInv, H!TypeOK, C!TypeOK

-----------------------------------------------------------------------------
(* Creating, configuring, filtering and dropping handles: no borrow and no *)
(* packet changes.                                                         *)
LEMMA HandleStepInv ==
  ASSUME SessionInv, HandleStep
  PROVE  SessionInv'
<1>1. [H!Next]_hvars /\ borrows' = borrows
  BY HandleStepFacts
<1>2. H!IInv'
  BY <1>1, HStepIInv DEF SessionInv
<1>3. UNCHANGED <<cvars, session>>
  BY DEF HandleStep
<1>4. QED
  BY <1>1, <1>2, <1>3 DEF SessionInv, BorrowsAccount, cvars, C!TypeOK, C!Packets, C!PacketIds

(* Pcap::capture: the iterator takes the first borrow of its handle.       *)
LEMMA StartCaptureInv ==
  ASSUME SessionInv, NEW h \in Handles, StartCapture(h)
  PROVE  SessionInv'
<1>1. H!IInv'
  BY HStepIInv DEF SessionInv, StartCapture, H!Next, hvars
<1>2. held = {} /\ pc = "idle" /\ \A g \in Handles : borrows[g] = 0
  BY DEF SessionInv, StartCapture, BorrowsAccount
<1>3. borrows' = [borrows EXCEPT ![h] = 1]
  <2>1. borrows[h] = 0
    BY <1>2
  <2>2. QED
    BY <2>1 DEF StartCapture, H!Capture
<1>4. BorrowsAccount'
  <2>1. held' = {} /\ session' = [state |-> "live", h |-> h]
    BY <1>2 DEF StartCapture, cvars
  <2>2. Cardinality(held') = 0
    BY <2>1, FS_EmptySet
  <2>3. borrows'[h] = 1 /\ \A g \in Handles \ {h} : borrows'[g] = 0
    BY <1>2, <1>3, InvTypes
  <2>4. QED
    BY <2>1, <2>2, <2>3 DEF BorrowsAccount
<1>5. QED
  BY <1>1, <1>2, <1>4 DEF SessionInv, StartCapture, cvars, C!TypeOK, C!Packets, C!PacketIds

(* The PcapIter is dropped between two calls of next(): its borrow ends,  *)
(* the packets' stay.                                                     *)
LEMMA EndCaptureInv ==
  ASSUME SessionInv, EndCapture
  PROVE  SessionInv'
<1>1. H!IInv'
  BY HStepIInv, InvTypes DEF SessionInv, EndCapture, H!Next, hvars
<1>2. borrows' = [borrows EXCEPT ![session.h] = @ - 1]
  BY DEF EndCapture, H!EndBorrow
<1>3. BorrowsAccount'
  <2>1. /\ held' = held /\ session.state = "live"
        /\ session'.h = session.h /\ session'.state = "dropped"
    BY InvTypes DEF EndCapture, cvars
  <2>2. borrows[session.h] = Cardinality(held) + 1
    BY <2>1 DEF SessionInv, BorrowsAccount
  <2>3. \A g \in Handles : g # session.h => borrows[g] = 0
    BY <2>1 DEF SessionInv, BorrowsAccount
  <2>4. /\ borrows'[session.h] = Cardinality(held)
        /\ \A g \in Handles : g # session.h => borrows'[g] = borrows[g]
    BY <1>2, <2>2, InvTypes
  <2>5. Cardinality(held') = Cardinality(held)
    BY <2>1
  <2>6. session'.state # "none" =>
          borrows'[session'.h] = Cardinality(held') + (IF session'.state = "live" THEN 1 ELSE 0)
    BY <2>1, <2>4, <2>5, InvTypes
  <2>7. \A g \in Handles : (session'.state = "none" \/ g # session'.h) => borrows'[g] = 0
    BY <2>1, <2>3, <2>4
  <2>8. QED
    BY <2>6, <2>7 DEF BorrowsAccount
<1>4. QED
  BY <1>1, <1>3 DEF SessionInv, EndCapture, cvars, C!TypeOK, C!Packets, C!PacketIds

(* The consumer calls next(): only the live iterator can be called, and   *)
(* only with room for one more packet.                                    *)
LEMMA CallNextInv ==
  ASSUME SessionInv, CallNext
  PROVE  SessionInv'
<1>1. UNCHANGED <<hvars, session, held, delivered, buf>> /\ pc' = "polling"
  BY DEF CallNext, C!CallNext
<1>2. H!IInv'
  BY <1>1, HStepIInv DEF SessionInv
<1>3. session.state = "live" /\ Cardinality(held) < MaxHeld
  BY SameCard DEF CallNext, C!CallNext
<1>4. QED
  BY <1>1, <1>2, <1>3 DEF SessionInv, CallNext, C!CallNext, BorrowsAccount, hvars,
     C!TypeOK, C!Packets, C!PacketIds


(* A successful poll of an activated handle that already has a borrow,    *)
(* taking one more, keeps the handle's invariant.                         *)
LEMMA PollHandleIInv ==
  ASSUME H!IInv, NEW h \in Handles, borrows[h] > 0, borrows[h] < MaxBorrows,
         native[h] = "active", H!Call("next_ex", h, TRUE),
         borrows' = [borrows EXCEPT ![h] = @ + 1],
         UNCHANGED <<native, owners, via, closes, prog, frees>>
  PROVE  H!IInv'
<1>1. H!TypeOK'
  <2>1. borrows' \in [Handles -> 0..MaxBorrows]
    BY SessionBoundsAssumption DEF H!IInv, H!TypeOK
  <2>2. last' \in H!Calls
    BY DEF H!Call, H!Calls, H!Ops, H!NativeStates, H!IInv, H!TypeOK
  <2>3. QED
    BY <2>1, <2>2 DEF H!IInv, H!TypeOK
<1>2. H!HandleInv'
  BY DEF H!IInv, H!TypeOK, H!HandleInv
<1>3. H!FilterInv'
  BY DEF H!IInv, H!FilterInv
<1>4. H!LastCallInv'
  BY DEF H!IInv, H!Call, H!LastCallInv, H!SessionOps
<1>5. QED
  BY <1>1, <1>2, <1>3, <1>4 DEF H!IInv

(* pcap_next_ex gives a packet: the new Packet<'p> is one more borrow, and *)
(* its number is above every kept packet's.                               *)
LEMMA PollPacketInv ==
  ASSUME SessionInv, PollPacket
  PROVE  SessionInv'
<1> DEFINE fresh == [id |-> delivered + 1, variant |-> "Borrowed",
                     bytes |-> 0, retained |-> FALSE]
<1>1. /\ pc = "polling" /\ session.state = "live" /\ Cardinality(held) < MaxHeld
      /\ delivered < MaxPackets /\ delivered' = delivered + 1
      /\ held' = held \cup {fresh} /\ pc' = "idle" /\ session' = session
      /\ buf' = delivered + 1 /\ UNCHANGED <<ended, broken>>
  BY SameCard DEF PollPacket, C!PollPacket, SessionInv
<1>2. borrows[session.h] = Cardinality(held) + 1
  BY <1>1 DEF SessionInv, BorrowsAccount
<1>3. borrows[session.h] > 0 /\ borrows[session.h] < MaxBorrows
  BY <1>1, <1>2, InvTypes, SessionBoundsAssumption
<1>4. H!IInv'
  BY <1>3, InvTypes, PollHandleIInv DEF SessionInv, PollPacket
<1>5. fresh \notin held
  BY <1>1, InvTypes DEF SessionInv
<1>6. IsFiniteSet(held') /\ Cardinality(held') = Cardinality(held) + 1
  BY <1>1, <1>5, InvTypes, FS_AddElement
<1>7. C!TypeOK'
  <2>1. fresh \in C!Packets
    BY <1>1, InvTypes, SessionBoundsAssumption DEF C!Packets, C!PacketIds
  <2>2. held' \in SUBSET C!Packets
    BY <1>1, <2>1, InvTypes
  <2>3. buf' \in 0..MaxPackets /\ delivered' \in 0..MaxPackets
    BY <1>1, InvTypes, SessionBoundsAssumption
  <2>4. QED
    BY <1>1, <2>2, <2>3 DEF SessionInv, C!TypeOK
<1>8. \A p \in held : p.id \in Nat /\ p.id <= delivered
  BY InvTypes DEF SessionInv, C!Packets, C!PacketIds
<1>9. /\ \A p \in held' : p.id <= delivered'
      /\ \A p, q \in held' : p.id = q.id => p = q
  <2>1. \A p \in held' : p.id <= delivered'
    BY <1>1, <1>8, InvTypes
  <2>2. \A p \in held : p.id # fresh.id
    BY <1>8, InvTypes
  <2>3. QED
    BY <1>1, <2>1, <2>2 DEF SessionInv
<1>10. BorrowsAccount'
  <2>1. borrows' = [borrows EXCEPT ![session.h] = @ + 1]
    BY DEF PollPacket
  <2>2. /\ borrows'[session.h] = Cardinality(held') + 1
        /\ \A g \in Handles : g # session.h => borrows'[g] = borrows[g]
    BY <1>2, <1>6, <2>1, InvTypes
  <2>3. QED
    BY <1>1, <2>2 DEF SessionInv, BorrowsAccount
<1>11. QED
  BY <1>1, <1>4, <1>6, <1>7, <1>9, <1>10, SessionBoundsAssumption DEF SessionInv


(* A poll inside next() that gives no packet is PcapHandle's IterNext on  *)
(* the iterator's handle: the iterator's borrow is there.                 *)
LEMMA PollFailsHandle ==
  ASSUME SessionInv, pc = "polling", H!Call("next_ex", session.h, FALSE),
         UNCHANGED <<native, owners, via, closes, borrows, prog, frees>>
  PROVE  H!IInv'
<1>1. session.state = "live" /\ borrows[session.h] = Cardinality(held) + 1
  BY DEF SessionInv, BorrowsAccount
<1>2. borrows[session.h] > 0
  BY <1>1, InvTypes
<1>3. H!IterNext(session.h)
  BY <1>2 DEF H!IterNext, H!Call
<1>4. QED
  BY <1>3, InvTypes, HStepIInv DEF SessionInv, H!Next, hvars

(* pcap_next_ex times out: next() polls again, and libpcap may take back  *)
(* its buffer.                                                             *)
LEMMA PollTimeoutInv ==
  ASSUME SessionInv, PollTimeout
  PROVE  SessionInv'
<1>1. /\ pc = "polling" /\ buf' \in {buf, 0}
      /\ UNCHANGED <<pc, delivered, held, ended, broken, borrows, session>>
  BY DEF PollTimeout, C!PollTimeout, C!Released
<1>2. H!IInv'
  BY <1>1, PollFailsHandle DEF PollTimeout
<1>3. C!TypeOK'
  BY <1>1, SessionBoundsAssumption DEF SessionInv, C!TypeOK
<1>4. QED
  BY <1>1, <1>2, <1>3 DEF SessionInv, BorrowsAccount

(* pcap_next_ex fails otherwise: next() returns None and keeps nothing.   *)
LEMMA PollErrorInv ==
  ASSUME SessionInv, PollError
  PROVE  SessionInv'
<1>1. /\ pc = "polling" /\ pc' = "idle" /\ buf' \in {buf, 0}
      /\ ended' = TRUE /\ broken' \in BOOLEAN
      /\ UNCHANGED <<delivered, held, borrows, session>>
  BY InvTypes DEF PollError, C!PollError, C!Released, SessionInv, C!TypeOK
<1>2. H!IInv'
  BY <1>1, PollFailsHandle DEF PollError
<1>3. C!TypeOK'
  BY <1>1, SessionBoundsAssumption DEF SessionInv, C!TypeOK
<1>4. session.state = "live"
  BY <1>1 DEF SessionInv
<1>5. QED
  BY <1>1, <1>2, <1>3, <1>4 DEF SessionInv, BorrowsAccount


(* Packet::to_owned replaces a kept packet by a copy with the same number: *)
(* as many packets are kept as before, and so as many borrows.            *)
LEMMA ToOwnedInv ==
  ASSUME SessionInv, NEW p \in held, ToOwned(p)
  PROVE  SessionInv'
<1> DEFINE cp == C!OwnedCopy(p)
<1>1. /\ held' = (held \ {p}) \cup {cp}
      /\ UNCHANGED <<pc, buf, delivered, ended, broken, hvars, session>>
  BY DEF ToOwned, C!ToOwned
<1>2. p \in C!Packets /\ cp.id = p.id
  BY InvTypes DEF C!OwnedCopy
<1>3. cp \in C!Packets
  BY <1>2, InvTypes DEF C!OwnedCopy, C!View, C!Packets, SessionInv, C!TypeOK
<1>4. cp \notin held \ {p}
  BY <1>2 DEF SessionInv
<1>5. /\ IsFiniteSet(held \ {p}) /\ Cardinality(held \ {p}) = Cardinality(held) - 1
  BY InvTypes, FS_RemoveElement
<1>6. /\ IsFiniteSet(held') /\ Cardinality(held') = Cardinality(held)
  BY <1>1, <1>4, <1>5, InvTypes, FS_AddElement
<1>7. H!IInv'
  BY <1>1, InvTypes, HStepIInv DEF SessionInv
<1>8. C!TypeOK'
  BY <1>1, <1>3, InvTypes DEF SessionInv, C!TypeOK
<1>9. /\ \A q \in held' : q.id <= delivered'
      /\ \A q, r \in held' : q.id = r.id => q = r
  BY <1>1, <1>2 DEF SessionInv
<1>10. QED
  BY <1>1, <1>6, <1>7, <1>8, <1>9, p \in held DEF SessionInv, BorrowsAccount, hvars

(* A kept packet goes out of scope and gives back its borrow.             *)
LEMMA DropPacketInv ==
  ASSUME SessionInv, NEW p \in held, DropPacket(p)
  PROVE  SessionInv'
<1>1. /\ held' = held \ {p}
      /\ UNCHANGED <<pc, buf, delivered, ended, broken, session>>
      /\ borrows' = [borrows EXCEPT ![session.h] = @ - 1]
  BY DEF DropPacket, C!DropPacket, H!EndBorrow
<1>2. /\ IsFiniteSet(held') /\ Cardinality(held') = Cardinality(held) - 1
  BY <1>1, InvTypes, FS_RemoveElement
<1>3. H!IInv'
  BY InvTypes, HStepIInv DEF SessionInv, DropPacket, H!Next, hvars
<1>4. session.state # "none"
  BY DEF SessionInv
<1>5. C!TypeOK'
  BY <1>1 DEF SessionInv, C!TypeOK
<1>6. BorrowsAccount'
  <2>1. borrows[session.h] = Cardinality(held) + (IF session.state = "live" THEN 1 ELSE 0)
    BY <1>4 DEF SessionInv, BorrowsAccount
  <2>2. /\ borrows'[session.h] = Cardinality(held') + (IF session.state = "live" THEN 1 ELSE 0)
        /\ \A g \in Handles : g # session.h => borrows'[g] = borrows[g]
    BY <1>1, <1>2, <2>1, InvTypes
  <2>3. QED
    BY <1>1, <1>4, <2>2 DEF SessionInv, BorrowsAccount
<1>7. pc = "polling" => Cardinality(held') < MaxHeld
  BY <1>2, InvTypes, SessionBoundsAssumption DEF SessionInv
<1>8. QED
  BY <1>1, <1>2, <1>3, <1>4, <1>5, <1>6, <1>7 DEF SessionInv


-----------------------------------------------------------------------------
(* Every step of the composition keeps SessionInv, one action at a time.   *)
LEMMA NextSessionInv == SessionInv /\ [Next]_vars => SessionInv'
<1> SUFFICES ASSUME SessionInv, [Next]_vars PROVE SessionInv'
  OBVIOUS
<1>1. CASE HandleStep
  BY <1>1, HandleStepInv
<1>2. ASSUME NEW h \in Handles, StartCapture(h) PROVE SessionInv'
  BY <1>2, StartCaptureInv
<1>3. CASE CallNext
  BY <1>3, CallNextInv
<1>4. CASE PollPacket
  BY <1>4, PollPacketInv
<1>5. CASE PollTimeout
  BY <1>5, PollTimeoutInv
<1>6. CASE PollError
  BY <1>6, PollErrorInv
<1>7. CASE EndCapture
  BY <1>7, EndCaptureInv
<1>8. ASSUME NEW p \in held, ToOwned(p) PROVE SessionInv'
  BY <1>8, ToOwnedInv
<1>9. ASSUME NEW p \in held, DropPacket(p) PROVE SessionInv'
  BY <1>9, DropPacketInv
<1>10. CASE UNCHANGED vars
  <2>1. H!IInv'
    BY <1>10, HStepIInv DEF SessionInv, vars
  <2>2. QED
    BY <1>10, <2>1 DEF SessionInv, BorrowsAccount, vars, hvars, cvars, C!TypeOK, C!Packets, C!PacketIds
<1>11. QED
  BY <1>1, <1>2, <1>3, <1>4, <1>5, <1>6, <1>7, <1>8, <1>9, <1>10 DEF Next

(* The borrow count of the capture's PcapT is exact in every reachable     *)
(* state, for every set of handles and every bound, whatever the consumer  *)
(* does with the packets: Pcap::capture, PcapIter::next, Packet::to_owned  *)
(* and the drops of packets and of the iterator each keep it.             *)
THEOREM SessionInvHolds == Spec => []SessionInv
BY InitSessionInv, NextSessionInv, PTL DEF Spec

(* BorrowsAccount, checked by the session run, holds for every instance.   *)
THEOREM BorrowsAccountHolds == Spec => []BorrowsAccount
<1>1. SessionInv => BorrowsAccount
  BY DEF SessionInv
<1>2. QED
  BY <1>1, SessionInvHolds, PTL

(* The composition is well typed for every instance.                      *)
THEOREM SessionTypeCorrect == Spec => []SessionTypeOK
<1>1. SessionInv => SessionTypeOK
  BY DEF SessionInv, SessionTypeOK, H!IInv
<1>2. QED
  BY <1>1, SessionInvHolds, PTL

(* No kept packet outlives its Pcap, for every instance: a Packet<'p>,     *)
(* Borrowed or Owned, is a borrow of the PcapT, and PcapHandle's invariant *)
(* says a borrowed handle is owned by a live Pcap and open.                *)
THEOREM PacketsPinPcapHolds == Spec => []PacketsPinPcap
<1>1. SessionInv => PacketsPinPcap
  <2> SUFFICES ASSUME SessionInv, held # {}
               PROVE  /\ "pcap" \in owners[session.h]
                      /\ native[session.h] \in {"created", "active"}
    BY DEF PacketsPinPcap
  <2>1. Cardinality(held) > 0
    BY InvTypes, FS_EmptySet
  <2>2. session.state # "none"
    BY DEF SessionInv
  <2>3. borrows[session.h] > 0
    BY <2>1, <2>2, InvTypes DEF SessionInv, BorrowsAccount
  <2>4. QED
    BY <2>3, InvTypes DEF SessionInv, H!IInv, H!HandleInv
<1>2. QED
  BY <1>1, SessionInvHolds, PTL


-----------------------------------------------------------------------------
(***************************************************************************)
(* The composition refines the capture model: every step of PcapSession    *)
(* is a step of PcapCapture on the capture's variables or leaves them      *)
(* alone.  The capture's invariant and its refinement of PacketStream then *)
(* carry over from PcapCaptureProofs to the whole session.                 *)
(***************************************************************************)
LEMMA SameCNext == [C!Next]_cvars <=> [CP!Next]_(CP!vars)
BY DEF cvars, C!Next, CP!Next, C!vars, CP!vars, C!CallNext, CP!CallNext,
       C!PollPacket, CP!PollPacket, C!PollTimeout, CP!PollTimeout,
       C!PollError, CP!PollError, C!Released, CP!Released, C!ToOwned, CP!ToOwned,
       C!OwnedCopy, CP!OwnedCopy, C!View, CP!View, C!DropPacket, CP!DropPacket,
       C!Cardinality, CP!Cardinality, Cardinality

LEMMA SameCaptureInv == C!CaptureInv <=> CP!CaptureInv
BY DEF C!CaptureInv, CP!CaptureInv, C!TypeOK, CP!TypeOK, C!Packets, CP!Packets,
       C!PacketIds, CP!PacketIds

LEMMA SameStreamStep ==
  [CP!Stream!Next]_(CP!Stream!svars) <=> [C!Stream!Next]_(C!Stream!svars)
BY DEF CP!Stream!Next, C!Stream!Next, CP!Stream!svars, C!Stream!svars,
       CP!Stream!Request, C!Stream!Request, CP!Stream!Yield, C!Stream!Yield,
       CP!Stream!Fail, C!Stream!Fail, CP!Stream!Release, C!Stream!Release,
       CP!Kept, C!Kept, CP!View, C!View

(* Each action of the session is the capture's action of the same name on *)
(* the capture's variables, or leaves them unchanged.                     *)
LEMMA SessionStepCapture == [Next]_vars => [C!Next]_cvars
<1> SUFFICES ASSUME [Next]_vars PROVE [C!Next]_cvars
  OBVIOUS
<1>1. CASE HandleStep \/ (\E h \in Handles : StartCapture(h)) \/ EndCapture
  BY <1>1 DEF HandleStep, StartCapture, EndCapture
<1>2. CASE CallNext \/ PollPacket \/ PollTimeout \/ PollError
  BY <1>2 DEF CallNext, PollPacket, PollTimeout, PollError, C!Next
<1>3. ASSUME NEW p \in held, ToOwned(p) \/ DropPacket(p) PROVE [C!Next]_cvars
  BY <1>3 DEF ToOwned, DropPacket, C!Next
<1>4. CASE UNCHANGED vars
  BY <1>4 DEF vars, cvars
<1>5. QED
  BY <1>1, <1>2, <1>3, <1>4 DEF Next

(* The session's behaviours, seen on the capture's variables, are          *)
(* behaviours of the safety part of PcapCapture, for every consumer.       *)
THEOREM SessionRefinesCapture == Spec => C!Init /\ [][C!Next]_cvars
<1>1. Init => C!Init
  BY DEF Init
<1>2. QED
  BY <1>1, SessionStepCapture, PTL DEF Spec

(* With a consumer that calls to_owned before next(), the capture's        *)
(* inductive invariant holds in every state of the session.               *)
THEOREM SessionCaptureInv ==
  ASSUME Disciplined
  PROVE  Spec => []C!CaptureInv
<1>1. Init => CP!CaptureInv
  BY InstanceAssumptions, CP!InitCaptureInv DEF Init, C!Init, CP!Init
<1>2. CP!CaptureInv /\ [Next]_vars => CP!CaptureInv'
  BY SessionStepCapture, SameCNext, InstanceAssumptions, CP!NextCaptureInv
<1>3. QED
  BY <1>1, <1>2, SameCaptureInv, PTL DEF Spec

(* Packet integrity in the composed system: a consumer that converts with *)
(* to_owned before next() only ever holds packets showing the bytes        *)
(* libpcap delivered for them, while next() polls a handle shared with     *)
(* inject, stats and set_filter.                                          *)
THEOREM SessionPacketIntegrity ==
  ASSUME Disciplined
  PROVE  Spec => []C!PacketIntegrity
<1>1. CP!CaptureInv => C!PacketIntegrity
  BY InstanceAssumptions, CP!HeldFacts DEF CP!CaptureInv, C!PacketIntegrity, C!View
<1>2. QED
  BY <1>1, SessionCaptureInv, SameCaptureInv, PTL

(* With a consumer that calls to_owned before next(), the session        *)
(* implements PacketStream's safety under PcapCapture's mapping; every    *)
(* step of next(), to_owned and the drops is a stream step, and every     *)
(* handle operation is invisible to the stream.                           *)
THEOREM SessionStreamRefinement ==
  ASSUME Disciplined
  PROVE  Spec => C!Stream!SafetySpec
<1>1. Init => C!Stream!Init
  BY DEF Init, C!Init, C!Stream!Init, C!Kept
<1>2. CP!CaptureInv /\ [Next]_vars => [C!Stream!Next]_(C!Stream!svars)
  BY SessionStepCapture, SameCNext, SameStreamStep, InstanceAssumptions, CP!StepRefines
<1>3. QED
  BY <1>1, <1>2, SessionCaptureInv, SameCaptureInv, PTL DEF Spec, C!Stream!SafetySpec

=============================================================================
