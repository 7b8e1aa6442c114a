----------------------------- MODULE PcapSession ----------------------------
(***************************************************************************)
(* The handle model and the capture model composed on one capture session  *)
(* (src/luomu-libpcap/src/lib.rs): Pcap::capture(&self) lends the PcapT   *)
(* to a PcapIter<'p>, every Packet<'p> it yields carries the same borrow,  *)
(* and PcapIter::next polls the very pcap_t whose native state PcapHandle  *)
(* tracks.  libpcap answers a poll on a handle that is not activated with  *)
(* an error other than a timeout, so on such a handle next() can only      *)
(* return None.                                                            *)
(*                                                                         *)
(* One PcapIter is modelled per behaviour (session), on a handle chosen    *)
(* when it starts; the packets it yielded may outlive it, as they do in    *)
(* Rust, since their lifetime 'p is that of &Pcap and not of the iterator. *)
(* Every other operation on the handles is PcapHandle's, unchanged.        *)
(***************************************************************************)
EXTENDS Naturals, FiniteSets

CONSTANTS Handles, Filters, MaxBorrows, MaxPackets, MaxHeld, Disciplined

(* The assumptions of both models; the bound on borrows leaves room for  *)
(* the iterator and every packet the consumer may keep.                    *)
ASSUME SessionBoundsAssumption ==
  /\ Handles # {}
  /\ MaxBorrows \in Nat /\ MaxPackets \in Nat \ {0} /\ MaxHeld \in Nat \ {0}
  /\ MaxBorrows > MaxHeld
  /\ Disciplined \in BOOLEAN

VARIABLES
  native, owners, via, closes, borrows, prog, frees, last,  \* PcapHandle
  pc, buf, delivered, held, ended, broken,                  \* PcapCapture
  session   \* the PcapIter: "none" yet, "live", or "dropped", and its handle

H == INSTANCE PcapHandle
C == INSTANCE PcapCapture

hvars == <<native, owners, via, closes, borrows, prog, frees, last>>
cvars == <<pc, buf, delivered, held, ended, broken>>
vars == <<hvars, cvars, session>>

SessionTypeOK ==
  /\ H!TypeOK
  /\ C!TypeOK
  /\ session \in [state : {"none", "live", "dropped"}, h : Handles]

Init ==
  /\ H!Init
  /\ C!Init
  /\ session = [state |-> "none", h |-> CHOOSE h \in Handles : TRUE]

-----------------------------------------------------------------------------
(* Everything done to a handle that is not the capture: creating,          *)
(* configuring, activating, filtering, inject, stats and the drops.        *)
HandleStep ==
  /\ \/ \E h \in Handles :
          \/ H!New(h) \/ H!Builder(h) \/ H!SetOption(h) \/ H!BuilderActivate(h)
          \/ H!PcapActivate(h) \/ H!Inject(h) \/ H!Stats(h)
          \/ H!DropPcap(h) \/ H!DropBuilder(h)
          \/ \E f \in Filters : H!SetFilter(h, f) \/ H!Compile(h, f) \/ H!Install(h, f)
     \/ \E f \in Filters : H!DropFilter(f)
  /\ UNCHANGED <<cvars, session>>

(* Pcap::capture: PcapIter::new(&self.pcap_t) borrows the PcapT.           *)
StartCapture(h) ==
  /\ session.state = "none"
  /\ H!Capture(h)
  /\ session' = [state |-> "live", h |-> h]
  /\ UNCHANGED cvars

(* The consumer calls next() on the live iterator.                         *)
CallNext ==
  /\ session.state = "live"
  /\ C!CallNext
  /\ UNCHANGED <<hvars, session>>

(* Mutant: the packet does not borrow the PcapT (a Packet<'static> built   *)
(* from the raw buffer pointer).                                           *)
PollPacketUnborrowed ==
  /\ native[session.h] = "active"
  /\ C!PollPacket
  /\ H!Call("next_ex", session.h, TRUE)
  /\ UNCHANGED <<native, owners, via, closes, borrows, prog, frees, session>>

(* pcap_next_ex(&self.pcap_t) gives a packet: libpcap has one only on an   *)
(* activated handle.  The Packet<'p> returned is one more borrow of the    *)
(* PcapT.                                                                  *)
PollPacket ==
  /\ native[session.h] = "active"
  /\ C!PollPacket
  /\ H!Call("next_ex", session.h, TRUE)
  /\ borrows' = [borrows EXCEPT ![session.h] = @ + 1]
  /\ UNCHANGED <<native, owners, via, closes, prog, frees, session>>

(* pcap_next_ex times out (Error::Timeout): only an activated handle       *)
(* waits for packets; the loop polls again.                                *)
PollTimeout ==
  /\ native[session.h] = "active"
  /\ C!PollTimeout
  /\ H!Call("next_ex", session.h, FALSE)
  /\ UNCHANGED <<native, owners, via, closes, borrows, prog, frees, session>>

(* pcap_next_ex fails otherwise, on any open handle: next() returns None.  *)
PollError ==
  /\ C!PollError
  /\ H!Call("next_ex", session.h, FALSE)
  /\ UNCHANGED <<native, owners, via, closes, borrows, prog, frees, session>>

(* Packet::to_owned: the copy is still a Packet<'p>.                       *)
ToOwned(p) ==
  /\ C!ToOwned(p)
  /\ UNCHANGED <<hvars, session>>

(* A packet goes out of scope, and with it its borrow of the PcapT.        *)
DropPacket(p) ==
  /\ C!DropPacket(p)
  /\ H!EndBorrow(session.h)
  /\ UNCHANGED session

(* The PcapIter goes out of scope between two calls of next().             *)
EndCapture ==
  /\ session.state = "live"
  /\ pc = "idle"
  /\ H!EndBorrow(session.h)
  /\ session' = [session EXCEPT !.state = "dropped"]
  /\ UNCHANGED cvars

Next ==
  \/ HandleStep
  \/ \E h \in Handles : StartCapture(h)
  \/ CallNext \/ PollPacket \/ PollTimeout \/ PollError \/ EndCapture
  \/ \E p \in held : ToOwned(p) \/ DropPacket(p)

(* No fairness, as in PcapCapture: only safety is checked.                 *)
Spec == Init /\ [][Next]_vars

-----------------------------------------------------------------------------
(* A packet never outlives its Pcap: while the consumer keeps any          *)
(* Packet<'p>, Borrowed or Owned, the Pcap it was captured from is alive   *)
(* and its pcap_t open, because every packet and the iterator hold a       *)
(* borrow that Pcap's drop waits for.                                      *)
PacketsPinPcap ==
  held # {} => /\ "pcap" \in owners[session.h]
               /\ native[session.h] \in {"created", "active"}

(* The borrow count of the session's PcapT is exactly its live PcapIter   *)
(* and the packets the consumer keeps, through every poll, to_owned, drop *)
(* of a packet and drop of the iterator; other handles have no borrows.   *)
BorrowsAccount ==
  /\ session.state # "none" =>
       borrows[session.h] = Cardinality(held) + (IF session.state = "live" THEN 1 ELSE 0)
  /\ \A h \in Handles : (session.state = "none" \/ h # session.h) => borrows[h] = 0

(* Why the borrow count stays exact, in a form every step keeps: the       *)
(* handle's own invariant, a finite set of kept packets with distinct     *)
(* numbers none above the packets delivered, no packet and no poll before  *)
(* the iterator exists, and a poll only inside next() of the live          *)
(* iterator, with room for its packet.  None of it needs a disciplined     *)
(* consumer.                                                               *)
SessionInv ==
  /\ H!IInv
  /\ C!TypeOK
  /\ \A p \in held : p.id <= delivered
  /\ \A p, q \in held : p.id = q.id => p = q
  /\ session \in [state : {"none", "live", "dropped"}, h : Handles]
  /\ IsFiniteSet(held)
  /\ session.state = "none" => held = {} /\ pc = "idle"
  /\ pc = "polling" => session.state = "live" /\ Cardinality(held) < MaxHeld
  /\ BorrowsAccount

=============================================================================
