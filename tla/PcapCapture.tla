----------------------------- MODULE PcapCapture ----------------------------
(***************************************************************************)
(* One capture session seen through PcapIter and Packet                   *)
(* (src/luomu-libpcap/src/lib.rs): the iterator's retry loop around        *)
(* pcap_next_ex, the packet buffer libpcap owns and overwrites on the next *)
(* poll, the Borrowed packets that view that buffer, and the Owned copies  *)
(* made by to_owned.                                                       *)
(*                                                                         *)
(* Data is abstracted to packet numbers: the n-th packet libpcap delivers  *)
(* has bytes n, and the buffer holds the number of the packet written into *)
(* it last, or 0 once libpcap has released it for reuse.  A Borrowed       *)
(* packet reads the buffer as it is now; an Owned packet reads its copy.   *)
(*                                                                         *)
(* The consumer keeps the packets it was given in held.  With Disciplined  *)
(* it follows the rule of the spec (4.4): packets it has not converted     *)
(* with to_owned are dropped before it calls next() again.  Without it,    *)
(* it does whatever the type system lets it do.                            *)
(***************************************************************************)
EXTENDS Naturals, FiniteSets

CONSTANTS
  MaxPackets,   \* packets libpcap delivers in a behaviour
  MaxHeld,      \* packets the consumer keeps at once
  Disciplined   \* whether the consumer converts before advancing

ASSUME MaxPacketsAssumption == MaxPackets \in Nat \ {0}
ASSUME MaxHeldAssumption == MaxHeld \in Nat \ {0}
ASSUME DisciplinedAssumption == Disciplined \in BOOLEAN

VARIABLES
  pc,         \* "idle" between calls of next(), "polling" inside its loop
  buf,        \* contents of libpcap's packet buffer (0: released)
  delivered,  \* packets libpcap has delivered so far
  held,       \* packets the consumer keeps
  ended,      \* the consumer has been given None
  broken      \* libpcap's error is persistent (device gone)

vars == <<pc, buf, delivered, held, ended, broken>>

PacketIds == 1..MaxPackets

(* A Packet value: the packet it came from, its variant, the bytes of an  *)
(* Owned copy, and whether the consumer got it from to_owned.             *)
Packets == [id : PacketIds, variant : {"Borrowed", "Owned"},
            bytes : 0..MaxPackets, retained : BOOLEAN]

(* Packet::deref / to_vec: the bytes a packet shows now.                  *)
View(p) == IF p.variant = "Borrowed" THEN buf ELSE p.bytes

(***************************************************************************)
(* Mutants: plausible bugs in the code below, each the body of a mapped    *)
(* definition with one change.  They are not part of Next.                 *)
(***************************************************************************)

(* to_owned clones the Rc of a Borrowed packet instead of copying bytes.  *)
OwnedCopyAliases(p) == [id |-> p.id, variant |-> p.variant, bytes |-> p.bytes,
                        retained |-> TRUE]

(* An off-by-one in the count of delivered packets.                       *)
PollPacketPastEnd ==
  /\ pc = "polling"
  /\ ~broken
  /\ delivered <= MaxPackets
  /\ delivered' = delivered + 1
  /\ buf' = delivered + 1
  /\ held' = held \cup {[id |-> delivered + 1, variant |-> "Borrowed",
                         bytes |-> 0, retained |-> FALSE]}
  /\ pc' = "idle"
  /\ UNCHANGED <<ended, broken>>

(* Packet::to_owned: Packet::Owned(self.to_vec()).                        *)
OwnedCopy(p) == [id |-> p.id, variant |-> "Owned", bytes |-> View(p),
                 retained |-> TRUE]

TypeOK ==
  /\ pc \in {"idle", "polling"}
  /\ buf \in 0..MaxPackets
  /\ delivered \in 0..MaxPackets
  /\ held \in SUBSET Packets
  /\ ended \in BOOLEAN
  /\ broken \in BOOLEAN

Init ==
  /\ pc = "idle"
  /\ buf = 0
  /\ delivered = 0
  /\ held = {}
  /\ ended = FALSE
  /\ broken = FALSE

-----------------------------------------------------------------------------
(* What libpcap may do with the buffer of the previous packet when it     *)
(* returns no new one: keep it or hand it back to the kernel.             *)
Released == {buf, 0}

(* The consumer calls PcapIter::next().                                   *)
CallNext ==
  /\ pc = "idle"
  /\ Cardinality(held) < MaxHeld
  /\ Disciplined => \A p \in held : p.retained
  /\ pc' = "polling"
  /\ UNCHANGED <<buf, delivered, held, ended, broken>>

(* pcap_next_ex returns Ok(p): the packet is written into the buffer and  *)
(* next() returns Some(Packet::Borrowed) viewing it.                      *)
PollPacket ==
  /\ pc = "polling"
  /\ ~broken
  /\ delivered < MaxPackets
  /\ delivered' = delivered + 1
  /\ buf' = delivered + 1
  /\ held' = held \cup {[id |-> delivered + 1, variant |-> "Borrowed",
                         bytes |-> 0, retained |-> FALSE]}
  /\ pc' = "idle"
  /\ UNCHANGED <<ended, broken>>

(* Error::Timeout => continue: poll again without returning.              *)
PollTimeout ==
  /\ pc = "polling"
  /\ ~broken
  /\ buf' \in Released
  /\ UNCHANGED <<pc, delivered, held, ended, broken>>

(* Any other error: return None.  The error may be transient (a break of  *)
(* the loop) or persistent.                                               *)
PollError ==
  /\ pc = "polling"
  /\ buf' \in Released
  /\ pc' = "idle"
  /\ ended' = TRUE
  /\ broken' \in IF broken THEN {TRUE} ELSE BOOLEAN
  /\ UNCHANGED <<delivered, held>>

(* The consumer replaces a packet by its to_owned() copy.                 *)
ToOwned(p) ==
  /\ p \in held
  /\ held' = (held \ {p}) \cup {OwnedCopy(p)}
  /\ UNCHANGED <<pc, buf, delivered, ended, broken>>

(* The consumer drops a packet.                                           *)
DropPacket(p) ==
  /\ p \in held
  /\ held' = held \ {p}
  /\ UNCHANGED <<pc, buf, delivered, ended, broken>>

Next ==
  \/ CallNext \/ PollPacket \/ PollTimeout \/ PollError
  \/ \E p \in held : ToOwned(p) \/ DropPacket(p)

(* No fairness: that next() returns rests on libpcap eventually giving a  *)
(* packet or an error other than a timeout, not on this code.  A repeated  *)
(* timeout changes no state, so it is a stutter step of this model.       *)
Spec == Init /\ [][Next]_vars

-----------------------------------------------------------------------------
(* Packet integrity (spec 3, 4.4): every packet the consumer holds shows  *)
(* exactly the bytes libpcap delivered for it.  A Borrowed packet is only *)
(* valid until the next poll, so this holds only for a consumer that      *)
(* converts with to_owned before calling next() again.                    *)
PacketIntegrity == \A p \in held : View(p) = p.id

(* Why packet integrity holds for a disciplined consumer, in a form that  *)
(* every step preserves: packets are numbered in delivery order with no   *)
(* two held packets of the same number; a packet is retained exactly when *)
(* it is an Owned copy made by to_owned, and then its bytes are its own;  *)
(* a Borrowed packet is the one the buffer holds now, and it is only held *)
(* between calls of next(), never while next() polls libpcap.             *)
CaptureInv ==
  /\ TypeOK
  /\ \A p \in held : p.id <= delivered
  /\ \A p, q \in held : p.id = q.id => p = q
  /\ \A p \in held : p.retained <=> p.variant = "Owned"
  /\ \A p \in held : p.variant = "Owned" => p.bytes = p.id
  /\ \A p \in held : p.variant = "Borrowed" => p.id = buf /\ pc = "idle"

(* The sequence is not restartable (spec 4.4): once next() has returned   *)
(* None, it never yields a packet again.  PcapIter is not fused and polls *)
(* again on the next call, so this is expected to fail.                   *)
NoPacketAfterEnd == [][ended => delivered' = delivered]_vars

-----------------------------------------------------------------------------
(* The refinement mapping onto PacketStream: the consumer waits while      *)
(* next() polls, the stream has yielded the delivered packets, and each    *)
(* held packet is kept with the bytes it shows now (through deref).        *)
Kept == {[id |-> p.id, bytes |-> View(p)] : p \in held}

Stream == INSTANCE PacketStream WITH waiting <- (pc = "polling"),
                                     count <- delivered, kept <- Kept

(* PcapIter with a consumer that calls to_owned before next() implements  *)
(* the safety of the packet stream: every packet it yields keeps its      *)
(* bytes while held, whatever libpcap does to the buffer on later polls,  *)
(* timeouts and errors.  The stream's liveness (next() returns) depends   *)
(* on libpcap and is not checked.                                         *)
ImplementsStream == Stream!SafetySpec

=============================================================================
