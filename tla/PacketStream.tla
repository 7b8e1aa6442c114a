---------------------------- MODULE PacketStream ----------------------------
(***************************************************************************)
(* What a capture promises its consumer, with no buffer and no retries:    *)
(* each call of next() either yields the next packet of the stream or      *)
(* returns None, and every packet the consumer keeps shows, for as long as *)
(* it is kept, the bytes it was delivered with.  Packets are numbered      *)
(* 1, 2, ... in the order libpcap delivers them, and packet n has bytes n. *)
(*                                                                         *)
(* PcapCapture implements this specification when its consumer follows the *)
(* rule of the Packet doc comment (see PcapCaptureRefinement).             *)
(***************************************************************************)
EXTENDS Naturals

CONSTANT MaxPackets   \* packets the stream delivers in a behaviour

VARIABLES
  waiting,  \* the consumer is inside a call of next()
  count,    \* packets yielded so far
  kept      \* the packets the consumer keeps, as [id, bytes] records

svars == <<waiting, count, kept>>

StreamTypeOK ==
  /\ waiting \in BOOLEAN
  /\ count \in 0..MaxPackets
  /\ kept \in SUBSET [id : 1..MaxPackets, bytes : 0..MaxPackets]

Init ==
  /\ waiting = FALSE
  /\ count = 0
  /\ kept = {}

(* The consumer calls next().                                             *)
Request ==
  /\ ~waiting
  /\ waiting' = TRUE
  /\ UNCHANGED <<count, kept>>

(* next() returns Some(packet): the next packet, with its own bytes.      *)
Yield ==
  /\ waiting
  /\ count < MaxPackets
  /\ count' = count + 1
  /\ kept' = kept \cup {[id |-> count + 1, bytes |-> count + 1]}
  /\ waiting' = FALSE

(* next() returns None.                                                   *)
Fail ==
  /\ waiting
  /\ waiting' = FALSE
  /\ UNCHANGED <<count, kept>>

(* The consumer drops a packet it keeps.                                  *)
Release(k) ==
  /\ k \in kept
  /\ kept' = kept \ {k}
  /\ UNCHANGED <<waiting, count>>

Next == Request \/ Yield \/ Fail \/ \E k \in kept : Release(k)

(* The safety part: the steps above and nothing else.                     *)
SafetySpec == Init /\ [][Next]_svars

(* A call of next() returns.  PcapIter implements SafetySpec only: that  *)
(* its next() returns rests on libpcap ending its timeouts.              *)
Spec == SafetySpec /\ WF_svars(Yield \/ Fail)

=============================================================================
