----------------------------- MODULE PcapHandle -----------------------------
(***************************************************************************)
(* Ownership and lifetime of the native libpcap resources held by          *)
(* luomu-libpcap (src/luomu-libpcap/src/lib.rs):                           *)
(*                                                                         *)
(*   - a native capture handle (pcap_t) is kept by a PcapT, which is       *)
(*     owned by exactly one Rust value, a PcapBuilder or a Pcap; dropping  *)
(*     that value calls pcap_close;                                        *)
(*   - a compiled BPF program is kept by a PcapFilter; dropping it calls   *)
(*     pcap_freecode;                                                      *)
(*   - Pcap::capture() lends &PcapT to a PcapIter, and the packets it      *)
(*     yields carry the same lifetime 'p, so the Pcap cannot be dropped    *)
(*     while an iterator or a borrowed packet is alive.                    *)
(*                                                                         *)
(* libpcap itself is the environment: every call it serves may fail, and   *)
(* it refuses session calls on a handle that is not activated and option   *)
(* calls on one that is.  Each step issues at most one collaborator call   *)
(* per handle; the variable last records the call, the handle it was       *)
(* issued on, the handle's native state at that moment and the outcome.    *)
(***************************************************************************)
EXTENDS Naturals

CONSTANTS
  Handles,     \* native pcap_t slots that pcap_create may hand out
  Filters,     \* native bpf_program slots that pcap_compile may fill
  MaxBorrows   \* bound on simultaneously live borrows of one PcapT

ASSUME HandlesAssumption == Handles # {}
ASSUME MaxBorrowsAssumption == MaxBorrows \in Nat

VARIABLES
  native,   \* libpcap's view of each pcap_t
  owners,   \* the Rust values (PcapBuilder / Pcap) holding each PcapT
  via,      \* the constructor that created the handle: Pcap::new or builder
  closes,   \* number of pcap_close calls issued on each pcap_t
  borrows,  \* live PcapIter / Packet<'p> borrows of each PcapT
  prog,     \* state of each native bpf_program
  frees,    \* number of pcap_freecode calls issued on each program
  last      \* the last collaborator call: op, handle, state before, outcome

vars == <<native, owners, via, closes, borrows, prog, frees, last>>

NativeStates == {"unused", "created", "active", "closed"}
OwnerKinds   == {"builder", "pcap"}
Ops == {"none", "create", "set_option", "activate", "compile", "setfilter",
        "next_ex", "inject", "stats", "close"}

(* Calls that libpcap serves only on an activated handle.                 *)
SessionOps == {"compile", "setfilter", "next_ex", "inject", "stats"}

(* A record of one collaborator call.                                     *)
Calls == [op : Ops, h : Handles, state : NativeStates, ok : BOOLEAN]

NoCall == [op |-> "none", h |-> CHOOSE h \in Handles : TRUE,
           state |-> "unused", ok |-> FALSE]

(* Record that call op was issued on h, which was then in native[h].      *)
Call(op, h, ok) == last' = [op |-> op, h |-> h, state |-> native[h], ok |-> ok]

(* PcapT::drop: pcap_close on the handle.                                 *)
Close(h) ==
  /\ native' = [native EXCEPT ![h] = "closed"]
  /\ closes' = [closes EXCEPT ![h] = @ + 1]
  /\ Call("close", h, TRUE)

(***************************************************************************)
(* Mutants: plausible bugs in the code above, each the body of a mapped    *)
(* action with one change.  They are not part of Next.                     *)
(***************************************************************************)

(* EndBorrow without its guard: a borrow released twice.                 *)
EndBorrowTwice(h) ==
  /\ borrows' = [borrows EXCEPT ![h] = @ - 1]
  /\ UNCHANGED <<native, owners, via, closes, prog, frees, last>>

(* activate() moves the PcapT with ptr::read and forgets to mem::forget   *)
(* self: the builder still owns the handle it gave to the Pcap.           *)
BuilderActivateCopies(h) ==
  /\ "builder" \in owners[h]
  /\ \/ /\ native[h] = "created"
        /\ native' = [native EXCEPT ![h] = "active"]
        /\ owners' = [owners EXCEPT ![h] = @ \cup {"pcap"}]
        /\ Call("activate", h, TRUE)
        /\ UNCHANGED closes
     \/ /\ owners' = [owners EXCEPT ![h] = @ \ {"builder"}]
        /\ Close(h)
  /\ UNCHANGED <<via, borrows, prog, frees>>

(* activate() ignores the result of pcap_activate and always returns a    *)
(* Pcap.                                                                  *)
BuilderActivateIgnoresError(h) ==
  /\ "builder" \in owners[h]
  /\ \/ /\ native[h] = "created"
        /\ native' = [native EXCEPT ![h] = "active"]
        /\ owners' = [owners EXCEPT ![h] = (@ \ {"builder"}) \cup {"pcap"}]
        /\ Call("activate", h, TRUE)
     \/ /\ owners' = [owners EXCEPT ![h] = (@ \ {"builder"}) \cup {"pcap"}]
        /\ Call("activate", h, FALSE)
        /\ UNCHANGED native
  /\ UNCHANGED <<via, closes, borrows, prog, frees>>

(* A Pcap that can be dropped while its PcapIter is alive (the iterator   *)
(* keeping a raw pointer instead of &'p PcapT).                           *)
DropPcapWhileBorrowed(h) ==
  /\ "pcap" \in owners[h]
  /\ owners' = [owners EXCEPT ![h] = @ \ {"pcap"}]
  /\ Close(h)
  /\ UNCHANGED <<via, borrows, prog, frees>>

TypeOK ==
  /\ native  \in [Handles -> NativeStates]
  /\ owners  \in [Handles -> SUBSET OwnerKinds]
  /\ via     \in [Handles -> {"none", "new", "builder"}]
  /\ closes  \in [Handles -> Nat]
  /\ borrows \in [Handles -> 0..MaxBorrows]
  /\ prog    \in [Filters -> {"unused", "compiled", "freed"}]
  /\ frees   \in [Filters -> Nat]
  /\ last    \in Calls

Init ==
  /\ native  = [h \in Handles |-> "unused"]
  /\ owners  = [h \in Handles |-> {}]
  /\ via     = [h \in Handles |-> "none"]
  /\ closes  = [h \in Handles |-> 0]
  /\ borrows = [h \in Handles |-> 0]
  /\ prog    = [f \in Filters |-> "unused"]
  /\ frees   = [f \in Filters |-> 0]
  /\ last    = NoCall

-----------------------------------------------------------------------------
(* pcap_create(source), shared by Pcap::new (kind "pcap") and              *)
(* Pcap::builder (kind "builder").  On failure no resource exists and the  *)
(* `?` returns the error.                                                 *)
Create(h, kind, ctor) ==
  /\ native[h] = "unused"
  /\ \/ /\ native' = [native EXCEPT ![h] = "created"]
        /\ owners' = [owners EXCEPT ![h] = {kind}]
        /\ via' = [via EXCEPT ![h] = ctor]
        /\ Call("create", h, TRUE)
     \/ /\ Call("create", h, FALSE)
        /\ UNCHANGED <<native, owners, via>>
  /\ UNCHANGED <<closes, borrows, prog, frees>>

New(h) == Create(h, "pcap", "new")

Builder(h) == Create(h, "builder", "builder")

(* PcapBuilder::set_buffer_size / set_promiscuous / set_immediate /       *)
(* set_snaplen: pcap_set_*(..)?; Ok(self).  libpcap rejects the option on  *)
(* an activated handle or for a bad value; the `?` then returns early and  *)
(* drops self, which closes the handle.                                   *)
SetOption(h) ==
  /\ "builder" \in owners[h]
  /\ \/ /\ native[h] = "created"
        /\ Call("set_option", h, TRUE)
        /\ UNCHANGED <<native, owners, closes>>
     \/ /\ owners' = [owners EXCEPT ![h] = @ \ {"builder"}]
        /\ Close(h)
  /\ UNCHANGED <<via, borrows, prog, frees>>

(* PcapBuilder::activate(self): pcap_activate(..)?; then the PcapT moves   *)
(* into a new Pcap.  On failure self is dropped and the handle closed.     *)
BuilderActivate(h) ==
  /\ "builder" \in owners[h]
  /\ \/ /\ native[h] = "created"
        /\ native' = [native EXCEPT ![h] = "active"]
        /\ owners' = [owners EXCEPT ![h] = (@ \ {"builder"}) \cup {"pcap"}]
        /\ Call("activate", h, TRUE)
        /\ UNCHANGED closes
     \/ /\ owners' = [owners EXCEPT ![h] = @ \ {"builder"}]
        /\ Close(h)
  /\ UNCHANGED <<via, borrows, prog, frees>>

(* Pcap::activate(&self): pcap_activate on a handle the Pcap keeps.  A     *)
(* failed activation leaves the handle created (libpcap keeps it for      *)
(* pcap_close); a second activation is refused.                           *)
PcapActivate(h) ==
  /\ "pcap" \in owners[h]
  /\ \/ /\ native[h] = "created"
        /\ native' = [native EXCEPT ![h] = "active"]
        /\ Call("activate", h, TRUE)
     \/ /\ Call("activate", h, FALSE)
        /\ UNCHANGED native
  /\ UNCHANGED <<owners, via, closes, borrows, prog, frees>>

(* Pcap::set_filter: PcapFilter::compile(..)? into a fresh program f, then *)
(* pcap_setfilter, then the local PcapFilter is dropped (pcap_freecode).   *)
(* pcap_compile refuses a handle that is not activated.                    *)
SetFilter(h, f) ==
  /\ "pcap" \in owners[h]
  /\ prog[f] = "unused"
  /\ \/ /\ Call("compile", h, FALSE)
        /\ UNCHANGED <<prog, frees>>
     \/ /\ native[h] = "active"
        /\ prog' = [prog EXCEPT ![f] = "freed"]
        /\ frees' = [frees EXCEPT ![f] = @ + 1]
        /\ \E ok \in BOOLEAN : Call("setfilter", h, ok)
  /\ UNCHANGED <<native, owners, via, closes, borrows>>

(* PcapFilter::compile(&PcapT, expr): a PcapFilter the caller keeps.      *)
Compile(h, f) ==
  /\ "pcap" \in owners[h]
  /\ prog[f] = "unused"
  /\ \/ /\ Call("compile", h, FALSE)
        /\ UNCHANGED prog
     \/ /\ native[h] = "active"
        /\ prog' = [prog EXCEPT ![f] = "compiled"]
        /\ Call("compile", h, TRUE)
  /\ UNCHANGED <<native, owners, via, closes, borrows, frees>>

(* functions::pcap_setfilter(&PcapT, &mut PcapFilter) with a kept filter. *)
Install(h, f) ==
  /\ "pcap" \in owners[h]
  /\ prog[f] = "compiled"
  /\ \/ Call("setfilter", h, FALSE)
     \/ native[h] = "active" /\ Call("setfilter", h, TRUE)
  /\ UNCHANGED <<native, owners, via, closes, borrows, prog, frees>>

(* PcapFilter::drop: pcap_freecode on the program.                        *)
DropFilter(f) ==
  /\ prog[f] = "compiled"
  /\ prog' = [prog EXCEPT ![f] = "freed"]
  /\ frees' = [frees EXCEPT ![f] = @ + 1]
  /\ UNCHANGED <<native, owners, via, closes, borrows, last>>

(* Pcap::capture(&self): a PcapIter borrowing the PcapT.                   *)
Capture(h) ==
  /\ "pcap" \in owners[h]
  /\ borrows[h] < MaxBorrows
  /\ borrows' = [borrows EXCEPT ![h] = @ + 1]
  /\ UNCHANGED <<native, owners, via, closes, prog, frees, last>>

(* PcapIter::next: pcap_next_ex through the borrowed &PcapT.               *)
IterNext(h) ==
  /\ borrows[h] > 0
  /\ \E ok \in BOOLEAN : Call("next_ex", h, ok /\ native[h] = "active")
  /\ UNCHANGED <<native, owners, via, closes, borrows, prog, frees>>

(* The iterator, and every packet it lent, goes out of scope.             *)
EndBorrow(h) ==
  /\ borrows[h] > 0
  /\ borrows' = [borrows EXCEPT ![h] = @ - 1]
  /\ UNCHANGED <<native, owners, via, closes, prog, frees, last>>

(* Pcap::inject and Pcap::stats: pcap_inject / pcap_stats on the handle.  *)
Inject(h) ==
  /\ "pcap" \in owners[h]
  /\ \E ok \in BOOLEAN : Call("inject", h, ok /\ native[h] = "active")
  /\ UNCHANGED <<native, owners, via, closes, borrows, prog, frees>>

Stats(h) ==
  /\ "pcap" \in owners[h]
  /\ \E ok \in BOOLEAN : Call("stats", h, ok /\ native[h] = "active")
  /\ UNCHANGED <<native, owners, via, closes, borrows, prog, frees>>

(* Dropping a Pcap: the borrow checker allows it only once no PcapIter    *)
(* or Packet<'p> borrows it; PcapT::drop closes the handle.               *)
DropPcap(h) ==
  /\ "pcap" \in owners[h]
  /\ borrows[h] = 0
  /\ owners' = [owners EXCEPT ![h] = @ \ {"pcap"}]
  /\ Close(h)
  /\ UNCHANGED <<via, borrows, prog, frees>>

(* Dropping an unfinished PcapBuilder closes the handle.                  *)
DropBuilder(h) ==
  /\ "builder" \in owners[h]
  /\ owners' = [owners EXCEPT ![h] = @ \ {"builder"}]
  /\ Close(h)
  /\ UNCHANGED <<via, borrows, prog, frees>>

Next ==
  \/ \E h \in Handles :
       \/ New(h) \/ Builder(h) \/ SetOption(h) \/ BuilderActivate(h)
       \/ PcapActivate(h) \/ Capture(h) \/ IterNext(h) \/ EndBorrow(h)
       \/ Inject(h) \/ Stats(h) \/ DropPcap(h) \/ DropBuilder(h)
       \/ \E f \in Filters : SetFilter(h, f) \/ Compile(h, f) \/ Install(h, f)
  \/ \E f \in Filters : DropFilter(f)

Spec == Init /\ [][Next]_vars

-----------------------------------------------------------------------------
(* Release exactly once (spec 8, "Release-once"): every native pcap_t is  *)
(* owned by at most one Rust value, it is open exactly while it has an    *)
(* owner and is closed exactly once after its owner is gone, on every     *)
(* path through the builder (setter failure, activation failure or        *)
(* success, plain drop); every bpf_program is freed at most once, and a   *)
(* freed program was freed exactly once.                                  *)
ReleaseOnce ==
  /\ \A h \in Handles :
       /\ owners[h] \in {{}, {"builder"}, {"pcap"}}
       /\ (owners[h] # {}) <=> (native[h] \in {"created", "active"})
       /\ closes[h] = IF native[h] = "closed" THEN 1 ELSE 0
  /\ \A f \in Filters : frees[f] = IF prog[f] = "freed" THEN 1 ELSE 0

(* No use after close: no libpcap call, pcap_close included, is ever      *)
(* issued on a handle already closed; in particular the PcapIter borrowed *)
(* from a Pcap cannot poll after the Pcap was dropped.                    *)
NoUseAfterClose == last.state # "closed"

(* Type-state of the builder (spec 4.2): on a handle opened through        *)
(* Pcap::builder, session calls (compile, setfilter, next_ex, inject,      *)
(* stats) are issued only once the handle is activated.                    *)
BuilderSessionActive ==
  (last.op \in SessionOps /\ via[last.h] = "builder") => last.state = "active"

(* The spec's type-state claim for every handle (spec 4.2, 5): no session *)
(* call is issued before activation.  Pcap::new hands out a Pcap on a     *)
(* handle that was never activated, so this is expected to fail.          *)
NoSessionCallBeforeActivation ==
  last.op \in SessionOps => last.state = "active"

-----------------------------------------------------------------------------
(***************************************************************************)
(* Inductive strengthening of ReleaseOnce, NoUseAfterClose and             *)
(* BuilderSessionActive, used by the proofs in PcapHandleProofs.           *)
(***************************************************************************)

(* Per handle: a borrow needs a live Pcap, a builder sits on a created     *)
(* handle, a Pcap made by the builder sits on an activated one, and a      *)
(* handle never created was made by no constructor.                        *)
HandleInv ==
  \A h \in Handles :
    /\ owners[h] \in {{}, {"builder"}, {"pcap"}}
    /\ (owners[h] # {}) <=> (native[h] \in {"created", "active"})
    /\ closes[h] = IF native[h] = "closed" THEN 1 ELSE 0
    /\ borrows[h] > 0 => "pcap" \in owners[h]
    /\ "builder" \in owners[h] => native[h] = "created"
    /\ ("pcap" \in owners[h] /\ via[h] = "builder") => native[h] = "active"
    /\ native[h] = "unused" => via[h] = "none"

FilterInv == \A f \in Filters : frees[f] = IF prog[f] = "freed" THEN 1 ELSE 0

(* The last call was issued on a handle that was open, and a session call  *)
(* on a builder-made handle found it activated.                           *)
LastCallInv ==
  /\ last.state # "closed"
  /\ last.op \in SessionOps =>
       /\ native[last.h] # "unused"
       /\ via[last.h] = "builder" => last.state = "active"

IInv == TypeOK /\ HandleInv /\ FilterInv /\ LastCallInv

=============================================================================
