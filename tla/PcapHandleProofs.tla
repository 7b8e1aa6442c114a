-------------------------- MODULE PcapHandleProofs --------------------------
(***************************************************************************)
(* Proofs, for every set of handles, filters and every borrow bound, that  *)
(* the ownership model of PcapHandle is type-correct and that the native   *)
(* resources are released exactly once, are never used after release, and *)
(* that builder-made handles only see session calls once activated.       *)
(***************************************************************************)
EXTENDS PcapHandle, TLAPS

(* The record the initial state stores in last is a call record.          *)
LEMMA NoCallType == NoCall \in Calls
<1>1. (CHOOSE h \in Handles : TRUE) \in Handles
  BY HandlesAssumption
<1>2. QED
  BY <1>1 DEF NoCall, Calls, Ops, NativeStates

(* Recording a call on a handle of a well-typed state yields a call record. *)
LEMMA CallType ==
  ASSUME TypeOK, NEW op \in Ops, NEW h \in Handles, NEW ok \in BOOLEAN,
         Call(op, h, ok)
  PROVE  last' \in Calls
BY DEF TypeOK, Call, Calls

(* Closing a handle keeps native and closes well typed.                   *)
LEMMA CloseType ==
  ASSUME TypeOK, NEW h \in Handles, Close(h)
  PROVE  /\ native' \in [Handles -> NativeStates]
         /\ closes' \in [Handles -> Nat]
         /\ last' \in Calls
<1>1. last' \in Calls
  BY CallType DEF Close, Ops
<1>2. QED
  BY <1>1 DEF TypeOK, Close, NativeStates

(* Every step keeps the state well typed.                                *)
LEMMA TypeNext == TypeOK /\ [Next]_vars => TypeOK'
<1> SUFFICES ASSUME TypeOK, [Next]_vars PROVE TypeOK'
  OBVIOUS
<1>1. ASSUME NEW h \in Handles, NEW kind \in OwnerKinds,
             NEW ctor \in {"new", "builder"}, Create(h, kind, ctor)
      PROVE TypeOK'
  <2>1. last' \in Calls
    BY <1>1, CallType DEF Create, Ops
  <2>2. CASE /\ native' = [native EXCEPT ![h] = "created"]
             /\ owners' = [owners EXCEPT ![h] = {kind}]
             /\ via' = [via EXCEPT ![h] = ctor]
    BY <1>1, <2>1, <2>2 DEF Create, TypeOK, NativeStates
  <2>3. CASE UNCHANGED <<native, owners, via>>
    BY <1>1, <2>1, <2>3 DEF Create, TypeOK
  <2>4. QED
    BY <1>1, <2>2, <2>3 DEF Create
<1>2. ASSUME NEW h \in Handles, SetOption(h) PROVE TypeOK'
  <2>1. CASE native[h] = "created" /\ Call("set_option", h, TRUE)
             /\ UNCHANGED <<native, owners, closes>>
    BY <1>2, <2>1, CallType DEF SetOption, TypeOK, Ops
  <2>2. CASE owners' = [owners EXCEPT ![h] = @ \ {"builder"}] /\ Close(h)
    BY <1>2, <2>2, CloseType DEF SetOption, TypeOK
  <2>3. QED
    BY <1>2, <2>1, <2>2 DEF SetOption
<1>3. ASSUME NEW h \in Handles, BuilderActivate(h) PROVE TypeOK'
  <2>1. CASE /\ native[h] = "created"
             /\ native' = [native EXCEPT ![h] = "active"]
             /\ owners' = [owners EXCEPT ![h] = (@ \ {"builder"}) \cup {"pcap"}]
             /\ Call("activate", h, TRUE)
             /\ UNCHANGED closes
    BY <1>3, <2>1, CallType DEF BuilderActivate, TypeOK, Ops, NativeStates,
       OwnerKinds
  <2>2. CASE owners' = [owners EXCEPT ![h] = @ \ {"builder"}] /\ Close(h)
    BY <1>3, <2>2, CloseType DEF BuilderActivate, TypeOK
  <2>3. QED
    BY <1>3, <2>1, <2>2 DEF BuilderActivate
<1>4. ASSUME NEW h \in Handles, PcapActivate(h) PROVE TypeOK'
  <2>1. last' \in Calls
    BY <1>4, CallType DEF PcapActivate, Ops
  <2>2. QED
    BY <1>4, <2>1 DEF PcapActivate, TypeOK, NativeStates
<1>5. ASSUME NEW h \in Handles, Capture(h) \/ EndBorrow(h) PROVE TypeOK'
  BY <1>5, MaxBorrowsAssumption DEF Capture, EndBorrow, TypeOK
<1>6. ASSUME NEW h \in Handles, IterNext(h) \/ Inject(h) \/ Stats(h)
      PROVE TypeOK'
  <2>1. last' \in Calls
    BY <1>6, CallType DEF IterNext, Inject, Stats, Ops
  <2>2. QED
    BY <1>6, <2>1 DEF IterNext, Inject, Stats, TypeOK
<1>7. ASSUME NEW h \in Handles, DropPcap(h) \/ DropBuilder(h) PROVE TypeOK'
  BY <1>7, CloseType DEF DropPcap, DropBuilder, TypeOK
<1>8. ASSUME NEW h \in Handles, NEW f \in Filters, SetFilter(h, f)
      PROVE TypeOK'
  <2>1. CASE Call("compile", h, FALSE) /\ UNCHANGED <<prog, frees>>
    BY <1>8, <2>1, CallType DEF SetFilter, TypeOK, Ops
  <2>2. CASE /\ prog' = [prog EXCEPT ![f] = "freed"]
             /\ frees' = [frees EXCEPT ![f] = @ + 1]
             /\ \E ok \in BOOLEAN : Call("setfilter", h, ok)
    BY <1>8, <2>2, CallType DEF SetFilter, TypeOK, Ops
  <2>3. QED
    BY <1>8, <2>1, <2>2 DEF SetFilter
<1>9. ASSUME NEW h \in Handles, NEW f \in Filters,
             Compile(h, f) \/ Install(h, f)
      PROVE TypeOK'
  <2>1. last' \in Calls
    BY <1>9, CallType DEF Compile, Install, Ops
  <2>2. QED
    BY <1>9, <2>1 DEF Compile, Install, TypeOK
<1>10. ASSUME NEW f \in Filters, DropFilter(f) PROVE TypeOK'
  BY <1>10 DEF DropFilter, TypeOK
<1>11. CASE UNCHANGED vars
  BY <1>11 DEF vars, TypeOK
<1>12. QED
  BY <1>1, <1>2, <1>3, <1>4, <1>5, <1>6, <1>7, <1>8, <1>9, <1>10, <1>11
  DEF Next, New, Builder, OwnerKinds

(* Type correctness: every reachable state satisfies TypeOK.              *)
THEOREM TypeCorrect == Spec => []TypeOK
<1>1. Init => TypeOK
  BY NoCallType, MaxBorrowsAssumption DEF Init, TypeOK, NativeStates
<1>2. QED
  BY <1>1, TypeNext, PTL DEF Spec

-----------------------------------------------------------------------------
(* The initial state satisfies the inductive invariant.                   *)
LEMMA InitIInv == Init => IInv
<1> SUFFICES ASSUME Init PROVE IInv
  OBVIOUS
<1>1. TypeOK
  BY NoCallType, MaxBorrowsAssumption DEF Init, TypeOK, NativeStates
<1>2. HandleInv /\ FilterInv
  BY DEF Init, HandleInv, FilterInv
<1>3. LastCallInv
  BY DEF Init, LastCallInv, NoCall, SessionOps
<1>4. QED
  BY <1>1, <1>2, <1>3 DEF IInv

(* Every step preserves the inductive invariant.                          *)
LEMMA NextIInv == IInv /\ [Next]_vars => IInv'
<1> SUFFICES ASSUME IInv, [Next]_vars PROVE IInv'
  OBVIOUS
<1>0. TypeOK /\ TypeOK'
  BY TypeNext DEF IInv
<1> USE DEF IInv
<1>1. ASSUME NEW h \in Handles, NEW kind \in OwnerKinds,
             NEW ctor \in {"new", "builder"}, Create(h, kind, ctor),
             kind = "builder" <=> ctor = "builder"
      PROVE IInv'
  BY <1>0, <1>1 DEF Create, Call, TypeOK, HandleInv, FilterInv, LastCallInv,
     SessionOps, OwnerKinds
<1>2. ASSUME NEW h \in Handles, SetOption(h) PROVE IInv'
  BY <1>0, <1>2 DEF SetOption, Call, Close, TypeOK, HandleInv, FilterInv,
     LastCallInv, SessionOps
<1>3. ASSUME NEW h \in Handles, BuilderActivate(h) PROVE IInv'
  BY <1>0, <1>3 DEF BuilderActivate, Call, Close, TypeOK, HandleInv,
     FilterInv, LastCallInv, SessionOps
<1>4. ASSUME NEW h \in Handles, PcapActivate(h) PROVE IInv'
  BY <1>0, <1>4 DEF PcapActivate, Call, TypeOK, HandleInv, FilterInv,
     LastCallInv, SessionOps
<1>5. ASSUME NEW h \in Handles, Capture(h) \/ EndBorrow(h) PROVE IInv'
  BY <1>0, <1>5 DEF Capture, EndBorrow, TypeOK, HandleInv, FilterInv,
     LastCallInv
<1>6. ASSUME NEW h \in Handles, IterNext(h) \/ Inject(h) \/ Stats(h)
      PROVE IInv'
  BY <1>0, <1>6 DEF IterNext, Inject, Stats, Call, TypeOK, HandleInv,
     FilterInv, LastCallInv, SessionOps
<1>7. ASSUME NEW h \in Handles, DropPcap(h) \/ DropBuilder(h) PROVE IInv'
  BY <1>0, <1>7 DEF DropPcap, DropBuilder, Call, Close, TypeOK, HandleInv,
     FilterInv, LastCallInv, SessionOps
<1>8. ASSUME NEW h \in Handles, NEW f \in Filters, SetFilter(h, f)
      PROVE IInv'
  BY <1>0, <1>8 DEF SetFilter, Call, TypeOK, HandleInv, FilterInv,
     LastCallInv, SessionOps
<1>9. ASSUME NEW h \in Handles, NEW f \in Filters,
             Compile(h, f) \/ Install(h, f)
      PROVE IInv'
  BY <1>0, <1>9 DEF Compile, Install, Call, TypeOK, HandleInv, FilterInv,
     LastCallInv, SessionOps
<1>10. ASSUME NEW f \in Filters, DropFilter(f) PROVE IInv'
  BY <1>0, <1>10 DEF DropFilter, TypeOK, HandleInv, FilterInv, LastCallInv
<1>11. CASE UNCHANGED vars
  BY <1>0, <1>11 DEF vars, HandleInv, FilterInv, LastCallInv
<1>12. QED
  BY <1>1, <1>2, <1>3, <1>4, <1>5, <1>6, <1>7, <1>8, <1>9, <1>10, <1>11
  DEF Next, New, Builder, OwnerKinds

(* The inductive invariant holds in every reachable state.                *)
THEOREM IInvHolds == Spec => []IInv
BY InitIInv, NextIInv, PTL DEF Spec

(* Release exactly once, for every number of handles and filters: every   *)
(* pcap_t has at most one Rust owner, is open exactly while owned and is  *)
(* closed exactly once; every bpf_program is freed at most once.          *)
THEOREM ReleaseOnceHolds == Spec => []ReleaseOnce
<1>1. IInv => ReleaseOnce
  BY DEF IInv, HandleInv, FilterInv, ReleaseOnce
<1>2. QED
  BY <1>1, IInvHolds, PTL

(* No libpcap call, pcap_close included, is issued on a closed handle.    *)
THEOREM NoUseAfterCloseHolds == Spec => []NoUseAfterClose
<1>1. IInv => NoUseAfterClose
  BY DEF IInv, LastCallInv, NoUseAfterClose
<1>2. QED
  BY <1>1, IInvHolds, PTL

(* Session calls on a builder-made handle are issued only after its       *)
(* activation: the PcapBuilder type-state holds on the builder path.       *)
THEOREM BuilderSessionActiveHolds == Spec => []BuilderSessionActive
<1>1. IInv => BuilderSessionActive
  BY DEF IInv, LastCallInv, BuilderSessionActive
<1>2. QED
  BY <1>1, IInvHolds, PTL


=============================================================================
