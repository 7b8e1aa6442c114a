# Formal model of luomu-libpcap

These TLA+ modules model the safe Rust layer of luomu-libpcap
(`src/luomu-libpcap/src/lib.rs`). That layer sits on top of the `functions`
wrappers and the generated `luomu-libpcap-sys` bindings. libpcap itself is
the environment: every call it serves may succeed or fail, and the models
let it choose.

## The system and its parts

| Part | Code (lib.rs) | What it does |
|---|---|---|
| `PcapT` | 52-76 | Owns one native `pcap_t`. Its `Drop` calls `pcap_close`. |
| `Pcap` | 88-160 | The capture handle: `new`, `builder`, `set_filter`, `capture`, `inject`, `activate`, `stats`. |
| `PcapBuilder` | 164-219 | A type-state builder. The setters consume and return `self`, and `activate` moves the `PcapT` into a `Pcap`. |
| `PcapFilter` | 223-243 | A compiled BPF program. Its `Drop` calls `pcap_freecode`. |
| `PcapIter`, `Packet` | 246-362 | The capture iterator retries on timeouts. A packet either borrows libpcap's buffer or owns a copy of it. |
| `PcapStat` | 277-310 | A counters record filled by `stats`. |
| `PcapIfT`, `InterfaceIter`, `Interface` | 364-524 | The device list from `pcap_findalldevs`, its iterator and the lookups over it. |
| `Address`, `AddressIter` | 526-773 | The address kinds and the walk over a device's address list. |
| `MacAddr`, `InterfaceFlag` | 776-820 | Plain data and its formatting. |

The parts interact in three ways:

- A `PcapT` is owned by exactly one `PcapBuilder` or `Pcap`. It is lent to
  `PcapFilter::compile` and to `PcapIter`, and each `Packet<'p>` carries the
  lifetime of that loan.
- A `Packet::Borrowed` views the buffer that the next `pcap_next_ex` on the
  same handle overwrites.
- An `InterfaceIter` walks raw pointers into the list that `PcapIfT` frees
  when it is dropped.

## Modules

| Module | Models | Proofs |
|---|---|---|
| `PcapHandle` | `PcapT`, `Pcap`, `PcapBuilder`, `PcapFilter`, and the borrow that `capture` takes | `PcapHandleProofs` |
| `PcapCapture` | `PcapIter::next`, `Packet`, `to_owned`, `to_vec`, `deref` | `PcapCaptureProofs` |
| `PacketStream` | what a capture promises its consumer (abstract) | refined by `PcapCapture` |
| `PcapDevices` | `PcapIfT`, `InterfaceIter`, `get_interfaces`, `find_interface_with_*`, `get_ip_addresses`, `AddressIter`, the `Address` accessors | `PcapDevicesProofs` |
| `PcapSession` | `PcapHandle` and `PcapCapture` composed on one `Pcap::capture` | `PcapSessionProofs` |

Each model has an `MC*.tla` module that gives its constants small values, and
one `.cfg` for each question the project asks.

### PcapHandle

The state is kept per handle `h` and per program `f`:

- `native[h]`: libpcap's view of the handle (`unused`, `created`, `active`, `closed`).
- `owners[h]`: the Rust values that hold the `PcapT`.
- `via[h]`: the constructor that made the handle.
- `closes[h]`: the number of `pcap_close` calls on the handle.
- `borrows[h]`: live `PcapIter` and `Packet<'p>` borrows, bounded by `MaxBorrows`.
- `prog[f]` and `frees[f]`: the state of each BPF program and the number of `pcap_freecode` calls on it.
- `last`: the last libpcap call, with the handle's native state when it was issued and its outcome.

Each action is one method with every call it makes:

- `SetFilter` is compile, then setfilter, then the drop of the local filter.
- A failing setter or `PcapBuilder::activate` returns through `?`, drops
  `self` and closes the handle, all in the same step.

libpcap's behaviour is modelled as the spec describes it:

- Session calls fail on a handle that is not activated.
- `pcap_compile` refuses such a handle.
- A failed `pcap_activate` leaves the handle in the created state.

### PcapCapture

- `pc` is `idle` between calls of `next()` and `polling` inside its loop.
- `buf` is the number of the packet in libpcap's buffer, or 0 once libpcap has reclaimed it.
- `delivered` counts the packets libpcap has delivered.
- `held` is the set of packets the consumer keeps. Each one is Borrowed or Owned.
- `ended` records that `next()` has returned `None`.
- `broken` records a persistent libpcap error.

Packet bytes are abstracted to packet numbers: packet `n` has bytes `n`.

`Disciplined` selects the consumer:

- With it, the consumer follows the rule of the `Packet` doc comment: convert
  with `to_owned` before calling `next()` again.
- Without it, the consumer does anything the borrow checker accepts.

### PacketStream and the refinement

`PacketStream` is the capture with no buffer and no retries. The consumer
`Request`s, and the stream either `Yield`s the next packet with its own bytes
or `Fail`s. The consumer may `Release` any packet it keeps. `PcapCapture`
instantiates it as `Stream` with this mapping:

- `waiting` is `pc = "polling"`;
- `count` is `delivered`;
- `kept` is `Kept`, each held packet with the bytes it shows now through `View`.

A timeout and a `to_owned` are stutters of the stream. Under this mapping, a
Borrowed packet that libpcap overwrites changes `kept` without any stream step.
The refinement therefore holds only for a disciplined consumer.

`PacketStream!Spec` adds `WF(Yield \/ Fail)`: every call of `next()` returns.
`PcapCapture` refines only `SafetySpec`, because whether `next()` returns
depends on libpcap (see Fairness).

### PcapDevices

- `devs` is the native linked list. Each node has a name, whether
  `try_interface_from` accepts it, and an address list of known and unknown kinds.
- `alloc` and `frees` track the list's allocation.
- `iter` is an `InterfaceIter`: whether it is live, its next index, whether it is done, and what it has collected.
- `lastRead` is the allocation state seen by the last node read.
- `found` is the answer of the last lookup.

`AddressIter`'s recursion over unknown addresses is the filter `AddressesOf`.
The accessors `is_ipv4`, `as_ipv4` and the rest, the `TryFrom` conversions to
`IpAddr` and `MacAddr`, and `From<IpAddr>` are operators on an address kind.
`AddressAccessorsAgree` ties them together.
The conversion done by `try_address_from` is `ToAddress`. That function is in
`functions.rs`, which is not part of the modelled sources, so it is modelled from the spec.

### PcapSession

`PcapSession` composes the two models through `H == INSTANCE PcapHandle` and
`C == INSTANCE PcapCapture` on the same variables, plus one more variable.
`session` records whether the `PcapIter` does not exist yet, is live or was
dropped, and which handle it borrows. One iterator is modelled per
behaviour. Its packets may outlive it, as in Rust, because their lifetime
`'p` is that of `&Pcap`.

| Action | Code | Handle part | Capture part |
|---|---|---|---|
| `HandleStep` | `impl Pcap`, builder, filters | any `PcapHandle` action except the borrows | unchanged |
| `StartCapture(h)` | `Pcap::capture` | `Capture(h)`: one borrow | unchanged |
| `CallNext` | `PcapIter::next` entered | unchanged | `CallNext` |
| `PollPacket` | `pcap_next_ex` gives `Ok` | the `next_ex` call on an active handle, one more borrow | `PollPacket` |
| `PollTimeout` | `Err(Timeout)` | the `next_ex` call on an active handle, failing | `PollTimeout` |
| `PollError` | any other error | the `next_ex` call on any open handle, failing | `PollError` |
| `ToOwned(p)` | `Packet::to_owned` | unchanged | `ToOwned(p)` |
| `DropPacket(p)` | a packet goes out of scope | `EndBorrow` | `DropPacket(p)` |
| `EndCapture` | the `PcapIter` goes out of scope | `EndBorrow` | unchanged |

libpcap has packets, and times out, only on an activated handle. On a handle
from `Pcap::new` that was never activated, a poll can only fail with an
error other than a timeout.

## Runs

| Run | Expect | Checks | Shows |
|---|---|---|---|
| handle | pass | TypeOK, ReleaseOnce, NoUseAfterClose, BuilderSessionActive, IInv | Every pcap_t is closed at most once and only when unowned. Every program is freed once. No call reaches a closed handle. Builder-made handles see session calls only when active. 19,479 states. |
| handle_new | violation | NoSessionCallBeforeActivation | `Pcap::new` then `inject` reaches libpcap on a handle that was never activated. |
| capture | pass | TypeOK, PacketIntegrity, CaptureInv | A disciplined consumer always reads the right bytes, and `CaptureInv` (the inductive invariant of the proof) holds. |
| capture_undisciplined | violation | PacketIntegrity | Two polls while a Borrowed packet is kept: the packet now shows the second packet's bytes. |
| capture_restart | violation | NoPacketAfterEnd | After `None`, calling `next()` again yields a packet. |
| capture_refinement | pass | ImplementsStream | With a disciplined consumer and `MaxPackets = 5`, `PcapCapture` implements the safety part of `PacketStream` (`Stream!SafetySpec`). |
| devices | pass | TypeOK, IterAgreesWithCollect, FindIpCorrect, AddressAccessorsAgree, DevicesInv | Iteration agrees with `get_interfaces`, the IP lookup answers correctly, the address accessors agree with each other, and `DevicesInv` (the inductive invariant of the proof) holds. 278,895 states. |
| devices_truncation | violation | EnumerationComplete | One rejected node hides every later device. |
| devices_freed | violation | NoReadAfterFree | `iter()`, then dropping the `PcapIfT`, then `next()` reads freed memory. |
| session | pass | SessionTypeOK, PacketsPinPcap, BorrowsAccount | Kept packets keep their `Pcap` alive and its handle open. The borrow count is exactly the iterator plus the kept packets. |

The findings in PROJECT.json record what each violation shows about the code.

### Bounds

- **handle**: two handles and two filters, with `MaxBorrows = 2`. This is
  enough to interleave two handles of different origin and to have one
  handle's borrow alive while the other handle is closed. It also reuses a
  filter slot across `set_filter` and `compile`.
- **capture**: `MaxPackets = 3` and `MaxHeld = 2`. A kept Borrowed packet can
  then be overwritten twice, and an error can be followed by a restart.
- **devices**: two names, one address of each kind, lists of up to two
  nodes, and up to two addresses per node. This covers a rejected node
  before an accepted one, and an unknown address before a known one.
- **session**: two handles, one filter, `MaxPackets = 2`, `MaxHeld = 2` and
  `MaxBorrows = 3`. This leaves room for the iterator and two kept packets.
  The capture handle may come from `Pcap::new` or from the builder. The other
  handle can be closed while the capture's packets are kept, and a packet
  can outlive the iterator. `Disciplined` is TRUE. With FALSE, `SessionInv`
  was also checked, over 237,193 states, and the proofs do not assume it.
- **capture_refinement**: `MaxPackets = 5` and `MaxHeld = 3`, larger than
  the capture run. The refinement is cheap to check, and the larger
  instance covers longer chains of `to_owned` and drops.

### Fairness

No module assumes fairness, and no liveness property is checked. The only
loop that must end is `next()`'s retry on `Error::Timeout` (lib.rs:268). It
ends only when libpcap answers something other than a timeout. That is a
fact about libpcap, not about this code. In the model, a repeated timeout
changes no state, so it is a stutter step. Weak fairness on the poll steps
would force a poll that changes state, which is exactly that assumption
about libpcap. A liveness property checked under it would only restate the
assumption. So PcapIter implements only the safety part of `PacketStream`.
`PcapHandle`, `PcapDevices` and `PcapSession` set `CHECK_DEADLOCK FALSE`:
every resource can legitimately end up released, and after that nothing
more happens.

## Proofs

`PcapHandleProofs` proves the following for every set of handles and filters
and every `MaxBorrows` in Nat:

- `TypeCorrect`: `Spec => []TypeOK`.
- `IInvHolds`: `Spec => []IInv`, from `InitIInv` and `NextIInv`.
- `ReleaseOnceHolds`, `NoUseAfterCloseHolds` and `BuilderSessionActiveHolds`,
  each derived from `IInv`.

`ReleaseOnce` and the two call invariants are not inductive on their own.
`IInv` strengthens them with facts that tie the handle's state to its owners:

- a live borrow implies a `Pcap` owner, which is why `DropPcap` cannot close a borrowed handle;
- a `PcapBuilder` owner implies the handle is only created;
- a `Pcap` made by the builder is active;
- an unused handle has no constructor;
- a session call recorded in `last` was issued on a handle that exists.

With these facts, each action's step preserves every conjunct. `NextIInv` has
one step per action. The lemmas `CallType` and `CloseType` give the types of
the call record and of a close.

`PcapCaptureProofs` proves `CaptureTypeCorrect`, `Spec => []TypeOK`, for
every consumer. `TypeOK` is inductive on its own (lemma `TypeNext`). It also
proves the following for every `MaxPackets` and `MaxHeld`, assuming
`Disciplined`:

- `CaptureInvHolds`: `Spec => []CaptureInv`. `CaptureInv` says:
  - packets are numbered in delivery order, and no two held packets share a number;
  - a packet is retained exactly when it is an Owned copy, and then its bytes are its own;
  - a Borrowed packet is the one in the buffer now, and it is held only between calls of `next()`.

  The last fact is what a disciplined `CallNext` establishes. It is why a
  later poll cannot overwrite a kept packet.
- `PacketIntegrityHolds`: `Spec => []PacketIntegrity`, derived from `CaptureInv`.
- `StreamRefinement`: `Spec => ImplementsStream`, that is
  `Stream!SafetySpec`. Initial states map to
  initial states. Each action maps to a stream step: `CallNext` to `Request`,
  `PollPacket` to `Yield`, `PollError` to `Fail`, and `DropPacket` to
  `Release`, since distinct packet numbers make distinct records. `PollTimeout`
  and `ToOwned` map to stutters, by `CaptureInv`.

`PcapDevicesProofs` proves, for every set of names and addresses and every
bound (`NamesAssumption`, `MaxNodesAssumption` and the others):

- `DevicesInvHolds`: `Spec => []DevicesInv`.
- `DevicesTypeCorrect`, `FindIpCorrectHolds`, and `IterAgreesHolds`. The
  last one assumes `KeepListAlive`.
- `AddressAccessorsAgreeHolds`: `Spec => []AddressAccessorsAgree`. It rests
  on `FamiliesAssumption`: the four families of native addresses are
  disjoint, as a sockaddr has one `sa_family`. The property holds of every
  list, reachable or not, because it is a fact about the operators.
  - `AccessorsOfAddress` takes one case per variant.
  - `KnownAddress` covers `try_address_from` followed by the accessors.
  - `InterfaceAddresses` shows, by extensionality over a node's address
    sequence, that `get_ip_addresses` and the MACs of an `Interface` are
    the node's native IPs and MACs.

`DevicesInv` relates the iterator's position to what it has collected: the
converted nodes before the position, which is `Prefix`, or
`get_interfaces()` once the walk is past the end. The lemmas `CollectAll`
and `CollectStops` show that `Prefix` reaches `Collected` at the end of the
list or at the first rejected node. `IfNextStep` takes one case for each
branch of `InterfaceIter::next`.

`PcapSessionProofs` proves the following for every set of handles and
filters and every bound with `MaxBorrows > MaxHeld`, and for either consumer:

- `SessionInvHolds`: `Spec => []SessionInv`.
- `BorrowsAccountHolds`, `SessionTypeCorrect` and `PacketsPinPcapHolds`.

`BorrowsAccount` is not inductive on its own. `SessionInv` adds:

- the handle's `IInv`;
- distinct packet numbers, none above `delivered`, so a new packet is never
  already kept and `to_owned` keeps the count;
- no packet and no poll before `capture`;
- a poll only in the live iterator, with room for its packet, so that the
  new borrow stays under `MaxBorrows`.

`PacketsPinPcap` then follows. A kept packet means at least one borrow, and
`IInv` says that a borrowed handle has a `Pcap` owner and is open.

The proof reuses `PcapHandleProofs!NextIInv` and
`PcapCaptureProofs!InitCaptureInv` through `INSTANCE`. Lemmas such as
`SameHNext` and `SameIInv` identify `H!X` with `HP!X` by expanding both
sides. A poll that yields a packet is no single `PcapHandle` step, because
it both calls libpcap and borrows. `PollHandleIInv` proves that the handle
invariant survives it.

`PcapSessionProofs` also proves that the composition refines the capture
model:

- `SessionRefinesCapture`: `Spec => C!Init /\ [][C!Next]_cvars`, for every
  consumer. Each session action is the capture action of the same name, or
  leaves the capture's variables alone (`SessionStepCapture`).
- Assuming `Disciplined`:
  - `SessionCaptureInv`: `Spec => []C!CaptureInv`, from
    `PcapCaptureProofs!NextCaptureInv`.
  - `SessionPacketIntegrity`.
  - `SessionStreamRefinement`: `Spec => C!Stream!SafetySpec`, from
    `PcapCaptureProofs!StepRefines`.

No theorem is about liveness: the models assume no fairness (see
Fairness).

## Not modelled

- `MacAddr` formatting, `InterfaceFlag` and the `Error` wrapper. They are
  plain data and formatting, with no state or ordering.
- The per-family `TryFrom` conversions to `Ipv4Addr` and `Ipv6Addr`, and the
  `From` impls for byte arrays. They are one-arm matches.
- `netmask`, `broadaddr` and `dstaddr` of an `InterfaceAddress`.
- The stack depth of `AddressIter`'s recursion. The hazard is listed in
  PROJECT.json.
- The getters of `PcapStat`.
- More than one `PcapIter` per behaviour in `PcapSession`. The iterators on
  one handle share its buffer exactly as one iterator's successive packets
  do.

## Plan for later work

1. Compose `PcapDevices` with the handle model. `Pcap::new` takes an
   interface name that the device list produced.
2. Add a second iterator to `PcapSession`.
3. Prove `NoReadAfterFree` for a caller that keeps the `PcapIfT` alive. It
   follows from `DevicesInv`, but it only restates the caller's discipline,
   so it is left out of the runs for now.
