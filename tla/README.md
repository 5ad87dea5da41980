# TLA+ models of rings-node

This directory holds TLA+ models of the rings-node sources under `src/`. Each
model is checked with TLC. `PROJECT.json` lists:

- the components;
- the runs and the mutants that show each property can fail;
- the map from every definition to the source lines it translates;
- the findings and the hazards.

## The system

The source tree holds two generations of the overlay node.

- **bns-core** (`src/bns-core`) contains `MessageHandler` (`message/handler.rs`),
  which drives a Chord ring by message exchange:
  - `listen` drains the swarm's inbound payloads and dispatches them to the
    `FindSuccessor`, `FoundSuccessor`, `NotifyPredecessor` and
    `NotifiedPredecessor` handlers;
  - `stabilize`, run by a periodic ticker, notifies the successor and runs
    `fix_fingers`.

  Both share two `futures::lock::Mutex`es: `routing` (the Chord state) and
  `swarm`. Every handler answers through `send_message`, which locks `swarm`.
  Relays carry a `to_path` and a `from_path` (spec 4.B). There is also the
  `IceServer` URL parser (`types/ice_transport/ice_server.rs`), whose result
  `DefaultTransport::start` is given, and a set of trait declarations.
- **rings-core** (`src/rings-core`) contains:
  - the WebRTC `DefaultTransport` (`transports/default/transport.rs`). It starts a
    peer connection, gathers ICE candidates, exchanges a signed handshake
    (SDP plus candidates), and reports `RegisterTransport` and
    `ConnectClosed` to the swarm from its ICE-state callback.
    `wait_for_connected` and `wait_for_data_channel_open` await a
    waker-based `Promise`;
  - the generic message dispatcher (`message/handlers/mod.rs`) with its native
    and wasm listen loops;
  - the SubRing operations (`handlers/subring.rs`).

The Chord state (`PeerRing`), `Swarm`, `SessionManager` and
`MessagePayload` are not in `src/`. Where a model needs them, it takes them
from `spec.md` and marks the definition `spec_modelled` in the map.

## Modules

### `Transport` / `MCTransport`: rings-core `DefaultTransport`

**State.** Per transport (`Offerer`, `Answerer`):

- the peer connection, and the data channel's ready state (`conn`, `dc`);
- the ICE server the peer connection was started with (`servers`), parsed
  from the node's configured URL text (`iceUrl`, one of `IceUrls`);
- whether `apply_callback` has run (`cbs`);
- the local and remote descriptions;
- the gathering state and the number of `pending_candidates` (`cands`);
- the ICE and peer-connection states;
- `public_key`;
- which completing handlers are installed (`handler`: the peer-connection
  state handler of `connect_success_promise`, the `on_open` handler of
  `wait_for_data_channel_open`), and the latest promise of each (`prom`:
  `done`, `ok`, whether it holds a waker);
- the events sent to the swarm;
- whether a callback panicked.

Signalled handshakes are the set `signals`.

**Actions.** The code is driven by *drivers*, tasks that follow a script of
calls:

- `TestScript` is `prepare_transport` plus `establish_connection` from the
  unit test, with one driver doing everything in order.
- `NodeScript` gives one driver to each node, the way two nodes run the
  handshake.

Each call is one action. Its guards and errors come from the code: `Start`,
`ApplyCallback`, `CreateSdp` (`get_offer`/`get_answer`),
`FinishHandshakeInfo` (after `gather_complete`, `FailedOnGatherLocalCandidate`
when there is no candidate), `SetRemoteSdp` and `SetPubkey` (the two halves of
`register_remote_info`, with an await between them), `ConnectPromise`, and
`PollPromise` (`wait_for_connected`). `DcWait` and `DcPoll` are
`wait_for_data_channel_open` up to and at its await: an Open channel
returns at once and the driver skips the await. `Start` first runs
`IceServer::from_str` on the configured URL: the operator `FromStr` of
module `IceServer`, over URL texts abstracted to the parts `Url::parse`
splits them into, with the url formatted by string concatenation as
`format!` does. `Send` is `send_message`: on an open
channel the WebRTC stack may write any number of the message's bytes (the
spec allows short writes) or fail the write (`RTCDataChannelSendTextFailed`), and the code's `!s == size` test is computed
with `Bitwise` at the width `UsizeBits` (4 bits stand for 64: the test
never holds for a short write of a small message at either width). The
node drivers each wait for their data channel and send one message once
their waits return.

The environment is the WebRTC stack:

- it gathers candidates and completes gathering;
- it moves ICE through checking, connected, disconnected and failed, with a
  bounded number of flaps;
- it moves the peer connection to connected or failed;
- it opens the data channel of a connected peer connection, running its
  `on_open` handler.

Each environment step runs the callbacks that the code installed, in the
same step.

**Fairness.** Drivers are weakly fair, because the executor polls ready
tasks. A connected ICE transport eventually brings the peer connection up
(DTLS), and a connected peer connection eventually opens the data channel
(SCTP). Nothing else is assumed of the network.

### `IceServer`: bns-core `IceServer::from_str`

The module holds the following operators; Transport extends it.

- `UrlText`: a URL text, given by its parts.
- `HasHost`: `Url::parse`'s `has_host`.
- `FromStr`: `from_str`. It checks the scheme and the host, drops the
  userinfo from the url, formats the port only when present, and defaults
  the password to `""`.

### `ChordHandler` / `MCChordHandler`: bns-core `MessageHandler`

**State.**

- Per node:
  - the Chord state (`succ`, `pred`, `fingers`, `fixIdx`);
  - the holder of each mutex (`chordLock`, `swarmLock`);
  - the listener's program counter and current message;
  - the stabilizer's program counter and outgoing message;
  - a tick counter.
- For the whole system: the set of payloads in flight (`net`).

**Actions.**

- `ListenStart` takes `swarm` for good, at `handler.rs:272`.
- `Receive` takes the next payload.
- `Dispatch` is `handle_message`. It briefly locks `routing`, and a type with
  no handler, such as `FindSuccessorForFix`, is logged and dropped.
- One action per handler. Each locks `routing`, runs the body, and ends by
  calling `send_message` while it still holds `routing`. A failed `assert_eq!`,
  `panic!` or empty-path index ends the listener task, and unwinding releases
  its guards.
- The stabilizer has four steps: `Tick`, `StabilizeLock`, `StabilizeNotify`
  (the notify send plus `fix_fingers`) and `StabilizeFixSend`.
- `Transmit` is `Swarm::send_message`. A payload to oneself fails, because
  there is no transport to oneself, and the callers ignore the error.

`find_successor`, `closest_preceding_finger`, `notify`, `fix_fingers` and
`MessageRelay::new` are spec-modelled operators. For `MessageRelay::new` the
argument order is `(to_path, from_path)`, which is how four of its six call
sites use it.

The code's own sends hardly ever reach another handler: reports go to self,
the notify goes to self, and the listener deadlocks at its first send. So a
bounded **injector** stands for peers that follow the spec's relay law. It
sends one-hop `FindSuccessor`, `NotifyPredecessor`, `FoundSuccessor`
(answering a join lookup) and `NotifiedPredecessor` (carrying the sender's
actual predecessor).

**Fairness.** Each task is weakly fair. No liveness property is checked yet.

### `MessageDispatch` / `MCMessageDispatch`: rings-core `handlers/mod.rs`

**State.**

- `queue`: the swarm's inbound payloads, in arrival order. A payload is a
  record of sender, sequence number, kind (custom, builtin, MultiCall,
  JoinSubRing), whether a custom message is addressed to this node, and
  whether `verify()` passes.
- `task[t]`: each listener task's program counter, its payload and its
  MultiCall item index.
- `spawned`: the number of `listen_once` tasks spawned so far.
- `trace`: what became of each payload and item, in order: skipped,
  rejected by the validator, `Err`, unsupported, MultiCall aborted, or a
  `custom_message` / `builtin_message` callback.

**Actions.**

- `SendMessage`, `SubringCreate` and `SubringJoin` put a sender's payload on
  the queue. `subring_create` stores the subring and sends `StoreVNode`;
  `subring_join` sends `JoinSubRing` to the next hop.
- Native: `ListenPoll` takes the head of the queue and skips a payload that
  fails `verify()`.
- Wasm: `Spawn` is one tick of `poll!(func, 1000)`, which spawns a
  `listen_once` task. `ListenOncePoll` takes the head and hands it on even
  when `verify()` fails.
- `Validate` is the validator hook. `Handle` is the `match`: a handler's
  `Err`, a kind without an arm, or a MultiCall.
- `Item` handles one MultiCall item. `MessagePayload::new(..., Stick)` may
  fail, and its `?` leaves the whole batch. Otherwise the recursive
  `handle_payload` runs and its error is ignored.
- `Callback` is `invoke_callback`. `Finish` returns the native loop to
  polling and ends a `listen_once` task.

The concrete handlers are outside `src/`: each returns Ok or Err
nondeterministically.

**Abstract specification.** `SerialInbox` is what the native listener
promises:

- payloads are taken in arrival order;
- one payload is in hand at a time;
- unverified payloads are dropped;
- the queue is drained (weak fairness).

`MessageDispatch` instantiates it with `inbox <- queue`, and with `hand`
holding the one listener task's payload from validation until
`handle_payload` returns.

**Fairness.** Every task is weakly fair: the executor polls ready tasks. In
the wasm build `Spawn` is weakly fair, because the ticker keeps firing.
Senders are not fair, since nobody has to send.

## Runs

| run | cfg | expect | what it shows |
|---|---|---|---|
| transport_handshake | MCTransport.cfg | pass | Two node drivers, 2 candidates, 1 ICE flap, and an ICE URL that `from_str` accepts or rejects. A signed handshake always carries every candidate gathered (`HandshakeCarriesAllCandidates`). `RegisterTransport` is never the latest event of a transport whose ICE is down (`NotRegisteredWhileDown`). |
| transport_pubkey_race | MCTransport_pubkey.cfg | violation | `PubkeySetBeforeConnected`, in the unit test's own call order: the offerer's ICE reaches Connected after `set_remote_description` and before `public_key` is written. The callback's `unwrap()` panics and no `RegisterTransport` is sent. |
| transport_send_incomplete | MCTransport_send.cfg | violation | `OkSendIsComplete`: a short write on the data channel is reported Ok, because `send_message` tests `!s == size`. |
| transport_awaits_resolve | MCTransport_awaits.cfg | violation | `AwaitsResolve` (liveness): two nodes wait for Connected and then for the data channel. The peer connection becomes Connected (or the channel Open) before the promise is first polled. The completing handler finds no waker, and the await never returns. TLC's trace stops at `wait_for_connected`. With the property restricted to the data-channel await, it stops at `wait_for_data_channel_open` instead. |
| chord_locks_fingers | MCChordHandler.cfg | pass | Three nodes, one stabilize round each, two injected payloads. It fires every ChordHandler action. `TypeOK` is the type of the state. Every message carries a ring id, so the NotifiedPredecessor that `handle_notify_predecessor` builds never meets the `unwrap()` of an unset predecessor. The mutant `HandleNotifyPredecessorStale` reports the predecessor read before `notify`, and TLC catches it. |
| chord_lock_cycle | MCChordHandler_NoLockCycle.cfg | violation | `NoLockCycle`: the listener holds `swarm` and waits for `routing`, while stabilize holds `routing` and waits for `swarm`. Equally, a handler's reply waits on the `swarm` guard its own task holds. |
| chord_reports_back | MCChordHandler_ReportsReachPreviousHop.cfg | violation | `ReportsReachPreviousHop` (spec 4.B: a REPORT travels back along the path). Node 2's NotifyPredecessor reaches node 1. `handle_notify_predecessor` (`handler.rs:174`) addresses its NotifiedPredecessor REPORT to `relay.to_path.back()`, which is node 1, the handling node itself. `handle_find_successor` (`handler.rs:210`) does the same. |
| chord_notified_overwrite | MCChordHandler_SuccessorNotSelf.cfg | violation | `SuccessorNotSelf`: a node notifies its successor, which reports the node back as its predecessor. The node then becomes its own successor. |
| dispatch_native | MCMessageDispatch.cfg | pass | Native loop, two senders, three payloads, a validator, a MultiCall of two custom messages. Each sender's custom callbacks run in send order (`CallbacksInSendOrder`), and the loop implements `SerialInbox` (`SerialListener`). |
| dispatch_wasm | MCMessageDispatch_wasm.cfg | pass | Wasm listen with two `listen_once` tasks and two payloads. A MultiCall's items are called back in order, before the batch itself (`BatchCallbackLast`). |
| dispatch_wasm_order | MCMessageDispatch_order.cfg | violation | `CallbacksInSendOrder`: two `listen_once` tasks from successive ticks interleave. One sender's second custom message reaches `custom_message` before its first, against spec S2 and the test at `mod.rs:282`. |
| dispatch_dropped_payload | MCMessageDispatch_dropped.cfg | violation | `EveryPayloadHandled`: `handle_payload` never rejects as unsupported a payload kind that has a handler. The `JoinSubRing` that `subring_join` sends has a handler (`subring.rs:63`), but `handle_payload` has no arm for it, so it ends in the unsupported arm. |

Every property of a passing run has a mutant in `PROJECT.json`: a plausible
bug in the mapped code that TLC must catch.

- `FinishHandshakeInfoNoWait` does not await gathering.
- `OnIceStateNoDisconnect` forgets the Disconnected arm.
- `HandleNotifyPredecessorStale` reports the predecessor read before
  `notify`.
- `ItemReversed` pops the items from the back.
- `ListenPollUnchecked` drops the native `verify()` check.
- `HandleCallbackFirst` calls back a MultiCall before its items.

## Bounds

- **Transport.** Two transports, up to 2 candidates and 1 ICE flap. This is
  enough for a handshake whose candidates are still being gathered, and for
  a disconnect followed by a reconnect. The configured ICE URL is input a
  or input e of `test_parsing`. `from_str` accepts a, and `start` goes on.
  It rejects e's `http` scheme, and `start` fails. Every other accepted
  URL takes the same path through the code. The run has about 256k
  distinct states and takes about 1 minute. The violation runs use the unit test's single
  `stun://` URL.
- **ChordHandler.** A ring of 8 ids (`FingerBits = 3`) with nodes 1, 2 and 6,
  joined as 1 → 2 → 6 → 1, and only the first finger known.
  - The first `fix_fingers` round answers locally for nodes 2 and 6 and
    needs a remote lookup for node 1, so both branches happen.
  - Two injected payloads are enough for a notify followed by its report.
  - One stabilize round per node already reaches every lock interleaving of
    the two tasks.
  - The run has about 1.08M distinct states and takes under 2 minutes.

- **MessageDispatch.**
  - Native: two senders and at most three payloads in all (two from one
    sender), so the per-sender order is tested with another sender's
    payload in between.
  - Wasm: two payloads and two tasks, which is the least that makes two
    handlers overlap.
  - A MultiCall of two items is the least for item order and for an abort
    that skips a later item.
  - The native run has about 433k distinct states and takes under a
    minute. It uses no symmetry reduction: it checks the temporal
    property `SerialListener`, and TLC can miss liveness violations under
    symmetry. The wasm run checks only invariants, so it permutes the two
    senders (`SenderSymmetry`). It has about 170k distinct states.

## Not modelled yet (plan for later work)

1. **Transport, continued:**
   - `on_data_channel`, which forwards received messages to the swarm: the
     composition of `Transport` with `MessageDispatch`;
   - `close`, which no caller in `src/` uses;
   - a second `wait_for_connected` replacing the state handler. Every
     caller in `src/` waits once per transport.
2. **IceServer, the rest:**
   - `IceServer::default` and the `From` conversions to the webrtc and
     web-sys types are field copies and are not modelled.
   - The URL abstraction has no percent-encoding and no query. `from_str`
     passes `username()` and `password()` on still percent-encoded, and it
     drops a `?transport=` query. Both are easy to unit-test, so no run is
     spent on them.
3. **PeerRing refinement**: an abstract ring whose successor pointers only
   move closer, refined by `ChordHandler` with the listener deadlock
   removed. This cannot be checked against the current code, because the
   deadlock stops every node.
4. **Swarm composition**: transports registering in a shared table, with two
   handshakes racing between the same pair of nodes.

Out of reach or left out on purpose:

- bns-core's `handler.rs` does not compile as a whole. The ConnectNode
  arm of `handle_message` lacks its closing `}` (lines 44-46).
  `handle_connect_node` and `handle_already_connected` use a `self.dht`
  field that `MessageHandler` does not have. The model takes the evident
  intent of the rest of the file: the arms after ConnectNode dispatch as
  written. Those two handlers are left out.
- Three Chord findings share one run budget. The run checks
  `ReportsReachPreviousHop`. Two more faults of the same kind have no
  run of their own. Stabilize addresses its NotifyPredecessor to
  `current`, the node itself, instead of its successor (`handler.rs:309`).
  `fix_fingers` sends `FindSuccessorForFix`, which `handle_message` has no
  arm for (`handler.rs:335`). Both can be read directly from the source,
  so the one run goes to the REPORT path: it takes a message from another
  node to reach it.
- A MultiCall item whose `MessagePayload::new` fails leaves the whole batch
  through `?` (`mod.rs:154`). `Item` models this, but no property checks
  it. `MessagePayload::new` fails only on signing or serialization, which
  honest peers never trigger (see below).
- The wasm processor test is a browser harness.
- The `JoinSubRing` handler (`subring.rs:63-78`) cannot be reached, so
  its body (joining the subring's finger table) is not modelled. Run
  `dispatch_dropped_payload` shows the payload ending in `Handle`'s
  unsupported branch.
- Two transport hazards have no property. Candidates gathered before
  `apply_callback` are lost (`transport.rs:180`). A second
  `connect_success_promise` replaces the first one's handler
  (`transport.rs:530`). No caller in the repository does either: every
  driver calls `apply_callback` first and waits once per transport. A
  script that did would check a program nobody runs.
- Signatures, serialization and gzip are treated as always succeeding for
  honest peers.
