------------------------------ MODULE Transport ------------------------------
(***************************************************************************)
(* The WebRTC transport of rings-core                                      *)
(* (src/rings-core/src/transports/default/transport.rs) during the         *)
(* offer/answer handshake between two peers.                               *)
(*                                                                         *)
(* Three kinds of actor interleave:                                        *)
(*  - drivers: the code that calls the transport API in a fixed order      *)
(*    (the test establish_connection, or one caller per node); a driver    *)
(*    is a CONSTANT script of (operation, transport) pairs;                *)
(*  - the ICE agent and peer connection of each transport (environment):   *)
(*    candidate gathering, ICE connection state, peer connection state;    *)
(*  - the callbacks the transport installs on the peer connection, which   *)
(*    run inside the environment's state-change steps.                     *)
(*                                                                         *)
(* A transport's remote peer is identified by its Did; Peer(t) is the Did  *)
(* of the node at the other end of t.  Payload signing and verification    *)
(* are abstracted to "the handshake carries the signer's Did".             *)
(***************************************************************************)
EXTENDS Naturals, Sequences, Bitwise, IceServer

CONSTANTS
    Offerer,     \* the transport that creates the offer
    Answerer,    \* the transport that answers it
    Nil,         \* None
    Drivers,     \* the tasks that call the transport API
    Script,      \* Script[d]: the sequence of [op, t] calls driver d makes
    MaxCands,    \* bound on the local ICE candidates gathered per transport
    MaxFlaps,    \* bound on Connected -> Disconnected transitions per transport
    MsgSize,     \* length of the message a driver sends
    UsizeBits,   \* width of usize
    IceUrls      \* the ICE server URL texts a node may be configured with

Transports == {Offerer, Answerer}
Peer(t) == IF t = Offerer THEN Answerer ELSE Offerer

Ops == {"Start", "ApplyCallback", "CreateSdp", "FinishHandshakeInfo",
        "SetRemoteSdp", "SetPubkey", "ConnectPromise", "PollPromise", "Send",
        "DcWait", "DcPoll"}

ASSUME /\ Nil \notin Transports
       /\ \A d \in Drivers : \A i \in DOMAIN Script[d] :
              Script[d][i].op \in Ops /\ Script[d][i].t \in Transports

\* The SDP a transport creates: the offerer offers, the answerer answers.
SdpKind(t) == IF t = Offerer THEN "offer" ELSE "answer"

IceStates == {"new", "checking", "connected", "disconnected", "failed"}
PcStates  == {"new", "connected", "failed"}
DcStates  == {"none", "connecting", "open"}

\* What a Promise is created to await: the peer connection reaching
\* Connected (connect_success_promise) or the data channel opening
\* (wait_for_data_channel_open).
Awaits == {"connected", "open"}
NoPromise == [done |-> FALSE, ok |-> FALSE, waker |-> FALSE]

VARIABLES
    step,       \* step[d]: index in Script[d] of the next call of driver d
    outcome,    \* outcome[d]: "running", "ok" or "err" (a call returned Err)
    conn,       \* conn[t]: the RTCPeerConnection is Some
    dc,         \* dc[t]: "none", or the ready state of the "rings" data channel
    cbs,        \* cbs[t]: apply_callback installed the ICE callbacks
    local,      \* local[t]: local description: "none", "offer", "answer"
    remote,     \* remote[t]: remote description
    gathering,  \* gathering[t]: ICE gathering state
    cands,      \* cands[t]: length of pending_candidates
    ice,        \* ice[t]: RTCIceConnectionState
    flaps,      \* flaps[t]: Connected -> Disconnected transitions so far
    pcs,        \* pcs[t]: RTCPeerConnectionState
    pubkey,     \* pubkey[t]: public_key, the remote peer's key or Nil
    handler,    \* handler[t]: the awaits whose completing handler is installed
    prom,       \* prom[t][w]: state of the latest Promise created for await w
    signals,    \* handshake infos published to the signalling carrier
    events,     \* events[t]: Events sent on the swarm's event channel
    panicked,   \* panicked[t]: a callback of t hit unwrap() on None
    sends,      \* sends[t]: [bytes, res] of each cnn.send that returned Ok(bytes)
    iceUrl,     \* the ICE server URL text the drivers pass to from_str
    servers     \* servers[t]: the IceServer t's peer connection was created with

vars == <<step, outcome, conn, dc, cbs, local, remote, gathering, cands, ice,
          flaps, pcs, pubkey, handler, prom, signals, events, panicked, sends,
          iceUrl, servers>>

\* The part of the state only start changes (every other step leaves it).
iceVars == <<iceUrl, servers>>

Signal == [kind : {"offer", "answer"}, from : Transports, cands : 1..MaxCands]
Event  == [kind : {"RegisterTransport", "ConnectClosed"}, did : Transports]

\* DefaultTransport::new: no connection, no channel, no candidates, no key.
Init ==
    /\ step = [d \in Drivers |-> 1]
    /\ outcome = [d \in Drivers |-> "running"]
    /\ conn = [t \in Transports |-> FALSE]
    /\ dc = [t \in Transports |-> "none"]
    /\ cbs = [t \in Transports |-> FALSE]
    /\ local = [t \in Transports |-> "none"]
    /\ remote = [t \in Transports |-> "none"]
    /\ gathering = [t \in Transports |-> "new"]
    /\ cands = [t \in Transports |-> 0]
    /\ ice = [t \in Transports |-> "new"]
    /\ flaps = [t \in Transports |-> 0]
    /\ pcs = [t \in Transports |-> "new"]
    /\ pubkey = [t \in Transports |-> Nil]
    /\ handler = [t \in Transports |-> {}]
    /\ prom = [t \in Transports |-> [w \in Awaits |-> NoPromise]]
    /\ signals = {}
    /\ events = [t \in Transports |-> <<>>]
    /\ panicked = [t \in Transports |-> FALSE]
    /\ sends = [t \in Transports |-> <<>>]
    /\ iceUrl \in IceUrls
    /\ servers = [t \in Transports |-> Nil]

-----------------------------------------------------------------------------
(* Driver bookkeeping *)

\* Driver d's next call is op on transport t.
Calls(d, op, t) ==
    /\ outcome[d] = "running"
    /\ step[d] <= Len(Script[d])
    /\ Script[d][step[d]] = [op |-> op, t |-> t]

\* The driver goes on k calls further (the script ends in "ok").
Advance(d, k) ==
    /\ step' = [step EXCEPT ![d] = @ + k]
    /\ outcome' = [outcome EXCEPT ![d] = IF step[d] + k > Len(Script[d]) THEN "ok" ELSE @]

\* The call returned Ok: go on with the next one.
Return(d) == Advance(d, 1)

\* The call returned Err: the `?` ends the driver.
Fail(d) ==
    /\ outcome' = [outcome EXCEPT ![d] = "err"]
    /\ UNCHANGED step

\* Setting a description starts the ICE transports once both are present:
\* the agent moves to Checking (establish_connection asserts it right after
\* the answer is created).
IceAfterDescriptions(t, l, r) ==
    ice' = [ice EXCEPT ![t] = IF l # "none" /\ r # "none" /\ @ = "new"
                              THEN "checking" ELSE @]

-----------------------------------------------------------------------------
(* Callbacks installed by apply_callback and connect_success_promise.  They *)
(* run inside the environment step that changes the state they observe.    *)

\* Mutant: the terminal-state arm matches Failed | Closed but not Disconnected.
OnIceStateNoDisconnect(t, cs) ==
    IF cbs[t] /\ cs \in {"connected", "failed"}
    THEN IF pubkey[t] = Nil
         THEN /\ panicked' = [panicked EXCEPT ![t] = TRUE]
              /\ UNCHANGED events
         ELSE /\ events' = [events EXCEPT ![t] = Append(@,
                    [kind |-> IF cs = "connected" THEN "RegisterTransport"
                                                  ELSE "ConnectClosed",
                     did  |-> pubkey[t]])]
              /\ UNCHANGED panicked
    ELSE UNCHANGED <<events, panicked>>

\* on_ice_connection_state_change: on Connected send RegisterTransport, on
\* Failed | Disconnected | Closed send ConnectClosed; both first read
\* public_key and unwrap() it.
OnIceState(t, cs) ==
    IF cbs[t] /\ cs \in {"connected", "failed", "disconnected"}
    THEN IF pubkey[t] = Nil
         THEN /\ panicked' = [panicked EXCEPT ![t] = TRUE]
              /\ UNCHANGED events
         ELSE /\ events' = [events EXCEPT ![t] = Append(@,
                    [kind |-> IF cs = "connected" THEN "RegisterTransport"
                                                  ELSE "ConnectClosed",
                     did  |-> pubkey[t]])]
              /\ UNCHANGED panicked
    ELSE UNCHANGED <<events, panicked>>

\* The body every completing closure shares: `if let Some(w) =
\* s.waker.take()`, mark the promise completed with the given success and
\* wake; a promise nobody has polled yet has no waker and stays pending.
Wake(t, w, ok) ==
    prom' = IF w \in handler[t] /\ prom[t][w].waker
            THEN [prom EXCEPT ![t][w] = [done |-> TRUE, ok |-> ok, waker |-> FALSE]]
            ELSE prom

\* The on_peer_connection_state_change closure of connect_success_promise.
OnPcState(t, st) == Wake(t, "connected", st = "connected")

-----------------------------------------------------------------------------
(* Driver calls *)

\* IceServer::from_str of the configured URL (an error ends the driver),
\* then start: create the peer connection with that ICE server, then
\* setup_channel("rings").
Start(d, t) ==
    /\ Calls(d, "Start", t)
    /\ LET parsed == FromStr(iceUrl) IN
       \/ /\ parsed.ok
          /\ conn' = [conn EXCEPT ![t] = TRUE]
          /\ dc' = [dc EXCEPT ![t] = "connecting"]
          /\ servers' = [servers EXCEPT ![t] = parsed.server]
          /\ Return(d)
       \/ /\ Fail(d)      \* from_str error, or RTCPeerConnectionCreateFailed
          /\ UNCHANGED <<conn, dc, servers>>
    /\ UNCHANGED <<iceUrl, cbs, local, remote, gathering, cands, ice, flaps, pcs,
                   pubkey, handler, prom, signals, events, panicked, sends>>

\* apply_callback: install the candidate, data channel and ICE state callbacks.
ApplyCallback(d, t) ==
    /\ Calls(d, "ApplyCallback", t)
    /\ IF conn[t]
       THEN /\ cbs' = [cbs EXCEPT ![t] = TRUE]
            /\ Return(d)
       ELSE /\ Fail(d)                    \* RTCPeerConnectionNotEstablish
            /\ UNCHANGED cbs
    /\ UNCHANGED <<conn, dc, local, remote, gathering, cands, ice, flaps, pcs,
                   pubkey, handler, prom, signals, events, panicked, sends, iceVars>>

\* get_handshake_info, first half: get_offer / get_answer create the SDP and
\* set it as local description, which starts candidate gathering.
CreateSdp(d, t) ==
    /\ Calls(d, "CreateSdp", t)
    /\ IF conn[t] /\ (SdpKind(t) = "answer" => remote[t] = "offer")
       THEN /\ local' = [local EXCEPT ![t] = SdpKind(t)]
            /\ gathering' = [gathering EXCEPT ![t] =
                                IF @ = "new" THEN "gathering" ELSE @]
            /\ IceAfterDescriptions(t, SdpKind(t), remote[t])
            /\ Return(d)
       ELSE /\ Fail(d)       \* NotEstablish or CreateAnswerFailed
            /\ UNCHANGED <<local, gathering, ice>>
    /\ UNCHANGED <<conn, dc, cbs, remote, cands, flaps, pcs, pubkey, handler,
                   prom, signals, events, panicked, sends, iceVars>>

\* Mutant: the candidates are read without awaiting gather_complete.
FinishHandshakeInfoNoWait(d, t) ==
    /\ Calls(d, "FinishHandshakeInfo", t)
    /\ IF cands[t] = 0
       THEN /\ Fail(d)
            /\ UNCHANGED signals
       ELSE /\ signals' = signals \cup
                 {[kind |-> SdpKind(t), from |-> t, cands |-> cands[t]]}
            /\ Return(d)
    /\ UNCHANGED <<conn, dc, cbs, local, remote, gathering, cands, ice, flaps,
                   pcs, pubkey, handler, prom, events, panicked, sends, iceVars>>

\* get_handshake_info, second half: after gather_complete.recv(), bundle the
\* SDP and pending_candidates into a signed TricklePayload; no candidate is
\* FailedOnGatherLocalCandidate.
FinishHandshakeInfo(d, t) ==
    /\ Calls(d, "FinishHandshakeInfo", t)
    /\ gathering[t] = "complete"
    /\ IF cands[t] = 0
       THEN /\ Fail(d)
            /\ UNCHANGED signals
       ELSE /\ signals' = signals \cup
                 {[kind |-> SdpKind(t), from |-> t, cands |-> cands[t]]}
            /\ Return(d)
    /\ UNCHANGED <<conn, dc, cbs, local, remote, gathering, cands, ice, flaps,
                   pcs, pubkey, handler, prom, events, panicked, sends, iceVars>>

\* register_remote_info, first half: decode and verify the peer's handshake
\* info, then set_remote_description.
SetRemoteSdp(d, t) ==
    /\ Calls(d, "SetRemoteSdp", t)
    /\ \E s \in signals :
        /\ s.from = Peer(t)
        /\ \/ /\ remote' = [remote EXCEPT ![t] = s.kind]
              /\ IceAfterDescriptions(t, local[t], s.kind)
              /\ Return(d)
           \/ /\ Fail(d)                 \* VerifySignatureFailed (expired)
              /\ UNCHANGED <<remote, ice>>
    /\ UNCHANGED <<conn, dc, cbs, local, gathering, cands, flaps, pcs, pubkey,
                   handler, prom, signals, events, panicked, sends, iceVars>>

\* register_remote_info, second half: add every remote candidate (failures
\* are only logged), then write the signer's key into public_key.
SetPubkey(d, t) ==
    /\ Calls(d, "SetPubkey", t)
    /\ pubkey' = [pubkey EXCEPT ![t] = Peer(t)]
    /\ Return(d)
    /\ UNCHANGED <<conn, dc, cbs, local, remote, gathering, cands, ice, flaps,
                   pcs, handler, prom, signals, events, panicked, sends, iceVars>>

\* connect_success_promise: install the state handler on the peer
\* connection, then complete the new promise if the connection is already
\* Connected -- which again requires a waker the new promise cannot have.
ConnectPromise(d, t) ==
    /\ Calls(d, "ConnectPromise", t)
    /\ IF conn[t]
       THEN /\ handler' = [handler EXCEPT ![t] = @ \cup {"connected"}]
            /\ prom' = [prom EXCEPT ![t]["connected"] =
                          IF pcs[t] = "connected" /\ NoPromise.waker
                          THEN [done |-> TRUE, ok |-> TRUE, waker |-> FALSE]
                          ELSE NoPromise]
            /\ Return(d)
       ELSE /\ Fail(d)
            /\ UNCHANGED <<handler, prom>>
    /\ UNCHANGED <<conn, dc, cbs, local, remote, gathering, cands, ice, flaps,
                   pcs, pubkey, signals, events, panicked, sends, iceVars>>

\* Promise::poll of the promise for await w: a completed promise is Ready
\* (Ok or Err); otherwise the poll stores the waker and the task is Pending
\* until a closure wakes it.
PollAwait(d, t, w) ==
    /\ prom[t][w].done \/ ~prom[t][w].waker
    /\ IF prom[t][w].done
       THEN /\ IF prom[t][w].ok THEN Return(d) ELSE Fail(d)
            /\ UNCHANGED prom
       ELSE /\ prom' = [prom EXCEPT ![t][w].waker = TRUE]
            /\ UNCHANGED <<step, outcome>>

\* wait_for_connected awaits the promise of connect_success_promise.
PollPromise(d, t) ==
    /\ Calls(d, "PollPromise", t)
    /\ PollAwait(d, t, "connected")
    /\ UNCHANGED <<conn, dc, cbs, local, remote, gathering, cands, ice, flaps,
                   pcs, pubkey, handler, signals, events, panicked, sends, iceVars>>

\* `!s` of a usize s: the bitwise complement at the width of usize.
UsizeNot(s) == s ^^ (2^UsizeBits - 1)

\* cnn.send succeeds only on a channel whose ready state is Open.
DcOpen(t) == dc[t] = "open"

\* send_message: no channel is RTCDataChannelNotReady; a send on a channel
\* that is not open fails (RTCDataChannelStateNotOpen), and so may one on
\* an open channel (RTCDataChannelSendTextFailed); a send that writes s of
\* the message's bytes is MessageIncomplete when `!s == size`, and Ok
\* otherwise.
Send(d, t) ==
    /\ Calls(d, "Send", t)
    /\ \/ /\ DcOpen(t)
          /\ \E s \in 0 .. MsgSize :
               LET res == IF UsizeNot(s) = MsgSize THEN "incomplete" ELSE "ok"
               IN  /\ sends' = [sends EXCEPT ![t] = Append(@, [bytes |-> s, res |-> res])]
                   /\ IF res = "ok" THEN Return(d) ELSE Fail(d)
       \/ /\ Fail(d)
          /\ UNCHANGED sends
    /\ UNCHANGED <<conn, dc, cbs, local, remote, gathering, cands, ice, flaps,
                   pcs, pubkey, handler, prom, signals, events, panicked, iceVars>>


\* wait_for_data_channel_open, up to the await: no channel is
\* RTCDataChannelNotReady; an Open channel returns Ok at once (the driver
\* skips the await that follows); otherwise it creates a Promise and
\* installs an on_open handler that completes it.
DcWait(d, t) ==
    /\ Calls(d, "DcWait", t)
    /\ \/ /\ dc[t] = "none"
          /\ Fail(d)
          /\ UNCHANGED <<handler, prom>>
       \/ /\ dc[t] = "open"
          /\ Advance(d, 2)
          /\ UNCHANGED <<handler, prom>>
       \/ /\ dc[t] = "connecting"
          /\ handler' = [handler EXCEPT ![t] = @ \cup {"open"}]
          /\ prom' = [prom EXCEPT ![t]["open"] = NoPromise]
          /\ Return(d)
    /\ UNCHANGED <<conn, dc, cbs, local, remote, gathering, cands, ice, flaps,
                   pcs, pubkey, signals, events, panicked, sends, iceVars>>

\* wait_for_data_channel_open, the `promise.await`.
DcPoll(d, t) ==
    /\ Calls(d, "DcPoll", t)
    /\ PollAwait(d, t, "open")
    /\ UNCHANGED <<conn, dc, cbs, local, remote, gathering, cands, ice, flaps,
                   pcs, pubkey, handler, signals, events, panicked, sends, iceVars>>

-----------------------------------------------------------------------------
(* Environment: the ICE agent and the peer connection of each transport *)

\* The gatherer reports a local candidate; on_ice_candidate pushes it onto
\* pending_candidates (candidates before apply_callback are not seen).
GatherCandidate(t) ==
    /\ gathering[t] = "gathering"
    /\ cbs[t]
    /\ cands[t] < MaxCands
    /\ cands' = [cands EXCEPT ![t] = @ + 1]
    /\ UNCHANGED <<step, outcome, conn, dc, cbs, local, remote, gathering, ice,
                   flaps, pcs, pubkey, handler, prom, signals, events, panicked, sends, iceVars>>

\* Gathering completes (possibly with no candidate at all).
GatherComplete(t) ==
    /\ gathering[t] = "gathering"
    /\ gathering' = [gathering EXCEPT ![t] = "complete"]
    /\ UNCHANGED <<step, outcome, conn, dc, cbs, local, remote, cands, ice,
                   flaps, pcs, pubkey, handler, prom, signals, events, panicked, sends, iceVars>>

\* An ICE connection state change and the callback it runs.
IceChange(t, from, to) ==
    /\ ice[t] \in from
    /\ ice' = [ice EXCEPT ![t] = to]
    /\ OnIceState(t, to)

\* Connectivity checks succeed; peer-reflexive candidates need only the
\* remote credentials, so the remote candidates need not be added yet.  The
\* peer's agent must be checking too, i.e. know this side's description.
IceConnect(t) ==
    /\ ice[Peer(t)] \in {"checking", "connected", "disconnected"}
    /\ IceChange(t, {"checking"}, "connected")
    /\ UNCHANGED <<step, outcome, conn, dc, cbs, local, remote, gathering, cands,
                   flaps, pcs, pubkey, handler, prom, signals, sends, iceVars>>

IceDisconnect(t) ==
    /\ flaps[t] < MaxFlaps
    /\ IceChange(t, {"connected"}, "disconnected")
    /\ flaps' = [flaps EXCEPT ![t] = @ + 1]
    /\ UNCHANGED <<step, outcome, conn, dc, cbs, local, remote, gathering, cands,
                   pcs, pubkey, handler, prom, signals, sends, iceVars>>

IceReconnect(t) ==
    /\ IceChange(t, {"disconnected"}, "connected")
    /\ UNCHANGED <<step, outcome, conn, dc, cbs, local, remote, gathering, cands,
                   flaps, pcs, pubkey, handler, prom, signals, sends, iceVars>>

IceFail(t) ==
    /\ IceChange(t, {"checking", "disconnected"}, "failed")
    /\ UNCHANGED <<step, outcome, conn, dc, cbs, local, remote, gathering, cands,
                   flaps, pcs, pubkey, handler, prom, signals, sends, iceVars>>

\* The peer connection follows ICE (DTLS on top): Connected once ICE is,
\* Failed once ICE failed; each change runs connect_success_promise's handler.
PcChange(t, to) ==
    /\ \/ to = "connected" /\ pcs[t] = "new" /\ ice[t] = "connected"
       \/ to = "failed" /\ pcs[t] # "failed" /\ ice[t] = "failed"
    /\ pcs' = [pcs EXCEPT ![t] = to]
    /\ OnPcState(t, to)
    /\ UNCHANGED <<step, outcome, conn, dc, cbs, local, remote, gathering, cands,
                   ice, flaps, pubkey, handler, signals, events, panicked, sends, iceVars>>


\* The SCTP association over a connected peer connection opens the data
\* channel: its ready state becomes Open and the on_open handler of
\* wait_for_data_channel_open runs.
ChannelOpen(t) ==
    /\ dc[t] = "connecting"
    /\ pcs[t] = "connected"
    /\ dc' = [dc EXCEPT ![t] = "open"]
    /\ Wake(t, "open", TRUE)
    /\ UNCHANGED <<step, outcome, conn, cbs, local, remote, gathering, cands,
                   ice, flaps, pcs, pubkey, handler, signals, events, panicked, sends, iceVars>>

-----------------------------------------------------------------------------

DriverStep(d) ==
    \E t \in Transports :
        \/ Start(d, t)
        \/ ApplyCallback(d, t)
        \/ CreateSdp(d, t)
        \/ FinishHandshakeInfo(d, t)
        \/ SetRemoteSdp(d, t)
        \/ SetPubkey(d, t)
        \/ ConnectPromise(d, t)
        \/ PollPromise(d, t)
        \/ Send(d, t)
        \/ DcWait(d, t)
        \/ DcPoll(d, t)

Environment(t) ==
    \/ GatherCandidate(t)
    \/ GatherComplete(t)
    \/ IceConnect(t)
    \/ IceDisconnect(t)
    \/ IceReconnect(t)
    \/ IceFail(t)
    \/ PcChange(t, "connected")
    \/ PcChange(t, "failed")
    \/ ChannelOpen(t)

Next ==
    \/ \E d \in Drivers : DriverStep(d)
    \/ \E t \in Transports : Environment(t)

\* Every driver task is polled whenever it can make progress (the executor
\* runs ready tasks); the network gives no guarantee beyond that a
\* connected ICE transport lets DTLS bring the peer connection up, and a
\* connected peer connection lets SCTP open the negotiated data channel.
Fairness ==
    /\ \A d \in Drivers : WF_vars(DriverStep(d))
    /\ \A t \in Transports : WF_vars(PcChange(t, "connected"))
    /\ \A t \in Transports : WF_vars(ChannelOpen(t))

Spec == Init /\ [][Next]_vars /\ Fairness

-----------------------------------------------------------------------------
(* Properties *)

\* get_handshake_info awaits gathering completion before reading
\* pending_candidates: every published offer or answer carries every
\* candidate its transport ever gathers, so the peer is never left without
\* the candidate that would have connected it.
HandshakeCarriesAllCandidates ==
    \A s \in signals : s.cands = cands[s.from]

\* The ICE state callback reports every change that ends a connection: the
\* swarm's last event for a transport is never RegisterTransport while the
\* transport's ICE connection is down (spec: transports are removed on
\* Failed | Disconnected | Closed).
NotRegisteredWhileDown ==
    \A t \in Transports :
        /\ events[t] # <<>>
        /\ events[t][Len(events[t])].kind = "RegisterTransport"
        => ice[t] = "connected"

\* The ICE state callback never unwraps an unset public_key: the key of the
\* remote peer is written by register_remote_info before ICE can report
\* Connected (transport.rs:281, 293).
PubkeySetBeforeConnected ==
    \A t \in Transports : ~panicked[t]

\* Every await on a transport's Promise returns once the state it awaits is
\* reached (spec 4.D: wait_for_connected resolves on Connected; the
\* answerer waits for its data channel): a driver at the await of
\* wait_for_connected on a Connected transport, or at the await of
\* wait_for_data_channel_open on an Open channel, eventually gets past it.
AwaitOf == [PollPromise |-> "connected", DcPoll |-> "open"]

Awaiting(d, t, w) == \E op \in DOMAIN AwaitOf : AwaitOf[op] = w /\ Calls(d, op, t)

Reached(t, w) == IF w = "connected" THEN pcs[t] = "connected" ELSE dc[t] = "open"

AwaitsResolve ==
    \A d \in Drivers, t \in Transports, w \in Awaits :
        (Awaiting(d, t, w) /\ Reached(t, w)) ~> ~Awaiting(d, t, w)

\* send_message reports Ok only for a message the data channel took whole
\* (spec 4.D: a short write is MessageIncomplete(sent, expected)).
OkSendIsComplete ==
    \A t \in Transports : \A i \in DOMAIN sends[t] :
        sends[t][i].res = "ok" => sends[t][i].bytes = MsgSize

=============================================================================
