---------------------------- MODULE ChordHandler ----------------------------
(***************************************************************************)
(* The Chord message handler of bns-core                                   *)
(* (src/bns-core/src/message/handler.rs): per node, a listener task that  *)
(* drains the swarm's inbound messages and dispatches them, and a         *)
(* stabilizer task run by a periodic ticker.  The two tasks of a node     *)
(* share two futures mutexes, `routing` (the Chord state) and `swarm`.    *)
(* Peers that follow the spec's relay law (spec 4.B) may also send         *)
(* payloads; they are the injector.                                        *)
(*                                                                         *)
(* The Chord state (PeerRing) and MessageRelay::new are not in the source  *)
(* tree; their operators follow spec.md 4.A and 4.F.                       *)
(***************************************************************************)
EXTENDS Naturals, Sequences, FiniteSets

CONSTANTS
    Nodes,        \* Dids of the nodes, integers in 0..RingSize-1
    FingerBits,   \* finger-table size; the ring has 2^FingerBits ids
    Nil,          \* None
    InitSucc,     \* InitSucc[n]: successor left by the joins before the run
    InitFingers,  \* InitFingers[n][k]: finger k left by the joins, or Nil
    Targets,      \* ids peers look up with FindSuccessor
    MaxTicks,     \* bound on stabilize() rounds per node
    MaxInjects    \* bound on payloads sent by peers outside the model

RingSize == 2 ^ FingerBits
Fingers == 0 .. FingerBits - 1
Tasks == {"listener", "stabilizer"}

ASSUME /\ Nodes \subseteq 0 .. RingSize - 1
       /\ Targets \subseteq 0 .. RingSize - 1
       /\ Nil \notin Nodes
       /\ InitSucc \in [Nodes -> Nodes]
       /\ InitFingers \in [Nodes -> [Fingers -> Nodes \cup {Nil}]]

-----------------------------------------------------------------------------
(* Identifier algebra and PeerRing (spec 4.A, 4.F) *)

\* Clockwise distance from a to b; from a to a it is the whole ring.
Span(a, b) == IF a = b THEN RingSize ELSE (b - a + RingSize) % RingSize
Dist(a, b) == (b - a + RingSize) % RingSize

\* x in (a, b) and x in (a, b], walking clockwise.
InOpen(a, x, b) == Dist(a, x) > 0 /\ Dist(a, x) < Span(a, b)
InHalfOpen(a, x, b) == x = b \/ InOpen(a, x, b)

FingerStart(n, k) == (n + 2 ^ k) % RingSize

\* closest_preceding_finger: the highest finger in (n, target), else n.
ClosestPrecedingFinger(fs, n, target) ==
    LET hits == {k \in Fingers : fs[k] # Nil /\ InOpen(n, fs[k], target)}
    IN  IF hits = {} THEN n
        ELSE fs[CHOOSE k \in hits : \A j \in hits : j <= k]

\* find_successor: Some(successor) when target is in (n, successor];
\* None for a lone node without fingers; otherwise forward to the closest
\* preceding finger.
FindSuccessor(n, succ, fs, target) ==
    IF InHalfOpen(n, target, succ)
    THEN [act |-> "Some", node |-> succ]
    ELSE IF succ = n /\ \A k \in Fingers : fs[k] = Nil
         THEN [act |-> "None", node |-> n]
         ELSE [act |-> "Remote", node |-> ClosestPrecedingFinger(fs, n, target)]

\* notify: adopt p as predecessor if there is none or p is in (pred, n).
Notify(n, pred, p) ==
    IF pred = Nil \/ InOpen(pred, p, n) THEN p ELSE pred

\* MessageRelay::new(tx_id, message_id, to_path, from_path, protocol).  The
\* argument order is the one four of its six call sites in handler.rs use.
NewRelay(toPath, fromPath, protocol) ==
    [to |-> toPath, from |-> fromPath, protocol |-> protocol]

Last(s) == s[Len(s)]

-----------------------------------------------------------------------------

MsgTypes == {"FindSuccessor", "FoundSuccessor", "NotifyPredecessor",
             "NotifiedPredecessor", "FindSuccessorForFix"}
ChordMsgTypes == MsgTypes \ {"FindSuccessorForFix"}

VARIABLES
    succ,       \* succ[n]: Chord successor
    pred,       \* pred[n]: Chord predecessor or Nil
    fingers,    \* fingers[n][k]: finger table
    fixIdx,     \* fixIdx[n]: fix_finger_index
    net,        \* payloads in flight (sent on a transport, not yet polled)
    chordLock,  \* chordLock[n]: task holding the `routing` mutex, or Nil
    swarmLock,  \* swarmLock[n]: task holding the `swarm` mutex, or Nil
    lpc,        \* lpc[n]: where the listener task is
    cur,        \* cur[n]: message the listener is handling, or Nil
    lout,       \* lout[n]: message the listener is sending, or Nil
    spc,        \* spc[n]: where the stabilizer task is
    sout,       \* sout[n]: message the stabilizer is sending, or Nil
    ticks,      \* ticks[n]: stabilize() rounds started
    injected    \* payloads sent by the injector so far

vars == <<succ, pred, fingers, fixIdx, net, chordLock, swarmLock, lpc, cur,
          lout, spc, sout, ticks, injected>>

Relay == [to : Seq(0 .. RingSize - 1), from : Seq(0 .. RingSize - 1),
          protocol : {"SEND", "REPORT"}]
Msg == [type : MsgTypes, src : Nodes, dst : 0 .. RingSize - 1, relay : Relay,
        arg : 0 .. RingSize - 1]

\* The type of the state.  Every message in flight carries a ring id as its
\* argument, so handle_notify_predecessor's chord.predecessor.unwrap()
\* (handler.rs:185) always finds the predecessor that notify has just set.
TypeOK ==
    /\ succ \in [Nodes -> Nodes]
    /\ pred \in [Nodes -> Nodes \cup {Nil}]
    /\ fingers \in [Nodes -> [Fingers -> Nodes \cup {Nil}]]
    /\ fixIdx \in [Nodes -> Fingers]
    /\ net \subseteq Msg
    /\ chordLock \in [Nodes -> Tasks \cup {Nil}]
    /\ swarmLock \in [Nodes -> Tasks \cup {Nil}]
    /\ lpc \in [Nodes -> {"start", "loop", "dispatch", "handle", "send", "dead"}]
    /\ cur \in [Nodes -> Msg \cup {Nil}]
    /\ lout \in [Nodes -> Msg \cup {Nil}]
    /\ spc \in [Nodes -> {"idle", "lock", "notify", "fixsend"}]
    /\ sout \in [Nodes -> Msg \cup {Nil}]
    /\ ticks \in [Nodes -> 0 .. MaxTicks]
    /\ injected \in 0 .. MaxInjects

\* The nodes have joined (successors and fingers as the joins left them),
\* no predecessor is known yet and no task has started.
Init ==
    /\ succ = InitSucc
    /\ pred = [n \in Nodes |-> Nil]
    /\ fingers = InitFingers
    /\ fixIdx = [n \in Nodes |-> 0]
    /\ net = {}
    /\ chordLock = [n \in Nodes |-> Nil]
    /\ swarmLock = [n \in Nodes |-> Nil]
    /\ lpc = [n \in Nodes |-> "start"]
    /\ cur = [n \in Nodes |-> Nil]
    /\ lout = [n \in Nodes |-> Nil]
    /\ spc = [n \in Nodes |-> "idle"]
    /\ sout = [n \in Nodes |-> Nil]
    /\ ticks = [n \in Nodes |-> 0]
    /\ injected = 0

-----------------------------------------------------------------------------
(* Sending *)

\* Swarm::send_message: only a node with a transport to the destination can
\* send; every two distinct nodes have one, no node has one to itself, so
\* a payload to oneself fails with an error the callers ignore.
Transmit(src, m) ==
    net' = IF m.dst # src THEN net \cup {m} ELSE net

\* The listener panics (assert_eq!, indexing an empty path, panic!): the
\* task ends and unwinding drops the guards it holds.
Panic(n) ==
    /\ lpc' = [lpc EXCEPT ![n] = "dead"]
    /\ chordLock' = [chordLock EXCEPT ![n] = IF @ = "listener" THEN Nil ELSE @]
    /\ swarmLock' = [swarmLock EXCEPT ![n] = IF @ = "listener" THEN Nil ELSE @]
    /\ cur' = [cur EXCEPT ![n] = Nil]
    /\ UNCHANGED lout

\* A handler took `routing`, built its reply or forward and calls
\* send_message, which awaits `swarm` while `routing` is still held.
SendNext(n, m) ==
    /\ lpc' = [lpc EXCEPT ![n] = "send"]
    /\ lout' = [lout EXCEPT ![n] = m]
    /\ chordLock' = [chordLock EXCEPT ![n] = "listener"]
    /\ cur' = [cur EXCEPT ![n] = Nil]
    /\ UNCHANGED swarmLock

\* A handler took `routing`, changed the Chord state and returned.
Finish(n) ==
    /\ lpc' = [lpc EXCEPT ![n] = "loop"]
    /\ cur' = [cur EXCEPT ![n] = Nil]
    /\ UNCHANGED <<chordLock, swarmLock, lout>>

-----------------------------------------------------------------------------
(* The listener task: MessageHandler::listen and the handlers *)

\* listen: take `swarm` and keep the guard for the whole receive loop.
ListenStart(n) ==
    /\ lpc[n] = "start"
    /\ swarmLock[n] = Nil
    /\ swarmLock' = [swarmLock EXCEPT ![n] = "listener"]
    /\ lpc' = [lpc EXCEPT ![n] = "loop"]
    /\ UNCHANGED <<succ, pred, fingers, fixIdx, net, chordLock, cur, lout,
                   spc, sout, ticks, injected>>

\* payloads.next(): the next payload addressed to n.  Payloads are signed
\* and fresh, so the expiry/verify check lets every one through.
Receive(n) ==
    /\ lpc[n] = "loop"
    /\ \E m \in net :
        /\ m.dst = n
        /\ net' = net \ {m}
        /\ cur' = [cur EXCEPT ![n] = m]
    /\ lpc' = [lpc EXCEPT ![n] = "dispatch"]
    /\ UNCHANGED <<succ, pred, fingers, fixIdx, chordLock, swarmLock, lout,
                   spc, sout, ticks, injected>>

\* handle_message: lock `routing` for the current id and drop the guard,
\* then dispatch; a type without a handler is an Err that listen logs.
Dispatch(n) ==
    /\ lpc[n] = "dispatch"
    /\ chordLock[n] = Nil
    /\ IF cur[n].type \in ChordMsgTypes
       THEN /\ lpc' = [lpc EXCEPT ![n] = "handle"]
            /\ UNCHANGED cur
       ELSE /\ lpc' = [lpc EXCEPT ![n] = "loop"]
            /\ cur' = [cur EXCEPT ![n] = Nil]
    /\ UNCHANGED <<succ, pred, fingers, fixIdx, net, chordLock, swarmLock,
                   lout, spc, sout, ticks, injected>>

\* A handler about to run: message m of the given type, `routing` free.
Handling(n, type) ==
    /\ lpc[n] = "handle"
    /\ cur[n].type = type
    /\ chordLock[n] = Nil

\* handle_find_successor: Some(id) reports to relay.to_path.back() with the
\* paths passed as (from_path, to_path); RemoteAction forwards to the
\* closest preceding finger after appending self and next; any other
\* action panics, as does indexing an empty to_path.
HandleFindSuccessor(n) ==
    /\ Handling(n, "FindSuccessor")
    /\ LET m == cur[n]
           r == m.relay
           a == FindSuccessor(n, succ[n], fingers[n], m.arg)
       IN  CASE a.act = "Some" /\ Len(r.to) > 0 ->
                  SendNext(n, [type |-> "FoundSuccessor", src |-> n,
                               dst |-> Last(r.to),
                               relay |-> NewRelay(r.from, r.to, "REPORT"),
                               arg |-> a.node])
             [] a.act = "Remote" ->
                  SendNext(n, [type |-> "FindSuccessor", src |-> n,
                               dst |-> a.node,
                               relay |-> NewRelay(Append(r.from, n),
                                                  Append(r.to, a.node), "SEND"),
                               arg |-> m.arg])
             [] OTHER -> Panic(n)
    /\ UNCHANGED <<succ, pred, fingers, fixIdx, net, spc, sout, ticks, injected>>

\* handle_found_successor: assert REPORT and that popping to_path yields
\* self, pop from_path; forward to the new to_path.back() with the paths
\* as (to_path, from_path), or, at the end of the path, adopt the result
\* as successor.
HandleFoundSuccessor(n) ==
    /\ Handling(n, "FoundSuccessor")
    /\ LET m == cur[n]
           r == m.relay
           to == SubSeq(r.to, 1, Len(r.to) - 1)
           from == SubSeq(r.from, 1, Len(r.from) - 1)
       IN  IF r.protocol # "REPORT" \/ Len(r.to) = 0 \/ Last(r.to) # n
           THEN Panic(n) /\ UNCHANGED succ
           ELSE IF Len(to) > 0
           THEN /\ SendNext(n, [type |-> "FoundSuccessor", src |-> n,
                                dst |-> Last(to),
                                relay |-> NewRelay(to, from, "REPORT"),
                                arg |-> m.arg])
                /\ UNCHANGED succ
           ELSE /\ succ' = [succ EXCEPT ![n] = m.arg]
                /\ Finish(n)
    /\ UNCHANGED <<pred, fingers, fixIdx, net, spc, sout, ticks, injected>>

\* Mutant: the reported predecessor is the one read before notify.
HandleNotifyPredecessorStale(n) ==
    /\ Handling(n, "NotifyPredecessor")
    /\ LET m == cur[n]
           r == m.relay
           p == Notify(n, pred[n], m.arg)
       IN  /\ pred' = [pred EXCEPT ![n] = p]
           /\ IF Len(r.to) = 0
              THEN Panic(n)
              ELSE SendNext(n, [type |-> "NotifiedPredecessor", src |-> n,
                                dst |-> Last(r.to),
                                relay |-> NewRelay(r.to, r.from, "REPORT"),
                                arg |-> pred[n]])
    /\ UNCHANGED <<succ, fingers, fixIdx, net, spc, sout, ticks, injected>>

\* handle_notify_predecessor: notify, then report the (now set) predecessor
\* to relay.to_path.back() with the paths as (to_path, from_path).
HandleNotifyPredecessor(n) ==
    /\ Handling(n, "NotifyPredecessor")
    /\ LET m == cur[n]
           r == m.relay
           p == Notify(n, pred[n], m.arg)
       IN  /\ pred' = [pred EXCEPT ![n] = p]
           /\ IF Len(r.to) = 0
              THEN Panic(n)
              ELSE SendNext(n, [type |-> "NotifiedPredecessor", src |-> n,
                               dst |-> Last(r.to),
                               relay |-> NewRelay(r.to, r.from, "REPORT"),
                               arg |-> p])
    /\ UNCHANGED <<succ, fingers, fixIdx, net, spc, sout, ticks, injected>>

\* handle_notified_predecessor: assert REPORT and to_path.back() = self,
\* then overwrite the successor with the reported predecessor.
HandleNotifiedPredecessor(n) ==
    /\ Handling(n, "NotifiedPredecessor")
    /\ LET r == cur[n].relay
       IN  IF r.protocol # "REPORT" \/ Len(r.to) = 0 \/ Last(r.to) # n
           THEN Panic(n) /\ UNCHANGED succ
           ELSE /\ succ' = [succ EXCEPT ![n] = cur[n].arg]
                /\ Finish(n)
    /\ UNCHANGED <<pred, fingers, fixIdx, net, spc, sout, ticks, injected>>


-----------------------------------------------------------------------------
(* The stabilizer task: MessageHandler::stabilize, once per tick *)

\* The ticker fires and stabilize() is called.
Tick(n) ==
    /\ spc[n] = "idle"
    /\ ticks[n] < MaxTicks
    /\ spc' = [spc EXCEPT ![n] = "lock"]
    /\ ticks' = [ticks EXCEPT ![n] = @ + 1]
    /\ UNCHANGED <<succ, pred, fingers, fixIdx, net, chordLock, swarmLock,
                   lpc, cur, lout, sout, injected>>

\* Lock `routing` (held to the end of stabilize) and build the
\* NotifyPredecessor: to_path [successor], from_path [current], addressed
\* to `current`.
StabilizeLock(n) ==
    /\ spc[n] = "lock"
    /\ chordLock[n] = Nil
    /\ chordLock' = [chordLock EXCEPT ![n] = "stabilizer"]
    /\ sout' = [sout EXCEPT ![n] =
                 [type |-> "NotifyPredecessor", src |-> n, dst |-> n,
                  relay |-> NewRelay(<<succ[n]>>, <<n>>, "SEND"), arg |-> n]]
    /\ spc' = [spc EXCEPT ![n] = "notify"]
    /\ UNCHANGED <<succ, pred, fingers, fixIdx, net, swarmLock, lpc, cur,
                   lout, ticks, injected>>

\* PeerRing::fix_fingers (spec 4.F): advance fix_finger_index and look up
\* the successor of that finger's start; a local answer is stored at once.
FixFingers(n) ==
    LET k == (fixIdx[n] + 1) % FingerBits
        start == FingerStart(n, k)
    IN  [idx |-> k, start |-> start,
         res |-> FindSuccessor(n, succ[n], fingers[n], start)]

\* send_message of the NotifyPredecessor (its result ignored), then
\* fix_fingers: a RemoteAction builds FindSuccessorForFix with to_path
\* [next] and from_path [the finger start]; anything else logs and
\* stabilize returns, dropping `routing`.
StabilizeNotify(n) ==
    /\ spc[n] = "notify"
    /\ swarmLock[n] = Nil
    /\ Transmit(n, sout[n])
    /\ LET f == FixFingers(n)
       IN  /\ fixIdx' = [fixIdx EXCEPT ![n] = f.idx]
           /\ fingers' = IF f.res.act = "Some"
                         THEN [fingers EXCEPT ![n][f.idx] = f.res.node]
                         ELSE fingers
           /\ IF f.res.act = "Remote"
              THEN /\ sout' = [sout EXCEPT ![n] =
                                [type |-> "FindSuccessorForFix", src |-> n,
                                 dst |-> f.res.node,
                                 relay |-> NewRelay(<<f.res.node>>, <<f.start>>,
                                                    "SEND"),
                                 arg |-> f.start]]
                   /\ spc' = [spc EXCEPT ![n] = "fixsend"]
                   /\ UNCHANGED chordLock
              ELSE /\ sout' = [sout EXCEPT ![n] = Nil]
                   /\ spc' = [spc EXCEPT ![n] = "idle"]
                   /\ chordLock' = [chordLock EXCEPT ![n] = Nil]
    /\ UNCHANGED <<succ, pred, swarmLock, lpc, cur, lout, ticks, injected>>

\* send_message of the FindSuccessorForFix, then return and drop `routing`.
StabilizeFixSend(n) ==
    /\ spc[n] = "fixsend"
    /\ swarmLock[n] = Nil
    /\ Transmit(n, sout[n])
    /\ sout' = [sout EXCEPT ![n] = Nil]
    /\ spc' = [spc EXCEPT ![n] = "idle"]
    /\ chordLock' = [chordLock EXCEPT ![n] = Nil]
    /\ UNCHANGED <<succ, pred, fingers, fixIdx, swarmLock, lpc, cur, lout,
                   ticks, injected>>

-----------------------------------------------------------------------------
(* Peers following the relay law of spec 4.B *)

\* A one-hop payload from s to d: to_path ends at the receiver, from_path
\* at the sender.  A FindSuccessor looks up a target; a NotifyPredecessor
\* offers the sender as predecessor; a FoundSuccessor answers a join
\* lookup of d with some other node; a NotifiedPredecessor reports the
\* sender's predecessor.
Inject(s, d) ==
    /\ injected < MaxInjects
    /\ \E m \in
          {[type |-> "FindSuccessor", arg |-> t] : t \in Targets}
          \cup {[type |-> "NotifyPredecessor", arg |-> s]}
          \cup {[type |-> "FoundSuccessor", arg |-> x] : x \in Nodes \ {d}}
          \cup {[type |-> "NotifiedPredecessor", arg |-> x] :
                  x \in {pred[s]} \ {Nil}} :
         net' = net \cup
                {[type |-> m.type, src |-> s, dst |-> d, arg |-> m.arg,
                  relay |-> NewRelay(<<d>>, <<s>>,
                              IF m.type \in {"FindSuccessor", "NotifyPredecessor"}
                              THEN "SEND" ELSE "REPORT")]}
    /\ injected' = injected + 1
    /\ UNCHANGED <<succ, pred, fingers, fixIdx, chordLock, swarmLock, lpc, cur,
                   lout, spc, sout, ticks>>

-----------------------------------------------------------------------------

Listener(n) ==
    \/ ListenStart(n)
    \/ Receive(n)
    \/ Dispatch(n)
    \/ HandleFindSuccessor(n)
    \/ HandleFoundSuccessor(n)
    \/ HandleNotifyPredecessor(n)
    \/ HandleNotifiedPredecessor(n)

Stabilizer(n) ==
    \/ Tick(n)
    \/ StabilizeLock(n)
    \/ StabilizeNotify(n)
    \/ StabilizeFixSend(n)

Next ==
    \/ \E n \in Nodes : Listener(n) \/ Stabilizer(n)
    \/ \E s, d \in Nodes : s # d /\ Inject(s, d)

\* The executor polls every ready task.
Spec == Init /\ [][Next]_vars
        /\ \A n \in Nodes : WF_vars(Listener(n)) /\ WF_vars(Stabilizer(n))

-----------------------------------------------------------------------------
(* Properties *)

\* The lock a task is suspended on ("none" when it is not waiting).
WaitingOn(n, task) ==
    CASE task = "listener" /\ lpc[n] \in {"start", "send"}          -> "swarm"
      [] task = "listener" /\ lpc[n] \in {"dispatch", "handle"}     -> "chord"
      [] task = "stabilizer" /\ spc[n] = "lock"                     -> "chord"
      [] task = "stabilizer" /\ spc[n] \in {"notify", "fixsend"}    -> "swarm"
      [] OTHER                                                      -> "none"

\* The task holding the lock `task` waits on, or Nil.
BlockedBy(n, task) ==
    CASE WaitingOn(n, task) = "chord" -> chordLock[n]
      [] WaitingOn(n, task) = "swarm" -> swarmLock[n]
      [] OTHER                        -> Nil

\* No task of a node waits, directly or through the other task, on a
\* mutex it holds itself: listen's `swarm` guard, held across the loop,
\* must not be needed by the send_message calls of the handlers it runs,
\* nor by stabilize while stabilize holds the `routing` lock the listener
\* needs next.
NoLockCycle ==
    \A n \in Nodes, a \in Tasks :
        LET b == BlockedBy(n, a)
        IN  b # Nil => (b # a /\ BlockedBy(n, b) # a)

\* A REPORT a handler builds travels back to the previous hop, the node
\* that will find itself at to_path.back() (spec 4.B: "on a REPORT at node
\* n, to_path.back() == n"): handle_notify_predecessor and
\* handle_find_successor must not address it to the handling node itself.
ReportsReachPreviousHop ==
    \A n \in Nodes :
        (lpc[n] = "send" /\ lout[n].relay.protocol = "REPORT") =>
            /\ lout[n].dst # n
            /\ lout[n].dst = Last(lout[n].relay.to)

\* In a ring of more than one node no node becomes its own successor; the
\* NotifiedPredecessor handler only takes a reported predecessor that lies
\* between self and the successor (spec 4.F).
SuccessorNotSelf ==
    Cardinality(Nodes) > 1 => \A n \in Nodes : succ[n] # n

=============================================================================
