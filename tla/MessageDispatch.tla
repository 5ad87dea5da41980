--------------------------- MODULE MessageDispatch ---------------------------
(***************************************************************************)
(* The message dispatcher of rings-core                                    *)
(* (src/rings-core/src/message/handlers/mod.rs) at one receiving node,    *)
(* fed by remote senders through the swarm's inbound queue.               *)
(*                                                                         *)
(* The native build runs one listener task (`listen`) that polls, drops    *)
(* payloads failing verify() and handles the rest one after the other.     *)
(* The wasm build spawns a `listen_once` task every second; each polls one *)
(* payload and handles it, and tasks interleave at every await.           *)
(*                                                                         *)
(* handle_payload: validator hook, dispatch on the message kind (MultiCall *)
(* re-wraps and handles each item recursively), then the callback hook.   *)
(* The concrete handlers live outside src/; their result is Ok or Err.    *)
(***************************************************************************)
EXTENDS Naturals, Sequences, FiniteSets, Functions

CONSTANTS
    Senders,       \* remote nodes sending to this node
    Mode,          \* "native" or "wasm"
    MaxTasks,      \* bound on listen_once tasks spawned (wasm)
    MaxSends,      \* bound on payloads per sender
    MaxTotal,      \* bound on payloads of all senders together
    MultiItems,    \* the inner messages of a MultiCall, a sequence of kinds
    HasValidator   \* whether a MessageValidator is installed

ASSUME /\ Mode \in {"native", "wasm"}
       /\ MaxTasks \in Nat \ {0}
       /\ MultiItems \in Seq({"custom", "builtin"})

\* Message kinds: CustomMessage; a builtin message with an arm in
\* handle_payload (JoinDHT, FindSuccessorSend, StoreVNode, ...); MultiCall;
\* JoinSubRing.
Kinds == {"custom", "builtin", "multicall", "joinsubring"}

\* The kinds handle_payload has an arm for (mod.rs lines 134-158).
Dispatched == {"custom", "builtin", "multicall"}

Tasks == 1 .. MaxTasks

Payload == [src : Senders, seq : 1 .. MaxSends, kind : Kinds,
            toSelf : BOOLEAN, verified : BOOLEAN]
NoPayload == [src |-> CHOOSE s \in Senders : TRUE, seq |-> 1, kind |-> "builtin",
              toSelf |-> FALSE, verified |-> FALSE]

Items(p) == IF p.kind = "multicall" THEN MultiItems ELSE <<>>

VARIABLES
    queue,     \* payloads received on data channels, not yet polled
    sent,      \* sent[s]: payloads sender s has sent
    task,      \* task[t]: [pc, p (payload), i (MultiCall item)]
    spawned,   \* listener tasks started
    trace      \* what became of each payload and item, in order

vars == <<queue, sent, task, spawned, trace>>

\* Native: the one listener task is polling.  Wasm: no task has been
\* spawned yet.
Init ==
    /\ queue = <<>>
    /\ sent = [s \in Senders |-> 0]
    /\ task = [t \in Tasks |->
                 [pc |-> IF Mode = "native" /\ t = 1 THEN "poll" ELSE "idle",
                  p |-> NoPayload, i |-> 0]]
    /\ spawned = IF Mode = "native" THEN 1 ELSE 0
    /\ trace = <<>>

Event(p, sub, kind, ev) ==
    [src |-> p.src, seq |-> p.seq, sub |-> sub, kind |-> kind, ev |-> ev]

Record(p, sub, kind, ev) == trace' = Append(trace, Event(p, sub, kind, ev))

SetPc(t, pc) == task' = [task EXCEPT ![t].pc = pc]

-----------------------------------------------------------------------------
(* Senders *)

\* A sender's payload reaches this node's queue.  verify() fails for an
\* expired or badly signed payload; a relayed one is addressed elsewhere
\* (which only a CustomMessage's callback tells apart).
Deliver(s, kind) ==
    /\ sent[s] < MaxSends
    /\ SumFunction(sent) < MaxTotal
    /\ sent' = [sent EXCEPT ![s] = @ + 1]
    /\ \E toSelf \in IF kind = "custom" THEN BOOLEAN ELSE {TRUE},
          verified \in BOOLEAN :
          queue' = Append(queue, [src |-> s, seq |-> sent[s] + 1, kind |-> kind,
                                  toSelf |-> toSelf, verified |-> verified])
    /\ UNCHANGED <<task, spawned, trace>>

\* A peer's handler sends a custom, builtin or MultiCall message.
SendMessage(s) ==
    \E kind \in {"custom", "builtin", "multicall"} : Deliver(s, kind)

\* subring_create on the sender: store the subring, then storage_store
\* sends StoreVNode (a builtin message) to the successor, here this node.
SubringCreate(s) == Deliver(s, "builtin")

\* subring_join on the sender: join_subring answers RemoteAction(next,
\* FindAndJoinSubRing) and a JoinSubRing goes to next, here this node; an
\* answer of None sends nothing.
SubringJoin(s) == Deliver(s, "joinsubring")

-----------------------------------------------------------------------------
(* Listener tasks *)

\* Wasm `listen`: every tick of poll!(func, 1000) spawns a listen_once task
\* without waiting for the earlier ones.
Spawn ==
    /\ Mode = "wasm"
    /\ spawned < MaxTasks
    /\ spawned' = spawned + 1
    /\ task' = [task EXCEPT ![spawned + 1].pc = "poll"]
    /\ UNCHANGED <<queue, sent, trace>>

\* Mutant: the native loop without its verify() check.
ListenPollUnchecked(t) ==
    /\ Mode = "native"
    /\ task[t].pc = "poll"
    /\ queue # <<>>
    /\ queue' = Tail(queue)
    /\ task' = [task EXCEPT ![t] = [pc |-> "validate", p |-> Head(queue), i |-> 0]]
    /\ UNCHANGED <<sent, spawned, trace>>

\* Native `listen`: take the next payload; one that fails verify() is
\* logged and skipped (`continue`).
ListenPoll(t) ==
    /\ Mode = "native"
    /\ task[t].pc = "poll"
    /\ queue # <<>>
    /\ LET p == Head(queue)
       IN  /\ queue' = Tail(queue)
           /\ IF p.verified
              THEN /\ task' = [task EXCEPT ![t] = [pc |-> "validate", p |-> p, i |-> 0]]
                   /\ UNCHANGED trace
              ELSE /\ Record(p, 0, p.kind, "skip")
                   /\ UNCHANGED task
    /\ UNCHANGED <<sent, spawned>>

\* listen_once: poll_message, log a payload that fails verify(), and hand
\* it to handle_payload all the same.
ListenOncePoll(t) ==
    /\ Mode = "wasm"
    /\ task[t].pc = "poll"
    /\ queue # <<>>
    /\ queue' = Tail(queue)
    /\ task' = [task EXCEPT ![t] = [pc |-> "validate", p |-> Head(queue), i |-> 0]]
    /\ UNCHANGED <<sent, spawned, trace>>

\* handle_payload returned: the native loop polls again, a listen_once
\* task ends.
Finish(t) ==
    task' = [task EXCEPT ![t].pc = IF Mode = "native" THEN "poll" ELSE "done"]

\* validate: a validator that returns Some(reason) makes handle_payload
\* return InvalidMessage before dispatch.
Validate(t) ==
    /\ task[t].pc = "validate"
    /\ LET p == task[t].p
       IN  \/ /\ HasValidator
              /\ Record(p, 0, p.kind, "reject")
              /\ Finish(t)
           \/ /\ SetPc(t, "handle")
              /\ UNCHANGED trace
    /\ UNCHANGED <<queue, sent, spawned>>

\* Mutant: invoke_callback for a MultiCall runs before its items.
HandleCallbackFirst(t) ==
    /\ task[t].pc = "handle"
    /\ LET p == task[t].p
       IN  CASE p.kind = "multicall" ->
                  /\ task' = [task EXCEPT ![t].pc = "item", ![t].i = 1]
                  /\ Record(p, 0, "multicall", "builtin_cb")
             [] p.kind \in Dispatched ->
                  \/ SetPc(t, "callback") /\ UNCHANGED trace
                  \/ Record(p, 0, p.kind, "err") /\ Finish(t)
             [] OTHER ->
                  Record(p, 0, p.kind, "unsupported") /\ Finish(t)
    /\ UNCHANGED <<queue, sent, spawned>>

\* Dispatch on the kind: a handler's Err is returned by `?` and skips the
\* callback; a kind without an arm is MessageHandlerUnsupportMessageType;
\* a MultiCall goes through its items.
Handle(t) ==
    /\ task[t].pc = "handle"
    /\ LET p == task[t].p
       IN  CASE p.kind = "multicall" ->
                  /\ task' = [task EXCEPT ![t].pc = "item", ![t].i = 1]
                  /\ UNCHANGED trace
             [] p.kind \in Dispatched ->
                  \/ SetPc(t, "callback") /\ UNCHANGED trace
                  \/ Record(p, 0, p.kind, "err") /\ Finish(t)
             [] OTHER ->
                  Record(p, 0, p.kind, "unsupported") /\ Finish(t)
    /\ UNCHANGED <<queue, sent, spawned>>

\* invoke_callback for one message: a CustomMessage reaches custom_message
\* only when this node is the relay's destination; anything else reaches
\* builtin_message.
CallbackEvents(p, sub, kind) ==
    IF kind = "custom"
    THEN IF p.toSelf THEN <<Event(p, sub, kind, "custom_cb")>> ELSE <<>>
    ELSE <<Event(p, sub, kind, "builtin_cb")>>

\* Mutant: the items are taken from the back of the list (Vec::pop).
ItemReversed(t) ==
    /\ task[t].pc = "item"
    /\ LET p == task[t].p
           i == task[t].i
           j == Len(Items(p)) + 1 - i
       IN  IF i > Len(Items(p))
           THEN SetPc(t, "callback") /\ UNCHANGED trace
           ELSE LET k == Items(p)[j]
                IN  \/ /\ Record(p, j, "multicall", "abort")
                       /\ Finish(t)
                    \/ /\ HasValidator
                       /\ Record(p, j, k, "reject")
                       /\ task' = [task EXCEPT ![t].i = i + 1]
                    \/ /\ Record(p, j, k, "err")
                       /\ task' = [task EXCEPT ![t].i = i + 1]
                    \/ /\ trace' = trace \o CallbackEvents(p, j, k)
                       /\ task' = [task EXCEPT ![t].i = i + 1]
    /\ UNCHANGED <<queue, sent, spawned>>

\* The next MultiCall item: MessagePayload::new(item, Stick(origin), relay)
\* may fail, and its `?` returns from the whole batch; otherwise the
\* recursive handle_payload runs validator, handler and callback, and its
\* error is ignored (unwrap_or).
Item(t) ==
    /\ task[t].pc = "item"
    /\ LET p == task[t].p
           i == task[t].i
       IN  IF i > Len(Items(p))
           THEN SetPc(t, "callback") /\ UNCHANGED trace
           ELSE LET k == Items(p)[i]
                IN  \/ /\ Record(p, i, "multicall", "abort")
                       /\ Finish(t)
                    \/ /\ HasValidator
                       /\ Record(p, i, k, "reject")
                       /\ task' = [task EXCEPT ![t].i = i + 1]
                    \/ /\ Record(p, i, k, "err")
                       /\ task' = [task EXCEPT ![t].i = i + 1]
                    \/ /\ trace' = trace \o CallbackEvents(p, i, k)
                       /\ task' = [task EXCEPT ![t].i = i + 1]
    /\ UNCHANGED <<queue, sent, spawned>>

\* After a successful dispatch: invoke_callback; its errors are logged.
Callback(t) ==
    /\ task[t].pc = "callback"
    /\ trace' = trace \o CallbackEvents(task[t].p, 0, task[t].p.kind)
    /\ Finish(t)
    /\ UNCHANGED <<queue, sent, spawned>>

-----------------------------------------------------------------------------

TaskStep(t) ==
    \/ ListenPoll(t)
    \/ ListenOncePoll(t)
    \/ Validate(t)
    \/ Handle(t)
    \/ Item(t)
    \/ Callback(t)

Next ==
    \/ \E s \in Senders : SendMessage(s) \/ SubringCreate(s) \/ SubringJoin(s)
    \/ Spawn
    \/ \E t \in Tasks : TaskStep(t)

\* The executor polls every ready task; the wasm ticker keeps firing.
Spec == Init /\ [][Next]_vars
        /\ \A t \in Tasks : WF_vars(TaskStep(t))
        /\ WF_vars(Spawn)

-----------------------------------------------------------------------------
(* Properties *)

Busy == {"validate", "handle", "item", "callback"}

\* e was sent before f by the same sender (items by their position).
SentBefore(e, f) == e.seq < f.seq \/ (e.seq = f.seq /\ e.sub < f.sub)

\* custom_message sees each sender's messages in the order they were sent
\* (spec S2; the assertion of test_custom_message_handling, mod.rs 374-383).
CallbacksInSendOrder ==
    \A i, j \in 1 .. Len(trace) :
        /\ i < j
        /\ trace[i].ev = "custom_cb" /\ trace[j].ev = "custom_cb"
        /\ trace[i].src = trace[j].src
        => SentBefore(trace[i], trace[j])

\* A MultiCall's own callback comes after the callbacks of all its items,
\* and the items' callbacks come in item order: handle_payload awaits the
\* recursive calls in turn, then invoke_callback.
BatchCallbackLast ==
    \A i, j \in 1 .. Len(trace) :
        /\ i < j
        /\ trace[i].src = trace[j].src /\ trace[i].seq = trace[j].seq
        /\ trace[i].ev \in {"custom_cb", "builtin_cb"}
        /\ trace[j].ev \in {"custom_cb", "builtin_cb"}
        => trace[j].sub = 0 \/ (trace[i].sub # 0 /\ trace[i].sub < trace[j].sub)

\* The kinds with a HandleMsg implementation in src/: those dispatched, and
\* JoinSubRing (subring.rs:59-79).
Handled == Dispatched \cup {"joinsubring"}

\* handle_payload drops no payload it has a handler for (spec 4.G:
\* "dropping a message silently is a bug"; spec 4.E: a node receiving
\* JoinSubRing joins the subring): a payload of a kind with a HandleMsg
\* implementation never ends as unsupported.
EveryPayloadHandled ==
    \A i \in 1 .. Len(trace) :
        trace[i].ev = "unsupported" => trace[i].kind \notin Handled

\* Native: the listener implements SerialInbox.  The queue is its inbox;
\* the payload of the one listener task is in hand from validate until
\* handle_payload returns; a payload skipped by the verify() check is
\* dropped.  The other steps of handle_payload are stuttering steps.
Serial == INSTANCE SerialInbox WITH
    inbox <- queue,
    hand  <- IF task[1].pc \in Busy THEN <<task[1].p>> ELSE <<>>

\* The native `listen` loop takes the swarm's payloads in order, never hands
\* an unverified one to handle_payload, handles one at a time, and keeps
\* draining the queue.
SerialListener == Serial!Spec

=============================================================================
