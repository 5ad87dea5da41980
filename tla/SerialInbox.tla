----------------------------- MODULE SerialInbox -----------------------------
(***************************************************************************)
(* What the native listener of rings-core promises its callbacks: payloads *)
(* are taken from the inbound queue in arrival order and handled one at a  *)
(* time; a payload that fails verification is dropped without being       *)
(* handled; and as long as the queue holds payloads, they keep being taken *)
(* and handled.                                                            *)
(***************************************************************************)
LOCAL INSTANCE Sequences

CONSTANT Payload   \* records with a field `verified`

VARIABLES
    inbox,  \* payloads received and not yet taken
    hand    \* <<p>> while p is being handled, <<>> otherwise

vars == <<inbox, hand>>

Init == inbox = <<>> /\ hand = <<>>

Arrive(p) == inbox' = Append(inbox, p) /\ UNCHANGED hand

Drop ==
    /\ hand = <<>> /\ inbox # <<>>
    /\ ~Head(inbox).verified
    /\ inbox' = Tail(inbox)
    /\ UNCHANGED hand

Take ==
    /\ hand = <<>> /\ inbox # <<>>
    /\ Head(inbox).verified
    /\ hand' = <<Head(inbox)>>
    /\ inbox' = Tail(inbox)

Done == hand # <<>> /\ hand' = <<>> /\ UNCHANGED inbox

Next == (\E p \in Payload : Arrive(p)) \/ Drop \/ Take \/ Done

Spec == Init /\ [][Next]_vars /\ WF_vars(Drop \/ Take \/ Done)
=============================================================================
