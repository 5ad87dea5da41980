-------------------------- MODULE MCMessageDispatch --------------------------
(* Model-checking instance of MessageDispatch: two senders (model values),  *)
(* a MultiCall of two custom messages.                      *)
EXTENDS MessageDispatch, TLC

CONSTANTS a, b

MCSenders == {a, b}

MCOneSender == {a}

MCMultiItems == <<"custom", "custom">>

\* Senders are interchangeable: every property compares them only for equality.
SenderSymmetry == Permutations(MCSenders)
=============================================================================
