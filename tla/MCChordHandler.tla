--------------------------- MODULE MCChordHandler ---------------------------
(* Three nodes on a ring of 8 ids, joined into the ring 1 -> 2 -> 6 -> 1   *)
(* with only the first finger known, so fix_fingers both answers locally   *)
(* and forwards.                                                            *)
EXTENDS ChordHandler, TLC

MCNodes == {1, 2, 6}
MCInitSucc == (1 :> 2) @@ (2 :> 6) @@ (6 :> 1)
MCInitFingers == [n \in MCNodes |-> [k \in 0 .. 2 |->
                                      IF k = 0 THEN MCInitSucc[n] ELSE Nil]]
MCTargets == {4}
====
