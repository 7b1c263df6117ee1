---------------------------- MODULE MCDataCache ----------------------------
(***************************************************************************)
(* Three requests for one key on two workers, two of them on the same one. *)
(***************************************************************************)
EXTENDS DataCache

CONSTANTS r1, r2, r3, w1, w2

MCWorkerOf == [r \in {r1, r2, r3} |-> IF r = r3 THEN w2 ELSE w1]
=============================================================================
