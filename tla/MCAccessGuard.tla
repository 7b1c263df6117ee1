--------------------------- MODULE MCAccessGuard ---------------------------
(***************************************************************************)
(* Concurrent requests of one client, handled by two workers.              *)
(***************************************************************************)
EXTENDS AccessGuard

CONSTANTS s1, s2, s3, w1, w2

MCWorkerOf == [s \in Slot |-> IF s = s3 THEN w2 ELSE w1]
=============================================================================
