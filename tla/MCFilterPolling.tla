-------------------------- MODULE MCFilterPolling --------------------------
(***************************************************************************)
(* Two forks above a first block, a log in each of their blocks, and two   *)
(* requests of the client at a time.                                       *)
(***************************************************************************)
EXTENDS FilterPolling

CONSTANTS g, a1, a2, b1, s1, s2

MCParent == [b \in Block |->
    IF b = g THEN NoBlock ELSE IF b = a2 THEN a1 ELSE g]
=============================================================================
