----------------------------- MODULE MCHeadFeed -----------------------------
(***************************************************************************)
(* Two blocks that can follow a first one.                                 *)
(***************************************************************************)
EXTENDS HeadFeed

CONSTANTS g, a1, b1

MCParent == [b \in Block |-> IF b = g THEN NoBlock ELSE g]
=============================================================================
