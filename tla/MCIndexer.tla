----------------------------- MODULE MCIndexer -----------------------------
(***************************************************************************)
(* A forest of seven L2 blocks for TLC: two forks above block g, one of    *)
(* which includes the transactions of the other in a different order, and  *)
(* a node set up again on another first block h.                           *)
(***************************************************************************)
EXTENDS Indexer

CONSTANTS g, a1, a2, b1, b2, h, h1, t1, t2

MCBlock == {g, a1, a2, b1, b2, h, h1}

MCParent == [b \in MCBlock |->
    CASE b \in {a1, b1} -> g
      [] b = a2 -> a1
      [] b = b2 -> b1
      [] b = h1 -> h
      [] OTHER -> NoBlock]

MCAncestors == [b \in MCBlock |->
    CASE b \in {a1, b1} -> {g}
      [] b = a2 -> {a1, g}
      [] b = b2 -> {b1, g}
      [] b = h1 -> {h}
      [] OTHER -> {}]

MCTxsOf == [b \in MCBlock |->
    CASE b \in {a1, b2} -> {t1}
      [] b \in {a2, b1} -> {t2}
      [] b = h1 -> {t1, t2}
      [] OTHER -> {}]
=============================================================================
