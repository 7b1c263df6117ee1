---------------------------- MODULE IndexedChain ----------------------------
(***************************************************************************)
(* What the web3 indexer promises to the readers of its database: at every *)
(* moment the `blocks' table holds one chain of L2 blocks, each the child  *)
(* of the block before it, and the only ways the chain changes are that a  *)
(* child of its last block is appended and that its last block is taken    *)
(* away.                                                                   *)
(***************************************************************************)
EXTENDS Naturals, Sequences

CONSTANTS
    Block,      \* L2 block hashes
    NoBlock,    \* the zero hash: the parent of a first block
    Parent      \* Parent[b]: the parent_block_hash that block b commits to

VARIABLE chain  \* the indexed blocks, block number n at position n + 1

\* The hash the next block must name as its parent.
TipHash == IF chain = << >> THEN NoBlock ELSE chain[Len(chain)]

Init == chain = << >>

Push(b) ==
    /\ Parent[b] = TipHash
    /\ chain' = Append(chain, b)

Pop ==
    /\ chain # << >>
    /\ chain' = SubSeq(chain, 1, Len(chain) - 1)

Next == Pop \/ \E b \in Block : Push(b)

Spec == Init /\ [][Next]_chain
=============================================================================
