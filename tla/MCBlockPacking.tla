--------------------------- MODULE MCBlockPacking ---------------------------
(***************************************************************************)
(* Every block of at most four L2 transactions out of four kinds: one that *)
(* is left out, one without logs, one with a log and one with two logs.    *)
(***************************************************************************)
EXTENDS BlockPacking

CONSTANT MaxLen

LeftOut == [eth |-> FALSE, gas_limit |-> 9, gas_used |-> 7, logs |-> 1]
Transfer == [eth |-> TRUE, gas_limit |-> 3, gas_used |-> 1, logs |-> 0]
OneLog == [eth |-> TRUE, gas_limit |-> 4, gas_used |-> 2, logs |-> 1]
TwoLogs == [eth |-> TRUE, gas_limit |-> 5, gas_used |-> 4, logs |-> 2]

MCBlocks == UNION {[1 .. n -> {LeftOut, Transfer, OneLog, TwoLogs}] : n \in 0 .. MaxLen}
=============================================================================
