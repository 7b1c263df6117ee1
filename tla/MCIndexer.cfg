CONSTANTS
    g = g
    a1 = a1
    a2 = a2
    b1 = b1
    b2 = b2
    h = h
    h1 = h1
    t1 = t1
    t2 = t2
    NoBlock = NoBlock
    Block <- MCBlock
    Parent <- MCParent
    Ancestors <- MCAncestors
    Tx = {t1, t2}
    TxsOf <- MCTxsOf
    Emits = {t1}
SPECIFICATION FairSpec
INVARIANTS
    TypeOK
    ChainStored
    RowsComplete
    TipRemembered
    NoUniqueViolation
PROPERTIES
    OnlyAbandonedRemoved
    ImplementsIndexedChain
    CatchesUp
