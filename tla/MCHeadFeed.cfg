CONSTANTS
    g = g
    a1 = a1
    b1 = b1
    NoBlock = NoBlock
    NoHash = NoHash
    Block = {g, a1, b1}
    Parent <- MCParent
    MaxFaults = 2
    MaxAnswers = 1
SPECIFICATION Spec
INVARIANTS
    TypeOK
    HeadsAscend
    HeadsGapless
PROPERTIES
    Announced
    PollsAgain
