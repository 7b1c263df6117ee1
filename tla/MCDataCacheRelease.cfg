CONSTANTS
    r1 = r1
    r2 = r2
    r3 = r3
    w1 = w1
    w2 = w2
    Free = Free
    Request = {r1, r2, r3}
    Worker = {w1, w2}
    WorkerOf <- MCWorkerOf
    MaxPolls = 1
SPECIFICATION Spec
CHECK_DEADLOCK FALSE
PROPERTIES
    OnlyOwnerDeletes
