CONSTANTS
    s1 = s1
    s2 = s2
    s3 = s3
    w1 = w1
    w2 = w2
    Slot = {s1}
    Worker = {w1, w2}
    WorkerOf <- MCWorkerOf
    Max = 1
    Window = 60000
    MaxCount = 3
SPECIFICATION Spec
INVARIANT WindowIsConfigured
