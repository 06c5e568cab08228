SPECIFICATION Spec
CONSTANTS
    w1 = w1
    w2 = w2
    Records = 4
    Bad <- MCBad
    Workers <- MCWorkers
    Capacity = 1
    Readers <- MCReaders
INVARIANT CorruptFileFails
