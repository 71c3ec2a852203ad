SPECIFICATION Spec
CONSTANTS
    Buffers = {b1, b2, b3}
    Discard1 = d1
    Discard2 = d2
    DiscardMem = mem
    NoAddr = none
    Sizes = {1, 2}
    DefaultSize = 1
    CountMod = 4
    Faults = {}
    Careful = TRUE
    SubdevCallers = FALSE
    Smp = FALSE
INVARIANT RefusedOnlyRunning
