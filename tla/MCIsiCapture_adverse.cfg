SPECIFICATION Spec
CONSTANTS
    Buffers = {b1, b2}
    Discard1 = d1
    Discard2 = d2
    DiscardMem = mem
    NoAddr = none
    Sizes = {1, 2}
    DefaultSize = 1
    CountMod = 4
    Faults = {"remote", "nomem"}
    Careful = FALSE
    SubdevCallers = TRUE
    Smp = TRUE
SYMMETRY BufferSymmetry
CHECK_DEADLOCK FALSE
INVARIANTS TypeOK
PROPERTIES IdleSlotLoaded
