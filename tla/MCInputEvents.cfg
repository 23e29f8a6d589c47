SPECIFICATION InputSpec
VIEW InputView
SYMMETRY WordSymmetry
CONSTANTS
    QSIZE = 2
    COUNTER = 2
    Words = {k1, k2}
    Noise = {n1}
    NoRaw = NoRaw
    PinConfigs = {p1, p2}
    IrConfig = ir
    IR_RELEASE_TICKS = 2
    IR_TICKS = 4
    IR_POLL_TICKS = 1
    KEYS_COUNT = 2
    DEBOUNCE_TICKS = 1
    LONG_TICKS = 1
    TICKS = 3
    POLL_TICKS = 1
INVARIANTS
    StreamWellFormed
    DrainedReaderAgrees
    LossIsVisible
    PinsRestored
    KeyStreamWellFormed
PROPERTIES
    ReleaseInTime
