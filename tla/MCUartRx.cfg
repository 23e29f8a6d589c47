SPECIFICATION FitsSpec
CONSTANTS
    Uarts = {uart0}
    RING = 10
    WRAP = 256
    SEM_MAX = 2
INVARIANT RingIntact
