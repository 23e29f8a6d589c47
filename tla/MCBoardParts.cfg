SPECIFICATION PartsSpec
CONSTANTS
    KEYS_COUNT = 1
    QSIZE = 1
    COUNTER = 1
    DEBOUNCE_TICKS = 2
    LONG_TICKS = 3
    POLL_TICKS = 1
    TICKS = 5
    Uarts = {uart0, uart1}
    RING = 3
    WRAP = 4
    SEM_MAX = 2
    PINS = 2
    Dedicated = {2}
    SEM_VALUE_MAX = 2
    BASE = 3
    BYTES = 3
    TRIES = 3
    ELAPSE = 2
    SEQUENCES = 3
    RETRIES = 3
    MESSAGES = 5
INVARIANTS NoStrandedByte EdgeIsServed ReadIsTrue UnsetIsMarked InStep
PROPERTIES Debounced Follower CalledForAnEdge
