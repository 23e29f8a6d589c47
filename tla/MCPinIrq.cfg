SPECIFICATION PinSpec
CONSTANTS
    PINS = 2
    Dedicated = {2}
    SEM_VALUE_MAX = 2
PROPERTY NoOldEdge
