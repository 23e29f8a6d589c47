SPECIFICATION PowerSpec
CONSTANTS
    Drivers = {usb}
    OffDrivers = {usb}
    RATE = 3
    GUARD = 1
    DRIFT = 1
    LATE = 2
    PREEMPTED = 5
    TICKS = 14
    SECONDS = 4
    Sources = {"PWKEY", "VUSB"}
INVARIANTS NoSleepUnderBusy OffCommitted
PROPERTIES TickCompensated SleepReturns OffUndone
