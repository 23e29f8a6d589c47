SPECIFICATION AudioSpec
CONSTANTS
    Formats = {F48}
    FmFormat = F38
    BootFormat = F48
    Volumes = {55, 80}
    BootVolume = 55
    POOL = 2
    WRITE = 3
    WORDS = 2
    SEM_MAX = 2
    Callers = {shell, main}
    Frequencies = {f97, f88}
    FmVolumes = {0, 15, 55}
    FmBootVolume = 55
    Mute = 0
    Stations = {f97, f88}
    RadioVolumes = {15, 55}
    RadioBootVolume = 55
    Preset = f97
    PresetVolume = 15
INVARIANTS
    NoDeadStream
    ConfigRestored
    StatusHonest
    NoiseNeverHeard
    PowerBusyCovers
    OffIsOff
PROPERTIES
    ImplementsDacOwnership
    CallsReturn
    LockReturns
    ImplementsFmService
    NoTakeOver
    SessionFollows
\* A first write longer than the pool waits for ever.
CHECK_DEADLOCK FALSE
