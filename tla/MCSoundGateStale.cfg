SPECIFICATION SafeSpec
CONSTANTS
    Formats = {F48}
    FmFormat = F38
    BootFormat = F48
    Volumes = {55}
    BootVolume = 55
    POOL = 2
    WRITE = 1
    WORDS = 2
    SEM_MAX = 2
PROPERTY PcmQuietUnderFm
