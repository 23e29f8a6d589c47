SPECIFICATION BtSafeSpec
CONSTANTS
    Callers = {"main", "shell", "nimble"}
    Frequencies = {f1}
    FmVolumes = {v0, v55}
    FmBootVolume = v55
    Mute = v0
    Commands = {"ble start", "btctl test"}
    Workers = {w1, w2}
INVARIANT OneBringUp
