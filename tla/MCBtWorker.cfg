SPECIFICATION WorkerSpec
CONSTANTS
    Slots = {s1}
    JOBS = 1
    SEM_MAX = 1
    CREDITS = 2
INVARIANTS NoLostWake StoppedIsSilent SlotsAccounted NeverDark
PROPERTIES RequestServed DiagnosticReturns
