SPECIFICATION CmdSafeSpec
CONSTANT CREDITS = 5
PROPERTY ReportIsTrue
