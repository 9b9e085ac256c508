SPECIFICATION ConfigSpec
CONSTANTS
    ArgLists <- MCArgLists
    Numeric <- MCNumeric
    Files <- MCFiles
    SizeMod = 16777216
INVARIANTS CliOverrides
CHECK_DEADLOCK FALSE
