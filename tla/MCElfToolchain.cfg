SPECIFICATION Spec
CONSTANTS
    Elfs <- MCElfs
    Runtimes <- MCRuntimes
    Contracts <- MCContracts
    Outcome <- MCOutcome
    Undeclared = Undeclared
    Unreadable = Unreadable
    MaxEdits <- MCMaxEdits
    MaxStarts = 3
INVARIANTS PassIsOfOneElf AdmittedIsOneBuild ComparedPathsRanTheElf
CHECK_DEADLOCK FALSE
