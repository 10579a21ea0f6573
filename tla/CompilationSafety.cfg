CONSTANTS
    Operator = Operator
    Withdrawal = Withdrawal
    Cancels = {Withdrawal}
    Runs = {1, 2}
    Scanner = Scanner
    Calls = {Operator}
    NoRun = NoRun
    MaxFaults = 1
CONSTRAINT OneMoreActor
CHECK_DEADLOCK FALSE
SPECIFICATION Spec
INVARIANTS CompilationTypeOK IngestedOnce CancelledIsNeverIngested AbsenceSeenTwice ReleasedHasEnded ReplacementStandsAlone
PROPERTY EndedStaysEnded
