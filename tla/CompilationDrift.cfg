CONSTANTS
    Operator = Operator
    Withdrawal = Withdrawal
    Cancels = {Withdrawal}
    Runs = {1}
    Scanner = Scanner
    Calls = {}
    NoRun = NoRun
    MaxFaults = 1
CHECK_DEADLOCK FALSE
SPECIFICATION Spec
INVARIANT DriftMakesNothingReady
