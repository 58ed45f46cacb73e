CONSTANTS
    o = o  s = s  f1 = f1  f2 = f2
    Own = {o}
    Served = {s}
    Foreign = {f1, f2}
    KeyOrder <- MCKeyOrder
    LeaseTicks = 2
    KeepAliveTicks = 1
    MaxErrors = 1
    MaxStarts = 2
    Callers = {c1, c2}
    Strategies = {"RoundRobin", "Random", "First"}
    MaxRetries = 1
    MaxCalls = 4
    None = None
SPECIFICATION Spec
INVARIANT CallsWellPlaced
PROPERTY CallReturns
INVARIANT RegisteredWhileHeld
PROPERTY LapsesWithoutHandle
CHECK_DEADLOCK FALSE
