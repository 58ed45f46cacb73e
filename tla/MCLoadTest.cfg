CONSTANTS
    LtWorkers = {w1, w2, w3}
    Total = 3
SPECIFICATION LoadSpec
PROPERTY LoadtestReports
CHECK_DEADLOCK FALSE
