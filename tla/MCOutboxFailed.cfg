CONSTANTS
    Messages = {m1, m2}
    Sweepers = {s1, s2}
    MaxRetries = 2
    BatchLimit = 1
    MaxOutages = 1
    MaxAborts = 1
SPECIFICATION OutboxSpec
PROPERTY PublishedNeverFails
CHECK_DEADLOCK FALSE
