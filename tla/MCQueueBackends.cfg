CONSTANTS
    Kinds = {"memory", "list", "streams", "rabbitmq"}
    Items = {i1, i2}
    Subscribers = {u1, u2}
    Pullers = {p1}
    MaxErrors = 1
    MaxCrashes = 1
    None = None
SPECIFICATION QueueSpec
INVARIANT NoOtherLoss
INVARIANT DeliverySound
PROPERTY ProcessedInTheEnd
CHECK_DEADLOCK FALSE
