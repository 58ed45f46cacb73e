CONSTANTS
    Parts = {"rest"}
    r1 = r1  r2 = r2
    Requests = {r1, r2}
    Inputs <- MCInputs
    Setups <- MCSetups
    KeyTtl = 2
    CacheTtl = 1
    CanaryWeight = 0
    MaxBody = 2
    DrainTicks = 2
    MaxTime = 2
    NoReq = NoReq
    Clients = {c1, c2}
    Rooms = {lobby}
    Messages = {m1}
    AckTicks = 0
    MaxResend = 1
    PongTicks = 0
    Nobody = Nobody
    NoRoom = NoRoom
SPECIFICATION Spec
PROPERTY ServesUntilSignal
CHECK_DEADLOCK FALSE
