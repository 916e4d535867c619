SPECIFICATION Spec
CONSTANTS
    Clients = {c}
    Files = {f, g}
    Accounts <- MCAccounts
    MaxConf = 2
    Workers = {w1, w2}
    Devices = {d}
    getProps <- MCgetProps
    Picked = {128}
    MaxAnnounced = 1
    MaxTid = 5
INVARIANTS TypeOK  CaptureAlone 
CHECK_DEADLOCK FALSE
