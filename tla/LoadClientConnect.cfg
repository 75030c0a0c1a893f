SPECIFICATION Spec
CONSTANTS
    Amounts = {0, 4, 7}
    SendBatch = 3
    RecvBatch = 1
    CqeBatch = 2
    Runs = 2
    MaxFailing = 1
INVARIANTS Connected
