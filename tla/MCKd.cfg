SPECIFICATION Spec
CONSTANTS
    Requests = {"a", "b"}
    Borders = {}
    Retries = 3
    MaxNoise = 3
    MaxLoss = 2
    MaxKills = 2
INVARIANT TypeOK
INVARIANT Paired
INVARIANT InStep
PROPERTY CallsReturn
PROPERTY StopReported
PROPERTY FileServed
CHECK_DEADLOCK FALSE
