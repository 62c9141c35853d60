SPECIFICATION ProgressSpec
CONSTANTS
    Instance = {i1, i2}
    Env <- OneGood
    MaxFaults = 2
    MinCost = 12
    MaxCost = 31
    DefaultCost = 12
    MaxConcurrent = 512
    DefaultConcurrent = 8
    MaxPermits = 4096
    MinSecret = 32
    MinUnique = 8
    MinPassword = 12
    Requests = {r1, r2}
    Slots = {s1}
    Callers = {c1, c2, c3}
    Tasks = {t1, t2}
    a = a
    instance = i1
PROPERTIES EventuallyServing NobodyHangs ErrorsSurface DealtWith Served EverySaveEnds
CHECK_DEADLOCK FALSE
