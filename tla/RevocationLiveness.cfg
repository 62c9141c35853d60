SPECIFICATION FairSpec
CONSTANTS
    Instance = {i1}
    Jti = {j1, j2}
    Req = {r1}
    Exp <- MCExp
    Leeway = 0
    BatchSize = 1
    MaxTime = 1
PROPERTY EventuallyShared
