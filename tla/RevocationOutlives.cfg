SPECIFICATION Spec
CONSTANTS
    Instance = {i1}
    Jti = {j1}
    Req = {r1}
    Exp <- MCExp
    Leeway = 1
    BatchSize = 1
    MaxTime = 2
INVARIANT FlushedEntryExpiresWithToken
