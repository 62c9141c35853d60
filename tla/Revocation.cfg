SPECIFICATION NarrowSpec
CONSTANTS
    Instance = {i1, i2}
    Jti = {j1}
    Req = {r1, r2}
    Exp <- MCExp
    Leeway = 1
    BatchSize = 1
    MaxTime = 2
SYMMETRY Symmetric
INVARIANTS AcknowledgedIsOnRecord NeverToldNotRevoked RevocationsCovered
PROPERTIES ImplementsRegistry
