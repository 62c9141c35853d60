SPECIFICATION ThrottlingSpec
CONSTANTS
    client = client
    other = other
    proxy1 = proxy1
    proxy2 = proxy2
    local = local
    Junk = Junk
    Opaque = Opaque
    Address <- Everybody
    Trusted <- Proxies
    Loopback <- Local
    MetricsAllowed <- Listed
    MaxSent = 2
    MaxHops = 2
    Ip = {a1, a2, a3}
    Max = 2
    Window = 2
    MaxEntries = 2
    MaxTime = 6
    MaxUses = 3
    EarlyTime = 4
    Caller = {c}
    Limit = 2
    Span = 2
    Slots = 1
    Instance = {i1, i2}
    Scope = {login, refresh}
    Request = {r1, r2}
    MaxErrors = 0
    MaxLate = 1
    RedisTime = 3
    ClusterTime = 2
    BriefTime = 1
SYMMETRY Symmetric
INVARIANTS CountedUnderLastUntrusted ClusterBudget
PROPERTIES ImplementsFixedWindow RefusedForCause SharedBudget
