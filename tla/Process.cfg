SPECIFICATION ProcessSpec
CONSTANTS
    Caller = {c1, c2, c3}
    MaxConcurrent = 2
    MaxCalls = 2
    Thread = {t1, t2}
    Instance = {i1, i2}
    Login = {l1, l2}
    Jti = {j1, j2}
    Reader = {q1, q2}
    MinCost = 12
    MaxCost = 31
    DefaultCost = 12
    MaxConfigured = 512
    DefaultConcurrent = 8
    MaxPermits = 4096
    MinSecret = 32
    MinUnique = 8
    MinPassword = 12
    Env <- Edited
    Steady <- Loadable
    MaxFaults = 3
    FewFaults = 1
    Host = {"local", "remote"}
    Loopback = {"local"}
    Query <- Queries
    Cost = 3
    Cheapest = 1
    Dearest = 4
    Flawed = {"none", "header", "claims", "email", "unverified"}
    Headers <- CacheControl
    DefaultTtl = 2
    LongestTtl = 2
    Timeout = 1
    Lead = 3
    Linger = 2
    Life = 1
    MaxKey = 2
    JwksTime = 6
    Ttl = {0, 1, 2}
    BlacklistTime = 3
SYMMETRY Symmetric
INVARIANTS ReadyWhenServing NoSilentPlaintext PermitsConserved EqualWork TokensJudged StaleOnlyOnFailure
PROPERTIES ExitsForCause AnswersAreTrue
CHECK_DEADLOCK FALSE
