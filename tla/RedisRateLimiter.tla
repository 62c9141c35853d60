-------------------------- MODULE RedisRateLimiter --------------------------
(***************************************************************************)
(* The Redis rate limiters of several instances, and the handlers that use *)
(* them.  A login or a refresh first counts an attempt of its client       *)
(* address with a Lua script, then runs its use case, and gives the        *)
(* address its budget back when the use case succeeds.  A Redis call that  *)
(* fails or takes longer than 250 ms is replayed against the limiter's own *)
(* in-memory shadow; a call that timed out may still reach Redis later.    *)
(***************************************************************************)
EXTENDS RateLimitEntries

CONSTANTS
    Instance,       \* instances of the service
    Scope,          \* key_prefix: "login" or "refresh"
    Request,        \* slots for requests in flight, over all instances
    MaxErrors,      \* bound: failed Redis calls beyond this number are not told apart
    MaxLate,        \* bound: commands that may still land
    MaxTime         \* bound: the clock stops here

VARIABLES
    now,            \* the clock
    redisUp,        \* whether Redis answers
    counter,        \* counter[k]: the value of key k in Redis, 0 when it does not exist
    expires,        \* expires[k]: when the key expires, 0 when it does not exist
    late,           \* commands whose caller has timed out and that Redis may still apply
    shadow,         \* shadow[i][s]: the table of the shadow
    errors,         \* errors[i][s]: redis_error_count
    metric,         \* metric[i][s]: rate_limiter_redis_errors_total of the scope
    reqs,           \* requests in flight
    replied,        \* history: the command Redis applied in the last step, and its reply
    counted         \* history: counted[src, k], the attempts that src counted and did not
                    \* refuse in the last Window seconds, since it last forgot the address:
                    \* a reset, or an eviction from a shadow

(* The values the constants may have. *)
RedisConstants ==
    /\ LimiterConstants
    /\ IsFiniteSet(Ip) /\ Ip # {}
    /\ IsFiniteSet(Scope) /\ Scope # {}
    /\ "redis" \notin Instance

redis == <<counter, expires, late>>
limiters == <<shadow, errors, metric>>
vars == <<now, redisUp, redis, limiters, reqs, replied, counted>>

Key == Scope \X Ip
Source == {"redis"} \union Instance
Limiter == Instance \X Scope

Req == [id : Request, at : Instance, scope : Scope, ip : Ip,
        pc : {"try", "refused", "use_case", "del", "shadow"},
        src : Source]               \* who refused the attempt

Attempt == [at : Nat, no : Nat, granted : BOOLEAN]

NoReply == [op |-> "none"]
Reply(op, k, v) == [op |-> op, ip |-> k, value |-> v]

TypeOK ==
    /\ now \in Nat /\ redisUp \in BOOLEAN
    /\ counter \in [Key -> Nat] /\ expires \in [Key -> Nat]
    /\ late \subseteq [cmd : {"INCR", "DEL"}, key : Key, id : Request]
    /\ \A i \in Instance, s \in Scope : IsTable(shadow[i][s])
    /\ errors \in [Instance -> [Scope -> Nat]] /\ metric \in [Instance -> [Scope -> Nat]]
    /\ reqs \subseteq Req
    /\ counted \in [Source \X Key -> SUBSET Attempt]

(* RedisRateLimiter::connect, once per scope and instance. *)
Init ==
    /\ now = 0
    /\ redisUp = TRUE
    /\ counter = [k \in Key |-> 0]
    /\ expires = [k \in Key |-> 0]
    /\ late = {}
    /\ shadow = [i \in Instance |-> [s \in Scope |-> Empty]]
    /\ errors = [i \in Instance |-> [s \in Scope |-> 0]]
    /\ metric = errors
    /\ reqs = {}
    /\ replied = NoReply
    /\ counted = [x \in Source \X Key |-> {}]

-----------------------------------------------------------------------------
(* Mutant of key: the scopes share a key. *)
key_NoPrefix(s, a) == <<CHOOSE z \in Scope : TRUE, a>>

key(s, a) == <<s, a>>

KeyOf(r) == key(r.scope, r.ip)

(* Counts above Max + 1 are not told apart. *)
OneMore(n) == IF n <= Max THEN n + 1 ELSE n

(* Mutant of the next definition: every INCR extends the expiry. *)
Incr_Extends(k) ==
    /\ counter' = [counter EXCEPT ![k] = OneMore(@)]
    /\ expires' = [expires EXCEPT ![k] = now + Window]

(* The two Lua scripts: INCR, and EXPIRE when the result is 1. *)
Incr(k) ==
    /\ counter' = [counter EXCEPT ![k] = OneMore(@)]
    /\ expires' = [expires EXCEPT ![k] = IF counter[k] = 0 THEN now + Window ELSE @]

Del(k) ==
    /\ counter' = [counter EXCEPT ![k] = 0]
    /\ expires' = [expires EXCEPT ![k] = 0]

(* History: one more attempt at time t, with its number among those of that  *)
(* instant.  More than Max attempts of one instant tell nothing new, unless *)
(* they were allowed.                                                       *)
Noted(attempts, t, granted) ==
    LET n == Cardinality({u \in attempts : u.at = t})
    IN  IF granted \/ n < Max
        THEN attempts \union {[at |-> t, no |-> n, granted |-> granted]} ELSE attempts

(* src counts an attempt of k, and forgets the keys of F. *)
Count(src, k, granted, F) ==
    counted' = [x \in Source \X Key |->
        IF x = <<src, k>> THEN Noted(counted[x], now, granted)
        ELSE IF x \in {src} \X F THEN {} ELSE counted[x]]
Uncount(src, k) == counted' = [counted EXCEPT ![<<src, k>>] = {}]

(* The keys that shadow (i, s) forgets when it is left with table e. *)
Evicted(i, s, e) == {s} \X (DOMAIN clean_expired(shadow[i][s], now) \ DOMAIN e)

Become(r, r2) == reqs' = (reqs \ {r}) \union {r2}
Gone(r) == reqs' = reqs \ {r}

(* Redis applies no command in this step. *)
Quiet == replied' = NoReply /\ UNCHANGED redis

(* A Redis call of limiter (i, s) returned an error or timed out.  It was   *)
(* not applied, or it will be.                                              *)
RedisError(i, s) ==
    /\ errors' = [errors EXCEPT ![i][s] = IF @ < MaxErrors THEN @ + 1 ELSE @]
    /\ UNCHANGED metric

MayLand(cmd, k, id) ==
    /\ late' \in {late, late \union {[cmd |-> cmd, key |-> k, id |-> id]}}
    /\ Cardinality(late') <= MaxLate
    /\ replied' = NoReply
    /\ UNCHANGED <<counter, expires>>

-----------------------------------------------------------------------------
(* The handlers of password login, Google login and refresh.  A request     *)
(* that is not well formed is answered 422 before anything else happens.    *)
Arrive(id, i, s, a) ==
    /\ \A r \in reqs : r.id # id
    /\ reqs' = reqs \union {[id |-> id, at |-> i, scope |-> s, ip |-> a, pc |-> "try", src |-> "redis"]}
    /\ Quiet /\ UNCHANGED <<now, redisUp, limiters, counted>>

(* try_check_and_record: Redis answers. *)
TryRedis(r) ==
    LET k == KeyOf(r)
        allowed == counter[k] + 1 <= Max
    IN  /\ r.pc = "try" /\ redisUp
        /\ Incr(k)
        /\ replied' = Reply("try", k, Truth(allowed))
        /\ Become(r, [r EXCEPT !.pc = IF allowed THEN "use_case" ELSE "refused"])
        /\ IF allowed THEN Count("redis", <<r.scope, r.ip>>, TRUE, {}) ELSE UNCHANGED counted
        /\ UNCHANGED <<now, redisUp, late, limiters>>

(* Mutants of the next definition: it fails open; it waits for Redis.       *)
TryShadow_FailsOpen(r) ==
    /\ r.pc = "try"
    /\ RedisError(r.at, r.scope)
    /\ MayLand("INCR", KeyOf(r), r.id)
    /\ Become(r, [r EXCEPT !.pc = "use_case"])
    /\ Count(r.at, <<r.scope, r.ip>>, TRUE, {})
    /\ UNCHANGED <<now, redisUp, shadow>>
TryShadow_Waits(r) == FALSE

(* try_check_and_record: an error or a timeout, and the shadow decides. *)
TryShadow(r) ==
    /\ r.pc = "try"
    /\ RedisError(r.at, r.scope)
    /\ MayLand("INCR", KeyOf(r), r.id)
    /\ \E e \in Tracked(shadow[r.at][r.scope], r.ip, now, now) :
        /\ shadow' = [shadow EXCEPT ![r.at][r.scope] = Tried(e, r.ip, now)]
        /\ IF Allowed(e[r.ip], now)
           THEN /\ Become(r, [r EXCEPT !.pc = "use_case"])
                /\ Count(r.at, <<r.scope, r.ip>>, TRUE, Evicted(r.at, r.scope, e))
           ELSE /\ Become(r, [r EXCEPT !.pc = "refused", !.src = r.at])
                /\ UNCHANGED counted
    /\ UNCHANGED <<now, redisUp>>

(* The use case: Ok, or an error that the handler answers at once. *)
UseCase(r) ==
    /\ r.pc = "use_case"
    /\ Become(r, [r EXCEPT !.pc = "del"]) \/ Gone(r)
    /\ Quiet /\ UNCHANGED <<now, redisUp, limiters, counted>>

(* reset: the DEL, whose failure is only counted. *)
DelRedis(r) ==
    /\ r.pc = "del" /\ redisUp
    /\ Del(KeyOf(r))
    /\ replied' = Reply("reset", KeyOf(r), 0)
    /\ Become(r, [r EXCEPT !.pc = "shadow"])
    /\ Uncount("redis", <<r.scope, r.ip>>)
    /\ UNCHANGED <<now, redisUp, late, limiters>>

DelFails(r) ==
    /\ r.pc = "del"
    /\ RedisError(r.at, r.scope)
    /\ MayLand("DEL", KeyOf(r), r.id)
    /\ Become(r, [r EXCEPT !.pc = "shadow"])
    /\ UNCHANGED <<now, redisUp, shadow, counted>>

(* reset: the shadow, whatever became of the DEL.  The rest of the handler, *)
(* which publishes the events and answers 200, awaits nothing.              *)
ResetShadow(r) ==
    /\ r.pc = "shadow"
    /\ shadow' = [shadow EXCEPT ![r.at][r.scope] = reset(@, r.ip)]
    /\ Uncount(r.at, <<r.scope, r.ip>>)
    /\ Gone(r)
    /\ Quiet /\ UNCHANGED <<now, redisUp, errors, metric>>

(* 429. *)
Respond(r) ==
    /\ r.pc = "refused"
    /\ Gone(r)
    /\ Quiet /\ UNCHANGED <<now, redisUp, limiters, counted>>

(* The client goes away while the handler awaits. *)
Leave(r) ==
    /\ r.pc \in {"use_case", "del", "shadow"}
    /\ Gone(r)
    /\ Quiet /\ UNCHANGED <<now, redisUp, limiters, counted>>

Handler(r) ==
    \/ TryRedis(r) \/ TryShadow(r)
    \/ UseCase(r)
    \/ DelRedis(r) \/ DelFails(r) \/ ResetShadow(r)
    \/ Respond(r)

-----------------------------------------------------------------------------
(* The operations of the port that no handler calls.  An entry of a shadow  *)
(* that is used up is not recorded again, as a bound.                       *)

RecordAttempt(i, s, a) ==
    /\ \/ /\ redisUp
          /\ Incr(key(s, a))
          /\ replied' = Reply("record", key(s, a), 0)
          /\ Count("redis", <<s, a>>, FALSE, {})
          /\ UNCHANGED <<late, limiters>>
       \/ /\ RedisError(i, s)
          /\ remaining_attempts(shadow[i][s], a, now) > 0
          /\ \E e \in Tracked(shadow[i][s], a, now, now) :
                /\ shadow' = [shadow EXCEPT ![i][s] = Recorded(e, a, now)]
                /\ Count(i, <<s, a>>, FALSE, Evicted(i, s, e))
          /\ Quiet
    /\ UNCHANGED <<now, redisUp, reqs>>

Check(i, s, a) ==
    /\ \/ /\ redisUp
          /\ replied' = Reply("check", key(s, a), Truth(counter[key(s, a)] < Max))
          /\ UNCHANGED <<counter, expires, late, limiters>>
       \/ /\ RedisError(i, s)
          /\ shadow' = [shadow EXCEPT ![i][s] = clean_expired(@, now)]
          /\ Quiet
    /\ UNCHANGED <<now, redisUp, reqs, counted>>

RemainingAttempts(i, s, a) ==
    /\ \/ /\ redisUp
          /\ replied' = Reply("remaining", key(s, a), Left(counter[key(s, a)]))
          /\ UNCHANGED <<counter, expires, late, limiters>>
       \/ /\ RedisError(i, s)
          /\ Quiet /\ UNCHANGED shadow
    /\ UNCHANGED <<now, redisUp, reqs, counted>>

-----------------------------------------------------------------------------
(* Redis applies a command after its caller has given up. *)
Land(c) ==
    /\ redisUp
    /\ late' = late \ {c}
    /\ IF c.cmd = "INCR"
       THEN /\ Incr(c.key)
            /\ replied' = Reply("record", c.key, 0)
            /\ Count("redis", c.key, FALSE, {})
       ELSE /\ Del(c.key)
            /\ replied' = Reply("reset", c.key, 0)
            /\ Uncount("redis", c.key)
    /\ UNCHANGED <<now, redisUp, limiters, reqs>>

RedisFlips ==
    /\ redisUp' = ~redisUp
    /\ Quiet /\ UNCHANGED <<now, limiters, reqs, counted>>

(* The clock moves on, and Redis drops the keys that expire. *)
Tick ==
    /\ now < MaxTime
    /\ now' = now + 1
    /\ counter' = [k \in Key |-> IF now + 1 < expires[k] THEN counter[k] ELSE 0]
    /\ expires' = [k \in Key |-> IF now + 1 < expires[k] THEN expires[k] ELSE 0]
    /\ counted' = [x \in Source \X Key |-> {u \in counted[x] : now + 1 - u.at < Window}]
    /\ replied' = NoReply
    /\ UNCHANGED <<redisUp, late, limiters, reqs>>

(* Mutant of the next definition: the poller increments by the total. *)
Poll_Increments(i) ==
    /\ metric[i] # errors[i]
    /\ metric' = [metric EXCEPT ![i] = [s \in Scope |->
                    IF metric[i][s] <= MaxErrors THEN metric[i][s] + errors[i][s] ELSE metric[i][s]]]
    /\ Quiet /\ UNCHANGED <<now, redisUp, shadow, errors, reqs, counted>>

(* The metrics poller of an instance, one tick. *)
Poll(i) ==
    /\ metric[i] # errors[i]
    /\ metric' = [metric EXCEPT ![i] = errors[i]]
    /\ Quiet /\ UNCHANGED <<now, redisUp, shadow, errors, reqs, counted>>

(* What the service does. *)
Serve ==
    \/ \E id \in Request, i \in Instance, s \in Scope, a \in Ip : Arrive(id, i, s, a)
    \/ \E r \in reqs : Handler(r) \/ Leave(r)
    \/ \E c \in late : Land(c)
    \/ \E i \in Instance : Poll(i)
    \/ RedisFlips
    \/ Tick

(* What it could do besides. *)
CallPort ==
    \E i \in Instance, s \in Scope, a \in Ip :
        RecordAttempt(i, s, a) \/ Check(i, s, a) \/ RemainingAttempts(i, s, a)

Next == Serve \/ CallPort

Spec == Init /\ [][Next]_vars

(* The tasks of a live process run: its handlers and its poller. *)
Fairness ==
    /\ \A id \in Request : WF_vars(\E r \in reqs : r.id = id /\ Handler(r))
    /\ \A i \in Instance : WF_vars(Poll(i))

FairSpec == Spec /\ Fairness

-----------------------------------------------------------------------------
(* The counter in Redis is a fixed-window budget per key, shared by every   *)
(* instance: refused attempts are counted and never prolong the window, and *)
(* a key never stays without an expiry ("a crash or race between the two    *)
(* can never leave a counter key without a TTL").                           *)
Promise == INSTANCE FixedWindow WITH
    Ip <- Key,
    Room <- Cardinality(Key) + 1,
    spent <- [k \in Key |-> Max - Left(counter[k])],
    closes <- expires,
    answer <- replied

SharedBudget == Promise!Spec

(* However Redis fails, each of the limiters that decide on an address,     *)
(* Redis and the shadow of every instance, allows it fewer than 2 Max       *)
(* attempts in a window's time, as long as it is neither reset nor evicted  *)
(* from a full shadow: "a per-IP budget is still enforced on this instance  *)
(* while Redis is unreachable".  All instances together allow the sum.      *)
ClusterBudget ==
    \A x \in Source \X Key :
        Cardinality({u \in counted[x] : u.granted}) <= 2 * Max - 1

(* Who is refused has made Max attempts of the same kind within the last    *)
(* window, since the limiter that refuses last forgot the address:          *)
(* refusals never add up to a longer lockout, refreshes do not count        *)
(* against logins, a reset holds on its own instance at once, and one that  *)
(* did not reach Redis is forgotten "within one window at worst".           *)
RefusalsHaveCause ==
    \A r \in reqs' \ reqs :
        r.pc = "refused" => Max <= Cardinality(counted[<<r.src, <<r.scope, r.ip>>>>])

RefusedForCause == [][RefusalsHaveCause]_vars

(* A request is answered in the end, also while Redis hangs: every Redis    *)
(* call is bounded, and the shadow decides.                                 *)
NobodyHangs == \A id \in Request : (\E r \in reqs : r.id = id) ~> (\A r \in reqs : r.id # id)

(* The exported error totals catch up with the counters of the limiters. *)
ErrorsSurface == \A i \in Instance : []<>(metric[i] = errors[i])
=============================================================================
