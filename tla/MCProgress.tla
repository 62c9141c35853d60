----------------------------- MODULE MCProgress -----------------------------
(***************************************************************************)
(* What eventually happens, under each component's own fairness.  The      *)
(* components are checked side by side: a behaviour is one of the          *)
(* component that part names.  The others rest in a state in which none of *)
(* their fair actions is enabled: their initial state, or for Startup that *)
(* of a system that serves.                                                *)
(***************************************************************************)
EXTENDS Startup

CONSTANTS Requests, Slots, Callers, Tasks, a, instance

VARIABLES
    part,                                               \* what this behaviour is of
    now, reachable, counter, expires, late, shadow,     \* RedisRateLimiter
    errors, metric, reqs, replied, counted,
    up, waiting, published, next, holding,              \* AuditTrail
    user_actions, failed, died,
    callers, calls, line, permits, threads,             \* BcryptLimiter
    there, active, number, free, queue, tasks           \* SaveTransaction

startup == vars
limiter == <<now, reachable, counter, expires, late, shadow, errors, metric, reqs, replied, counted>>
audit == <<up, waiting, published, next, holding, user_actions, failed, died>>
bcrypt == <<callers, calls, line, permits, threads>>
saves == <<there, active, number, free, queue, tasks>>
all == <<part, startup, limiter, audit, bcrypt, saves>>

(* The environment every instance is started with. *)
Good == [cost |-> Unset, permits |-> Unset, expiry |-> Unset,
         secret |-> [len |-> MinSecret, unique |-> MinUnique],
         password |-> [len |-> MinPassword, weak |-> FALSE, classes |-> 3],
         redis |-> "set", tls |-> "unset"]
OneGood == {Good}

Limiter == INSTANCE RedisRateLimiter WITH
    Ip <- {a}, Max <- 1, Window <- 1, MaxEntries <- 1, Instance <- {instance},
    Scope <- {"login"}, Request <- Requests, MaxErrors <- 2, MaxLate <- 0, MaxTime <- 1,
    redisUp <- reachable

Audit == INSTANCE AuditTrail WITH Slot <- Slots, Capacity <- 2, MaxEvents <- 3

(* BCRYPT_MAX_CONCURRENT = 0, which new raises to 1. *)
Bcrypt == INSTANCE BcryptLimiter WITH
    Caller <- Callers, MaxConcurrent <- 0, MaxCalls <- 2,
    pc <- callers, queue <- line, free <- permits

(* A connection for every task, so that they meet at the rows; and one for  *)
(* all of them.                                                             *)
Saves == INSTANCE SaveTransaction WITH
    Task <- Tasks, MaxConnections <- 2, MaxSession <- 2, next <- number
Pool == INSTANCE SaveTransaction WITH
    Task <- Tasks, MaxConnections <- 1, MaxSession <- 2, next <- number

ASSUME StartupConstants
ASSUME Limiter!RedisConstants /\ Saves!SaveConstants /\ Pool!SaveConstants

-----------------------------------------------------------------------------
Serving ==
    /\ pc = [i \in Instance |-> "serving"]
    /\ env = [i \in Instance |-> Good]
    /\ backend = [i \in Instance |-> [limiters |-> "redis", blacklist |-> "redis"]]
    /\ applied = 12 /\ index = "valid" /\ older = {} /\ holder = "none" /\ locals = 1
    /\ redisUp = TRUE /\ faults = 0

ProgressInit ==
    /\ part \in {"startup", "limiter", "audit", "bcrypt", "saves", "pool"}
    /\ IF part = "startup" THEN Init ELSE Serving
    /\ Limiter!Init
    /\ Audit!Init
    /\ Bcrypt!Init
    /\ CASE part = "saves" -> Saves!Init
         [] part = "pool" -> Pool!Init
         [] OTHER -> number = 1 /\ active = {} /\ Saves!Init

ProgressNext ==
    /\ UNCHANGED part
    /\ \/ part = "startup" /\ Next /\ UNCHANGED <<limiter, audit, bcrypt, saves>>
       \/ part = "limiter" /\ Limiter!Next /\ UNCHANGED <<startup, audit, bcrypt, saves>>
       \/ part = "audit" /\ Audit!Next /\ UNCHANGED <<startup, limiter, bcrypt, saves>>
       \/ part = "bcrypt" /\ Bcrypt!Next /\ UNCHANGED <<startup, limiter, audit, saves>>
       \/ part = "saves" /\ Saves!Next /\ UNCHANGED <<startup, limiter, audit, bcrypt>>
       \/ part = "pool" /\ Pool!Next /\ UNCHANGED <<startup, limiter, audit, bcrypt>>

ProgressSpec ==
    /\ ProgressInit /\ [][ProgressNext]_all
    /\ Fairness
    /\ Limiter!Fairness
    /\ Audit!Fairness
    /\ Bcrypt!Fairness
    /\ Saves!Fairness

-----------------------------------------------------------------------------
(* RedisRateLimiter!NobodyHangs: a request is answered in the end, also     *)
(* while Redis hangs.                                                       *)
NobodyHangs == Limiter!NobodyHangs

(* RedisRateLimiter!ErrorsSurface: the exported error totals catch up with  *)
(* the counters.                                                            *)
ErrorsSurface == Limiter!ErrorsSurface

(* AuditTrail!DealtWith: every event published is dealt with in the end. *)
DealtWith == Audit!DealtWith

(* BcryptLimiter!Served: a task that waits is served, unless it is dropped. *)
Served == Bcrypt!Served

(* SaveTransaction!EverySaveEnds: every task gets its connection and its    *)
(* rows and ends.                                                           *)
EverySaveEnds == Saves!EverySaveEnds
=============================================================================
