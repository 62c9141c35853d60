-------------------------- MODULE RedisThrottling ---------------------------
(***************************************************************************)
(* What decides whether the instances of a cluster let a request through:  *)
(* the limiter in Redis that they share, and the shadow of each.           *)
(***************************************************************************)
EXTENDS Integers

CONSTANTS
    Caller,                                         \* addresses, as Ip in RedisRateLimiter
    Limit, Span, Slots,                             \* Max, Window and MaxEntries there
    Instance, Scope, Request, MaxErrors, MaxLate,   \* RedisRateLimiter
    RedisTime                                       \* MaxTime there

VARIABLES
    time,                                           \* now in RedisRateLimiter
    redisUp, counter, expires, late, shadow, errors, metric, reqs, replied, counted

Redis == INSTANCE RedisRateLimiter WITH
    Ip <- Caller, Max <- Limit, Window <- Span, MaxEntries <- Slots, MaxTime <- RedisTime,
    now <- time

ASSUME ClusterConstants == Redis!RedisConstants

(* RedisRateLimiter!ClusterBudget: each limiter that decides on an address, *)
(* Redis and every instance's shadow, keeps to the budget.                  *)
ClusterBudget == Redis!ClusterBudget

(* RedisRateLimiter!RefusedForCause: who is refused has used up the budget  *)
(* of the same kind, in this window, since the last reset.                  *)
RefusedForCause == Redis!RefusedForCause

(* RedisRateLimiter!SharedBudget: the counter in Redis is a fixed-window    *)
(* budget shared by the instances, also when timed-out commands land late.  *)
SharedBudget == Redis!SharedBudget
=============================================================================
