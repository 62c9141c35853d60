-------------------------- MODULE DurableRevocation --------------------------
(***************************************************************************)
(* Access token revocation on the Redis backend: every instance of the     *)
(* service runs a DurableRevocationBlacklist over the shared Redis, with   *)
(* the Postgres outbox behind it and one flush worker per instance.        *)
(* Authenticated requests ask is_revoked; logouts call revoke.             *)
(***************************************************************************)
EXTENDS Integers, FiniteSets

CONSTANTS
    Instance,       \* running copies of the service
    Jti,            \* access tokens
    Req,            \* slots for requests in flight
    Exp,            \* Exp[j]: the "exp" claim of token j
    Leeway,         \* JWT_EXP_LEEWAY_SECS
    BatchSize,      \* FLUSH_BATCH_SIZE
    MaxTime         \* bound: the clock stops here

ASSUME ConstantsOK ==
    /\ Exp \in [Jti -> Nat]
    /\ Leeway \in Nat
    /\ BatchSize \in Nat \ {0}
    /\ MaxTime \in Nat

VARIABLES
    now,            \* the clock, in seconds, shared by all machines
    redisUp,        \* Redis answers within REDIS_TIMEOUT
    pgUp,           \* Postgres answers
    up,             \* up[i]: instance i is running
    redis,          \* redis[j]: when key acl:revoked:j expires, 0 when absent
    late,           \* SETEX commands given up on that Redis may still apply
    outbox,         \* rows of access_token_revocation_outbox
    pending,        \* pending[i][j]: when the entry of the map expires, or 0
    flush,          \* flush[i]: the local state of i's flush worker
    reqs,           \* requests in flight
    acked,          \* history: tokens for which some revoke() returned Ok
    seen            \* history: seen[i], those it returned Ok for on i since boot

store == <<redis, late, outbox>>
history == <<acked, seen>>
env == <<now, redisUp, pgUp, up>>
vars == <<env, store, pending, flush, reqs, history>>

(* The second up to which a revocation is kept.  The token itself still     *)
(* validates in this second, and in none after it: jsonwebtoken rejects a   *)
(* token when exp < now - leeway.                                           *)
Deadline == [j \in Jti |-> Exp[j] + Leeway]

(* A mutant of the next definition: the leeway is forgotten. *)
ttl_NoLeeway(exp, t) == IF exp > t THEN exp - t ELSE 0

revocation_ttl_secs(exp, t) == IF exp + Leeway > t THEN exp + Leeway - t ELSE 0

Journaled(j) == \E row \in outbox : row.jti = j

-----------------------------------------------------------------------------
(* The state space. *)

Row == [jti : Jti, ttl : Nat, expires : Nat, created : Nat]
Setex == [jti : Jti, ttl : Nat]
Request == [id : Req, inst : Instance, jti : Jti,
            pc : {"lookup", "exists", "handler", "setex", "journal", "remember"},
            t : Nat,            \* `now`, read on entry to is_revoked
            ttl : Nat,          \* ttl_secs of the revoke() call
            must : BOOLEAN,     \* history: must not be told "not revoked"
            clear : BOOLEAN]    \* Redis did answer "not revoked"
Sweep == [pc : {"idle", "select", "rows", "forget"},
          rows : SUBSET Setex, flushed : SUBSET Jti,
          remaining : Nat]

Idle == [pc |-> "idle", rows |-> {}, flushed |-> {}, remaining |-> 0]

TypeOK ==
    /\ now \in Nat
    /\ redisUp \in BOOLEAN /\ pgUp \in BOOLEAN
    /\ up \in [Instance -> BOOLEAN]
    /\ redis \in [Jti -> Nat]
    /\ late \subseteq Setex
    /\ outbox \subseteq Row
    /\ pending \in [Instance -> [Jti -> Nat]]
    /\ flush \in [Instance -> Sweep]
    /\ reqs \subseteq Request
    /\ acked \subseteq Jti
    /\ seen \in [Instance -> SUBSET Jti]

Init ==
    /\ now = 0
    /\ redisUp = TRUE /\ pgUp = TRUE
    /\ up = [i \in Instance |-> TRUE]
    /\ redis = [j \in Jti |-> 0]
    /\ late = {} /\ outbox = {}
    /\ pending = [i \in Instance |-> [j \in Jti |-> 0]]
    /\ flush = [i \in Instance |-> Idle]
    /\ reqs = {}
    /\ acked = {}
    /\ seen = [i \in Instance |-> {}]

-----------------------------------------------------------------------------
(* Redis, as RedisAccessTokenBlacklist::revoke uses it.  A call that times *)
(* out is an error to the caller, though Redis may still apply it later.   *)

InnerOk(j, ttl) ==
    /\ ttl = 0 \/ redisUp
    /\ redis' = IF ttl = 0 THEN redis ELSE [redis EXCEPT ![j] = now + ttl]
    /\ UNCHANGED late

InnerErr(j, ttl) ==
    /\ ttl > 0 /\ ~redisUp
    /\ late' \in {late, late \union {[jti |-> j, ttl |-> ttl]}}
    /\ UNCHANGED redis

-----------------------------------------------------------------------------
(* Requests. *)

Become(q, q2) == reqs' = (reqs \ {q}) \union {q2}

Finish(q) == reqs' = reqs \ {q}

Acknowledge(q) ==
    /\ acked' = acked \union {q.jti}
    /\ seen' = [seen EXCEPT ![q.inst] = @ \union {q.jti}]

(* The extractor decodes a token that still validates and calls is_revoked, *)
(* which reads the clock before it waits for the lock on the pending map.   *)
Arrive(id, i, j) ==
    /\ up[i]
    /\ \A q \in reqs : q.id # id
    /\ now <= Deadline[j]
    /\ reqs' = reqs \union {[id |-> id, inst |-> i, jti |-> j, pc |-> "lookup",
                             t |-> now, ttl |-> 0, must |-> FALSE, clear |-> FALSE]}
    /\ UNCHANGED <<env, store, pending, flush, history>>

(* Mutant of Lookup: the pending map is never consulted. *)
Lookup_SkipsPending(q) ==
    /\ q.pc = "lookup"
    /\ Become(q, [q EXCEPT !.pc = "exists", !.t = 0,
                           !.must = q.jti \in seen[q.inst] \/ now < redis[q.jti]])
    /\ UNCHANGED <<env, store, pending, flush, history>>

(* Under the lock: an entry that was live at q.t rejects the request, an   *)
(* expired one is removed and Redis is asked.                              *)
Lookup(q) ==
    /\ q.pc = "lookup"
    /\ \/ /\ q.t < pending[q.inst][q.jti]
          /\ Finish(q)
          /\ UNCHANGED pending
       \/ /\ pending[q.inst][q.jti] <= q.t
          /\ pending' = [pending EXCEPT ![q.inst][q.jti] = 0]
          /\ Become(q, [q EXCEPT !.pc = "exists", !.t = 0,
                                 !.must = \/ q.jti \in seen[q.inst]
                                          \/ now < redis[q.jti]])
    /\ UNCHANGED <<env, store, flush, history>>

(* The extractor lets the request through when Redis does not hold the key *)
(* and, failing open, when Redis does not answer.                          *)
Exists(q) ==
    /\ q.pc = "exists"
    /\ \/ redisUp /\ now < redis[q.jti] /\ Finish(q)
       \/ redisUp /\ redis[q.jti] <= now /\ Become(q, [q EXCEPT !.pc = "handler", !.clear = TRUE])
       \/ ~redisUp /\ Become(q, [q EXCEPT !.pc = "handler"])
    /\ UNCHANGED <<env, store, pending, flush, history>>

(* The handler is not a logout, or the logout did not close a session. *)
OtherHandler(q) ==
    /\ q.pc = "handler"
    /\ Finish(q)
    /\ UNCHANGED <<env, store, pending, flush, history>>

(* A logout closed its session and now revokes the token it presented. *)
LogoutHandler(q) ==
    /\ q.pc = "handler"
    /\ Become(q, [q EXCEPT !.pc = "setex", !.must = FALSE, !.clear = FALSE,
                           !.ttl = revocation_ttl_secs(Exp[q.jti], now)])
    /\ UNCHANGED <<env, store, pending, flush, history>>

(* revoke(): Redis first. *)
RevokeInner(q) ==
    /\ q.pc = "setex"
    /\ \/ InnerOk(q.jti, q.ttl) /\ Finish(q) /\ Acknowledge(q)
       \/ InnerErr(q.jti, q.ttl) /\ Become(q, [q EXCEPT !.pc = "journal"]) /\ UNCHANGED history
    /\ UNCHANGED <<env, outbox, pending, flush>>

(* INSERT ... ON CONFLICT (jti) DO NOTHING. *)
Inserted(q) ==
    IF Journaled(q.jti)
    THEN outbox
    ELSE outbox \union {[jti |-> q.jti, ttl |-> q.ttl, expires |-> now + q.ttl, created |-> now]}

(* Mutant of Journal: a failed INSERT is logged and taken for a success. *)
Journal_Swallows(q) ==
    /\ q.pc = "journal"
    /\ IF pgUp THEN outbox' = Inserted(q) ELSE outbox' \in {outbox, Inserted(q)}
    /\ Become(q, [q EXCEPT !.pc = "remember"])
    /\ UNCHANGED <<env, redis, late, pending, flush, history>>

(* revoke(): then the outbox.  An INSERT that reports an error may have    *)
(* committed; the logout still answers 200, and nothing is acknowledged.   *)
Journal(q) ==
    /\ q.pc = "journal"
    /\ \/ pgUp /\ outbox' = Inserted(q) /\ Become(q, [q EXCEPT !.pc = "remember"])
       \/ ~pgUp /\ outbox' \in {outbox, Inserted(q)} /\ Finish(q)
    /\ UNCHANGED <<env, redis, late, pending, flush, history>>

(* revoke(): and last the pending map. *)
Remember(q) ==
    /\ q.pc = "remember"
    /\ pending' = [pending EXCEPT ![q.inst][q.jti] = now + q.ttl]
    /\ Finish(q)
    /\ Acknowledge(q)
    /\ UNCHANGED <<env, store, flush>>

(* The client goes away and the server drops the handler at an await; a    *)
(* command already sent may still be carried out.                          *)
Abandon(q) ==
    /\ Finish(q)
    /\ late' \in IF q.pc = "setex" /\ q.ttl > 0
                 THEN {late, late \union {[jti |-> q.jti, ttl |-> q.ttl]}} ELSE {late}
    /\ outbox' \in IF q.pc = "journal" THEN {outbox, Inserted(q)} ELSE {outbox}
    /\ UNCHANGED <<env, redis, pending, flush, history>>

-----------------------------------------------------------------------------
(* The flush worker of instance i: flush_pending, one action per await.    *)
(* Where a statement fails the sweep returns Err, the gauge keeps its      *)
(* value and the next tick starts a new sweep.                             *)

(* Mutant of FlushPurge: rows are purged in their last second. *)
FlushPurge_Early(i) ==
    /\ up[i] /\ pgUp
    /\ flush[i].pc = "idle"
    /\ outbox' = {row \in outbox : now + 1 < row.expires}
    /\ flush' = [flush EXCEPT ![i].pc = "select"]
    /\ UNCHANGED <<env, redis, late, pending, reqs, history>>

FlushPurge(i) ==
    /\ up[i] /\ pgUp
    /\ flush[i].pc = "idle"
    /\ outbox' = {row \in outbox : now < row.expires}
    /\ flush' = [flush EXCEPT ![i].pc = "select"]
    /\ UNCHANGED <<env, redis, late, pending, reqs, history>>

(* ORDER BY created_at LIMIT FLUSH_BATCH_SIZE; ties in any order. *)
OldestRows(B) ==
    /\ Cardinality(B) <= BatchSize
    /\ B # outbox => Cardinality(B) = BatchSize
    /\ \A b \in B, o \in outbox \ B : b.created <= o.created

FlushSelect(i) ==
    /\ up[i]
    /\ flush[i].pc = "select"
    /\ \/ /\ pgUp
          /\ \E B \in SUBSET outbox :
                /\ OldestRows(B)
                /\ flush' = [flush EXCEPT ![i] =
                     [pc |-> "rows", flushed |-> {}, remaining |-> 0,
                      rows |-> {[jti |-> b.jti, ttl |-> b.ttl] : b \in B}]]
       \/ ~pgUp /\ flush' = [flush EXCEPT ![i] = Idle]
    /\ UNCHANGED <<env, store, pending, reqs, history>>

(* Mutant of FlushRow: a row whose SETEX failed counts as flushed. *)
FlushRow_CountsErr(i) ==
    /\ up[i]
    /\ flush[i].pc = "rows"
    /\ \E r \in flush[i].rows :
         /\ InnerOk(r.jti, r.ttl) \/ InnerErr(r.jti, r.ttl)
         /\ flush' = [flush EXCEPT ![i].rows = @ \ {r}, ![i].flushed = @ \union {r.jti}]
    /\ UNCHANGED <<env, outbox, pending, reqs, history>>

(* One turn of the loop; the rows of a batch are taken in any order. *)
FlushRow(i) ==
    /\ up[i]
    /\ flush[i].pc = "rows"
    /\ \E r \in flush[i].rows :
         \/ /\ InnerOk(r.jti, r.ttl)
            /\ flush' = [flush EXCEPT ![i].rows = @ \ {r}, ![i].flushed = @ \union {r.jti}]
         \/ /\ InnerErr(r.jti, r.ttl)
            /\ flush' = [flush EXCEPT ![i].rows = @ \ {r}, ![i].remaining = @ + 1]
    /\ UNCHANGED <<env, outbox, pending, reqs, history>>

(* The sweep returns Ok(remaining), which the worker publishes as the gauge *)
(* access_token_revocation_outbox_pending.                                  *)
Return(i) == flush' = [flush EXCEPT ![i] = Idle]

FlushNothing(i) ==
    /\ up[i]
    /\ flush[i].pc = "rows" /\ flush[i].rows = {} /\ flush[i].flushed = {}
    /\ Return(i)
    /\ UNCHANGED <<env, store, pending, reqs, history>>

FlushDelete(i) ==
    /\ up[i]
    /\ flush[i].pc = "rows" /\ flush[i].rows = {} /\ flush[i].flushed # {}
    /\ LET left == {row \in outbox : row.jti \notin flush[i].flushed}
       IN \/ pgUp /\ outbox' = left /\ flush' = [flush EXCEPT ![i].pc = "forget"]
          \/ ~pgUp /\ outbox' \in {outbox, left} /\ flush' = [flush EXCEPT ![i] = Idle]
    /\ UNCHANGED <<env, redis, late, pending, reqs, history>>

FlushForget(i) ==
    /\ up[i]
    /\ flush[i].pc = "forget"
    /\ pending' = [pending EXCEPT ![i] =
                     [j \in Jti |-> IF j \in flush[i].flushed \/ @[j] <= now THEN 0 ELSE @[j]]]
    /\ Return(i)
    /\ UNCHANGED <<env, store, reqs, history>>

FlushWorker(i) ==
    \/ FlushPurge(i)
    \/ FlushSelect(i)
    \/ FlushRow(i)
    \/ FlushNothing(i)
    \/ FlushDelete(i)
    \/ FlushForget(i)

-----------------------------------------------------------------------------
(* The environment. *)

(* Redis drops a key when its TTL runs out. *)
Tick ==
    /\ now < MaxTime
    /\ now' = now + 1
    /\ redis' = [j \in Jti |-> IF redis[j] <= now + 1 THEN 0 ELSE redis[j]]
    /\ UNCHANGED <<redisUp, pgUp, up, late, outbox, pending, flush, reqs, history>>

(* Redis gets to a SETEX whose caller had given up on it. *)
LateSetex(c) ==
    /\ redis' = [redis EXCEPT ![c.jti] = now + c.ttl]
    /\ late' = late \ {c}
    /\ UNCHANGED <<env, outbox, pending, flush, reqs, history>>

RedisFlips ==
    /\ redisUp' = ~redisUp
    /\ UNCHANGED <<now, pgUp, up, store, pending, flush, reqs, history>>

PostgresFlips ==
    /\ pgUp' = ~pgUp
    /\ UNCHANGED <<now, redisUp, up, store, pending, flush, reqs, history>>

(* A crash loses the pending map, the sweep and the requests of instance i. *)
Crash(i) ==
    /\ up[i]
    /\ up' = [up EXCEPT ![i] = FALSE]
    /\ pending' = [pending EXCEPT ![i] = [j \in Jti |-> 0]]
    /\ flush' = [flush EXCEPT ![i] = Idle]
    /\ reqs' = {q \in reqs : q.inst # i}
    /\ seen' = [seen EXCEPT ![i] = {}]
    /\ UNCHANGED <<now, redisUp, pgUp, store, acked>>

(* Startup needs Postgres (pool, migrations, seeding) and, for the rate    *)
(* limiters, Redis; the blacklist itself would start without it.           *)
Start(i) ==
    /\ ~up[i]
    /\ pgUp /\ redisUp
    /\ up' = [up EXCEPT ![i] = TRUE]
    /\ UNCHANGED <<now, redisUp, pgUp, store, pending, flush, reqs, history>>

Handler(q) ==
    \/ Lookup(q)
    \/ Exists(q)
    \/ OtherHandler(q)
    \/ LogoutHandler(q)
    \/ RevokeInner(q)
    \/ Journal(q)
    \/ Remember(q)
    \/ Abandon(q)

Next ==
    \/ \E id \in Req, i \in Instance, j \in Jti : Arrive(id, i, j)
    \/ \E q \in reqs : Handler(q)
    \/ \E i \in Instance : FlushWorker(i)
    \/ \E i \in Instance : Crash(i) \/ Start(i)
    \/ \E c \in late : LateSetex(c)
    \/ Tick
    \/ RedisFlips
    \/ PostgresFlips

Spec == Init /\ [][Next]_vars

(* The worker is a task of its own that ticks for as long as the process   *)
(* lives, so it always gets to its next step.                              *)
FairSpec == Spec /\ \A i \in Instance : WF_vars(FlushWorker(i))

-----------------------------------------------------------------------------
(* Properties. *)

OnRecord(j) == now < redis[j] \/ Journaled(j)

(* A revocation that revoke() answered Ok for is in Redis or in the outbox *)
(* until the token's exp plus the leeway, whatever crashes, outages, timed- *)
(* out commands and concurrent sweeps come in between (durable.rs, #140).  *)
AcknowledgedIsOnRecord == \A j \in acked : now < Deadline[j] => OnRecord(j)

(* Before a token's exp plus the leeway, a request is never told "not       *)
(* revoked" by Redis about it if this instance acknowledged the revocation *)
(* before the pending map was looked up, or Redis held it by then: when a  *)
(* sweep takes a token off the pending map, Redis answers for it           *)
(* (is_revoked against flush_pending).                                     *)
NeverToldNotRevoked ==
    \A q \in reqs : q.pc = "handler" /\ q.must /\ q.clear => Deadline[q.jti] <= now

(* Redis, outbox and worker together implement the registry: no step of    *)
(* any of them drops a record before its token's exp plus the leeway.      *)
Recorded == {j \in Jti : OnRecord(j)}
Registry == INSTANCE RevocationRegistry WITH recorded <- Recorded
ImplementsRegistry == Registry!Spec

(* Once Redis and Postgres stay reachable and some instance stays up, an   *)
(* acknowledged revocation reaches Redis, where every instance sees it,    *)
(* unless exp plus the leeway comes first (the worker of durable.rs).      *)
Settled == redisUp /\ pgUp
EventuallyShared ==
    (<>[]Settled /\ \E i \in Instance : <>[]up[i])
        => \A j \in Jti : j \in acked ~> (now < redis[j] \/ Deadline[j] <= now)

(* Why the two invariants above hold.  Every TTL in play was computed from *)
(* the token no later than now, so a SETEX done now covers the rest of the *)
(* token's life, whoever does it and however late; so whatever a sweep has *)
(* flushed, and whatever has left the pending map or the outbox, Redis     *)
(* holds long enough, or the deadline has passed.                          *)
Landed(j) == Deadline[j] <= redis[j] \/ Deadline[j] <= now

LongEnough(c) == Deadline[c.jti] <= now + c.ttl

RowCovered(row) == LongEnough(row) /\ Deadline[row.jti] <= row.expires

SweepCovered(s) ==
    /\ \A r \in s.rows : LongEnough(r)
    /\ \A j \in s.flushed : Landed(j)

RequestCovered(q) ==
    /\ q.pc = "lookup" => q.t <= now
    /\ q.pc # "handler" => ~q.clear
    /\ q.pc = "exists" /\ q.must => Landed(q.jti)
    /\ q.pc = "handler" /\ q.must /\ q.clear => Deadline[q.jti] <= now
    /\ q.pc \in {"setex", "journal", "remember"} => LongEnough(q)
    /\ q.pc = "remember" => Landed(q.jti) \/ Journaled(q.jti)

RevocationsCovered ==
    /\ \A j \in Jti : redis[j] = 0 \/ Deadline[j] <= redis[j]
    /\ \A c \in late : LongEnough(c)
    /\ \A row \in outbox : RowCovered(row)
    /\ \A i \in Instance : SweepCovered(flush[i])
    /\ \A q \in reqs : RequestCovered(q)
    /\ \A i \in Instance : \A j \in seen[i] : Deadline[j] <= pending[i][j] \/ Landed(j)
    /\ \A j \in acked : Landed(j) \/ Journaled(j)

(* "The blacklist entry's TTL is the token's remaining lifetime, so entries *)
(* never outlive their token's natural expiry" (docs/modules/auth.md): a    *)
(* key the worker lands expires no later than the row it came from, whose   *)
(* expires_at is exp plus the leeway as of the logout.                      *)
FlushedEntryExpiresWithToken ==
    \A i \in Instance, row \in outbox :
        row.jti \in flush[i].flushed => redis[row.jti] <= row.expires
=============================================================================
