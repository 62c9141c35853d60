------------------------------ MODULE Startup -------------------------------
(***************************************************************************)
(* main(): several instances start against one database and one Redis,     *)
(* each under a supervisor that starts it again when it exits.  Every step *)
(* that awaits something outside the process is an action: load settings,  *)
(* open the pool, run the pending migrations under the lock sqlx takes,    *)
(* seed the default user, build the rate limiters and the blacklist, bind. *)
(*                                                                         *)
(* The migrations that matter are the last three: 010 is transactional,    *)
(* 011 builds an index outside a transaction and leaves an invalid one     *)
(* behind when it is interrupted, 012 repairs it.  Before it is valid, the *)
(* build waits for every snapshot older than its own, and whoever waits    *)
(* for the migration lock has one: Postgres ends such a deadlock by        *)
(* aborting one of the two.  A process may be killed at any point, and any *)
(* statement may fail; MaxFaults bounds how often.                         *)
(***************************************************************************)
EXTENDS AuthSettings

CONSTANTS
    Instance,       \* the replicas
    Env,            \* the environments an instance may be started with
    MaxFaults       \* bound: kills, failed statements and Redis outages

(* The values the constants may have: numbers are unset, malformed, or not  *)
(* negative.                                                                *)
Number == Nat \cup {Unset, Malformed}
StartupConstants ==
    /\ SettingsConstants
    /\ "none" \notin Instance /\ "server" \notin Instance
    /\ MaxFaults \in Nat
    /\ Env \subseteq [cost : Number, permits : Number, expiry : Number,
                      secret : [len : Number, unique : Nat],
                      password : [len : Number, weak : BOOLEAN, classes : Nat],
                      redis : {"set", "unset", "blank", "unparsable"},
                      tls : {"unset", "readable", "unreadable"}]

VARIABLES
    pc,             \* pc[i]: the step of main() instance i is about to take
    env,            \* env[i]: the environment it was started with
    backend,        \* backend[i]: its limiters' and its blacklist's backend
    applied,        \* the last migration recorded in _sqlx_migrations
    index,          \* the outbox's expires_at index
    older,          \* the waiters for the lock whose snapshots the build waits for
    holder,         \* who holds the migration lock: an instance, "none", or
                    \* "server", for the session of a process that is gone
    locals,         \* number of users with auth_provider = 'local'
    redisUp,        \* whether Redis answers
    faults          \* how many faults have happened

vars == <<pc, env, backend, applied, index, older, holder, locals, redisUp, faults>>

db == <<applied, index, older, holder, locals>>
world == <<redisUp, faults>>

Stage == {"down", "connect", "lock", "migrate", "building", "built", "count",
          "hash", "insert", "row", "limiters", "blacklist", "bind", "serving"}

Fresh == [limiters |-> "none", blacklist |-> "none"]

TypeOK ==
    /\ pc \in [Instance -> Stage]
    /\ env \in [Instance -> Env]
    /\ backend \in [Instance -> [limiters : {"none", "memory", "redis"},
                                 blacklist : {"none", "memory", "redis"}]]
    /\ applied \in 9 .. 12
    /\ index \in {"none", "building", "validating", "invalid", "valid"}
    /\ older \subseteq Instance
    /\ holder \in Instance \cup {"none", "server"}
    /\ locals \in 0 .. 1
    /\ redisUp \in BOOLEAN
    /\ faults \in 0 .. MaxFaults

Init ==
    /\ pc = [i \in Instance |-> "down"]
    /\ env \in [Instance -> Env]
    /\ backend = [i \in Instance |-> Fresh]
    /\ applied = 9 /\ index = "none" /\ older = {} /\ holder = "none" /\ locals = 0
    /\ redisUp = TRUE /\ faults = 0

Goto(i, stage) == pc' = [pc EXCEPT ![i] = stage]

(***************************************************************************)
(* The process ends: its connections close and the lock is released.  An   *)
(* index build that was under way is left invalid, or the server goes on   *)
(* with it, and keeps the lock, until it is done.                          *)
(***************************************************************************)
Exit(i) ==
    /\ Goto(i, "down")
    /\ backend' = [backend EXCEPT ![i] = Fresh]
    /\ \/ /\ pc[i] # "building"
          /\ holder' = IF holder = i THEN "none" ELSE holder
          /\ older' = older \ {i}
          /\ UNCHANGED index
       \/ pc[i] = "building" /\ index' = "invalid" /\ older' = {} /\ holder' = "none"
       \/ pc[i] = "building" /\ holder' = "server" /\ UNCHANGED <<index, older>>
    /\ UNCHANGED <<env, applied, locals>>

-----------------------------------------------------------------------------
(* The supervisor starts the process with the environment it finds.  An    *)
(* environment that does not load ends it before it has touched anything.  *)
Start(i) ==
    /\ pc[i] = "down"
    /\ \E e \in Env :
          /\ env' = [env EXCEPT ![i] = e]
          /\ Goto(i, IF AuthLoads(e) THEN "connect" ELSE "down")
    /\ UNCHANGED <<backend, db, world>>

(* create_pool opens its first connection *)
Connect(i) ==
    /\ pc[i] = "connect"
    /\ Goto(i, "lock")
    /\ UNCHANGED <<env, backend, db, world>>

(* sqlx's migrator takes an advisory lock that lasts as long as its connection *)
Lock(i) ==
    /\ pc[i] = "lock" /\ holder = "none"
    /\ holder' = i
    /\ Goto(i, "migrate")
    /\ UNCHANGED <<env, backend, applied, index, older, locals, world>>

(* 010, and everything before it: one transaction *)
Migrate10(i) ==
    /\ pc[i] = "migrate" /\ applied < 10
    /\ index' = "none"
    /\ applied' = 10
    /\ UNCHANGED <<pc, env, backend, older, holder, locals, world>>

(* Mutant of the next definition: 011 without IF NOT EXISTS. *)
Migrate11_Create(i) ==
    /\ pc[i] = "migrate" /\ applied = 10
    /\ index = "none"
    /\ index' = "building"
    /\ Goto(i, "building")
    /\ UNCHANGED <<env, backend, applied, older, holder, locals, world>>

(* 011: CREATE INDEX CONCURRENTLY IF NOT EXISTS.  An index of that name,   *)
(* valid or not, satisfies it.                                             *)
Migrate11(i) ==
    /\ pc[i] = "migrate" /\ applied = 10
    /\ IF index = "none"
       THEN index' = "building" /\ Goto(i, "building")
       ELSE index' = index /\ Goto(i, "built")
    /\ UNCHANGED <<env, backend, applied, older, holder, locals, world>>

(* The index has been filled.  Of those who are at the lock, the ones whose *)
(* SELECT pg_advisory_lock has begun have an older snapshot.                *)
Fill ==
    /\ index = "building"
    /\ index' = "validating"
    /\ older' \in SUBSET {j \in Instance : pc[j] = "lock"}
    /\ UNCHANGED <<pc, env, backend, applied, holder, locals, world>>

(* No older snapshot is left: the build ends, whether or not anybody waits. *)
Build ==
    /\ index = "validating" /\ older = {}
    /\ index' = "valid"
    /\ IF holder = "server"
       THEN holder' = "none" /\ UNCHANGED pc
       ELSE Goto(holder, "built") /\ UNCHANGED holder
    /\ UNCHANGED <<env, backend, applied, older, locals, world>>

(* The build waits for a snapshot whose owner waits for the builder's lock. *)
(* Postgres aborts the waiter's statement or the build, and a process whose *)
(* migration fails ends (main: "Failed to run database migrations").        *)
Deadlock ==
    /\ index = "validating" /\ older # {}
    /\ \/ \E j \in older : pc[j] = "lock" /\ Exit(j)
       \/ holder \in Instance /\ Exit(holder) /\ index' = "invalid"
       \/ /\ holder = "server"
          /\ index' = "invalid" /\ older' = {} /\ holder' = "none"
          /\ UNCHANGED <<pc, env, backend, applied, locals>>
    /\ UNCHANGED world

(* 011 is recorded, in a statement of its own *)
Record11(i) ==
    /\ pc[i] = "built"
    /\ applied' = 11
    /\ Goto(i, "migrate")
    /\ UNCHANGED <<env, backend, index, older, holder, locals, world>>

(* Mutant of the next definition: nothing is rebuilt. *)
Migrate12_Skips(i) ==
    /\ pc[i] = "migrate" /\ applied = 11
    /\ applied' = 12
    /\ UNCHANGED <<pc, env, backend, index, older, holder, locals, world>>

(* 012: rebuild the index if it is invalid.  Running it again is harmless, *)
(* so recording it is not a step of its own.                               *)
Migrate12(i) ==
    /\ pc[i] = "migrate" /\ applied = 11
    /\ index' = IF index = "invalid" THEN "valid" ELSE index
    /\ applied' = 12
    /\ UNCHANGED <<pc, env, backend, older, holder, locals, world>>

(* nothing is pending: the migrator unlocks *)
Unlock(i) ==
    /\ pc[i] = "migrate" /\ applied = 12
    /\ holder' = "none"
    /\ Goto(i, "count")
    /\ UNCHANGED <<env, backend, applied, index, older, locals, world>>

-----------------------------------------------------------------------------
(* seed_default_user: count the local users, ... *)
Count(i) ==
    /\ pc[i] = "count"
    /\ Goto(i, IF locals > 0 THEN "limiters" ELSE "hash")
    /\ UNCHANGED <<env, backend, db, world>>

(* ... hash the password, which bcrypt refuses above its own maximum, ... *)
Hash(i) ==
    /\ pc[i] = "hash"
    /\ IF Numeric(env[i].cost, DefaultCost) <= MaxCost
       THEN Goto(i, "insert") /\ UNCHANGED <<env, backend, db>>
       ELSE Exit(i)
    /\ UNCHANGED world

(* Mutant of the next definition: no ON CONFLICT clause. *)
CheckUsername_Conflict(i) ==
    /\ pc[i] = "insert"
    /\ IF locals = 0
       THEN Goto(i, "row") /\ UNCHANGED <<env, backend, db>>
       ELSE Exit(i)
    /\ UNCHANGED world

(* ... insert, ON CONFLICT (username) DO NOTHING: Postgres looks the       *)
(* username up, ...                                                        *)
CheckUsername(i) ==
    /\ pc[i] = "insert"
    /\ Goto(i, IF locals > 0 THEN "limiters" ELSE "row")
    /\ UNCHANGED <<env, backend, db, world>>

(* ... and inserts the row.  If another instance's has come in between, it *)
(* either finds its username and does nothing, or trips over its email,    *)
(* which is unique too and not covered by the clause.                      *)
Insert(i) ==
    /\ pc[i] = "row"
    /\ \/ /\ locals' = 1
          /\ Goto(i, "limiters")
          /\ UNCHANGED <<env, backend, applied, index, older, holder>>
       \/ locals = 1 /\ Exit(i)
    /\ UNCHANGED world

-----------------------------------------------------------------------------
(* settings.redis_url: a blank REDIS_URL is none *)
NoRedis(i) == env[i].redis \in {"unset", "blank"}

(* build_rate_limiters: with REDIS_URL set, both limiters must connect *)
BuildLimiters(i) ==
    /\ pc[i] = "limiters"
    /\ \/ /\ NoRedis(i) \/ (env[i].redis = "set" /\ redisUp)
          /\ Goto(i, "blacklist")
          /\ backend' = [backend EXCEPT ![i].limiters =
                            IF NoRedis(i) THEN "memory" ELSE "redis"]
          /\ UNCHANGED <<env, db>>
       \/ /\ env[i].redis = "unparsable" \/ (env[i].redis = "set" /\ ~redisUp)
          /\ Exit(i)
    /\ UNCHANGED world

(* build_access_token_blacklist: only an URL that does not parse makes it  *)
(* fall back; a failed PING is tolerated                                   *)
BuildBlacklist(i) ==
    /\ pc[i] = "blacklist"
    /\ backend' = [backend EXCEPT ![i].blacklist =
                      IF env[i].redis = "set" THEN "redis" ELSE "memory"]
    /\ Goto(i, "bind")
    /\ UNCHANGED <<env, db, world>>

(* resolve the address, load the certificate, bind *)
Bind(i) ==
    /\ pc[i] = "bind"
    /\ IF env[i].tls = "unreadable"
       THEN Exit(i)
       ELSE Goto(i, "serving") /\ UNCHANGED <<env, backend, db>>
    /\ UNCHANGED world

-----------------------------------------------------------------------------
Fault == faults < MaxFaults /\ faults' = faults + 1

(* The process is killed; or the statement it is waiting for fails, the    *)
(* address is taken, 012 times out on a lock: every one of these is fatal. *)
Crash(i) ==
    /\ pc[i] # "down"
    /\ Exit(i)
    /\ Fault /\ UNCHANGED redisUp

RedisFails ==
    /\ redisUp /\ redisUp' = FALSE
    /\ Fault
    /\ UNCHANGED <<pc, env, backend, db>>

RedisRecovers ==
    /\ ~redisUp /\ redisUp' = TRUE
    /\ UNCHANGED <<pc, env, backend, db, faults>>

Step(i) ==
    \/ Connect(i) \/ Lock(i)
    \/ Migrate10(i) \/ Migrate11(i) \/ Record11(i) \/ Migrate12(i)
    \/ Unlock(i)
    \/ Count(i) \/ Hash(i) \/ CheckUsername(i) \/ Insert(i)
    \/ BuildLimiters(i) \/ BuildBlacklist(i) \/ Bind(i)

(* Postgres at work on CREATE INDEX CONCURRENTLY *)
IndexBuild == Fill \/ Build \/ Deadlock

Next ==
    \/ \E i \in Instance : Start(i) \/ Step(i) \/ Crash(i)
    \/ IndexBuild
    \/ RedisFails
    \/ RedisRecovers

Spec == Init /\ [][Next]_vars

(***************************************************************************)
(* A process takes its steps, the supervisor restarts it, the lock is      *)
(* given to everybody who waits for it (Postgres queues them), a build     *)
(* goes on and a deadlock is noticed (deadlock_timeout), and Redis comes   *)
(* back.                                                                   *)
(***************************************************************************)
Fairness ==
    /\ \A i \in Instance : WF_vars(Start(i)) /\ WF_vars(Step(i)) /\ SF_vars(Lock(i))
    /\ WF_vars(IndexBuild) /\ WF_vars(RedisRecovers)

FairSpec == Spec /\ Fairness

-----------------------------------------------------------------------------
(* main.rs runs the migrations and seeds before it serves, and 012 is      *)
(* there because an interrupted 011 leaves an index that 011's retry takes *)
(* for a good one.  Whoever serves finds every migration applied, a usable *)
(* index and a default user, whatever was killed before, and however many  *)
(* instances started at once; it shares its counters and its revocations   *)
(* if it was told to (build_access_token_blacklist alone would fall back   *)
(* to memory when the URL does not parse; build_rate_limiters, which runs  *)
(* first, ends the process in that case); and neither bcrypt nor tokio's   *)
(* semaphore will reject its limits later.                                 *)
ReadyWhenServing ==
    \A i \in Instance :
        pc[i] = "serving" =>
            LET want == IF env[i].redis \in {"unset", "blank"} THEN "memory" ELSE "redis"
            IN  /\ applied = 12 /\ index = "valid" /\ locals = 1
                /\ backend[i] = [limiters |-> want, blacklist |-> want]
                /\ env[i].cost # Unset => env[i].cost \in MinCost .. MaxCost
                /\ env[i].permits # Unset => env[i].permits \in 1 .. (MaxPermits - 1)

(* Instances that start together on an empty database make each other exit *)
(* in two places at most, in spite of ON CONFLICT in seed_default_user and *)
(* of the migrator's lock: while 011 builds its index, if one waits for    *)
(* the lock that the other holds; and where both found the username free   *)
(* before either had inserted it.  Anywhere else one goes down only by a   *)
(* fault, because Redis does not answer, or because of its own             *)
(* environment; so once the database has its migrations and a default      *)
(* user, no instance that starts makes another exit.                       *)
ExitHasCause ==
    \A i \in Instance :
        pc[i] # "down" /\ pc'[i] = "down" =>
            \/ faults' # faults
            \/ env[i].redis = "set" /\ ~redisUp
            \/ env[i].redis = "unparsable"
            \/ env[i].tls = "unreadable"
            \/ index = "validating" /\ pc[i] \in {"lock", "building"} /\ older # {}
            \/ pc[i] = "row" /\ locals = 1

ExitsForCause == [][ExitHasCause]_vars

(* With environments that load, every instance ends up serving for good    *)
(* once the faults stop: no interrupted migration, lock or seed wedges it. *)
EventuallyServing == \A i \in Instance : <>[](pc[i] = "serving")
=============================================================================
