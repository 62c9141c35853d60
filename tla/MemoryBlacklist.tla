-------------------------- MODULE MemoryBlacklist ---------------------------
(***************************************************************************)
(* The in-memory access token blacklist of a single instance (REDIS_URL    *)
(* not set).  revoke holds the write lock from beginning to end.  A lookup *)
(* reads the clock, then takes the read lock; when it finds an entry that  *)
(* has expired it lets go of the lock, reads the clock again, takes the    *)
(* write lock and removes the entry, if it is still expired then.          *)
(***************************************************************************)
EXTENDS Integers

CONSTANTS
    Jti,            \* access tokens, by the "jti" claim
    Reader,         \* slots for lookups in flight
    Ttl,            \* the ttl_secs that revoke is called with
    MaxTime         \* bound: the clock stops here

(* The values the constants may have. *)
BlacklistConstants == Ttl \subseteq Nat /\ MaxTime \in Nat

VARIABLES
    now,            \* the clock
    entries,        \* the map: entries[j] = [revoked_at, ttl]
    lookups,        \* calls of is_revoked in flight
    promised        \* history: promised[j], when the last revocation of j lapses

vars == <<now, entries, lookups, promised>>

Entry == [revoked_at : Nat, ttl : Nat]
Call == [id : Reader, jti : Jti, pc : {"read", "expired", "write", "true", "false"},
         clock : Nat]       \* the last reading of the clock

TypeOK ==
    /\ now \in Nat
    /\ DOMAIN entries \subseteq Jti /\ entries \in [DOMAIN entries -> Entry]
    /\ lookups \subseteq Call
    /\ promised \in [Jti -> Nat]

Init ==
    /\ now = 0
    /\ entries = [j \in {} |-> 0]
    /\ lookups = {}
    /\ promised = [j \in Jti |-> 0]

-----------------------------------------------------------------------------
(* duration_since saturates at zero, so an entry that is younger than the   *)
(* reading of the clock is in force if its ttl is not zero.                 *)
Age(e, t) == IF e.revoked_at < t THEN t - e.revoked_at ELSE 0
InForce(e, t) == Age(e, t) < e.ttl

Become(q, q2) == lookups' = (lookups \ {q}) \union {q2}

(* Mutant of the next definition: the sweep compares with the new ttl. *)
Revoke_WrongTtl(j, ttl) ==
    /\ entries' = [k \in {k \in DOMAIN entries : Age(entries[k], now) < ttl} \union {j} |->
                    IF k = j THEN [revoked_at |-> now, ttl |-> ttl] ELSE entries[k]]
    /\ promised' = [promised EXCEPT ![j] = now + ttl]
    /\ UNCHANGED <<now, lookups>>

(* revoke: drop what has lapsed, and insert. *)
Revoke(j, ttl) ==
    /\ entries' = [k \in {k \in DOMAIN entries : InForce(entries[k], now)} \union {j} |->
                    IF k = j THEN [revoked_at |-> now, ttl |-> ttl] ELSE entries[k]]
    /\ promised' = [promised EXCEPT ![j] = now + ttl]
    /\ UNCHANGED <<now, lookups>>

(* is_revoked reads the clock. *)
Ask(id, j) ==
    /\ \A q \in lookups : q.id # id
    /\ lookups' = lookups \union {[id |-> id, jti |-> j, pc |-> "read", clock |-> now]}
    /\ UNCHANGED <<now, entries, promised>>

(* The fast path, under the read lock. *)
FastPath(q) ==
    LET j == q.jti
    IN  /\ q.pc = "read"
        /\ Become(q, [q EXCEPT !.pc =
            IF j \notin DOMAIN entries THEN "false"
            ELSE IF InForce(entries[j], q.clock) THEN "true"
            ELSE "expired"])
        /\ UNCHANGED <<now, entries, promised>>

(* The clock is read again before the write lock is taken. *)
ReadClock(q) ==
    /\ q.pc = "expired"
    /\ Become(q, [q EXCEPT !.pc = "write", !.clock = now])
    /\ UNCHANGED <<now, entries, promised>>

(* The slow path, under the write lock. *)
SlowPath(q) ==
    LET j == q.jti
        live == j \in DOMAIN entries /\ InForce(entries[j], q.clock)
    IN  /\ q.pc = "write"
        /\ entries' = IF live THEN entries ELSE [k \in DOMAIN entries \ {j} |-> entries[k]]
        /\ Become(q, [q EXCEPT !.pc = IF live THEN "true" ELSE "false"])
        /\ UNCHANGED <<now, promised>>

(* The caller has its answer. *)
Return(q) ==
    /\ q.pc \in {"true", "false"}
    /\ lookups' = lookups \ {q}
    /\ UNCHANGED <<now, entries, promised>>

Tick ==
    /\ now < MaxTime
    /\ now' = now + 1
    /\ UNCHANGED <<entries, lookups, promised>>

Next ==
    \/ \E j \in Jti, ttl \in Ttl : Revoke(j, ttl)
    \/ \E id \in Reader, j \in Jti : Ask(id, j)
    \/ \E q \in lookups : FastPath(q) \/ ReadClock(q) \/ SlowPath(q) \/ Return(q)
    \/ Tick

Spec == Init /\ [][Next]_vars

-----------------------------------------------------------------------------
(* The answer of a lookup is right although the clock is read before the    *)
(* lock is taken and the entry may be replaced between the two locks: "not  *)
(* revoked" means that no revocation is in force when the answer is given,  *)
(* "revoked" that one was in force at the reading of the clock.  No sweep   *)
(* of expired entries and no slow path takes a revocation away early        *)
(* ("Blindly removing here would silently un-revoke a token someone just    *)
(* re-revoked").                                                            *)
AnswersTrue ==
    \A q \in lookups' \ lookups :
        /\ q.pc = "false" => promised[q.jti] <= now
        /\ q.pc = "true" => q.clock < promised[q.jti]

AnswersAreTrue == [][AnswersTrue]_vars
=============================================================================
