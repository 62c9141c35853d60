------------------------ MODULE PasswordVerification ------------------------
(***************************************************************************)
(* verify_password_timing_safe on concurrent blocking threads: every login *)
(* does the bcrypt work of one check at the configured cost, whether the   *)
(* account exists or not and whatever cost its hash was made at, with a    *)
(* cache of dummy hashes the threads share.  bcrypt at cost c does 2^c     *)
(* units of work and accepts the costs from MinCost to MaxCost.            *)
(***************************************************************************)
EXTENDS Integers

CONSTANTS
    Thread,             \* blocking threads, one verification each
    Cost,               \* the configured cost
    MinCost, MaxCost    \* the costs bcrypt accepts

(* The values the constants may have. *)
CostConstants ==
    /\ {Cost, MinCost, MaxCost} \subseteq Nat
    /\ 1 <= MinCost /\ MinCost <= Cost /\ Cost <= MaxCost

NoHash == -1                \* no such user, or a user without a password
Garbled == -2               \* a stored hash without a readable cost
Stored == 0 .. MaxCost      \* the cost written in the stored hash

VARIABLES
    cache,      \* DUMMY_PASSWORD_HASHES: the thread that made each entry
    threads     \* the verification on each thread

vars == <<cache, threads>>

Nobody == "nobody"
Idle == [pc |-> "idle"]
Verification ==
    [pc : {"lookup", "hash", "store", "verify", "done"},
     hash : Stored \union {NoHash, Garbled}, password : {"right", "wrong", "dummy"},
     cost : 0 .. MaxCost, made : Nat, work : Nat, answer : BOOLEAN]

TypeOK ==
    /\ cache \in [0 .. MaxCost -> Thread \union {Nobody}]
    /\ threads \in [Thread -> Verification \union {Idle}]

Init ==
    /\ cache = [c \in 0 .. MaxCost |-> Nobody]
    /\ threads = [t \in Thread |-> Idle]

Spend(c) == IF c \in MinCost .. MaxCost THEN 2^c ELSE 0

Set(t, r) == threads' = [threads EXCEPT ![t] = r]

-----------------------------------------------------------------------------
(* stored_hash_cost and the guards of pad_timing_to: a stored hash cheaper  *)
(* than the configured cost is padded with a dummy of its own cost; no hash *)
(* at all needs a dummy of the configured cost.                             *)
DummyCost(hash) ==
    CASE hash = NoHash -> {Cost}
      [] hash = Garbled -> {}
      [] OTHER -> {c \in {hash} : c < Cost}

(* A login reaches a blocking thread. *)
Start(t) ==
    \E hash \in Stored \union {NoHash, Garbled}, password \in {"right", "wrong", "dummy"} :
        /\ threads[t] = Idle
        /\ Set(t, [pc |-> IF DummyCost(hash) = {} THEN "verify" ELSE "lookup",
                   hash |-> hash, password |-> password,
                   cost |-> IF DummyCost(hash) = {} THEN 0
                            ELSE CHOOSE c \in DummyCost(hash) : TRUE,
                   made |-> 0, work |-> 0, answer |-> FALSE])
        /\ UNCHANGED cache

(* dummy_password_hash, first critical section. *)
Lookup(t) ==
    LET r == threads[t] IN
    /\ r.pc = "lookup"
    /\ Set(t, [r EXCEPT !.pc = IF cache[r.cost] = Nobody THEN "hash" ELSE "verify"])
    /\ UNCHANGED cache

(* The dummy is hashed outside the lock; other threads may do the same. *)
Hash(t) ==
    LET r == threads[t] IN
    /\ r.pc = "hash"
    /\ Set(t, [r EXCEPT !.pc = "store", !.made = Spend(r.cost), !.work = @ + Spend(r.cost)])
    /\ UNCHANGED cache

(* Second critical section: the first entry stays, also one that records a  *)
(* cost bcrypt refused.                                                     *)
Store(t) ==
    LET r == threads[t] IN
    /\ r.pc = "store"
    /\ cache' = [cache EXCEPT ![r.cost] = IF @ = Nobody THEN t ELSE @]
    /\ Set(t, [r EXCEPT !.pc = "verify"])

(* Mutant of the next definition: one verification too many. *)
pad_timing_to_OneMore(c) == IF c \in MinCost .. Cost - 1 THEN 2^(Cost - c) * Spend(c) ELSE 0

(* pad_timing_to, after the dummy is there: 2^(D-C) - 1 verifications at    *)
(* the stored cost C; a pause, which is no work, when bcrypt refused C.     *)
pad_timing_to(c) == IF c \in MinCost .. Cost - 1 THEN (2^(Cost - c) - 1) * Spend(c) ELSE 0

(* verify_password_timing_safe: against the dummy, which answers false even *)
(* for the dummy's own password; or padding, then the stored hash.          *)
Verify(t) ==
    LET r == threads[t] IN
    /\ r.pc = "verify"
    /\ \/ /\ r.hash = NoHash
          /\ Set(t, [r EXCEPT !.pc = "done", !.work = @ + Spend(r.cost)])
       \/ /\ r.hash = Garbled
          /\ Set(t, [r EXCEPT !.pc = "done"])
       \/ /\ r.hash \in Stored
          /\ Set(t, [r EXCEPT !.pc = "done", !.work = @ + pad_timing_to(r.hash) + Spend(r.hash),
                              !.answer = r.password = "right" /\ r.hash >= MinCost])
    /\ UNCHANGED cache

Leave(t) ==
    /\ threads[t].pc = "done"
    /\ Set(t, Idle)
    /\ UNCHANGED cache

Next == \E t \in Thread :
    Start(t) \/ Lookup(t) \/ Hash(t) \/ Store(t) \/ Verify(t) \/ Leave(t)

Spec == Init /\ [][Next]_vars

-----------------------------------------------------------------------------
Done == {r \in {threads[t] : t \in Thread} : r.pc = "done"}

(* A login without an account and a login with a hash of any cost up to the *)
(* configured one do the same bcrypt work, that of one check at the         *)
(* configured cost, plus the dummy a thread had to make itself ("one bcrypt *)
(* check (a real one, or a dummy one of equal cost)"); and whatever was     *)
(* checked for the time it takes, only a stored hash that verifies answers  *)
(* true.                                                                    *)
EqualWork ==
    \A r \in Done :
        /\ r.hash \in (MinCost .. Cost) \union {NoHash} => r.work = 2^Cost + r.made
        /\ r.answer <=> r.hash \in MinCost .. MaxCost /\ r.password = "right"
=============================================================================
