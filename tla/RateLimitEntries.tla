-------------------------- MODULE RateLimitEntries --------------------------
(***************************************************************************)
(* The table of a MemoryRateLimiter, and what each of its operations does  *)
(* to it while it holds the mutex.  The table is used twice: it is the     *)
(* whole limiter when REDIS_URL is not set, and the shadow that a          *)
(* RedisRateLimiter falls back to when Redis does not answer.              *)
(*                                                                         *)
(* An operation reads the clock in clean_expired and once more afterwards; *)
(* c and t are those two readings, and c <= t.                             *)
(***************************************************************************)
EXTENDS Integers, FiniteSets, Functions

CONSTANTS
    Ip,             \* client addresses
    Max,            \* max_attempts
    Window,         \* window_duration
    MaxEntries      \* MAX_ENTRIES

(* The values the constants may have. *)
LimiterConstants ==
    /\ Max \in Nat \ {0}
    /\ Window \in Nat \ {0}
    /\ MaxEntries \in Nat \ {0}

Entry == [attempts : Nat, window_start : Nat]

IsTable(es) == DOMAIN es \subseteq Ip /\ es \in [DOMAIN es -> Entry]

Empty == [a \in {} |-> 0]

Expired(e, t) == t - e.window_start >= Window

Truth(b) == IF b THEN 1 ELSE 0

-----------------------------------------------------------------------------
clean_expired(es, t) == Restrict(es, {a \in DOMAIN es : ~Expired(es[a], t)})

(* The entries that min_by_key may return. *)
Oldest(es) ==
    {a \in DOMAIN es : \A b \in DOMAIN es : es[a].window_start <= es[b].window_start}

(* Mutant of the next definition: it evicts any entry. *)
evict_oldest_if_full_Any(es) ==
    IF Cardinality(DOMAIN es) < MaxEntries THEN {es}
    ELSE {Restrict(es, DOMAIN es \ {a}) : a \in DOMAIN es}

evict_oldest_if_full(es) ==
    IF Cardinality(DOMAIN es) < MaxEntries THEN {es}
    ELSE {Restrict(es, DOMAIN es \ {a}) : a \in Oldest(es)}

(* Insert the address, with nothing counted yet. *)
OrInsert(es, a, t) ==
    [b \in DOMAIN es \union {a} |->
        IF b \in DOMAIN es THEN es[b] ELSE [attempts |-> 0, window_start |-> t]]

(* Clean, make room for an address that is not tracked, and track it. *)
Tracked(es, a, c, t) ==
    LET kept == clean_expired(es, c)
    IN  {OrInsert(e, a, t) : e \in IF a \in DOMAIN kept THEN {kept} ELSE evict_oldest_if_full(kept)}

(* One more attempt; a window that ended since the cleaning starts afresh. *)
Counted(e, t) ==
    IF Expired(e, t) THEN [attempts |-> 1, window_start |-> t]
    ELSE [e EXCEPT !.attempts = @ + 1]

Allowed(e, t) == Expired(e, t) \/ e.attempts < Max

(* try_check_and_record on a table that tracks the address. *)
Tried(e, a, t) == IF Allowed(e[a], t) THEN [e EXCEPT ![a] = Counted(e[a], t)] ELSE e

(* record_attempt on a table that tracks the address. *)
Recorded(e, a, t) == [e EXCEPT ![a] = Counted(e[a], t)]

check(es, a, c, t) ==
    LET kept == clean_expired(es, c)
    IN  a \in DOMAIN kept => Allowed(kept[a], t)

(* saturating_sub *)
Left(n) == IF n < Max THEN Max - n ELSE 0

remaining_attempts(es, a, t) ==
    IF a \in DOMAIN es /\ ~Expired(es[a], t) THEN Left(es[a].attempts) ELSE Max

reset(es, a) == Restrict(es, DOMAIN es \ {a})
=============================================================================
