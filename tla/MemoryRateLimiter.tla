------------------------- MODULE MemoryRateLimiter --------------------------
(***************************************************************************)
(* The in-memory rate limiter: one table behind one mutex, with a hard cap *)
(* on the number of addresses it tracks.  Every operation holds the mutex  *)
(* from beginning to end, so an operation is one step; the clock may move  *)
(* on while it runs.                                                       *)
(***************************************************************************)
EXTENDS RateLimitEntries

CONSTANTS
    MaxTime,        \* bound: the clock stops here
    MaxUses         \* bound: attempts counted of one address in one window

VARIABLES
    now,            \* the clock
    entries,        \* the table
    answer          \* the operation that returned last, and its result

vars == <<now, entries, answer>>

NoAnswer == [op |-> "none"]
Answer(op, a, v) == [op |-> op, ip |-> a, value |-> v]

TypeOK ==
    /\ now \in Nat
    /\ IsTable(entries)
    /\ answer \in {NoAnswer} \union [op : {"try", "record", "check", "remaining", "reset"}, ip : Ip, value : Nat]

Init ==
    /\ now = 0
    /\ entries = Empty
    /\ answer = NoAnswer

-----------------------------------------------------------------------------
(* The clock readings an operation that starts now may end with. *)
Instants == {t \in {now, now + 1} : t <= MaxTime}

Try(a, t) ==
    /\ \E e \in Tracked(entries, a, now, t) :
        /\ entries' = Tried(e, a, t)
        /\ answer' = Answer("try", a, Truth(Allowed(e[a], t)))
    /\ now' = t

RecordAttempt(a, t) ==
    /\ a \in DOMAIN entries => entries[a].attempts < MaxUses
    /\ \E e \in Tracked(entries, a, now, t) : entries' = Recorded(e, a, t)
    /\ now' = t
    /\ answer' = Answer("record", a, 0)

Check(a, t) ==
    /\ entries' = clean_expired(entries, now)
    /\ answer' = Answer("check", a, Truth(check(entries, a, now, t)))
    /\ now' = t

Remaining(a, t) ==
    /\ answer' = Answer("remaining", a, remaining_attempts(entries, a, t))
    /\ now' = t
    /\ UNCHANGED entries

Reset(a) ==
    /\ entries' = reset(entries, a)
    /\ answer' = Answer("reset", a, 0)
    /\ UNCHANGED now

Tick ==
    /\ now < MaxTime
    /\ now' = now + 1
    /\ UNCHANGED <<entries, answer>>

Next ==
    \/ \E a \in Ip, t \in Instants :
        \/ Try(a, t)
        \/ RecordAttempt(a, t)
        \/ Check(a, t)
        \/ Remaining(a, t)
    \/ \E a \in Ip : Reset(a)
    \/ Tick

Spec == Init /\ [][Next]_vars

-----------------------------------------------------------------------------
(* The table is a fixed-window budget per address: with cleaning, eviction  *)
(* and the second reading of the clock, every answer is the one FixedWindow *)
(* gives, and "tracking a brand-new IP never grows it past MAX_ENTRIES".    *)
Live(a) == a \in DOMAIN entries /\ ~Expired(entries[a], now)

Promise == INSTANCE FixedWindow WITH
    Room <- MaxEntries,
    spent <- [a \in Ip |-> IF Live(a) THEN Max - Left(entries[a].attempts) ELSE 0],
    closes <- [a \in Ip |-> IF Live(a) THEN entries[a].window_start + Window ELSE 0]

ImplementsFixedWindow == Promise!Spec
=============================================================================
