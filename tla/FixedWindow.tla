---------------------------- MODULE FixedWindow -----------------------------
(***************************************************************************)
(* What a rate limiter promises: a fixed-window budget per address, with   *)
(* no table, lock, cleaning, Lua script or key in it.  The first attempt   *)
(* opens a window, the window closes Window seconds later whatever happens *)
(* in between, and Max attempts are allowed in it.  A limiter with room    *)
(* for Room addresses never has more windows open than that; it may forget *)
(* an open one early, but only the one that closes first, and only when    *)
(* Room windows are open.                                                  *)
(***************************************************************************)
EXTENDS Integers, FiniteSets

CONSTANTS Ip, Max, Window, Room

VARIABLES
    now,            \* the clock
    spent,          \* spent[a]: attempts counted in the open window of a; 0 when none is open
    closes,         \* closes[a]: when that window closes; 0 when none is open
    answer          \* the operation that returned last, for whom, and its result

vars == <<now, spent, closes, answer>>

NoAnswer == [op |-> "none"]
Answer(op, a, v) == [op |-> op, ip |-> a, value |-> v]

Init ==
    /\ now = 0
    /\ spent = [a \in Ip |-> 0]
    /\ closes = [a \in Ip |-> 0]
    /\ answer = NoAnswer

Open(a) == spent[a] > 0

(* What is spent and when that ends, at time t. *)
SpentAt(a, t) == IF t < closes[a] THEN spent[a] ELSE 0
ClosesAt(a, t) == IF t < closes[a] THEN closes[a] ELSE 0

(* The windows that may be forgotten to make room. *)
Forgettable(a) ==
    {b \in Ip \ {a} :
        /\ Open(b)
        /\ \A d \in Ip : Open(d) => closes[b] <= closes[d]
        /\ Cardinality({d \in Ip : Open(d)}) >= Room}

(* The clock reaches t; a has spent s, in a window that closes at k, and    *)
(* the windows of F are forgotten.                                          *)
Become(t, a, s, k, F) ==
    /\ now' = t
    /\ spent' = [b \in Ip |-> IF b = a THEN s ELSE IF b \in F THEN 0 ELSE SpentAt(b, t)]
    /\ closes' = [b \in Ip |-> IF b = a THEN k ELSE IF b \in F THEN 0 ELSE ClosesAt(b, t)]

(* One attempt of a is counted, in the open window or in a new one. *)
Count(a, t, F) ==
    LET s == SpentAt(a, t)
    IN  Become(t, a, IF s < Max THEN s + 1 ELSE Max,
               IF s = 0 THEN t + Window ELSE ClosesAt(a, t), F)

(* An attempt is allowed exactly while the budget lasts. *)
Attempt(a, t, F) ==
    LET s == SpentAt(a, t)
    IN  IF s < Max THEN Count(a, t, F) /\ answer' = Answer("try", a, 1)
        ELSE Become(t, a, s, ClosesAt(a, t), F) /\ answer' = Answer("try", a, 0)

Record(a, t, F) == Count(a, t, F) /\ answer' = Answer("record", a, 0)

(* Reading the budget spends nothing. *)
Check(a, t) ==
    /\ Become(t, a, SpentAt(a, t), ClosesAt(a, t), {})
    /\ answer' = Answer("check", a, IF SpentAt(a, t) < Max THEN 1 ELSE 0)

Remaining(a, t) ==
    /\ Become(t, a, SpentAt(a, t), ClosesAt(a, t), {})
    /\ answer' = Answer("remaining", a, Max - SpentAt(a, t))

Reset(a, t) == Become(t, a, 0, 0, {}) /\ answer' = Answer("reset", a, 0)

(* Time passes; the last result need not be remembered. *)
Pass(t) ==
    /\ \E a \in Ip : Become(t, a, SpentAt(a, t), ClosesAt(a, t), {})
    /\ answer' \in {answer, NoAnswer}

Next ==
    /\ \E t \in {now, now + 1} :
        \/ Pass(t)
        \/ \E a \in Ip, F \in {{}} \union {{b} : b \in Ip} :
            /\ F \subseteq Forgettable(a)
            /\ Attempt(a, t, F) \/ Record(a, t, F)
        \/ \E a \in Ip : Check(a, t) \/ Remaining(a, t) \/ Reset(a, t)
    /\ Cardinality({a \in Ip : spent'[a] > 0}) <= Room

Spec == Init /\ [][Next]_vars
=============================================================================
