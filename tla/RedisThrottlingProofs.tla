------------------------ MODULE RedisThrottlingProofs -----------------------
(***************************************************************************)
(* The limiter in Redis and its shadows, for any number of instances,      *)
(* scopes, addresses and requests, any budget and window, and any pattern  *)
(* of failures, timeouts and late commands.                                *)
(*                                                                         *)
(* Each limiter is compared with the ledger of what it has counted: the    *)
(* attempts of its open window, which are as many as it says, and those of *)
(* the windows before it that are less than a window's time old.  When a   *)
(* window closes, the attempt that opened it is that old, so at most       *)
(* Limit - 1 of the attempts it allowed are still in the ledger; the next  *)
(* window allows at most Limit.                                            *)
(***************************************************************************)
EXTENDS RedisThrottling, FiniteSetTheorems, TLAPS

(* An attempt at or after the opening, after it, and before it, of a window *)
(* that ends at e.                                                          *)
From(C, e) == {u \in C : u.at + Span >= e}
After(C, e) == {u \in C : u.at + Span > e}
Before(C, e) == {u \in C : u.at + Span < e}
Granted(C) == {u \in C : u.granted}
AtTime(C, t) == {u \in C : u.at = t}

(* C is what a limiter has counted at time t that has used n of its budget, *)
(* in a window that ends at e if n is not 0.                                *)
Recent(C, t) ==
    /\ C \in SUBSET Redis!Attempt /\ Redis!IsFiniteSet(C)
    /\ \A u \in C : u.at <= t /\ t - u.at < Span
    /\ \A u \in C : u.at = t => u.no < Redis!Cardinality(AtTime(C, t))

Sound(C, n, e, t) ==
    /\ Recent(C, t)
    /\ n = 0 => /\ \A u \in C : u.at < t
                /\ Redis!Cardinality(Granted(C)) <= Limit - 1
    /\ n > 0 => /\ t < e /\ e <= t + Span
                /\ n <= Redis!Cardinality(From(C, e))
                /\ Redis!Cardinality(Granted(From(C, e))) <= n
                /\ Redis!Cardinality(Granted(After(C, e))) <= n - 1
                /\ Redis!Cardinality(Granted(Before(C, e))) <= Limit - 1

-----------------------------------------------------------------------------
(* RedisRateLimiter counts with its own copy of FiniteSets. *)
LEMMA SameSizes ==
    /\ \A S : Redis!Cardinality(S) = Cardinality(S)
    /\ \A S : Redis!IsFiniteSet(S) <=> IsFiniteSet(S)
  <1>1. \A S : Redis!Cardinality(S) = Cardinality(S)
    BY Zenon DEF Redis!Cardinality, Cardinality
  <1>2. \A S : Redis!IsFiniteSet(S) <=> IsFiniteSet(S)
    BY Zenon DEF Redis!IsFiniteSet, IsFiniteSet
  <1> QED
    BY <1>1, <1>2

(* So what is known of one is known of the other. *)
LEMMA SizeType ==
    ASSUME NEW S, Redis!IsFiniteSet(S)
    PROVE  Redis!Cardinality(S) \in Nat
  BY SameSizes, FS_CardinalityType

(* A subset of a finite set. *)
LEMMA SubsetSize ==
    ASSUME NEW S, Redis!IsFiniteSet(S), NEW T \in SUBSET S
    PROVE  Redis!IsFiniteSet(T) /\ Redis!Cardinality(T) <= Redis!Cardinality(S)
  BY SameSizes, FS_Subset

(* A set and one more member, which may be in it. *)
LEMMA SizeOneMore ==
    ASSUME NEW S, NEW x, Redis!IsFiniteSet(S)
    PROVE  /\ Redis!IsFiniteSet(S \union {x})
           /\ Redis!Cardinality(S \union {x}) =
                IF x \in S THEN Redis!Cardinality(S) ELSE Redis!Cardinality(S) + 1
  BY SameSizes, FS_AddElement

(* The empty set is the one of size 0. *)
LEMMA SizeEmpty ==
    /\ Redis!IsFiniteSet({}) /\ Redis!Cardinality({}) = 0
    /\ \A S : Redis!IsFiniteSet(S) => (Redis!Cardinality(S) = 0 <=> S = {})
  BY SameSizes, FS_EmptySet

(* Pairs of members of finite sets. *)
LEMMA SizeProduct ==
    ASSUME NEW S, Redis!IsFiniteSet(S), NEW T, Redis!IsFiniteSet(T)
    PROVE  Redis!IsFiniteSet(S \X T)
  BY SameSizes, FS_Product

(* Two sets together. *)
LEMMA SizeUnion ==
    ASSUME NEW S, Redis!IsFiniteSet(S), NEW T, Redis!IsFiniteSet(T)
    PROVE  /\ Redis!IsFiniteSet(S \union T)
           /\ Redis!Cardinality(S \union T) =
                Redis!Cardinality(S) + Redis!Cardinality(T) - Redis!Cardinality(S \cap T)
  BY SameSizes, FS_Union

(* Parts of a finite set are finite, and no larger. *)
LEMMA Parts ==
    ASSUME NEW S, Redis!IsFiniteSet(S), NEW T \in SUBSET S
    PROVE  /\ Redis!IsFiniteSet(T)
           /\ Redis!Cardinality(T) \in Nat
           /\ Redis!Cardinality(T) <= Redis!Cardinality(S)
  BY SubsetSize, SizeType

(* One more member. *)
LEMMA OneMember ==
    ASSUME NEW S, Redis!IsFiniteSet(S), NEW x, x \notin S
    PROVE  /\ Redis!IsFiniteSet(S \union {x})
           /\ Redis!Cardinality(S \union {x}) = Redis!Cardinality(S) + 1
           /\ Redis!Cardinality(S) \in Nat
  BY SizeOneMore, SizeType

(* The parts of a ledger are finite. *)
LEMMA LedgerParts ==
    ASSUME NEW C, Redis!IsFiniteSet(C), NEW e
    PROVE  /\ Redis!IsFiniteSet(From(C, e))
           /\ Redis!IsFiniteSet(After(C, e))
           /\ Redis!IsFiniteSet(Before(C, e))
           /\ Redis!IsFiniteSet(Granted(C)) /\ Redis!IsFiniteSet(AtTime(C, e))
           /\ Redis!IsFiniteSet(Granted(From(C, e))) /\ Redis!IsFiniteSet(Granted(After(C, e)))
           /\ Redis!IsFiniteSet(Granted(Before(C, e)))
  <1>1. /\ From(C, e) \in SUBSET C /\ After(C, e) \in SUBSET C /\ Before(C, e) \in SUBSET C
        /\ Granted(C) \in SUBSET C /\ AtTime(C, e) \in SUBSET C
        /\ Granted(From(C, e)) \in SUBSET C /\ Granted(After(C, e)) \in SUBSET C
        /\ Granted(Before(C, e)) \in SUBSET C
    BY DEF From, After, Before, Granted, AtTime
  <1> QED
    BY <1>1, Parts

(* What an attempt adds to the parts of a ledger. *)
LEMMA AddedTo ==
    ASSUME Redis!LimiterConstants, NEW C \in SUBSET Redis!Attempt, Redis!IsFiniteSet(C),
           NEW u \in Redis!Attempt, u \notin C, NEW D, D = C \union {u}, NEW e \in Nat
    PROVE  /\ D \in SUBSET Redis!Attempt /\ Redis!IsFiniteSet(D)
           /\ Redis!Cardinality(From(D, e)) =
                Redis!Cardinality(From(C, e)) + IF u.at + Span >= e THEN 1 ELSE 0
           /\ Redis!Cardinality(AtTime(D, e)) =
                Redis!Cardinality(AtTime(C, e)) + IF u.at = e THEN 1 ELSE 0
           /\ Redis!Cardinality(Granted(From(D, e))) =
                Redis!Cardinality(Granted(From(C, e)))
                    + IF u.granted /\ u.at + Span >= e THEN 1 ELSE 0
           /\ Redis!Cardinality(Granted(After(D, e))) =
                Redis!Cardinality(Granted(After(C, e)))
                    + IF u.granted /\ u.at + Span > e THEN 1 ELSE 0
           /\ Redis!Cardinality(Granted(Before(D, e))) =
                Redis!Cardinality(Granted(Before(C, e)))
                    + IF u.granted /\ u.at + Span < e THEN 1 ELSE 0
  <1>1. D \in SUBSET Redis!Attempt /\ Redis!IsFiniteSet(D)
    BY OneMember
  <1>2. ASSUME NEW S, NEW T, Redis!IsFiniteSet(S), u \notin S, NEW b \in BOOLEAN,
               T = IF b THEN S \union {u} ELSE S
        PROVE  Redis!Cardinality(T) = Redis!Cardinality(S) + IF b THEN 1 ELSE 0
    BY <1>2, OneMember, SizeType
  <1>3. /\ Redis!IsFiniteSet(From(C, e))
        /\ Redis!IsFiniteSet(AtTime(C, e))
        /\ Redis!IsFiniteSet(Granted(From(C, e)))
        /\ Redis!IsFiniteSet(Granted(After(C, e))) /\ Redis!IsFiniteSet(Granted(Before(C, e)))
    BY LedgerParts
  <1>4. /\ u \notin From(C, e) /\ u \notin AtTime(C, e) /\ u \notin Granted(From(C, e))
        /\ u \notin Granted(After(C, e)) /\ u \notin Granted(Before(C, e))
    BY DEF From, After, Before, Granted, AtTime
  <1>5. From(D, e) = IF u.at + Span >= e THEN From(C, e) \union {u} ELSE From(C, e)
    BY DEF From
  <1>6. AtTime(D, e) = IF u.at = e THEN AtTime(C, e) \union {u} ELSE AtTime(C, e)
    BY DEF AtTime
  <1>7. Granted(From(D, e)) = IF u.granted /\ u.at + Span >= e
                              THEN Granted(From(C, e)) \union {u} ELSE Granted(From(C, e))
    BY DEF From, Granted
  <1>8. Granted(After(D, e)) = IF u.granted /\ u.at + Span > e
                               THEN Granted(After(C, e)) \union {u} ELSE Granted(After(C, e))
    BY DEF After, Granted
  <1>9. Granted(Before(D, e)) = IF u.granted /\ u.at + Span < e
                                THEN Granted(Before(C, e)) \union {u} ELSE Granted(Before(C, e))
    BY DEF Before, Granted
  <1>10. /\ (u.at + Span >= e) \in BOOLEAN /\ (u.at = e) \in BOOLEAN
         /\ (u.granted /\ u.at + Span >= e) \in BOOLEAN
         /\ (u.granted /\ u.at + Span > e) \in BOOLEAN
         /\ (u.granted /\ u.at + Span < e) \in BOOLEAN
    OBVIOUS
  <1>11. Redis!Cardinality(From(D, e)) = Redis!Cardinality(From(C, e)) + IF u.at + Span >= e THEN 1 ELSE 0
    BY Zenon, <1>2, <1>3, <1>4, <1>5, <1>10
  <1>12. Redis!Cardinality(AtTime(D, e)) = Redis!Cardinality(AtTime(C, e)) + IF u.at = e THEN 1 ELSE 0
    BY Zenon, <1>2, <1>3, <1>4, <1>6, <1>10
  <1>13. Redis!Cardinality(Granted(From(D, e))) =
            Redis!Cardinality(Granted(From(C, e))) + IF u.granted /\ u.at + Span >= e THEN 1 ELSE 0
    BY Zenon, <1>2, <1>3, <1>4, <1>7, <1>10
  <1>14. Redis!Cardinality(Granted(After(D, e))) =
            Redis!Cardinality(Granted(After(C, e))) + IF u.granted /\ u.at + Span > e THEN 1 ELSE 0
    BY Zenon, <1>2, <1>3, <1>4, <1>8, <1>10
  <1>15. Redis!Cardinality(Granted(Before(D, e))) =
            Redis!Cardinality(Granted(Before(C, e))) + IF u.granted /\ u.at + Span < e THEN 1 ELSE 0
    BY Zenon, <1>2, <1>3, <1>4, <1>9, <1>10
  <1> QED
    BY <1>1, <1>11, <1>12, <1>13, <1>14, <1>15

(* The number of a new attempt is not taken. *)
LEMMA NotedIsNew ==
    ASSUME NEW t \in Nat, NEW C, Recent(C, t), NEW g \in BOOLEAN
    PROVE  LET n == Redis!Cardinality(AtTime(C, t))
               u == [at |-> t, no |-> n, granted |-> g]
           IN  /\ n \in Nat /\ u \in Redis!Attempt /\ u \notin C
               /\ u.at = t /\ u.granted = g
               /\ Redis!Noted(C, t, g) = IF g \/ n < Limit THEN C \union {u} ELSE C
  <1> DEFINE n == Redis!Cardinality(AtTime(C, t))
             u == [at |-> t, no |-> n, granted |-> g]
  <1>1. n \in Nat
    BY LedgerParts, SizeType DEF Recent
  <1>2. u \in Redis!Attempt /\ u.at = t /\ u.granted = g /\ u.no = n
    BY <1>1 DEF Redis!Attempt
  <1>3. u \notin C
    BY <1>1, <1>2 DEF Recent
  <1>4. Redis!Noted(C, t, g) = IF g \/ n < Limit THEN C \union {u} ELSE C
    BY DEF Redis!Noted, AtTime
  <1> QED
    BY <1>1, <1>2, <1>3, <1>4

(* A new attempt is a recent one, with a number of its own. *)
LEMMA NotedIsRecent ==
    ASSUME Redis!LimiterConstants, NEW t \in Nat, NEW C, Recent(C, t), NEW g \in BOOLEAN
    PROVE  Recent(Redis!Noted(C, t, g), t)
  <1> DEFINE n == Redis!Cardinality(AtTime(C, t))
             u == [at |-> t, no |-> n, granted |-> g]
             D == C \union {u}
  <1>1. /\ n \in Nat /\ u \in Redis!Attempt /\ u \notin C /\ u.at = t /\ u.no = n
        /\ Redis!Noted(C, t, g) = C \/ Redis!Noted(C, t, g) = D
    BY NotedIsNew
  <1>2. C \in SUBSET Redis!Attempt /\ Redis!IsFiniteSet(C)
    BY DEF Recent
  <1> HIDE DEF n, u
  <1>3. /\ D \in SUBSET Redis!Attempt /\ Redis!IsFiniteSet(D)
        /\ Redis!Cardinality(AtTime(D, t)) = n + 1
    BY <1>1, <1>2, AddedTo DEF n
  <1>4. \A v \in D : v.at <= t /\ t - v.at < Span
    BY <1>1 DEF Recent, Redis!LimiterConstants
  <1>5. \A v \in D : v.at = t => v.no < n + 1
    <2> SUFFICES ASSUME NEW v \in D, v.at = t PROVE v.no < n + 1
      OBVIOUS
    <2>1. CASE v \in C
      <3>1. v.no \in Nat /\ v.no < n
        BY <1>2, <2>1 DEF Recent, Redis!Attempt, n
      <3> QED
        BY <1>1, <3>1
    <2>2. CASE v = u
      BY <1>1, <2>2
    <2> QED
      BY <2>1, <2>2
  <1>6. Recent(D, t)
    BY <1>3, <1>4, <1>5 DEF Recent
  <1> QED
    BY <1>1, <1>6

(* One more attempt of a budget that is not used up. *)
LEMMA CountedMore ==
    ASSUME Redis!LimiterConstants, NEW t \in Nat, NEW n \in Nat, n < Limit, NEW e \in Nat,
           NEW C, Sound(C, n, e, t), NEW g \in BOOLEAN
    PROVE  Sound(Redis!Noted(C, t, g), n + 1, IF n = 0 THEN t + Span ELSE e, t)
  <1> DEFINE c == Redis!Cardinality(AtTime(C, t))
             u == [at |-> t, no |-> c, granted |-> g]
             D == Redis!Noted(C, t, g)
             f == IF n = 0 THEN t + Span ELSE e
  <1>0. Limit \in Nat /\ Span \in Nat /\ Span > 0 /\ Limit > 0 /\ f \in Nat
    BY DEF Redis!LimiterConstants
  <1>1. Recent(C, t) /\ C \in SUBSET Redis!Attempt /\ Redis!IsFiniteSet(C)
    BY DEF Sound, Recent
  <1>2. Recent(D, t)
    BY <1>1, NotedIsRecent
  <1>3. /\ c \in Nat /\ u \in Redis!Attempt /\ u \notin C /\ u.at = t /\ u.granted = g
        /\ D = IF g \/ c < Limit THEN C \union {u} ELSE C
    BY <1>1, NotedIsNew
  <1>4. ASSUME NEW v \in C PROVE v.at \in Nat /\ v.at <= t /\ v.granted \in BOOLEAN
    BY <1>1 DEF Recent, Redis!Attempt
  <1>5. /\ Redis!Cardinality(From(C, f)) \in Nat /\ Redis!Cardinality(Granted(From(C, f))) \in Nat
        /\ Redis!Cardinality(Granted(After(C, f))) \in Nat
        /\ Redis!Cardinality(Granted(Before(C, f))) \in Nat
        /\ Redis!Cardinality(Granted(C)) \in Nat
    BY <1>1, LedgerParts, SizeType
  <1>6. /\ t < f /\ f <= t + Span
        /\ n <= Redis!Cardinality(From(C, f))
        /\ Redis!Cardinality(Granted(From(C, f))) <= n
        /\ n > 0 => Redis!Cardinality(Granted(After(C, f))) <= n - 1
        /\ n = 0 => Redis!Cardinality(Granted(After(C, f))) = 0
        /\ Redis!Cardinality(Granted(Before(C, f))) <= Limit - 1
    <2>1. CASE n > 0
      BY <1>0, <1>5, <2>1 DEF Sound
    <2>2. CASE n = 0
      <3>1. \A v \in C : v.at < t
        BY <2>2 DEF Sound
      <3>2. From(C, f) = {} /\ Granted(From(C, f)) = {} /\ Granted(After(C, f)) = {}
        BY <1>0, <1>4, <2>2, <3>1 DEF From, After, Granted
      <3>3. Granted(Before(C, f)) = Granted(C)
        BY <1>0, <1>4, <2>2, <3>1 DEF Before, Granted
      <3>4. Redis!Cardinality(Granted(C)) <= Limit - 1
        BY <2>2 DEF Sound
      <3>5. Redis!Cardinality({}) = 0
        BY SizeEmpty
      <3> QED
        BY <1>0, <1>5, <2>2, <3>2, <3>3, <3>4, <3>5
    <2> QED
      BY <2>1, <2>2
  <1> SUFFICES Sound(D, n + 1, f, t)
    OBVIOUS
  <1> HIDE DEF D, f, u
  <1>7. CASE g \/ c < Limit
    <2>1. D = C \union {u}
      BY <1>3, <1>7
    <2>2. /\ Redis!Cardinality(From(D, f)) =
                Redis!Cardinality(From(C, f)) + IF u.at + Span >= f THEN 1 ELSE 0
          /\ Redis!Cardinality(Granted(From(D, f))) =
                Redis!Cardinality(Granted(From(C, f)))
                    + IF u.granted /\ u.at + Span >= f THEN 1 ELSE 0
          /\ Redis!Cardinality(Granted(After(D, f))) =
                Redis!Cardinality(Granted(After(C, f)))
                    + IF u.granted /\ u.at + Span > f THEN 1 ELSE 0
          /\ Redis!Cardinality(Granted(Before(D, f))) =
                Redis!Cardinality(Granted(Before(C, f)))
                    + IF u.granted /\ u.at + Span < f THEN 1 ELSE 0
      BY <1>0, <1>1, <1>3, <2>1, AddedTo
    <2>3. Redis!Cardinality(From(D, f)) = Redis!Cardinality(From(C, f)) + 1
      BY <1>0, <1>3, <1>6, <2>2
    <2>4. Redis!Cardinality(Granted(From(D, f))) <= n + 1
      BY <1>0, <1>5, <1>6, <2>2
    <2>5. Redis!Cardinality(Granted(After(D, f))) <= n
      <3>1. n = 0 => f = t + Span
        BY DEF f
      <3> QED
        BY <1>0, <1>3, <1>5, <1>6, <2>2, <3>1
    <2>6. Redis!Cardinality(Granted(Before(D, f))) <= Limit - 1
      BY <1>0, <1>3, <1>5, <1>6, <2>2
    <2> QED
      BY <1>0, <1>2, <1>5, <1>6, <2>3, <2>4, <2>5, <2>6 DEF Sound
  <1>8. CASE ~(g \/ c < Limit)
    <2>1. D = C
      BY <1>3, <1>8
    <2>2. AtTime(C, t) \in SUBSET From(C, f)
      BY <1>0, <1>6 DEF AtTime, From
    <2>3. c <= Redis!Cardinality(From(C, f))
      BY <1>1, <2>2, LedgerParts, Parts
    <2> QED
      BY <1>0, <1>2, <1>3, <1>5, <1>6, <1>8, <2>1, <2>3 DEF Sound
  <1> QED
    BY <1>7, <1>8

(* One more attempt that is counted although the budget is used up. *)
LEMMA CountedBeyond ==
    ASSUME Redis!LimiterConstants, NEW t \in Nat, NEW e \in Nat, NEW C, Sound(C, Limit, e, t)
    PROVE  Sound(Redis!Noted(C, t, FALSE), Limit, e, t)
  <1> DEFINE c == Redis!Cardinality(AtTime(C, t))
             u == [at |-> t, no |-> c, granted |-> FALSE]
             D == Redis!Noted(C, t, FALSE)
  <1>0. Limit \in Nat /\ Span \in Nat /\ Span > 0 /\ Limit > 0
    BY DEF Redis!LimiterConstants
  <1>1. Recent(C, t) /\ C \in SUBSET Redis!Attempt /\ Redis!IsFiniteSet(C)
    BY DEF Sound, Recent
  <1>2. Recent(D, t)
    BY Zenon, <1>1, NotedIsRecent
  <1>3. /\ u \in Redis!Attempt /\ u \notin C /\ u.at = t /\ u.granted = FALSE
        /\ D = C \/ D = C \union {u}
    BY Zenon, <1>1, NotedIsNew
  <1>5. /\ Redis!Cardinality(From(C, e)) \in Nat /\ Redis!Cardinality(Granted(From(C, e))) \in Nat
        /\ Redis!Cardinality(Granted(After(C, e))) \in Nat
        /\ Redis!Cardinality(Granted(Before(C, e))) \in Nat
    BY <1>1, LedgerParts, SizeType
  <1> SUFFICES Sound(D, Limit, e, t)
    BY Zenon
  <1> HIDE DEF D, u
  <1>6. /\ Redis!Cardinality(From(D, e)) >= Redis!Cardinality(From(C, e))
        /\ Redis!Cardinality(Granted(From(D, e))) = Redis!Cardinality(Granted(From(C, e)))
        /\ Redis!Cardinality(Granted(After(D, e))) = Redis!Cardinality(Granted(After(C, e)))
        /\ Redis!Cardinality(Granted(Before(D, e))) = Redis!Cardinality(Granted(Before(C, e)))
        /\ Redis!Cardinality(From(D, e)) \in Nat
    BY <1>0, <1>1, <1>3, <1>5, AddedTo
  <1> QED
    BY <1>0, <1>2, <1>5, <1>6 DEF Sound

(* A limiter that has forgotten an address. *)
LEMMA Forgotten ==
    ASSUME Redis!LimiterConstants, NEW t \in Nat, NEW e
    PROVE  Sound({}, 0, e, t)
  <1>1. Redis!IsFiniteSet({}) /\ Granted({}) = {} /\ Redis!Cardinality({}) = 0
    BY SizeEmpty DEF Granted
  <1> QED
    BY <1>1 DEF Sound, Recent, Redis!LimiterConstants

(* What is left of a ledger when the clock moves on. *)
Lately(C, t) == {u \in C : t - u.at < Span}

(* It is a ledger of that time, in which nothing is new. *)
LEMMA LatelyIsRecent ==
    ASSUME NEW t \in Nat, NEW C, Recent(C, t)
    PROVE  /\ Recent(Lately(C, t + 1), t + 1) /\ Lately(C, t + 1) \in SUBSET C
           /\ \A u \in Lately(C, t + 1) : u.at < t + 1
  <1> DEFINE D == Lately(C, t + 1)
  <1>1. D \in SUBSET C /\ D \in SUBSET Redis!Attempt /\ Redis!IsFiniteSet(D)
    BY Parts DEF Recent, Lately
  <1>2. \A u \in D : u.at < t + 1 /\ u.at \in Nat
    BY <1>1 DEF Recent, Redis!Attempt
  <1>3. \A u \in D : t + 1 - u.at < Span
    BY <1>2 DEF Lately
  <1> QED
    BY <1>1, <1>2, <1>3 DEF Recent

(* A window stays open. *)
LEMMA StaysOpen ==
    ASSUME Redis!LimiterConstants, NEW t \in Nat, NEW n \in Nat, n > 0, NEW e \in Nat, NEW C,
           Sound(C, n, e, t), t + 1 < e
    PROVE  Sound(Lately(C, t + 1), n, e, t + 1)
  <1> DEFINE D == Lately(C, t + 1)
  <1>0. Limit \in Nat /\ Span \in Nat
    BY DEF Redis!LimiterConstants
  <1>1. Recent(C, t) /\ C \in SUBSET Redis!Attempt /\ Redis!IsFiniteSet(C)
    BY DEF Sound, Recent
  <1>2. Recent(D, t + 1) /\ D \in SUBSET C
    BY <1>1, LatelyIsRecent
  <1>3. \A u \in C : u.at \in Nat
    BY <1>1 DEF Redis!Attempt
  <1>4. From(D, e) = From(C, e) /\ After(D, e) = After(C, e)
    BY <1>0, <1>3 DEF From, After, Lately
  <1>5. Granted(Before(D, e)) \in SUBSET Granted(Before(C, e))
    BY <1>2 DEF Granted, Before
  <1>6. /\ Redis!Cardinality(Granted(Before(D, e))) <= Redis!Cardinality(Granted(Before(C, e)))
        /\ Redis!Cardinality(Granted(Before(D, e))) \in Nat
        /\ Redis!Cardinality(Granted(Before(C, e))) \in Nat
    BY <1>1, <1>5, LedgerParts, Parts
  <1> SUFFICES Sound(D, n, e, t + 1)
    OBVIOUS
  <1> HIDE DEF D
  <1> QED
    BY <1>0, <1>2, <1>4, <1>6 DEF Sound

(* A window closes, or none was open. *)
LEMMA Closes ==
    ASSUME Redis!LimiterConstants, NEW t \in Nat, NEW n \in Nat, n <= Limit, NEW e \in Nat, NEW C,
           Sound(C, n, e, t), n = 0 \/ e <= t + 1, NEW f
    PROVE  Sound(Lately(C, t + 1), 0, f, t + 1)
  <1> DEFINE D == Lately(C, t + 1)
  <1>0. Limit \in Nat /\ Span \in Nat /\ Limit > 0
    BY DEF Redis!LimiterConstants
  <1>1. Recent(C, t) /\ C \in SUBSET Redis!Attempt /\ Redis!IsFiniteSet(C)
    BY DEF Sound, Recent
  <1>2. Recent(D, t + 1) /\ D \in SUBSET C /\ \A u \in D : u.at < t + 1
    BY <1>1, LatelyIsRecent
  <1>3. \A u \in C : u.at \in Nat
    BY <1>1 DEF Redis!Attempt
  <1>4. Redis!Cardinality(Granted(D)) <= Limit - 1
    <2>1. CASE n = 0
      <3>1. Granted(D) \in SUBSET Granted(C)
        BY <1>2 DEF Granted
      <3>2. /\ Redis!Cardinality(Granted(D)) <= Redis!Cardinality(Granted(C))
            /\ Redis!Cardinality(Granted(D)) \in Nat /\ Redis!Cardinality(Granted(C)) \in Nat
        BY <1>1, <3>1, LedgerParts, Parts
      <3> QED
        BY <1>0, <2>1, <3>2 DEF Sound
    <2>2. CASE n > 0
      <3>1. e <= t + 1
        BY <2>2
      <3>2. Granted(D) \in SUBSET Granted(After(C, e))
        BY <1>0, <1>2, <1>3, <3>1 DEF Granted, After, Lately
      <3>3. /\ Redis!Cardinality(Granted(D)) <= Redis!Cardinality(Granted(After(C, e)))
            /\ Redis!Cardinality(Granted(D)) \in Nat
            /\ Redis!Cardinality(Granted(After(C, e))) \in Nat
        BY <1>1, <3>2, LedgerParts, Parts
      <3> QED
        BY <1>0, <2>2, <3>3 DEF Sound
    <2> QED
      BY <2>1, <2>2
  <1> QED
    BY <1>2, <1>4 DEF Sound

(* What a sound ledger says of the attempts that were allowed. *)
LEMMA BudgetKept ==
    ASSUME Redis!LimiterConstants, NEW t \in Nat, NEW n \in Nat, n <= Limit, NEW e \in Nat, NEW C,
           Sound(C, n, e, t)
    PROVE  /\ Redis!Cardinality(Granted(C)) <= 2 * Limit - 1
           /\ n <= Redis!Cardinality(C)
  <1>0. Limit \in Nat /\ Limit > 0 /\ Span \in Nat
    BY DEF Redis!LimiterConstants
  <1>1. C \in SUBSET Redis!Attempt /\ Redis!IsFiniteSet(C)
    BY DEF Sound, Recent
  <1>2. CASE n = 0
    BY <1>0, <1>1, <1>2, LedgerParts, SizeType DEF Sound
  <1>3. CASE n > 0
    <2> DEFINE F == Granted(From(C, e))
               B == Granted(Before(C, e))
    <2>1. Redis!IsFiniteSet(F) /\ Redis!IsFiniteSet(B)
      BY <1>1, LedgerParts
    <2>2. Granted(C) = F \union B
      <3>1. \A u \in C : u.at \in Nat
        BY <1>1 DEF Redis!Attempt
      <3> QED
        BY <1>0, <3>1 DEF Granted, From, Before
    <2>3. F \cap B = {}
      <3>1. \A u \in C : u.at \in Nat
        BY <1>1 DEF Redis!Attempt
      <3> QED
        BY <1>0, <3>1 DEF Granted, From, Before
    <2> HIDE DEF F, B
    <2>4. /\ Redis!Cardinality(F \union B) = Redis!Cardinality(F) + Redis!Cardinality(B) - Redis!Cardinality(F \cap B)
          /\ Redis!Cardinality(F \cap B) = 0
      BY <2>1, <2>3, SizeUnion, SizeEmpty
    <2>5. Redis!Cardinality(F) \in Nat /\ Redis!Cardinality(B) \in Nat
      BY <2>1, SizeType
    <2>6. /\ Redis!Cardinality(F) <= n
          /\ Redis!Cardinality(B) <= Limit - 1
          /\ n <= Redis!Cardinality(From(C, e))
      BY <1>3 DEF Sound, F, B
    <2>7. From(C, e) \in SUBSET C
      BY DEF From
    <2>8. /\ Redis!Cardinality(From(C, e)) <= Redis!Cardinality(C)
          /\ Redis!Cardinality(From(C, e)) \in Nat /\ Redis!Cardinality(C) \in Nat
      BY <1>1, <2>7, Parts
    <2> QED
      BY <1>0, <2>2, <2>4, <2>5, <2>6, <2>8
  <1> QED
    BY <1>2, <1>3

-----------------------------------------------------------------------------
(* What a count of n uses up of the budget. *)
Used(n) == Limit - Redis!Left(n)

(* What table es has of address a at time t: what is used up, and when that *)
(* ends.                                                                    *)
Live(es, t) == {a \in DOMAIN es : ~Redis!Expired(es[a], t)}
TableUsed(es, a, t) == IF a \in Live(es, t) THEN Used(es[a].attempts) ELSE 0
TableEnd(es, a, t) == IF a \in Live(es, t) THEN es[a].window_start + Span ELSE 0

TableOK(es, t) ==
    /\ Redis!IsTable(es)
    /\ \A a \in DOMAIN es : es[a].attempts > 0 /\ es[a].window_start <= t

(* Every limiter has counted what it says. *)
RedisSound ==
    \A k \in Redis!Key :
        /\ counter[k] = 0 => expires[k] = 0
        /\ Sound(counted[<<"redis", k>>], Used(counter[k]), expires[k], time)

TableSound(es, i, s) ==
    /\ TableOK(es, time)
    /\ \A a \in Caller : Sound(counted[<<i, <<s, a>>>>], TableUsed(es, a, time), TableEnd(es, a, time), time)

ShadowSound == \A i \in Instance, s \in Scope : TableSound(shadow[i][s], i, s)

Shape ==
    /\ time \in Nat
    /\ counter \in [Redis!Key -> Nat] /\ expires \in [Redis!Key -> Nat]
    /\ DOMAIN shadow = Instance /\ \A i \in Instance : DOMAIN shadow[i] = Scope
    /\ shadow = [i \in Instance |-> shadow[i]]
    /\ \A i \in Instance : shadow[i] = [s \in Scope |-> shadow[i][s]]
    /\ counted = [x \in Redis!Source \X Redis!Key |-> counted[x]]

LimitersInv == Shape /\ RedisSound /\ ShadowSound

-----------------------------------------------------------------------------
(* What is used up is what has been counted, up to the budget. *)
LEMMA UsedIs ==
    ASSUME Redis!LimiterConstants, NEW n \in Nat
    PROVE  /\ Used(n) \in Nat /\ Used(n) <= Limit
           /\ Used(n) = 0 <=> n = 0
           /\ n < Limit => Used(n) = n /\ Used(n + 1) = n + 1
           /\ n >= Limit => Used(n) = Limit /\ Used(n + 1) = Limit
           /\ Used(0) = 0
  BY DEF Used, Redis!Left, Redis!LimiterConstants

(* Redis counts an attempt, allowed or not, and remembers it. *)
LEMMA RedisCounts ==
    ASSUME Redis!RedisConstants, LimitersInv, NEW k \in Redis!Key, NEW g \in BOOLEAN,
           g => counter[k] < Limit,
           Redis!Incr(k), Redis!Count("redis", k, g, {}), UNCHANGED <<time, shadow>>
    PROVE  LimitersInv'
  <1>0. Redis!LimiterConstants /\ Limit \in Nat /\ Limit > 0 /\ Span \in Nat /\ time \in Nat
    BY DEF Redis!RedisConstants, Redis!LimiterConstants, LimitersInv, Shape
  <1>1. counter[k] \in Nat /\ expires[k] \in Nat
    BY DEF LimitersInv, Shape
  <1>2. /\ counter' \in [Redis!Key -> Nat] /\ expires' \in [Redis!Key -> Nat]
        /\ counter'[k] = Redis!OneMore(counter[k])
        /\ expires'[k] = IF counter[k] = 0 THEN time + Span ELSE expires[k]
        /\ \A j \in Redis!Key \ {k} : counter'[j] = counter[j] /\ expires'[j] = expires[j]
    BY <1>0, <1>1 DEF Redis!Incr, Redis!OneMore, LimitersInv, Shape
  <1>3. \A x \in Redis!Source \X Redis!Key :
            counted'[x] = IF x = <<"redis", k>> THEN Redis!Noted(counted[x], time, g) ELSE counted[x]
    BY DEF Redis!Count
  <1>4. counted' = [x \in Redis!Source \X Redis!Key |-> counted'[x]]
    BY DEF Redis!Count
  <1>5. Shape'
    BY <1>2, <1>4 DEF LimitersInv, Shape
  <1>6. ShadowSound'
    <2>1. \A i \in Instance, s \in Scope, a \in Caller :
            counted'[<<i, <<s, a>>>>] = counted[<<i, <<s, a>>>>]
      BY <1>3 DEF Redis!RedisConstants, Redis!Source, Redis!Key
    <2> QED
      BY <2>1 DEF LimitersInv, ShadowSound, TableSound
  <1>7. ASSUME NEW j \in Redis!Key
        PROVE  /\ counter'[j] = 0 => expires'[j] = 0
               /\ Sound(counted'[<<"redis", j>>], Used(counter'[j]), expires'[j], time)
    <2>1. <<"redis", j>> \in Redis!Source \X Redis!Key
      BY DEF Redis!Source
    <2>2. CASE j # k
      BY <1>2, <1>3, <2>1, <2>2 DEF LimitersInv, RedisSound
    <2>3. CASE j = k
      <3> DEFINE n == Used(counter[k])
                 C == counted[<<"redis", k>>]
      <3>1. n \in Nat /\ n <= Limit /\ (n = 0 <=> counter[k] = 0)
        BY <1>0, <1>1, UsedIs
      <3>2. Sound(C, n, expires[k], time)
        BY DEF LimitersInv, RedisSound
      <3>3. counted'[<<"redis", k>>] = Redis!Noted(C, time, g)
        BY <1>3, <2>1, <2>3
      <3>4. counter'[k] # 0
        BY <1>0, <1>1, <1>2 DEF Redis!OneMore
      <3>5. CASE counter[k] < Limit
        <4>1. counter'[k] = counter[k] + 1 /\ n = counter[k] /\ Used(counter'[k]) = n + 1
          BY <1>0, <1>1, <1>2, <3>5, UsedIs DEF Redis!OneMore
        <4> HIDE DEF n, C
        <4>2. Sound(Redis!Noted(C, time, g), n + 1, IF n = 0 THEN time + Span ELSE expires[k], time)
          BY <1>0, <1>1, <3>1, <3>2, <3>5, <4>1, CountedMore
        <4> QED
          BY <1>2, <2>3, <3>1, <3>3, <3>4, <4>1, <4>2
      <3>6. CASE counter[k] >= Limit
        <4>1. n = Limit /\ Used(counter'[k]) = Limit /\ g = FALSE
          BY <1>0, <1>1, <1>2, <3>6, UsedIs DEF Redis!OneMore
        <4> HIDE DEF n, C
        <4>2. Sound(Redis!Noted(C, time, g), Limit, expires[k], time)
          BY Zenon, <1>0, <1>1, <3>2, <4>1, CountedBeyond
        <4> QED
          BY <1>0, <1>2, <2>3, <3>1, <3>3, <3>4, <4>1, <4>2
      <3> QED
        BY <1>0, <1>1, <3>5, <3>6
    <2> QED
      BY <2>2, <2>3
  <1> QED
    BY <1>5, <1>6, <1>7 DEF LimitersInv, RedisSound

(* Redis counts an attempt that it refuses. *)
LEMMA RedisRefuses ==
    ASSUME Redis!RedisConstants, LimitersInv, NEW k \in Redis!Key, counter[k] >= Limit,
           Redis!Incr(k), UNCHANGED <<time, shadow, counted>>
    PROVE  LimitersInv'
  <1>0. Redis!LimiterConstants /\ Limit \in Nat /\ Limit > 0 /\ Span \in Nat /\ time \in Nat
    BY DEF Redis!RedisConstants, Redis!LimiterConstants, LimitersInv, Shape
  <1>1. counter[k] \in Nat /\ expires[k] \in Nat
    BY DEF LimitersInv, Shape
  <1>2. /\ counter' \in [Redis!Key -> Nat] /\ expires' = expires
        /\ counter'[k] \in Nat /\ counter'[k] >= Limit
        /\ \A j \in Redis!Key \ {k} : counter'[j] = counter[j]
    BY <1>0, <1>1 DEF Redis!Incr, Redis!OneMore, LimitersInv, Shape
  <1>3. Used(counter'[k]) = Used(counter[k])
    BY <1>0, <1>1, <1>2, UsedIs
  <1>4. Shape'
    BY <1>2 DEF LimitersInv, Shape
  <1>5. ShadowSound'
    BY DEF LimitersInv, ShadowSound, TableSound
  <1>6. ASSUME NEW j \in Redis!Key
        PROVE  /\ counter'[j] = 0 => expires'[j] = 0
               /\ Sound(counted[<<"redis", j>>], Used(counter'[j]), expires[j], time)
    <2>1. CASE j # k
      BY <1>2, <2>1 DEF LimitersInv, RedisSound
    <2>2. CASE j = k
      BY <1>0, <1>2, <1>3, <2>2 DEF LimitersInv, RedisSound
    <2> QED
      BY <2>1, <2>2
  <1> QED
    BY <1>2, <1>4, <1>5, <1>6 DEF LimitersInv, RedisSound

(* Redis forgets a key. *)
LEMMA RedisForgets ==
    ASSUME Redis!RedisConstants, LimitersInv, NEW k \in Redis!Key,
           Redis!Del(k), Redis!Uncount("redis", k), UNCHANGED <<time, shadow>>
    PROVE  LimitersInv'
  <1>0. Redis!LimiterConstants /\ time \in Nat
    BY DEF Redis!RedisConstants, LimitersInv, Shape
  <1>1. <<"redis", k>> \in Redis!Source \X Redis!Key
    BY DEF Redis!Source
  <1>2. /\ counter' \in [Redis!Key -> Nat] /\ expires' \in [Redis!Key -> Nat]
        /\ counter'[k] = 0 /\ expires'[k] = 0
        /\ \A j \in Redis!Key \ {k} : counter'[j] = counter[j] /\ expires'[j] = expires[j]
    BY DEF Redis!Del, LimitersInv, Shape
  <1>3. /\ counted' = [x \in Redis!Source \X Redis!Key |-> counted'[x]]
        /\ \A x \in Redis!Source \X Redis!Key :
            counted'[x] = IF x = <<"redis", k>> THEN {} ELSE counted[x]
    BY Zenon, <1>1 DEF Redis!Uncount, LimitersInv, Shape
  <1>4. Shape'
    BY <1>2, <1>3 DEF LimitersInv, Shape
  <1>5. ShadowSound'
    <2>1. \A i \in Instance, s \in Scope, a \in Caller :
            counted'[<<i, <<s, a>>>>] = counted[<<i, <<s, a>>>>]
      BY <1>3 DEF Redis!RedisConstants, Redis!Source, Redis!Key
    <2> QED
      BY <2>1 DEF LimitersInv, ShadowSound, TableSound
  <1>6. RedisSound'
    <2>1. Used(0) = 0 /\ Sound({}, 0, 0, time)
      BY <1>0, UsedIs, Forgotten
    <2>2. \A j \in Redis!Key : <<"redis", j>> \in Redis!Source \X Redis!Key
      BY DEF Redis!Source
    <2>3. ASSUME NEW j \in Redis!Key
          PROVE  /\ counter'[j] = 0 => expires'[j] = 0
                 /\ Sound(counted'[<<"redis", j>>], Used(counter'[j]), expires'[j], time)
      <3>1. CASE j # k
        BY <1>2, <1>3, <2>2, <3>1 DEF LimitersInv, RedisSound
      <3>2. CASE j = k
        BY Zenon, <1>1, <1>2, <1>3, <2>1, <3>2
      <3> QED
        BY <3>1, <3>2
    <2> QED
      BY Zenon, <2>3 DEF RedisSound
  <1> QED
    BY <1>4, <1>5, <1>6 DEF LimitersInv

-----------------------------------------------------------------------------
(* One table of the shadows changes. *)
LEMMA OneTable ==
    ASSUME Shape, NEW i \in Instance, NEW s \in Scope, NEW v,
           shadow' = [shadow EXCEPT ![i][s] = v]
    PROVE  /\ DOMAIN shadow' = Instance /\ \A j \in Instance : DOMAIN shadow'[j] = Scope
           /\ shadow' = [j \in Instance |-> shadow'[j]]
           /\ \A j \in Instance : shadow'[j] = [z \in Scope |-> shadow'[j][z]]
           /\ shadow'[i][s] = v
           /\ \A j \in Instance, z \in Scope : <<j, z>> # <<i, s>> => shadow'[j][z] = shadow[j][z]
  <1>1. DOMAIN shadow = Instance /\ \A j \in Instance : DOMAIN shadow[j] = Scope
    BY DEF Shape
  <1>2. shadow' = [shadow EXCEPT ![i] = [shadow[i] EXCEPT ![s] = v]]
    OBVIOUS
  <1> DEFINE row == [shadow[i] EXCEPT ![s] = v]
  <1>3. /\ DOMAIN row = Scope /\ row = [z \in Scope |-> row[z]] /\ row[s] = v
        /\ \A z \in Scope \ {s} : row[z] = shadow[i][z]
    BY Zenon, <1>1 DEF Shape
  <1> HIDE DEF row
  <1>4. shadow' = [shadow EXCEPT ![i] = row]
    BY <1>2 DEF row
  <1>5. /\ DOMAIN shadow' = Instance /\ shadow' = [j \in Instance |-> shadow'[j]]
        /\ shadow'[i] = row
        /\ \A j \in Instance \ {i} : shadow'[j] = shadow[j]
    BY Zenon, <1>1, <1>4 DEF Shape
  <1> QED
    BY <1>1, <1>3, <1>5 DEF Shape

(* The tables that an operation may find itself with. *)
LEMMA TrackedIs ==
    ASSUME Redis!LimiterConstants, NEW t \in Nat, NEW es, TableOK(es, t), NEW a \in Caller,
           NEW e \in Redis!Tracked(es, a, t, t)
    PROVE  /\ a \in DOMAIN e /\ DOMAIN e \subseteq Live(es, t) \union {a}
           /\ e = [b \in DOMAIN e |-> e[b]]
           /\ \A b \in DOMAIN e \cap Live(es, t) : e[b] = es[b]
           /\ a \notin Live(es, t) => e[a] = [attempts |-> 0, window_start |-> t]
           /\ a \in Live(es, t) => DOMAIN e = Live(es, t)
           /\ DOMAIN Redis!clean_expired(es, t) = Live(es, t)
  <1> DEFINE kept == Redis!clean_expired(es, t)
  <1>1. DOMAIN kept = Live(es, t) /\ \A b \in Live(es, t) : kept[b] = es[b]
    BY DEF Redis!clean_expired, Redis!Restrict, Live
  <1>2. PICK d \in IF a \in DOMAIN kept THEN {kept} ELSE Redis!evict_oldest_if_full(kept) :
            e = Redis!OrInsert(d, a, t)
    BY DEF Redis!Tracked
  <1> HIDE DEF kept
  <1>3. DOMAIN d \subseteq DOMAIN kept /\ \A b \in DOMAIN d : d[b] = kept[b]
    BY Zenon, <1>2 DEF Redis!evict_oldest_if_full, Redis!Oldest, Redis!Restrict
  <1>4. /\ DOMAIN e = DOMAIN d \union {a} /\ e = [b \in DOMAIN e |-> e[b]]
        /\ \A b \in DOMAIN e :
            e[b] = IF b \in DOMAIN d THEN d[b] ELSE [attempts |-> 0, window_start |-> t]
    BY <1>2 DEF Redis!OrInsert
  <1>5. a \in Live(es, t) => d = kept
    BY <1>1, <1>2
  <1> QED
    BY <1>1, <1>3, <1>4, <1>5 DEF kept

(* A new entry, and one of a table. *)
LEMMA EntryIs ==
    ASSUME NEW t \in Nat, NEW es, TableOK(es, t), NEW a \in DOMAIN es
    PROVE  /\ a \in Caller /\ es[a] \in Redis!Entry
           /\ es[a].attempts \in Nat /\ es[a].window_start \in Nat
           /\ es[a].attempts > 0 /\ es[a].window_start <= t
  BY DEF TableOK, Redis!IsTable, Redis!Entry

(* What is used up of a table's entry. *)
LEMMA TableUsedIs ==
    ASSUME Redis!LimiterConstants, NEW t \in Nat, NEW es, TableOK(es, t), NEW a
    PROVE  /\ TableUsed(es, a, t) \in Nat /\ TableUsed(es, a, t) <= Limit
           /\ TableEnd(es, a, t) \in Nat
           /\ TableUsed(es, a, t) = 0 <=> a \notin Live(es, t)
  <1>1. CASE a \in Live(es, t)
    <2>1. es[a].attempts \in Nat /\ es[a].window_start \in Nat /\ es[a].attempts > 0
      BY <1>1, EntryIs DEF Live
    <2> QED
      BY <1>1, <2>1, UsedIs DEF TableUsed, TableEnd, Redis!LimiterConstants
  <1>2. CASE a \notin Live(es, t)
    BY <1>2 DEF TableUsed, TableEnd, Redis!LimiterConstants
  <1> QED
    BY <1>1, <1>2

(* A shadow changes one table, and its ledgers with it. *)
LEMMA ShadowStep ==
    ASSUME Redis!RedisConstants, LimitersInv, NEW i \in Instance, NEW s \in Scope, NEW v,
           shadow' = [shadow EXCEPT ![i][s] = v],
           UNCHANGED <<time, counter, expires>>,
           counted' = [x \in Redis!Source \X Redis!Key |-> counted'[x]],
           \A x \in (Redis!Source \X Redis!Key) \ ({i} \X ({s} \X Caller)) : counted'[x] = counted[x],
           TableOK(v, time),
           \A a \in Caller : Sound(counted'[<<i, <<s, a>>>>], TableUsed(v, a, time), TableEnd(v, a, time), time)
    PROVE  LimitersInv'
  <1>1. Shape
    BY DEF LimitersInv
  <1>2. /\ DOMAIN shadow' = Instance /\ \A j \in Instance : DOMAIN shadow'[j] = Scope
        /\ shadow' = [j \in Instance |-> shadow'[j]]
        /\ \A j \in Instance : shadow'[j] = [z \in Scope |-> shadow'[j][z]]
        /\ shadow'[i][s] = v
        /\ \A j \in Instance, z \in Scope : <<j, z>> # <<i, s>> => shadow'[j][z] = shadow[j][z]
    BY Zenon, <1>1, OneTable
  <1>3. Shape'
    BY Zenon, <1>1, <1>2 DEF Shape
  <1>4. RedisSound'
    <2>1. \A k \in Redis!Key : counted'[<<"redis", k>>] = counted[<<"redis", k>>]
      BY DEF Redis!Source, Redis!RedisConstants
    <2> QED
      BY Zenon, <2>1 DEF LimitersInv, RedisSound
  <1>5. ASSUME NEW j \in Instance, NEW z \in Scope
        PROVE  TableSound(shadow[j][z], j, z)'
    <2>1. CASE <<j, z>> = <<i, s>>
      BY <1>2, <2>1 DEF TableSound
    <2>2. CASE <<j, z>> # <<i, s>>
      <3>1. \A a \in Caller : counted'[<<j, <<z, a>>>>] = counted[<<j, <<z, a>>>>]
        BY <2>2 DEF Redis!Source, Redis!Key
      <3>2. shadow'[j][z] = shadow[j][z]
        BY <1>2, <2>2
      <3> QED
        BY <3>1, <3>2 DEF LimitersInv, ShadowSound, TableSound
    <2> QED
      BY <2>1, <2>2
  <1> QED
    BY <1>3, <1>4, <1>5 DEF LimitersInv, ShadowSound

(* A table after an attempt that it counts. *)
LEMMA TableCounts ==
    ASSUME Redis!LimiterConstants, NEW t \in Nat, NEW es, TableOK(es, t), NEW a \in Caller,
           NEW e \in Redis!Tracked(es, a, t, t), Redis!Allowed(e[a], t),
           NEW v, v = Redis!Recorded(e, a, t)
    PROVE  /\ TableOK(v, t)
           /\ TableUsed(es, a, t) < Limit
           /\ TableUsed(v, a, t) = TableUsed(es, a, t) + 1
           /\ TableEnd(v, a, t) = IF TableUsed(es, a, t) = 0 THEN t + Span ELSE TableEnd(es, a, t)
           /\ \A b \in Caller \ {a} :
                \/ TableUsed(v, b, t) = TableUsed(es, b, t) /\ TableEnd(v, b, t) = TableEnd(es, b, t)
                \/ b \in Live(es, t) \ DOMAIN e /\ TableUsed(v, b, t) = 0
  <1>0. Limit \in Nat /\ Limit > 0 /\ Span \in Nat /\ Span > 0
    BY DEF Redis!LimiterConstants
  <1>1. /\ a \in DOMAIN e /\ DOMAIN e \subseteq Live(es, t) \union {a}
        /\ e = [b \in DOMAIN e |-> e[b]]
        /\ \A b \in DOMAIN e \cap Live(es, t) : e[b] = es[b]
        /\ a \notin Live(es, t) => e[a] = [attempts |-> 0, window_start |-> t]
    BY TrackedIs
  <1>2. PICK n \in Nat, w \in Nat : /\ e[a] = [attempts |-> n, window_start |-> w]
                                    /\ w <= t /\ t - w < Span
                                    /\ n = 0 => a \notin Live(es, t)
                                    /\ a \notin Live(es, t) => n = 0 /\ w = t
    <2>1. CASE a \in Live(es, t)
      <3>1. /\ es[a] \in Redis!Entry /\ es[a].attempts \in Nat /\ es[a].window_start \in Nat
            /\ es[a].attempts > 0 /\ es[a].window_start <= t /\ ~Redis!Expired(es[a], t)
        BY <2>1, EntryIs DEF Live
      <3>2. es[a] = [attempts |-> es[a].attempts, window_start |-> es[a].window_start]
        BY <3>1 DEF Redis!Entry
      <3>3. e[a] = es[a] /\ t - es[a].window_start < Span
        BY <1>0, <1>1, <2>1, <3>1 DEF Redis!Expired
      <3> QED
        BY <2>1, <3>1, <3>2, <3>3
    <2>2. CASE a \notin Live(es, t)
      BY <1>0, <1>1, <2>2
    <2> QED
      BY <2>1, <2>2
  <1>3. n < Limit /\ Redis!Counted(e[a], t) = [attempts |-> n + 1, window_start |-> w]
    BY <1>0, <1>2 DEF Redis!Allowed, Redis!Expired, Redis!Counted
  <1>4. /\ DOMAIN v = DOMAIN e /\ v[a] = [attempts |-> n + 1, window_start |-> w]
        /\ v = [b \in DOMAIN e |-> v[b]]
        /\ \A b \in DOMAIN e \ {a} : v[b] = es[b] /\ b \in Live(es, t)
    BY Zenon, <1>1, <1>3 DEF Redis!Recorded
  <1>5. TableOK(v, t)
    <2>1. ASSUME NEW b \in DOMAIN e
          PROVE  b \in Caller /\ v[b] \in Redis!Entry /\ v[b].attempts > 0 /\ v[b].window_start <= t
      <3>1. CASE b = a
        BY <1>2, <1>4, <3>1 DEF Redis!Entry
      <3>2. CASE b # a
        BY <1>4, <2>1, <3>2, EntryIs DEF Live
      <3> QED
        BY <3>1, <3>2
    <2> QED
      BY <1>4, <2>1 DEF TableOK, Redis!IsTable
  <1>6. a \in Live(v, t) /\ TableUsed(v, a, t) = n + 1 /\ TableEnd(v, a, t) = w + Span
    <2>1. a \in Live(v, t)
      BY <1>0, <1>1, <1>2, <1>4 DEF Live, Redis!Expired
    <2> QED
      BY <1>0, <1>3, <1>4, <2>1, UsedIs DEF TableUsed, TableEnd
  <1>7. TableUsed(es, a, t) = n /\ (n > 0 => TableEnd(es, a, t) = w + Span)
    <2>1. CASE a \in Live(es, t)
      <3>1. es[a] = [attempts |-> n, window_start |-> w]
        BY <1>1, <1>2, <2>1
      <3> QED
        BY <1>0, <1>3, <2>1, <3>1, UsedIs DEF TableUsed, TableEnd
    <2>2. CASE a \notin Live(es, t)
      BY <1>2, <2>2 DEF TableUsed
    <2> QED
      BY <2>1, <2>2
  <1>8. n = 0 => w = t
    BY <1>2
  <1>9. ASSUME NEW b \in Caller \ {a}
        PROVE  \/ TableUsed(v, b, t) = TableUsed(es, b, t) /\ TableEnd(v, b, t) = TableEnd(es, b, t)
               \/ b \in Live(es, t) \ DOMAIN e /\ TableUsed(v, b, t) = 0
    <2>1. CASE b \in DOMAIN e
      <3>1. b \in Live(es, t) /\ v[b] = es[b] /\ b \in Live(v, t)
        BY <1>4, <2>1 DEF Live
      <3> QED
        BY <3>1 DEF TableUsed, TableEnd
    <2>2. CASE b \notin DOMAIN e
      <3>1. b \notin Live(v, t)
        BY <1>4, <2>2 DEF Live
      <3> QED
        BY <2>2, <3>1 DEF TableUsed, TableEnd
    <2> QED
      BY <2>1, <2>2
  <1>10. TableUsed(es, a, t) < Limit /\ TableUsed(v, a, t) = TableUsed(es, a, t) + 1
    BY <1>3, <1>6, <1>7
  <1>11. TableEnd(v, a, t) = IF TableUsed(es, a, t) = 0 THEN t + Span ELSE TableEnd(es, a, t)
    BY <1>6, <1>7, <1>8
  <1> QED
    BY <1>5, <1>9, <1>10, <1>11, Zenon

(* A shadow counts an attempt, and remembers it. *)
LEMMA ShadowCounts ==
    ASSUME Redis!RedisConstants, LimitersInv, NEW i \in Instance, NEW s \in Scope, NEW a \in Caller,
           NEW e \in Redis!Tracked(shadow[i][s], a, time, time), Redis!Allowed(e[a], time), NEW g \in BOOLEAN,
           shadow' = [shadow EXCEPT ![i][s] = Redis!Recorded(e, a, time)],
           Redis!Count(i, <<s, a>>, g, Redis!Evicted(i, s, e)), UNCHANGED <<time, counter, expires>>
    PROVE  LimitersInv'
  <1> DEFINE es == shadow[i][s]
             v == Redis!Recorded(e, a, time)
  <1>0. Redis!LimiterConstants /\ time \in Nat
    BY DEF Redis!RedisConstants, LimitersInv, Shape
  <1>1. TableOK(es, time)
    BY DEF LimitersInv, ShadowSound, TableSound
  <1>v. e \in Redis!Tracked(es, a, time, time) /\ v = Redis!Recorded(e, a, time)
    OBVIOUS
  <1> HIDE DEF v, es
  <1>2. /\ TableOK(v, time) /\ TableUsed(es, a, time) < Limit
        /\ TableUsed(v, a, time) = TableUsed(es, a, time) + 1
        /\ TableEnd(v, a, time) =
            IF TableUsed(es, a, time) = 0 THEN time + Span ELSE TableEnd(es, a, time)
        /\ \A b \in Caller \ {a} :
            \/ /\ TableUsed(v, b, time) = TableUsed(es, b, time)
               /\ TableEnd(v, b, time) = TableEnd(es, b, time)
            \/ b \in Live(es, time) \ DOMAIN e /\ TableUsed(v, b, time) = 0
    BY <1>0, <1>1, <1>v, TableCounts
  <1>3. /\ counted' = [x \in Redis!Source \X Redis!Key |-> counted'[x]]
        /\ \A x \in Redis!Source \X Redis!Key :
            counted'[x] = IF x = <<i, <<s, a>>>> THEN Redis!Noted(counted[x], time, g)
                          ELSE IF x \in {i} \X Redis!Evicted(i, s, e) THEN {} ELSE counted[x]
    BY DEF Redis!Count
  <1>4. Redis!Evicted(i, s, e) = {s} \X (Live(es, time) \ DOMAIN e)
    BY Zenon, <1>0, <1>1, <1>v, TrackedIs DEF Redis!Evicted, es
  <1>5. \A x \in (Redis!Source \X Redis!Key) \ ({i} \X ({s} \X Caller)) : counted'[x] = counted[x]
    <2>1. Live(es, time) \subseteq Caller
      BY <1>1 DEF Live, TableOK, Redis!IsTable
    <2> QED
      BY <1>3, <1>4, <2>1
  <1>6. ASSUME NEW b \in Caller
        PROVE  Sound(counted'[<<i, <<s, b>>>>], TableUsed(v, b, time), TableEnd(v, b, time), time)
    <2> DEFINE C == counted[<<i, <<s, b>>>>]
    <2>1. <<i, <<s, b>>>> \in Redis!Source \X Redis!Key
      BY DEF Redis!Source, Redis!Key
    <2>2. Sound(C, TableUsed(es, b, time), TableEnd(es, b, time), time)
      BY DEF LimitersInv, ShadowSound, TableSound, es
    <2>3. TableUsed(es, b, time) \in Nat /\ TableEnd(es, b, time) \in Nat
      BY <1>0, <1>1, TableUsedIs
    <2>4. CASE b = a
      <3>1. counted'[<<i, <<s, b>>>>] = Redis!Noted(C, time, g)
        BY <1>3, <2>1, <2>4
      <3>2. Sound(Redis!Noted(C, time, g), TableUsed(es, b, time) + 1,
                  IF TableUsed(es, b, time) = 0 THEN time + Span ELSE TableEnd(es, b, time), time)
        BY <1>0, <1>2, <2>2, <2>3, <2>4, CountedMore
      <3> QED
        BY <1>2, <2>4, <3>1, <3>2
    <2>5. CASE b # a /\ b \in Live(es, time) \ DOMAIN e
      <3>1. counted'[<<i, <<s, b>>>>] = {}
        BY <1>3, <1>4, <2>1, <2>5
      <3>2. b \notin Live(v, time)
        <4>1. DOMAIN v = DOMAIN e
          BY DEF v, Redis!Recorded
        <4> QED
          BY <2>5, <4>1 DEF Live
      <3>3. TableUsed(v, b, time) = 0
        BY <3>2 DEF TableUsed
      <3> QED
        BY <1>0, <3>1, <3>3, Forgotten
    <2>6. CASE b # a /\ b \notin Live(es, time) \ DOMAIN e
      <3>1. counted'[<<i, <<s, b>>>>] = C
        BY <1>3, <1>4, <2>1, <2>6
      <3>2. /\ TableUsed(v, b, time) = TableUsed(es, b, time)
            /\ TableEnd(v, b, time) = TableEnd(es, b, time)
        BY <1>2, <2>6
      <3> QED
        BY <2>2, <3>1, <3>2
    <2> QED
      BY <2>4, <2>5, <2>6
  <1>7. shadow' = [shadow EXCEPT ![i][s] = v]
    BY DEF v
  <1> QED
    BY Zenon, <1>2, <1>3, <1>5, <1>6, <1>7, ShadowStep

(* Table v takes the place of one of the shadows'. *)
Replaces(i, s, v) == shadow' = [shadow EXCEPT ![i][s] = v]

(* A table that only loses entries that have expired. *)
LEMMA TableCleaned ==
    ASSUME NEW t \in Nat, NEW es, TableOK(es, t), NEW v,
           DOMAIN v = Live(es, t), v = [b \in DOMAIN v |-> v[b]],
           \A b \in Live(es, t) : v[b] = es[b]
    PROVE  /\ TableOK(v, t)
           /\ \A a \in Caller : /\ TableUsed(v, a, t) = TableUsed(es, a, t)
                            /\ TableEnd(v, a, t) = TableEnd(es, a, t)
  <1>1. Live(v, t) = Live(es, t)
    BY DEF Live
  <1>2. \A b \in DOMAIN v : /\ b \in Caller /\ v[b] \in Redis!Entry
                            /\ v[b].attempts > 0 /\ v[b].window_start <= t
    BY EntryIs DEF Live
  <1>3. TableOK(v, t)
    BY <1>2 DEF TableOK, Redis!IsTable
  <1> QED
    BY <1>1, <1>3 DEF TableUsed, TableEnd

(* A shadow drops the entries that have expired. *)
LEMMA ShadowCleans ==
    ASSUME Redis!RedisConstants, LimitersInv, NEW i \in Instance, NEW s \in Scope, NEW v,
           DOMAIN v = Live(shadow[i][s], time), v = [b \in DOMAIN v |-> v[b]],
           \A b \in Live(shadow[i][s], time) : v[b] = shadow[i][s][b],
           Replaces(i, s, v), UNCHANGED <<time, counter, expires, counted>>
    PROVE  LimitersInv'
  <1> DEFINE es == shadow[i][s]
  <1>0. /\ time \in Nat
        /\ TableOK(es, time)
        /\ counted = [x \in Redis!Source \X Redis!Key |-> counted[x]]
    BY DEF LimitersInv, Shape, ShadowSound, TableSound
  <1>1. /\ TableOK(v, time)
        /\ \A a \in Caller : /\ TableUsed(v, a, time) = TableUsed(es, a, time)
                         /\ TableEnd(v, a, time) = TableEnd(es, a, time)
    BY <1>0, TableCleaned
  <1>2. \A a \in Caller :
            Sound(counted[<<i, <<s, a>>>>], TableUsed(es, a, time), TableEnd(es, a, time), time)
    BY DEF LimitersInv, ShadowSound, TableSound
  <1> HIDE DEF es
  <1>3. \A a \in Caller :
            Sound(counted'[<<i, <<s, a>>>>], TableUsed(v, a, time), TableEnd(v, a, time), time)
    BY <1>1, <1>2
  <1> QED
    BY Zenon, <1>0, <1>1, <1>3, ShadowStep DEF Replaces

(* A shadow that refuses an attempt. *)
LEMMA ShadowRefuses ==
    ASSUME Redis!RedisConstants, LimitersInv, NEW i \in Instance, NEW s \in Scope, NEW a \in Caller,
           NEW e \in Redis!Tracked(shadow[i][s], a, time, time), ~Redis!Allowed(e[a], time),
           Replaces(i, s, e), UNCHANGED <<time, counter, expires, counted>>
    PROVE  LimitersInv' /\ Limit <= Redis!Cardinality(counted[<<i, <<s, a>>>>])
  <1> DEFINE es == shadow[i][s]
  <1>0. /\ Redis!LimiterConstants /\ time \in Nat /\ TableOK(es, time)
        /\ Limit \in Nat /\ Limit > 0 /\ Span \in Nat /\ Span > 0
    BY DEF Redis!RedisConstants, Redis!LimiterConstants, LimitersInv, Shape, ShadowSound, TableSound
  <1>1. /\ a \in DOMAIN e /\ e = [b \in DOMAIN e |-> e[b]]
        /\ \A b \in DOMAIN e \cap Live(es, time) : e[b] = es[b]
        /\ a \notin Live(es, time) => e[a] = [attempts |-> 0, window_start |-> time]
        /\ a \in Live(es, time) => DOMAIN e = Live(es, time)
    BY <1>0, TrackedIs
  <1>2. a \in Live(es, time)
    BY <1>0, <1>1 DEF Redis!Allowed
  <1>3. LimitersInv'
    <2>1. /\ DOMAIN e = Live(shadow[i][s], time)
          /\ \A b \in Live(shadow[i][s], time) : e[b] = shadow[i][s][b]
      BY <1>1, <1>2
    <2>2. e = [b \in DOMAIN e |-> e[b]] /\ UNCHANGED <<time, counter, expires, counted>>
      BY <1>1
    <2> QED
      BY <2>1, <2>2, ShadowCleans
  <1>4. es[a].attempts \in Nat /\ es[a].attempts >= Limit
    <2>1. es[a].attempts \in Nat
      BY <1>0, <1>2, EntryIs DEF Live
    <2> QED
      BY <1>0, <1>1, <1>2, <2>1 DEF Redis!Allowed
  <1>5. TableUsed(es, a, time) = Limit /\ TableEnd(es, a, time) \in Nat
    BY <1>0, <1>2, <1>4, UsedIs, TableUsedIs DEF TableUsed
  <1>6. Sound(counted[<<i, <<s, a>>>>], TableUsed(es, a, time), TableEnd(es, a, time), time)
    BY DEF LimitersInv, ShadowSound, TableSound
  <1> HIDE DEF es
  <1>7. Limit <= Redis!Cardinality(counted[<<i, <<s, a>>>>])
    BY <1>0, <1>5, <1>6, BudgetKept
  <1> QED
    BY <1>3, <1>7

(* A shadow forgets an address. *)
LEMMA ShadowForgets ==
    ASSUME Redis!RedisConstants, LimitersInv, NEW i \in Instance, NEW s \in Scope, NEW a \in Caller,
           shadow' = [shadow EXCEPT ![i][s] = Redis!reset(shadow[i][s], a)],
           Redis!Uncount(i, <<s, a>>), UNCHANGED <<time, counter, expires>>
    PROVE  LimitersInv'
  <1> DEFINE es == shadow[i][s]
             v == Redis!reset(es, a)
  <1>0. Redis!LimiterConstants /\ time \in Nat /\ TableOK(es, time)
    BY DEF Redis!RedisConstants, LimitersInv, Shape, ShadowSound, TableSound
  <1>1. <<i, <<s, a>>>> \in Redis!Source \X Redis!Key
    BY DEF Redis!Source, Redis!Key
  <1>2. /\ counted' = [x \in Redis!Source \X Redis!Key |-> counted'[x]]
        /\ \A x \in Redis!Source \X Redis!Key :
            counted'[x] = IF x = <<i, <<s, a>>>> THEN {} ELSE counted[x]
    BY Zenon, <1>1 DEF Redis!Uncount, LimitersInv, Shape
  <1>3. \A x \in (Redis!Source \X Redis!Key) \ ({i} \X ({s} \X Caller)) : counted'[x] = counted[x]
    BY <1>2
  <1>4. /\ DOMAIN v = DOMAIN es \ {a} /\ v = [b \in DOMAIN v |-> v[b]]
        /\ \A b \in DOMAIN v : v[b] = es[b]
    BY DEF Redis!reset, Redis!Restrict
  <1>5. shadow' = [shadow EXCEPT ![i][s] = v]
    OBVIOUS
  <1>6. \A b \in Caller : Sound(counted[<<i, <<s, b>>>>], TableUsed(es, b, time), TableEnd(es, b, time), time)
    BY DEF LimitersInv, ShadowSound, TableSound
  <1> HIDE DEF v, es
  <1>7. TableOK(v, time)
    <2>1. \A b \in DOMAIN v : /\ b \in Caller /\ v[b] \in Redis!Entry
                              /\ v[b].attempts > 0 /\ v[b].window_start <= time
      BY <1>0, <1>4, EntryIs
    <2> QED
      BY <1>4, <2>1 DEF TableOK, Redis!IsTable
  <1>8. ASSUME NEW b \in Caller
        PROVE  Sound(counted'[<<i, <<s, b>>>>], TableUsed(v, b, time), TableEnd(v, b, time), time)
    <2>1. <<i, <<s, b>>>> \in Redis!Source \X Redis!Key
      BY DEF Redis!Source, Redis!Key
    <2>2. CASE b = a
      <3>1. counted'[<<i, <<s, b>>>>] = {} /\ TableUsed(v, b, time) = 0
        BY <1>2, <1>4, <2>1, <2>2 DEF TableUsed, Live
      <3> QED
        BY <1>0, <3>1, Forgotten
    <2>3. CASE b # a
      <3>1. counted'[<<i, <<s, b>>>>] = counted[<<i, <<s, b>>>>]
        BY <1>2, <2>1, <2>3
      <3>2. b \in Live(v, time) <=> b \in Live(es, time)
        BY <1>4, <2>3 DEF Live
      <3>3. b \in Live(v, time) => v[b] = es[b]
        BY <1>4 DEF Live
      <3>4. /\ TableUsed(v, b, time) = TableUsed(es, b, time)
            /\ TableEnd(v, b, time) = TableEnd(es, b, time)
        BY <3>2, <3>3 DEF TableUsed, TableEnd
      <3> QED
        BY <1>6, <3>1, <3>4
    <2> QED
      BY <2>2, <2>3
  <1> QED
    BY Zenon, <1>2, <1>3, <1>5, <1>7, <1>8, ShadowStep

(* The clock moves on. *)
LEMMA ClockMoves ==
    ASSUME Redis!RedisConstants, LimitersInv, Redis!Tick
    PROVE  LimitersInv'
  <1>0. /\ Redis!LimiterConstants /\ time \in Nat /\ time' = time + 1 /\ shadow' = shadow
        /\ Limit \in Nat /\ Limit > 0 /\ Span \in Nat /\ Span > 0
    BY DEF Redis!RedisConstants, Redis!LimiterConstants, LimitersInv, Shape, Redis!Tick,
           Redis!limiters
  <1>1. /\ counter' \in [Redis!Key -> Nat] /\ expires' \in [Redis!Key -> Nat]
        /\ \A k \in Redis!Key : /\ counter'[k] = IF time + 1 < expires[k] THEN counter[k] ELSE 0
                          /\ expires'[k] = IF time + 1 < expires[k] THEN expires[k] ELSE 0
    <2>1. \A k \in Redis!Key : counter[k] \in Nat /\ expires[k] \in Nat
      BY DEF LimitersInv, Shape
    <2>2. /\ counter' = [k \in Redis!Key |-> IF time + 1 < expires[k] THEN counter[k] ELSE 0]
          /\ expires' = [k \in Redis!Key |-> IF time + 1 < expires[k] THEN expires[k] ELSE 0]
      BY DEF Redis!Tick
    <2>3. counter' \in [Redis!Key -> Nat]
      BY <2>1, <2>2
    <2>4. expires' \in [Redis!Key -> Nat]
      BY <2>1, <2>2
    <2> QED
      BY <2>2, <2>3, <2>4
  <1>2. /\ counted' = [x \in Redis!Source \X Redis!Key |-> counted'[x]]
        /\ \A x \in Redis!Source \X Redis!Key : counted'[x] = Lately(counted[x], time + 1)
    <2>1. counted' = [x \in Redis!Source \X Redis!Key |-> {u \in counted[x] : time + 1 - u.at < Span}]
      BY DEF Redis!Tick
    <2>2. \A x \in Redis!Source \X Redis!Key :
            {u \in counted[x] : time + 1 - u.at < Span} = Lately(counted[x], time + 1)
      <3> SUFFICES ASSUME NEW x \in Redis!Source \X Redis!Key
                   PROVE  {u \in counted[x] : time + 1 - u.at < Span} = Lately(counted[x], time + 1)
        OBVIOUS
      <3>1. \A u \in counted[x] : u.at \in Nat
        <4>1. PICK src \in Redis!Source, k \in Redis!Key : x = <<src, k>>
          OBVIOUS
        <4>2. CASE src = "redis"
          BY <4>1, <4>2 DEF LimitersInv, RedisSound, Sound, Recent, Redis!Attempt
        <4>3. CASE src \in Instance
          <5>1. PICK s \in Scope, a \in Caller : k = <<s, a>>
            BY DEF Redis!Key
          <5> QED
            BY <4>1, <4>3, <5>1
            DEF LimitersInv, ShadowSound, TableSound, Sound, Recent, Redis!Attempt
        <4> QED
          BY <4>2, <4>3 DEF Redis!Source
      <3> QED
        BY <1>0, <3>1 DEF Lately
    <2> QED
      BY <2>1, <2>2
  <1>3. Shape'
    <2>1. time' \in Nat
      BY <1>0
    <2> QED
      BY <1>0, <1>1, <1>2, <2>1 DEF LimitersInv, Shape
  <1>4. ASSUME NEW k \in Redis!Key
        PROVE  /\ counter'[k] = 0 => expires'[k] = 0
               /\ Sound(counted'[<<"redis", k>>], Used(counter'[k]), expires'[k], time + 1)
    <2> DEFINE C == counted[<<"redis", k>>]
               n == Used(counter[k])
    <2>1. counted'[<<"redis", k>>] = Lately(C, time + 1)
      BY <1>2 DEF Redis!Source
    <2>2. counter[k] \in Nat /\ expires[k] \in Nat
      BY DEF LimitersInv, Shape
    <2>3. Sound(C, n, expires[k], time) /\ (counter[k] = 0 => expires[k] = 0)
      BY DEF LimitersInv, RedisSound
    <2>4. n \in Nat /\ n <= Limit /\ (n = 0 <=> counter[k] = 0) /\ Used(0) = 0
      BY <1>0, <2>2, UsedIs
    <2> HIDE DEF C, n
    <2>5. CASE time + 1 < expires[k]
      <3>1. n > 0
        BY <1>0, <2>2, <2>3, <2>4, <2>5
      <3>2. Sound(Lately(C, time + 1), n, expires[k], time + 1)
        BY <1>0, <2>2, <2>3, <2>4, <2>5, <3>1, StaysOpen
      <3>3. counter'[k] = counter[k] /\ expires'[k] = expires[k]
        BY <1>1, <2>5
      <3> QED
        BY <2>1, <2>3, <3>2, <3>3 DEF n
    <2>6. CASE ~(time + 1 < expires[k])
      <3>1. Sound(Lately(C, time + 1), 0, expires'[k], time + 1)
        BY <1>0, <2>2, <2>3, <2>4, <2>6, Closes
      <3>2. counter'[k] = 0 /\ expires'[k] = 0
        BY <1>1, <2>6
      <3> QED
        BY <2>1, <2>4, <3>1, <3>2
    <2> QED
      BY <2>5, <2>6
  <1>5. ASSUME NEW i \in Instance, NEW s \in Scope
        PROVE  TableSound(shadow[i][s], i, s)'
    <2> DEFINE es == shadow[i][s]
    <2>1. TableOK(es, time)
      BY DEF LimitersInv, ShadowSound, TableSound
    <2>2. TableOK(es, time + 1)
      <3>1. \A b \in DOMAIN es : es[b].attempts > 0 /\ es[b].window_start <= time + 1
        BY <1>0, <2>1, EntryIs
      <3> QED
        BY <2>1, <3>1 DEF TableOK
    <2>3. ASSUME NEW a \in Caller
          PROVE  Sound(counted'[<<i, <<s, a>>>>], TableUsed(es, a, time + 1), TableEnd(es, a, time + 1),
                       time + 1)
      <3> DEFINE C == counted[<<i, <<s, a>>>>]
                 n == TableUsed(es, a, time)
                 f == TableEnd(es, a, time)
      <3>1. counted'[<<i, <<s, a>>>>] = Lately(C, time + 1)
        BY <1>2 DEF Redis!Source, Redis!Key
      <3>2. Sound(C, n, f, time)
        BY DEF LimitersInv, ShadowSound, TableSound
      <3>3. n \in Nat /\ n <= Limit /\ f \in Nat /\ (n = 0 <=> a \notin Live(es, time))
        BY <1>0, <2>1, TableUsedIs
      <3>4. a \in DOMAIN es => es[a].window_start \in Nat /\ es[a].attempts \in Nat
        BY <1>0, <2>1, EntryIs
      <3>5. CASE a \in Live(es, time) /\ time + 1 < f
        <4>1. a \in Live(es, time + 1)
          BY <1>0, <3>4, <3>5 DEF Live, Redis!Expired, TableEnd
        <4>2. TableUsed(es, a, time + 1) = n /\ TableEnd(es, a, time + 1) = f
          BY <3>5, <4>1 DEF TableUsed, TableEnd
        <4> HIDE DEF C, n, f, es
        <4>3. Sound(Lately(C, time + 1), n, f, time + 1)
          BY <1>0, <3>2, <3>3, <3>5, StaysOpen
        <4> QED
          BY <3>1, <4>2, <4>3
      <3>6. CASE ~(a \in Live(es, time) /\ time + 1 < f)
        <4>1. a \notin Live(es, time + 1)
          BY <1>0, <3>4, <3>6 DEF Live, Redis!Expired, TableEnd
        <4>2. TableUsed(es, a, time + 1) = 0
          BY <4>1 DEF TableUsed
        <4> HIDE DEF C, n, f, es
        <4>3. Sound(Lately(C, time + 1), 0, TableEnd(es, a, time + 1), time + 1)
          BY <1>0, <3>2, <3>3, <3>6, Closes
        <4> QED
          BY <3>1, <4>2, <4>3
      <3> QED
        BY <3>5, <3>6
    <2> QED
      BY <1>0, <2>2, <2>3 DEF TableSound
  <1> QED
    BY <1>0, <1>3, <1>4, <1>5 DEF LimitersInv, RedisSound, ShadowSound

(* Nothing changes. *)
LEMMA LimitersRest ==
    ASSUME LimitersInv, UNCHANGED <<time, counter, expires, shadow, counted>>
    PROVE  LimitersInv'
  BY Zenon DEF LimitersInv, Shape, RedisSound, ShadowSound, TableSound

-----------------------------------------------------------------------------
Command == [cmd : {"INCR", "DEL"}, key : Redis!Key, id : Request]

(* Redis has not refused whom it has not been asked about. *)
RequestsInv ==
    /\ reqs \subseteq Redis!Req /\ \A r \in reqs : r.pc = "try" => r.src = "redis"
    /\ late \subseteq Command

IInv == LimitersInv /\ RequestsInv

Cause(q) == q.pc = "refused" => Limit <= Redis!Cardinality(counted[<<q.src, <<q.scope, q.ip>>>>])

(* The parts of a request. *)
LEMMA RequestIs ==
    ASSUME RequestsInv, NEW r \in reqs
    PROVE  /\ r \in Redis!Req
           /\ r.id \in Request
           /\ r.at \in Instance
           /\ r.scope \in Scope
           /\ r.ip \in Caller
           /\ Redis!KeyOf(r) = <<r.scope, r.ip>> /\ Redis!KeyOf(r) \in Redis!Key
           /\ r.pc = "try" => r.src = "redis"
  <1>1. r \in Redis!Req
    BY DEF RequestsInv
  <1> QED
    BY <1>1 DEF RequestsInv, Redis!Req, Redis!KeyOf, Redis!key, Redis!Key

(* A request at another place. *)
LEMMA RequestMoved ==
    ASSUME NEW r \in Redis!Req, NEW p \in {"refused", "use_case", "del", "shadow"}
    PROVE  LET q == [r EXCEPT !.pc = p]
           IN  /\ q \in Redis!Req /\ q.pc = p
               /\ q.src = r.src /\ q.scope = r.scope /\ q.ip = r.ip
  BY DEF Redis!Req

(* One that a shadow refuses. *)
LEMMA RequestRefused ==
    ASSUME NEW r \in Redis!Req
    PROVE  LET q == [r EXCEPT !.pc = "refused", !.src = r.at]
           IN  /\ q \in Redis!Req /\ q.pc = "refused"
               /\ q.src = r.at /\ q.scope = r.scope /\ q.ip = r.ip
  BY Zenon DEF Redis!Req, Redis!Source

(* A request becomes another, or goes. *)
LEMMA RequestBecomes ==
    ASSUME RequestsInv, NEW r \in reqs, NEW q \in Redis!Req, q.pc # "try", Cause(q),
           Redis!Become(r, q) \/ Redis!Gone(r), late' \subseteq Command
    PROVE  RequestsInv' /\ Redis!RefusalsHaveCause
  BY DEF RequestsInv, Redis!Become, Redis!Gone, Redis!RefusalsHaveCause, Cause

(* None changes, or some go. *)
LEMMA RequestsRest ==
    ASSUME RequestsInv, reqs' \subseteq reqs, late' \subseteq Command
    PROVE  RequestsInv' /\ Redis!RefusalsHaveCause
  BY DEF RequestsInv, Redis!RefusalsHaveCause

(* A command that may land. *)
LEMMA LandsLater ==
    ASSUME RequestsInv, NEW r \in reqs, NEW c \in {"INCR", "DEL"}, Redis!MayLand(c, Redis!KeyOf(r), r.id)
    PROVE  late' \subseteq Command /\ UNCHANGED <<counter, expires>>
  <1>1. [cmd |-> c, key |-> Redis!KeyOf(r), id |-> r.id] \in Command
    BY RequestIs DEF Command
  <1> QED
    BY <1>1 DEF Redis!MayLand, RequestsInv

(* try_check_and_record, answered by Redis. *)
LEMMA TryRedisInv ==
    ASSUME Redis!RedisConstants, IInv, NEW r \in reqs, Redis!TryRedis(r)
    PROVE  IInv' /\ Redis!RefusalsHaveCause
  <1> DEFINE k == Redis!KeyOf(r)
             allowed == counter[k] + 1 <= Limit
             q == [r EXCEPT !.pc = IF allowed THEN "use_case" ELSE "refused"]
  <1>0. /\ LimitersInv /\ RequestsInv /\ Redis!LimiterConstants /\ Limit \in Nat
        /\ time \in Nat
    BY DEF IInv, Redis!RedisConstants, Redis!LimiterConstants, LimitersInv, Shape
  <1>1. r \in Redis!Req /\ k = <<r.scope, r.ip>> /\ k \in Redis!Key /\ (r.pc = "try" => r.src = "redis")
    BY <1>0, RequestIs
  <1>2. counter[k] \in Nat /\ expires[k] \in Nat
    BY <1>0, <1>1 DEF LimitersInv, Shape
  <1>3. /\ r.pc = "try" /\ Redis!Incr(k) /\ Redis!Become(r, q)
        /\ allowed => Redis!Count("redis", k, TRUE, {})
        /\ ~allowed => UNCHANGED counted
        /\ UNCHANGED <<time, shadow>> /\ late' = late
    BY Zenon, <1>1 DEF Redis!TryRedis, Redis!limiters
  <1>4. /\ q \in Redis!Req /\ q.pc = IF allowed THEN "use_case" ELSE "refused"
        /\ q.src = r.src /\ q.scope = r.scope /\ q.ip = r.ip
    BY <1>1 DEF Redis!Req
  <1> HIDE DEF k, q
  <1>5. late' \subseteq Command
    BY <1>0, <1>3 DEF RequestsInv
  <1>6. CASE allowed
    <2>1. counter[k] < Limit
      BY <1>0, <1>2, <1>6
    <2>c. Redis!Count("redis", k, TRUE, {})
      BY Zenon, <1>3, <1>6
    <2>2. LimitersInv'
      BY Zenon, <1>0, <1>1, <1>3, <2>1, <2>c, RedisCounts
    <2>3. q.pc # "try" /\ Cause(q)
      BY <1>4, <1>6 DEF Cause
    <2> QED
      BY <1>0, <1>3, <1>4, <1>5, <2>2, <2>3, RequestBecomes DEF IInv
  <1>7. CASE ~allowed
    <2>1. counter[k] >= Limit /\ UNCHANGED counted
      BY <1>0, <1>2, <1>3, <1>7
    <2>2. LimitersInv'
      BY <1>0, <1>1, <1>3, <2>1, RedisRefuses
    <2>3. Used(counter[k]) = Limit
      BY <1>0, <1>2, <2>1, UsedIs
    <2>4. Sound(counted[<<"redis", k>>], Limit, expires[k], time)
      BY <1>0, <1>1, <2>3 DEF LimitersInv, RedisSound
    <2>5. Limit <= Redis!Cardinality(counted[<<"redis", k>>])
      BY <1>0, <1>2, <2>4, BudgetKept
    <2>6. q.pc # "try" /\ Cause(q)
      BY <1>1, <1>3, <1>4, <1>7, <2>5 DEF Cause
    <2> QED
      BY <1>0, <1>3, <1>4, <1>5, <2>2, <2>6, RequestBecomes DEF IInv
  <1> QED
    BY <1>6, <1>7

(* try_check_and_record, answered by the shadow. *)
LEMMA TryShadowInv ==
    ASSUME Redis!RedisConstants, IInv, NEW r \in reqs, Redis!TryShadow(r)
    PROVE  IInv' /\ Redis!RefusalsHaveCause
  <1> DEFINE i == r.at
             s == r.scope
             a == r.ip
  <1>0. LimitersInv /\ RequestsInv
    BY DEF IInv
  <1>1. r \in Redis!Req /\ i \in Instance /\ s \in Scope /\ a \in Caller
    BY <1>0, RequestIs
  <1>2. Redis!MayLand("INCR", Redis!KeyOf(r), r.id) /\ time' = time
    BY DEF Redis!TryShadow
  <1>3. late' \subseteq Command /\ UNCHANGED <<counter, expires>>
    BY <1>0, <1>2, LandsLater
  <1>4. PICK e \in Redis!Tracked(shadow[i][s], a, time, time) :
            /\ shadow' = [shadow EXCEPT ![i][s] = Redis!Tried(e, a, time)]
            /\ IF Redis!Allowed(e[a], time)
               THEN /\ Redis!Become(r, [r EXCEPT !.pc = "use_case"])
                    /\ Redis!Count(i, <<s, a>>, TRUE, Redis!Evicted(i, s, e))
               ELSE /\ Redis!Become(r, [r EXCEPT !.pc = "refused", !.src = i])
                    /\ UNCHANGED counted
    BY Zenon DEF Redis!TryShadow
  <1>5. CASE Redis!Allowed(e[a], time)
    <2> DEFINE q == [r EXCEPT !.pc = "use_case"]
    <2>1. shadow' = [shadow EXCEPT ![i][s] = Redis!Recorded(e, a, time)]
      BY <1>4, <1>5 DEF Redis!Tried, Redis!Recorded
    <2>2. LimitersInv'
      <3> HIDE DEF i, s, a
      <3> QED
        BY Zenon, <1>0, <1>1, <1>2, <1>3, <1>4, <1>5, <2>1, ShadowCounts
    <2>3. q \in Redis!Req /\ q.pc = "use_case"
      BY Zenon, <1>1, RequestMoved
    <2>4. Redis!Become(r, q)
      BY <1>4, <1>5
    <2> HIDE DEF q
    <2>5. q.pc # "try" /\ Cause(q)
      BY <2>3 DEF Cause
    <2> QED
      BY <1>0, <1>3, <2>2, <2>3, <2>4, <2>5, RequestBecomes DEF IInv
  <1>6. CASE ~Redis!Allowed(e[a], time)
    <2> DEFINE q == [r EXCEPT !.pc = "refused", !.src = r.at]
    <2>1. Replaces(i, s, e) /\ UNCHANGED counted
      BY <1>4, <1>6 DEF Redis!Tried, Replaces
    <2>2. LimitersInv' /\ Limit <= Redis!Cardinality(counted[<<i, <<s, a>>>>])
      <3> HIDE DEF i, s, a
      <3> QED
        BY <1>0, <1>1, <1>2, <1>3, <1>4, <1>6, <2>1, ShadowRefuses
    <2>3. q \in Redis!Req /\ q.pc = "refused" /\ q.src = i /\ q.scope = s /\ q.ip = a
      BY Zenon, <1>1, RequestRefused
    <2>4. Redis!Become(r, q)
      BY <1>4, <1>6
    <2> HIDE DEF q, i, s, a
    <2>5. q.pc # "try" /\ Cause(q)
      BY <2>2, <2>3 DEF Cause
    <2> QED
      BY <1>0, <1>3, <2>2, <2>3, <2>4, <2>5, RequestBecomes DEF IInv
  <1> QED
    BY <1>5, <1>6

(* Every step of a request. *)
LEMMA HandlerInv ==
    ASSUME Redis!RedisConstants, IInv, NEW r \in reqs, Redis!Handler(r) \/ Redis!Leave(r)
    PROVE  IInv' /\ Redis!RefusalsHaveCause
  <1>0. LimitersInv /\ RequestsInv
    BY DEF IInv
  <1>1. /\ r \in Redis!Req /\ r.at \in Instance /\ r.scope \in Scope /\ r.ip \in Caller
        /\ Redis!KeyOf(r) = <<r.scope, r.ip>> /\ Redis!KeyOf(r) \in Redis!Key
    BY <1>0, RequestIs
  <1>2. ASSUME NEW q, q = [r EXCEPT !.pc = "del"] \/ q = [r EXCEPT !.pc = "shadow"]
        PROVE  q \in Redis!Req /\ q.pc # "try" /\ Cause(q)
    BY <1>1, <1>2 DEF Redis!Req, Cause
  <1>3. late \subseteq Command
    BY <1>0 DEF RequestsInv
  <1>4. CASE Redis!TryRedis(r)
    BY <1>4, TryRedisInv
  <1>5. CASE Redis!TryShadow(r)
    BY <1>5, TryShadowInv
  <1>6. CASE Redis!UseCase(r)
    <2> DEFINE q == [r EXCEPT !.pc = "del"]
    <2>1. (Redis!Become(r, q) \/ Redis!Gone(r)) /\ UNCHANGED <<time, counter, expires, shadow, counted, late>>
      BY <1>6 DEF Redis!UseCase, Redis!Quiet, Redis!redis, Redis!limiters
    <2>2. q \in Redis!Req /\ q.pc # "try" /\ Cause(q)
      BY <1>2
    <2>3. LimitersInv'
      BY <1>0, <2>1, LimitersRest
    <2> HIDE DEF q
    <2>4. late' \subseteq Command
      BY <1>3, <2>1
    <2> QED
      BY <1>0, <2>1, <2>2, <2>3, <2>4, RequestBecomes DEF IInv
  <1>7. CASE Redis!DelRedis(r)
    <2> DEFINE q == [r EXCEPT !.pc = "shadow"]
    <2>1. /\ Redis!Become(r, q)
          /\ Redis!Del(Redis!KeyOf(r))
          /\ Redis!Uncount("redis", Redis!KeyOf(r))
          /\ UNCHANGED <<time, shadow>> /\ late' = late
      BY <1>1, <1>7 DEF Redis!DelRedis, Redis!limiters
    <2>2. q \in Redis!Req /\ q.pc # "try" /\ Cause(q)
      BY <1>2
    <2>3. LimitersInv'
      BY <1>0, <1>1, <2>1, RedisForgets
    <2> HIDE DEF q
    <2>4. late' \subseteq Command
      BY <1>3, <2>1
    <2> QED
      BY <1>0, <2>1, <2>2, <2>3, <2>4, RequestBecomes DEF IInv
  <1>8. CASE Redis!DelFails(r)
    <2> DEFINE q == [r EXCEPT !.pc = "shadow"]
    <2>1. /\ Redis!Become(r, q) /\ Redis!MayLand("DEL", Redis!KeyOf(r), r.id)
          /\ UNCHANGED <<time, shadow, counted>>
      BY <1>8 DEF Redis!DelFails
    <2>2. q \in Redis!Req /\ q.pc # "try" /\ Cause(q)
      BY <1>2
    <2>3. late' \subseteq Command /\ UNCHANGED <<counter, expires>>
      BY <1>0, <2>1, LandsLater
    <2>4. LimitersInv'
      BY <1>0, <2>1, <2>3, LimitersRest
    <2> HIDE DEF q
    <2> QED
      BY <1>0, <2>1, <2>2, <2>3, <2>4, RequestBecomes DEF IInv
  <1>9. CASE Redis!ResetShadow(r)
    <2>1. /\ shadow' = [shadow EXCEPT ![r.at][r.scope] = Redis!reset(shadow[r.at][r.scope], r.ip)]
          /\ Redis!Uncount(r.at, <<r.scope, r.ip>>) /\ Redis!Gone(r)
          /\ UNCHANGED <<time, counter, expires, late>>
      BY <1>9 DEF Redis!ResetShadow, Redis!Quiet, Redis!redis
    <2>2. LimitersInv'
      BY Zenon, <1>0, <1>1, <2>1, ShadowForgets
    <2>3. reqs' \subseteq reqs /\ late' \subseteq Command
      BY <1>3, <2>1 DEF Redis!Gone
    <2> QED
      BY <1>0, <2>2, <2>3, RequestsRest DEF IInv
  <1>10. CASE Redis!Respond(r) \/ Redis!Leave(r)
    <2>1. Redis!Gone(r) /\ UNCHANGED <<time, counter, expires, shadow, counted, late>>
      BY <1>10 DEF Redis!Respond, Redis!Leave, Redis!Quiet, Redis!redis, Redis!limiters
    <2>2. LimitersInv'
      BY <1>0, <2>1, LimitersRest
    <2>3. reqs' \subseteq reqs /\ late' \subseteq Command
      BY <1>3, <2>1 DEF Redis!Gone
    <2> QED
      BY <1>0, <2>2, <2>3, RequestsRest DEF IInv
  <1> QED
    BY <1>4, <1>5, <1>6, <1>7, <1>8, <1>9, <1>10 DEF Redis!Handler

(* A request arrives. *)
LEMMA ArriveInv ==
    ASSUME IInv, NEW id \in Request, NEW i \in Instance, NEW s \in Scope, NEW a \in Caller,
           Redis!Arrive(id, i, s, a)
    PROVE  IInv' /\ Redis!RefusalsHaveCause
  <1> DEFINE q == [id |-> id, at |-> i, scope |-> s, ip |-> a, pc |-> "try", src |-> "redis"]
  <1>1. q \in Redis!Req /\ q.pc = "try" /\ q.src = "redis"
    BY DEF Redis!Req, Redis!Source
  <1>2. /\ reqs' = reqs \union {q}
        /\ UNCHANGED <<time, counter, expires, shadow, counted, late>>
    BY DEF Redis!Arrive, Redis!Quiet, Redis!redis, Redis!limiters
  <1> HIDE DEF q
  <1>3. LimitersInv'
    BY <1>2, LimitersRest DEF IInv
  <1>4. RequestsInv' /\ Redis!RefusalsHaveCause
    BY <1>1, <1>2 DEF IInv, RequestsInv, Redis!RefusalsHaveCause
  <1> QED
    BY <1>3, <1>4 DEF IInv

(* The operations that no handler calls. *)
LEMMA PortInv ==
    ASSUME Redis!RedisConstants, IInv, NEW i \in Instance, NEW s \in Scope, NEW a \in Caller,
           Redis!RecordAttempt(i, s, a) \/ Redis!Check(i, s, a) \/ Redis!RemainingAttempts(i, s, a)
    PROVE  IInv' /\ Redis!RefusalsHaveCause
  <1>0. LimitersInv /\ RequestsInv /\ late \subseteq Command
    BY DEF IInv, RequestsInv
  <1>1. Redis!key(s, a) = <<s, a>> /\ Redis!key(s, a) \in Redis!Key
    BY DEF Redis!key, Redis!Key
  <1>2. reqs' = reqs /\ time' = time /\ late' = late
    BY Zenon DEF Redis!RecordAttempt, Redis!Check, Redis!RemainingAttempts, Redis!Quiet, Redis!redis
  <1>3. RequestsInv' /\ Redis!RefusalsHaveCause
    BY <1>0, <1>2, RequestsRest
  <1>4. LimitersInv'
    <2>1. CASE Redis!Incr(Redis!key(s, a)) /\ Redis!Count("redis", <<s, a>>, FALSE, {}) /\ shadow' = shadow
      BY Zenon, <1>0, <1>1, <1>2, <2>1, RedisCounts
    <2>2. CASE /\ Redis!remaining_attempts(shadow[i][s], a, time) > 0
               /\ \E e \in Redis!Tracked(shadow[i][s], a, time, time) :
                    /\ shadow' = [shadow EXCEPT ![i][s] = Redis!Recorded(e, a, time)]
                    /\ Redis!Count(i, <<s, a>>, FALSE, Redis!Evicted(i, s, e))
               /\ UNCHANGED <<counter, expires>>
      <3> DEFINE es == shadow[i][s]
      <3>1. PICK e \in Redis!Tracked(es, a, time, time) :
                /\ shadow' = [shadow EXCEPT ![i][s] = Redis!Recorded(e, a, time)]
                /\ Redis!Count(i, <<s, a>>, FALSE, Redis!Evicted(i, s, e))
        BY Zenon, <2>2
      <3>2. Redis!Allowed(e[a], time)
        <4>0. /\ Redis!LimiterConstants
              /\ Limit \in Nat
              /\ Limit > 0
              /\ time \in Nat
              /\ TableOK(es, time)
          BY <1>0
          DEF Redis!RedisConstants, Redis!LimiterConstants, LimitersInv, Shape, ShadowSound,
              TableSound
        <4>1. /\ a \in DOMAIN e
              /\ \A b \in DOMAIN e \cap Live(es, time) : e[b] = es[b]
              /\ a \notin Live(es, time) => e[a] = [attempts |-> 0, window_start |-> time]
          BY <4>0, TrackedIs
        <4>2. CASE a \in Live(es, time)
          <5>1. a \in DOMAIN es /\ ~Redis!Expired(es[a], time) /\ es[a].attempts \in Nat
            BY <4>0, <4>2, EntryIs DEF Live
          <5>2. es[a].attempts < Limit
            BY <2>2, <4>0, <5>1 DEF Redis!remaining_attempts, Redis!Left
          <5> QED
            BY <4>1, <4>2, <5>2 DEF Redis!Allowed
        <4>3. CASE a \notin Live(es, time)
          <5>1. PICK x : x = e[a]
            OBVIOUS
          <5>2. x = [attempts |-> 0, window_start |-> time]
            BY Zenon, <4>1, <4>3, <5>1
          <5>3. x.attempts = 0
            BY <5>2
          <5> QED
            BY <4>0, <5>1, <5>3 DEF Redis!Allowed
        <4> QED
          BY <4>2, <4>3
      <3> QED
        BY Zenon, <1>0, <1>2, <2>2, <3>1, <3>2, ShadowCounts
    <2>3. CASE /\ shadow' = [shadow EXCEPT ![i][s] = Redis!clean_expired(shadow[i][s], time)]
               /\ UNCHANGED <<counter, expires, counted>>
      <3> DEFINE v == Redis!clean_expired(shadow[i][s], time)
      <3>1. /\ DOMAIN v = Live(shadow[i][s], time) /\ v = [b \in DOMAIN v |-> v[b]]
            /\ \A b \in Live(shadow[i][s], time) : v[b] = shadow[i][s][b]
        BY DEF Redis!clean_expired, Redis!Restrict, Live
      <3>2. Replaces(i, s, v)
        BY <2>3 DEF Replaces
      <3> HIDE DEF v
      <3> QED
        BY <1>0, <1>2, <2>3, <3>1, <3>2, ShadowCleans
    <2>4. CASE UNCHANGED <<counter, expires, shadow, counted>>
      BY <1>0, <1>2, <2>4, LimitersRest
    <2>5. CASE Redis!RecordAttempt(i, s, a)
      BY Zenon, <2>1, <2>2, <2>5 DEF Redis!RecordAttempt, Redis!Quiet, Redis!redis, Redis!limiters
    <2>6. CASE Redis!Check(i, s, a)
      BY <2>3, <2>4, <2>6 DEF Redis!Check, Redis!Quiet, Redis!redis, Redis!limiters
    <2>7. CASE Redis!RemainingAttempts(i, s, a)
      BY <2>4, <2>7 DEF Redis!RemainingAttempts, Redis!Quiet, Redis!redis, Redis!limiters
    <2> QED
      BY <2>5, <2>6, <2>7
  <1> QED
    BY <1>3, <1>4 DEF IInv

(* A command lands after its caller has given up. *)
LEMMA LandInv ==
    ASSUME Redis!RedisConstants, IInv, NEW c \in late, Redis!Land(c)
    PROVE  IInv' /\ Redis!RefusalsHaveCause
  <1>0. LimitersInv /\ RequestsInv
    BY DEF IInv
  <1>1. c \in Command /\ c.key \in Redis!Key
    BY <1>0 DEF RequestsInv, Command
  <1>2. reqs' = reqs /\ time' = time /\ shadow' = shadow /\ late' \subseteq late
    BY DEF Redis!Land, Redis!limiters
  <1>3. RequestsInv' /\ Redis!RefusalsHaveCause
    BY <1>0, <1>2, RequestsRest DEF RequestsInv
  <1>4. \/ Redis!Incr(c.key) /\ Redis!Count("redis", c.key, FALSE, {})
        \/ Redis!Del(c.key) /\ Redis!Uncount("redis", c.key)
    BY Zenon DEF Redis!Land
  <1>5. LimitersInv'
    BY Zenon, <1>0, <1>1, <1>2, <1>4, RedisCounts, RedisForgets
  <1> QED
    BY <1>3, <1>5 DEF IInv

(* The invariant is inductive, and refusals have a cause. *)
LEMMA NextInv ==
    ASSUME Redis!RedisConstants, IInv, Redis!Next
    PROVE  IInv' /\ Redis!RefusalsHaveCause
  <1>1. CASE (\E i \in Instance : Redis!Poll(i)) \/ Redis!RedisFlips
    <2>1. /\ UNCHANGED <<time, counter, expires, shadow, counted>>
          /\ reqs' = reqs /\ late' = late
      BY <1>1 DEF Redis!Poll, Redis!RedisFlips, Redis!Quiet, Redis!redis, Redis!limiters
    <2> QED
      BY <2>1, LimitersRest, RequestsRest DEF IInv, RequestsInv
  <1>2. CASE Redis!Tick
    <2>1. LimitersInv'
      BY <1>2, ClockMoves DEF IInv
    <2>2. reqs' = reqs /\ late' = late
      BY <1>2 DEF Redis!Tick
    <2> QED
      BY <2>1, <2>2, RequestsRest DEF IInv, RequestsInv
  <1> QED
    BY <1>1, <1>2, ArriveInv, HandlerInv, PortInv, LandInv
    DEF Redis!Next, Redis!Serve, Redis!CallPort

(* Nothing is counted at first. *)
LEMMA InitInv ==
    ASSUME Redis!RedisConstants, Redis!Init
    PROVE  IInv
  <1>0. Redis!LimiterConstants /\ Limit \in Nat
    BY DEF Redis!RedisConstants, Redis!LimiterConstants
  <1>1. Shape
    BY DEF Redis!Init, Shape
  <1>2. RedisSound
    <2> SUFFICES ASSUME NEW k \in Redis!Key
                 PROVE  /\ counter[k] = 0 => expires[k] = 0
                        /\ Sound(counted[<<"redis", k>>], Used(counter[k]), expires[k], time)
      BY Zenon DEF RedisSound
    <2>1. counter[k] = 0 /\ expires[k] = 0 /\ time = 0 /\ counted[<<"redis", k>>] = {}
      BY DEF Redis!Init, Redis!Source
    <2>2. Used(counter[k]) = 0
      BY <1>0, <2>1, UsedIs
    <2> QED
      BY <1>0, <2>1, <2>2, Forgotten
  <1>3. ShadowSound
    <2> SUFFICES ASSUME NEW i \in Instance, NEW s \in Scope
                 PROVE  TableSound(shadow[i][s], i, s)
      BY DEF ShadowSound
    <2>1. shadow[i][s] = Redis!Empty /\ time = 0
      BY DEF Redis!Init
    <2>2. TableOK(Redis!Empty, time) /\ Live(Redis!Empty, time) = {}
      BY DEF TableOK, Redis!IsTable, Redis!Empty, Live
    <2>3. ASSUME NEW a \in Caller
          PROVE  Sound(counted[<<i, <<s, a>>>>], TableUsed(Redis!Empty, a, time), TableEnd(Redis!Empty, a, time), time)
      <3>1. counted[<<i, <<s, a>>>>] = {}
        BY DEF Redis!Init, Redis!Source, Redis!Key
      <3>2. TableUsed(Redis!Empty, a, time) = 0
        BY <2>2 DEF TableUsed
      <3> QED
        BY <1>0, <2>1, <3>1, <3>2, Forgotten
    <2> QED
      BY <2>1, <2>2, <2>3 DEF TableSound
  <1>4. RequestsInv
    BY DEF Redis!Init, RequestsInv
  <1> QED
    BY <1>1, <1>2, <1>3, <1>4 DEF IInv, LimitersInv

(* The invariant bounds what every limiter has allowed. *)
LEMMA BudgetInv ==
    ASSUME Redis!RedisConstants, IInv
    PROVE  Redis!ClusterBudget
  <1>0. Redis!LimiterConstants /\ Limit \in Nat /\ Span \in Nat /\ time \in Nat
    BY DEF Redis!RedisConstants, Redis!LimiterConstants, IInv, LimitersInv, Shape
  <1> SUFFICES ASSUME NEW src \in Redis!Source, NEW k \in Redis!Key
               PROVE  Redis!Cardinality(Granted(counted[<<src, k>>])) <= 2 * Limit - 1
    BY DEF Redis!ClusterBudget, Granted
  <1>1. CASE src = "redis"
    <2>1. Sound(counted[<<"redis", k>>], Used(counter[k]), expires[k], time)
      BY DEF IInv, LimitersInv, RedisSound
    <2>2. Used(counter[k]) \in Nat /\ Used(counter[k]) <= Limit /\ expires[k] \in Nat
      BY <1>0, UsedIs DEF IInv, LimitersInv, Shape
    <2> QED
      BY <1>0, <1>1, <2>1, <2>2, BudgetKept
  <1>2. CASE src \in Instance
    <2>1. PICK s \in Scope, a \in Caller : k = <<s, a>>
      BY DEF Redis!Key
    <2> DEFINE es == shadow[src][s]
    <2>2. /\ TableOK(es, time)
          /\ Sound(counted[<<src, <<s, a>>>>], TableUsed(es, a, time), TableEnd(es, a, time), time)
      BY <1>2, <2>1 DEF IInv, LimitersInv, ShadowSound, TableSound
    <2>3. /\ TableUsed(es, a, time) \in Nat
          /\ TableUsed(es, a, time) <= Limit
          /\ TableEnd(es, a, time) \in Nat
      <3>1. CASE a \in Live(es, time)
        <4>1. es[a].attempts \in Nat /\ es[a].window_start \in Nat
          BY <2>2, <3>1 DEF Live, TableOK, Redis!IsTable, Redis!Entry
        <4> QED
          BY <1>0, <3>1, <4>1, UsedIs DEF TableUsed, TableEnd
      <3>2. CASE a \notin Live(es, time)
        BY <1>0, <3>2 DEF TableUsed, TableEnd
      <3> QED
        BY <3>1, <3>2
    <2> QED
      BY <1>0, <2>1, <2>2, <2>3, BudgetKept
  <1> QED
    BY <1>1, <1>2 DEF Redis!Source

-----------------------------------------------------------------------------
(* The counters in Redis are a fixed-window budget. *)

(* FixedWindow counts with its own copy of FiniteSets. *)
LEMMA SameCardinality == \A S : Redis!Promise!Cardinality(S) = Redis!Cardinality(S)
  BY Zenon DEF Redis!Promise!Cardinality, Redis!Cardinality

(* There is a key. *)
LEMMA SomeKey ==
    ASSUME Redis!RedisConstants
    PROVE  \E k \in Redis!Key : TRUE
  <1>1. PICK s \in Scope, a \in Caller : TRUE
    BY DEF Redis!RedisConstants
  <1>2. <<s, a>> \in Redis!Key
    BY DEF Redis!Key
  <1> QED
    BY <1>2

(* There is room for a window of every key. *)
LEMMA RoomForAll ==
    ASSUME Redis!RedisConstants, NEW S \in SUBSET Redis!Key
    PROVE  Redis!Promise!Cardinality(S) <= Redis!Cardinality(Redis!Key) + 1
  <1>1. Redis!IsFiniteSet(Redis!Key)
    BY SizeProduct DEF Redis!RedisConstants, Redis!Key
  <1>2. /\ Redis!Cardinality(S) <= Redis!Cardinality(Redis!Key)
        /\ Redis!Cardinality(S) \in Nat
        /\ Redis!Cardinality(Redis!Key) \in Nat
    BY <1>1, SubsetSize, SizeType
  <1> QED
    BY <1>2, SameCardinality

(* What a key's window is. *)
LEMMA WindowIs ==
    ASSUME Redis!RedisConstants, LimitersInv, NEW k \in Redis!Key
    PROVE  /\ Limit \in Nat /\ Limit > 0 /\ Span \in Nat /\ Span > 0
           /\ time \in Nat /\ counter[k] \in Nat /\ expires[k] \in Nat
           /\ Used(counter[k]) \in Nat /\ Used(counter[k]) <= Limit
           /\ Redis!Promise!SpentAt(k, time) = Used(counter[k])
           /\ Redis!Promise!ClosesAt(k, time) = expires[k]
           /\ Used(counter[k]) = 0 <=> counter[k] = 0
           /\ Used(counter[k]) < Limit <=> counter[k] < Limit
  <1>1. /\ Redis!LimiterConstants /\ Limit \in Nat /\ Limit > 0 /\ Span \in Nat /\ Span > 0
        /\ time \in Nat /\ counter[k] \in Nat /\ expires[k] \in Nat
    BY DEF Redis!RedisConstants, Redis!LimiterConstants, LimitersInv, Shape
  <1>2. /\ Used(counter[k]) \in Nat /\ Used(counter[k]) <= Limit
        /\ Used(counter[k]) = 0 <=> counter[k] = 0
    BY <1>1, UsedIs
  <1>3. Used(counter[k]) < Limit <=> counter[k] < Limit
    BY <1>1 DEF Used, Redis!Left
  <1>4. /\ counter[k] = 0 => expires[k] = 0
        /\ counter[k] > 0 => time < expires[k]
    <2>1. /\ counter[k] = 0 => expires[k] = 0
          /\ Sound(counted[<<"redis", k>>], Used(counter[k]), expires[k], time)
      BY DEF LimitersInv, RedisSound
    <2>2. Used(counter[k]) > 0 => time < expires[k]
      BY <2>1 DEF Sound
    <2> QED
      BY <1>1, <1>2, <2>1, <2>2
  <1>5. /\ Redis!Promise!SpentAt(k, time) = IF time < expires[k] THEN Used(counter[k]) ELSE 0
        /\ Redis!Promise!ClosesAt(k, time) = IF time < expires[k] THEN expires[k] ELSE 0
    BY DEF Redis!Promise!SpentAt, Redis!Promise!ClosesAt, Used
  <1> QED
    BY <1>1, <1>2, <1>3, <1>4, <1>5

(* The abstract step, from what the counters are afterwards. *)
LEMMA WindowBecomes ==
    ASSUME Redis!RedisConstants, LimitersInv, time' = time, NEW k \in Redis!Key, NEW s, NEW c,
           s = Used(counter'[k]), c = expires'[k],
           expires' = [x \in Redis!Key |-> expires'[x]],
           \A x \in Redis!Key \ {k} : counter'[x] = counter[x] /\ expires'[x] = expires[x]
    PROVE  Redis!Promise!Become(time, k, s, c, {})
  <1>1. \A x \in Redis!Key \ {k} :
            /\ Redis!Promise!SpentAt(x, time) = Used(counter'[x])
            /\ Redis!Promise!ClosesAt(x, time) = expires'[x]
    BY WindowIs
  <1> QED
    BY <1>1 DEF Redis!Promise!Become, Used

(* So there is room after every step. *)
LEMMA StillRoom ==
    ASSUME Redis!RedisConstants
    PROVE  Redis!Promise!Cardinality({x \in Redis!Key : [y \in Redis!Key |-> Limit - Redis!Left(counter'[y])][x] > 0})
             <= Redis!Cardinality(Redis!Key) + 1
  <1> DEFINE S == {x \in Redis!Key : [y \in Redis!Key |-> Limit - Redis!Left(counter'[y])][x] > 0}
  <1>1. S \in SUBSET Redis!Key
    OBVIOUS
  <1> SUFFICES Redis!Promise!Cardinality(S) <= Redis!Cardinality(Redis!Key) + 1
    OBVIOUS
  <1> HIDE DEF S
  <1> QED
    BY <1>1, RoomForAll

(* An INCR counts an attempt; when the budget is spent, it changes nothing. *)
LEMMA IncrCounts ==
    ASSUME Redis!RedisConstants, LimitersInv, time' = time, NEW k \in Redis!Key, Redis!Incr(k)
    PROVE  /\ Redis!Promise!Count(k, time, {})
           /\ counter[k] >= Limit =>
                Redis!Promise!Become(time, k, Redis!Promise!SpentAt(k, time), Redis!Promise!ClosesAt(k, time), {})
  <1> DEFINE n == counter[k]
             u == Used(n)
  <1>1. /\ Limit \in Nat /\ Limit > 0 /\ Span \in Nat /\ Span > 0
        /\ time \in Nat /\ n \in Nat /\ expires[k] \in Nat
        /\ u \in Nat /\ u <= Limit
        /\ Redis!Promise!SpentAt(k, time) = u /\ Redis!Promise!ClosesAt(k, time) = expires[k]
        /\ u = 0 <=> n = 0
        /\ u < Limit <=> n < Limit
    BY WindowIs
  <1>2. /\ counter'[k] = Redis!OneMore(n)
        /\ expires'[k] = IF n = 0 THEN time + Span ELSE expires[k]
        /\ expires' = [x \in Redis!Key |-> expires'[x]]
        /\ \A x \in Redis!Key \ {k} : counter'[x] = counter[x] /\ expires'[x] = expires[x]
    BY Zenon DEF Redis!Incr, LimitersInv, Shape
  <1>3. Used(Redis!OneMore(n)) = IF u < Limit THEN u + 1 ELSE Limit
    BY <1>1 DEF Used, Redis!Left, Redis!OneMore
  <1> DEFINE s == Used(counter'[k])
             c == expires'[k]
  <1>4. Redis!Promise!Become(time, k, s, c, {})
    BY <1>2, WindowBecomes
  <1>5. s = IF u < Limit THEN u + 1 ELSE Limit
    BY <1>2, <1>3
  <1>6. c = IF u = 0 THEN time + Span ELSE expires[k]
    BY <1>1, <1>2
  <1> HIDE DEF s, c, u, n
  <1>7. Redis!Promise!Count(k, time, {})
    BY <1>1, <1>4, <1>5, <1>6 DEF Redis!Promise!Count
  <1>8. counter[k] >= Limit => s = u /\ c = expires[k]
    BY <1>1, <1>5, <1>6 DEF n
  <1> QED
    BY <1>1, <1>4, <1>7, <1>8

(* A step on which no key changes. *)
LEMMA KeysRest ==
    ASSUME Redis!RedisConstants, LimitersInv, time' = time, UNCHANGED <<counter, expires>>, NEW k \in Redis!Key
    PROVE  Redis!Promise!Become(time, k, Redis!Promise!SpentAt(k, time), Redis!Promise!ClosesAt(k, time), {})
  <1>1. expires' = [x \in Redis!Key |-> expires'[x]]
    BY DEF LimitersInv, Shape
  <1>2. /\ Redis!Promise!SpentAt(k, time) = Used(counter'[k])
        /\ Redis!Promise!ClosesAt(k, time) = expires'[k]
    BY WindowIs
  <1> QED
    BY <1>1, <1>2, WindowBecomes

(* A command of Redis is an operation of the abstract limiter. *)
LEMMA CommandIs ==
    ASSUME Redis!RedisConstants, LimitersInv, time' = time, NEW k \in Redis!Key,
           \/ Redis!Incr(k) /\ replied' = Redis!Reply("try", k, Redis!Truth(counter[k] + 1 <= Limit))
           \/ Redis!Incr(k) /\ replied' = Redis!Reply("record", k, 0)
           \/ Redis!Del(k) /\ replied' = Redis!Reply("reset", k, 0)
           \/ /\ UNCHANGED <<counter, expires>>
              /\ \/ replied' = Redis!Reply("check", k, Redis!Truth(counter[k] < Limit))
                 \/ replied' = Redis!Reply("remaining", k, Redis!Left(counter[k]))
                 \/ replied' = Redis!NoReply
    PROVE  Redis!Promise!Next
  <1>1. /\ Limit \in Nat /\ Limit > 0 /\ counter[k] \in Nat
        /\ Redis!Promise!SpentAt(k, time) = Used(counter[k])
        /\ Used(counter[k]) < Limit <=> counter[k] < Limit
    BY WindowIs
  <1> SUFFICES \/ Redis!Promise!Attempt(k, time, {}) \/ Redis!Promise!Record(k, time, {})
               \/ Redis!Promise!Check(k, time) \/ Redis!Promise!Remaining(k, time) \/ Redis!Promise!Reset(k, time)
               \/ Redis!Promise!Pass(time)
    BY Zenon, StillRoom DEF Redis!Promise!Next
  <1>2. CASE Redis!Incr(k) /\ replied' = Redis!Reply("try", k, Redis!Truth(counter[k] + 1 <= Limit))
    <2>1. CASE counter[k] < Limit
      <3>1. Redis!Truth(counter[k] + 1 <= Limit) = 1
        BY <1>1, <2>1 DEF Redis!Truth
      <3>2. replied' = Redis!Promise!Answer("try", k, 1)
        BY <1>2, <3>1 DEF Redis!Promise!Answer, Redis!Reply
      <3>3. Redis!Promise!SpentAt(k, time) < Limit /\ Redis!Promise!Count(k, time, {})
        BY <1>1, <1>2, <2>1, IncrCounts
      <3> QED
        BY <3>2, <3>3 DEF Redis!Promise!Attempt
    <2>2. CASE ~(counter[k] < Limit)
      <3>1. Redis!Truth(counter[k] + 1 <= Limit) = 0
        BY <1>1, <2>2 DEF Redis!Truth
      <3>2. replied' = Redis!Promise!Answer("try", k, 0)
        BY <1>2, <3>1 DEF Redis!Promise!Answer, Redis!Reply
      <3>3. /\ ~(Redis!Promise!SpentAt(k, time) < Limit)
            /\ Redis!Promise!Become(time, k, Redis!Promise!SpentAt(k, time), Redis!Promise!ClosesAt(k, time), {})
        BY <1>1, <1>2, <2>2, IncrCounts
      <3> QED
        BY <3>2, <3>3 DEF Redis!Promise!Attempt
    <2> QED
      BY <2>1, <2>2
  <1>3. CASE Redis!Incr(k) /\ replied' = Redis!Reply("record", k, 0)
    BY Zenon, <1>3, IncrCounts DEF Redis!Promise!Record, Redis!Promise!Answer, Redis!Reply
  <1>4. CASE Redis!Del(k) /\ replied' = Redis!Reply("reset", k, 0)
    <2>1. /\ counter'[k] = 0 /\ expires'[k] = 0
          /\ expires' = [x \in Redis!Key |-> expires'[x]]
          /\ \A x \in Redis!Key \ {k} : counter'[x] = counter[x] /\ expires'[x] = expires[x]
      BY Zenon, <1>4 DEF Redis!Del, LimitersInv, Shape
    <2>2. Used(counter'[k]) = 0
      BY <1>1, <2>1 DEF Used, Redis!Left
    <2>3. Redis!Promise!Become(time, k, 0, 0, {})
      BY <2>1, <2>2, WindowBecomes
    <2> QED
      BY Zenon, <1>4, <2>3 DEF Redis!Promise!Reset, Redis!Promise!Answer, Redis!Reply
  <1>5. CASE UNCHANGED <<counter, expires>>
    <2>1. Redis!Promise!Become(time, k, Redis!Promise!SpentAt(k, time), Redis!Promise!ClosesAt(k, time), {})
      BY <1>5, KeysRest
    <2>2. CASE replied' = Redis!Reply("check", k, Redis!Truth(counter[k] < Limit))
      BY Zenon, <1>1, <2>1, <2>2 DEF Redis!Promise!Check, Redis!Promise!Answer, Redis!Reply, Redis!Truth
    <2>3. CASE replied' = Redis!Reply("remaining", k, Redis!Left(counter[k]))
      <3>1. Limit - Used(counter[k]) = Redis!Left(counter[k])
        BY <1>1 DEF Used, Redis!Left
      <3> QED
        BY Zenon, <1>1, <2>1, <2>3, <3>1 DEF Redis!Promise!Remaining, Redis!Promise!Answer, Redis!Reply
    <2>4. CASE replied' = Redis!NoReply
      BY <2>1, <2>4 DEF Redis!Promise!Pass, Redis!Promise!NoAnswer, Redis!NoReply
    <2> QED
      BY <1>5, <2>2, <2>3, <2>4, <1>2, <1>3, <1>4
  <1> QED
    BY <1>2, <1>3, <1>4, <1>5

(* Time passes, and Redis drops the keys that expire. *)
LEMMA TickPasses ==
    ASSUME Redis!RedisConstants, LimitersInv, Redis!Tick
    PROVE  Redis!Promise!Next
  <1>1. PICK k \in Redis!Key : TRUE
    BY SomeKey
  <1>2. Limit \in Nat /\ Limit > 0
    BY DEF Redis!RedisConstants, Redis!LimiterConstants
  <1>3. Used(0) = 0
    BY <1>2 DEF Used, Redis!Left
  <1>4. ASSUME NEW x \in Redis!Key
        PROVE  /\ Used(counter'[x]) = Redis!Promise!SpentAt(x, time + 1)
               /\ expires'[x] = Redis!Promise!ClosesAt(x, time + 1)
    <2>1. /\ counter'[x] = IF time + 1 < expires[x] THEN counter[x] ELSE 0
          /\ expires'[x] = IF time + 1 < expires[x] THEN expires[x] ELSE 0
      BY DEF Redis!Tick
    <2>2. /\ Redis!Promise!SpentAt(x, time + 1) = IF time + 1 < expires[x] THEN Used(counter[x]) ELSE 0
          /\ Redis!Promise!ClosesAt(x, time + 1) = IF time + 1 < expires[x] THEN expires[x] ELSE 0
      BY DEF Redis!Promise!SpentAt, Redis!Promise!ClosesAt, Used
    <2> QED
      BY <1>3, <2>1, <2>2
  <1>5. time' = time + 1 /\ expires' = [x \in Redis!Key |-> expires'[x]] /\ replied' = Redis!NoReply
    BY DEF Redis!Tick
  <1>6. Redis!Promise!Become(time + 1, k, Redis!Promise!SpentAt(k, time + 1), Redis!Promise!ClosesAt(k, time + 1), {})
    BY <1>4, <1>5 DEF Redis!Promise!Become, Used
  <1>7. Redis!Promise!Pass(time + 1)
    BY <1>1, <1>5, <1>6 DEF Redis!Promise!Pass, Redis!Promise!NoAnswer, Redis!NoReply
  <1> QED
    BY <1>7, StillRoom DEF Redis!Promise!Next

(* Every step is one of the abstract limiter's. *)
LEMMA StepIs ==
    ASSUME Redis!RedisConstants, IInv, Redis!Next
    PROVE  Redis!Promise!Next
  <1>0. LimitersInv /\ RequestsInv
    BY DEF IInv
  <1>1. PICK k \in Redis!Key : TRUE
    BY SomeKey
  <1>2. CASE time' = time /\ UNCHANGED <<counter, expires>> /\ replied' = Redis!NoReply
    BY <1>0, <1>1, <1>2, CommandIs
  <1>3. ASSUME NEW id \in Request, NEW i \in Instance, NEW s \in Scope, NEW a \in Caller,
               Redis!Arrive(id, i, s, a)
        PROVE  Redis!Promise!Next
    BY <1>2, <1>3 DEF Redis!Arrive, Redis!Quiet, Redis!redis
  <1>4. ASSUME NEW r \in reqs, Redis!Handler(r) \/ Redis!Leave(r)
        PROVE  Redis!Promise!Next
    <2>1. Redis!KeyOf(r) \in Redis!Key
      BY <1>0, RequestIs
    <2>2. CASE Redis!TryRedis(r)
      BY <1>0, <2>1, <2>2, CommandIs DEF Redis!TryRedis
    <2>3. CASE Redis!DelRedis(r)
      BY <1>0, <2>1, <2>3, CommandIs DEF Redis!DelRedis
    <2>4. CASE Redis!TryShadow(r) \/ Redis!DelFails(r)
      BY Zenon, <1>2, <2>4 DEF Redis!TryShadow, Redis!DelFails, Redis!MayLand
    <2>5. CASE Redis!UseCase(r) \/ Redis!ResetShadow(r) \/ Redis!Respond(r) \/ Redis!Leave(r)
      BY <1>2, <2>5
      DEF Redis!UseCase, Redis!ResetShadow, Redis!Respond, Redis!Leave, Redis!Quiet, Redis!redis
    <2> QED
      BY <1>4, <2>2, <2>3, <2>4, <2>5 DEF Redis!Handler
  <1>5. ASSUME NEW i \in Instance, NEW s \in Scope, NEW a \in Caller,
               Redis!RecordAttempt(i, s, a) \/ Redis!Check(i, s, a) \/ Redis!RemainingAttempts(i, s, a)
        PROVE  Redis!Promise!Next
    <2> DEFINE x == Redis!key(s, a)
    <2>1. x \in Redis!Key
      BY DEF Redis!key, Redis!Key
    <2>2. /\ time' = time
          /\ \/ Redis!Incr(x) /\ replied' = Redis!Reply("record", x, 0)
             \/ /\ UNCHANGED <<counter, expires>>
                /\ \/ replied' = Redis!Reply("check", x, Redis!Truth(counter[x] < Limit))
                   \/ replied' = Redis!Reply("remaining", x, Redis!Left(counter[x]))
                   \/ replied' = Redis!NoReply
      BY Zenon, <1>5
      DEF Redis!RecordAttempt, Redis!Check, Redis!RemainingAttempts, Redis!Quiet, Redis!redis
    <2> HIDE DEF x
    <2> QED
      BY <1>0, <2>1, <2>2, CommandIs
  <1>6. ASSUME NEW c \in late, Redis!Land(c)
        PROVE  Redis!Promise!Next
    <2>1. c.key \in Redis!Key
      BY <1>0 DEF RequestsInv, Command
    <2>2. /\ time' = time
          /\ \/ Redis!Incr(c.key) /\ replied' = Redis!Reply("record", c.key, 0)
             \/ Redis!Del(c.key) /\ replied' = Redis!Reply("reset", c.key, 0)
      BY Zenon, <1>6 DEF Redis!Land
    <2> QED
      BY <1>0, <2>1, <2>2, CommandIs
  <1>7. CASE (\E i \in Instance : Redis!Poll(i)) \/ Redis!RedisFlips
    BY <1>2, <1>7 DEF Redis!Poll, Redis!RedisFlips, Redis!Quiet, Redis!redis
  <1>8. CASE Redis!Tick
    BY <1>0, <1>8, TickPasses
  <1> QED
    BY <1>3, <1>4, <1>5, <1>6, <1>7, <1>8 DEF Redis!Next, Redis!Serve, Redis!CallPort

-----------------------------------------------------------------------------
(* The invariant is kept. *)
LEMMA CountKept == IInv /\ [Redis!Next]_(Redis!vars) => IInv'
  <1>1. ASSUME IInv, UNCHANGED Redis!vars PROVE IInv'
    BY <1>1, LimitersRest, RequestsRest
    DEF IInv, RequestsInv, Redis!vars, Redis!redis, Redis!limiters
  <1> QED
    BY <1>1, ClusterConstants, NextInv

(* For any number of instances, addresses and requests, any budget and any  *)
(* window, and however Redis fails: each limiter allows an address fewer    *)
(* than twice the budget in a window's time.                                *)
THEOREM BudgetOfEach == Redis!Spec => []ClusterBudget
  <1>1. Redis!Init => IInv
    BY ClusterConstants, InitInv
  <1>2. IInv => ClusterBudget
    BY ClusterConstants, BudgetInv DEF ClusterBudget
  <1> QED
    BY <1>1, <1>2, CountKept, PTL DEF Redis!Spec

(* Whoever is refused has made as many attempts of the same kind within the *)
(* last window as the budget allows, since the limiter that refuses last    *)
(* forgot the address.                                                      *)
THEOREM RefusalsAreEarned == Redis!Spec => RefusedForCause
  <1>1. Redis!Init => IInv
    BY ClusterConstants, InitInv
  <1>2. IInv /\ [Redis!Next]_(Redis!vars) => [Redis!RefusalsHaveCause]_(Redis!vars)
    BY ClusterConstants, NextInv
  <1> QED
    BY <1>1, <1>2, CountKept, PTL DEF Redis!Spec, RefusedForCause, Redis!RefusedForCause

(* The counters in Redis implement FixedWindow, with the keys for addresses *)
(* and room for all of them: what the instances, and the commands that land *)
(* after their callers have given up, do to them is an operation of that    *)
(* limiter, and a clock tick closes the windows that end.                   *)
THEOREM SharedWindow == Redis!Spec => SharedBudget
  <1>1. Redis!Init => IInv
    BY ClusterConstants, InitInv
  <1>2. Redis!Init => Redis!Promise!Init
    <2> SUFFICES ASSUME Redis!Init PROVE Redis!Promise!Init
      OBVIOUS
    <2>1. Limit - Redis!Left(0) = 0
      BY ClusterConstants DEF Redis!RedisConstants, Redis!LimiterConstants, Redis!Left
    <2> QED
      BY <2>1 DEF Redis!Init, Redis!Promise!Init, Redis!Promise!NoAnswer, Redis!NoReply
  <1>3. IInv /\ [Redis!Next]_(Redis!vars) => [Redis!Promise!Next]_(Redis!Promise!vars)
    <2>1. UNCHANGED Redis!vars => UNCHANGED Redis!Promise!vars
      BY DEF Redis!vars, Redis!redis, Redis!Promise!vars
    <2> QED
      BY <2>1, ClusterConstants, StepIs
  <1> QED
    BY <1>1, <1>2, <1>3, CountKept, PTL
    DEF Redis!Spec, SharedBudget, Redis!SharedBudget, Redis!Promise!Spec
=============================================================================
