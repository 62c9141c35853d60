-------------------------- MODULE ThrottlingProofs --------------------------
(***************************************************************************)
(* The address a request is counted under, whatever its client writes into *)
(* the headers and however many proxies there are; and the limiter in      *)
(* memory, for any set of addresses, budget, window and size of the table. *)
(***************************************************************************)
EXTENDS Throttling, FiniteSetTheorems, WellFoundedInduction, TLAPS

-----------------------------------------------------------------------------
(* The limiter in memory. *)

(* The table holds no more than MAX_ENTRIES entries, each with an attempt   *)
(* in it and begun in the past.                                             *)
IInv ==
    /\ now \in Nat
    /\ IsTable(entries)
    /\ \A a \in DOMAIN entries : entries[a].attempts > 0 /\ entries[a].window_start <= now
    /\ IsFiniteSet(DOMAIN entries) /\ Cardinality(DOMAIN entries) <= MaxEntries

(* What table es, looked at at time t, has of address a: the two parts of   *)
(* the refinement mapping.                                                  *)
SpentIn(es, t, a) ==
    IF a \in DOMAIN es /\ ~Expired(es[a], t) THEN Max - Left(es[a].attempts) ELSE 0
ClosesIn(es, t, a) ==
    IF a \in DOMAIN es /\ ~Expired(es[a], t) THEN es[a].window_start + Window ELSE 0

(* What clean_expired leaves. *)
Kept == {a \in DOMAIN entries : ~Expired(entries[a], now)}

-----------------------------------------------------------------------------
(* What is in the table when the clock is read again is what the abstract   *)
(* limiter has left by then.                                                *)
LEMMA AtLater ==
    ASSUME LimiterConstants, IInv, NEW a \in Ip, NEW t \in Nat, now <= t
    PROVE  /\ Promise!SpentAt(a, t) = SpentIn(entries, t, a)
           /\ Promise!ClosesAt(a, t) = ClosesIn(entries, t, a)
  <1>1. CASE a \in DOMAIN entries
    <2>1. entries[a].window_start \in Nat /\ entries[a].attempts \in Nat
      BY <1>1 DEF IInv, IsTable, Entry
    <2>2. Window \in Nat /\ now \in Nat
      BY DEF IInv, LimiterConstants
    <2> QED
      BY <1>1, <2>1, <2>2 DEF Promise!SpentAt, Promise!ClosesAt, SpentIn, ClosesIn, Live, Expired
  <1>2. CASE a \notin DOMAIN entries
    BY <1>2 DEF Promise!SpentAt, Promise!ClosesAt, SpentIn, ClosesIn, Live
  <1> QED
    BY <1>1, <1>2

(* An open window is a live entry. *)
LEMMA OpenIsKept ==
    ASSUME LimiterConstants, IInv
    PROVE  \A a \in Ip : Promise!Open(a) <=> a \in Kept
  <1> SUFFICES ASSUME NEW a \in Ip PROVE Promise!Open(a) <=> a \in Kept
    OBVIOUS
  <1>1. CASE a \in DOMAIN entries
    <2>1. entries[a].attempts \in Nat /\ entries[a].attempts > 0 /\ Max \in Nat \ {0}
      BY <1>1 DEF IInv, IsTable, Entry, LimiterConstants
    <2> QED
      BY <1>1, <2>1 DEF Promise!Open, Live, Kept, Left
  <1>2. CASE a \notin DOMAIN entries
    BY <1>2 DEF Promise!Open, Live, Kept
  <1> QED
    BY <1>1, <1>2

(* The abstract limiter's step, from what the table is afterwards. *)
LEMMA Becomes ==
    ASSUME NEW t, now' = t, NEW a \in Ip, NEW s, NEW k, NEW F,
           SpentIn(entries', t, a) = s, ClosesIn(entries', t, a) = k,
           \A b \in Ip \ {a} :
                /\ SpentIn(entries', t, b) = IF b \in F THEN 0 ELSE Promise!SpentAt(b, t)
                /\ ClosesIn(entries', t, b) = IF b \in F THEN 0 ELSE Promise!ClosesAt(b, t)
    PROVE  Promise!Become(t, a, s, k, F)
  BY DEF Promise!Become, SpentIn, ClosesIn, Live

(* FixedWindow counts with its own copy of FiniteSets. *)
LEMMA SameCardinality == \A S : Promise!Cardinality(S) = Cardinality(S)
  BY Zenon DEF Promise!Cardinality, Cardinality

(* No more windows are open than there are entries. *)
LEMMA Fits ==
    ASSUME LimiterConstants, IInv',
           NEW S, S = {a \in Ip : (IF Live(a)' THEN Max - Left(entries'[a].attempts) ELSE 0) > 0}
    PROVE  Promise!Cardinality(S) <= MaxEntries
  <1> DEFINE D == DOMAIN entries'
  <1>1. S \in SUBSET D
    BY DEF Live
  <1>2. IsFiniteSet(D) /\ Cardinality(D) <= MaxEntries
    BY DEF IInv
  <1> HIDE DEF D
  <1>3. Cardinality(S) <= Cardinality(D) /\ Cardinality(S) \in Nat /\ Cardinality(D) \in Nat
    BY <1>1, <1>2, FS_Subset, FS_CardinalityType
  <1> QED
    BY <1>2, <1>3, SameCardinality DEF LimiterConstants

(* Cleaning the table and making room for an address forgets nothing that   *)
(* the abstract limiter may not forget, and leaves room.                    *)
LEMMA TrackedForgets ==
    ASSUME LimiterConstants, IInv, NEW a \in Ip, NEW t \in Nat,
           NEW e \in Tracked(entries, a, now, t)
    PROVE  \E F \in {{}} \union {{b} : b \in Ip} :
                /\ F \subseteq Promise!Forgettable(a)
                /\ a \notin F
                /\ e = [b \in (Kept \ F) \union {a} |->
                            IF b \in Kept THEN entries[b] ELSE [attempts |-> 0, window_start |-> t]]
                /\ IsFiniteSet(DOMAIN e) /\ Cardinality(DOMAIN e) <= MaxEntries
  <1> DEFINE kept == clean_expired(entries, now)
             fresh == [attempts |-> 0, window_start |-> t]
             Table(F) == [b \in (Kept \ F) \union {a} |-> IF b \in Kept THEN entries[b] ELSE fresh]
             Good(F) ==
                /\ F \subseteq Promise!Forgettable(a)
                /\ a \notin F
                /\ e = Table(F)
                /\ IsFiniteSet(DOMAIN e) /\ Cardinality(DOMAIN e) <= MaxEntries
  <1> SUFFICES \E F \in {{}} \union {{b} : b \in Ip} : Good(F)
    OBVIOUS
  <1>1. kept = [b \in Kept |-> entries[b]]
    BY DEF clean_expired, Restrict, Kept
  <1>2. /\ IsFiniteSet(Kept) /\ Cardinality(Kept) \in Nat
        /\ Cardinality(Kept) <= MaxEntries /\ MaxEntries \in Nat \ {0}
    <2>1. Kept \in SUBSET DOMAIN entries
      BY DEF Kept
    <2>2. IsFiniteSet(DOMAIN entries) /\ Cardinality(DOMAIN entries) <= MaxEntries
      BY DEF IInv
    <2>3. IsFiniteSet(Kept) /\ Cardinality(Kept) <= Cardinality(DOMAIN entries)
      BY <2>1, <2>2, FS_Subset
    <2>4. Cardinality(Kept) \in Nat /\ Cardinality(DOMAIN entries) \in Nat
      BY <2>2, <2>3, FS_CardinalityType
    <2> QED
      BY <2>2, <2>3, <2>4 DEF LimiterConstants
  <1>3. Kept \subseteq Ip
    BY DEF Kept, IInv, IsTable
  <1>4. CASE a \in Kept
    <2>1. e = Table({})
      BY <1>1, <1>4 DEF Tracked, OrInsert
    <2>2. DOMAIN e = Kept
      BY <1>4, <2>1
    <2>3. Good({})
      BY <1>2, <2>1, <2>2
    <2> HIDE DEF Good
    <2> QED
      BY <2>3
  <1>5. CASE a \notin Kept /\ Cardinality(Kept) < MaxEntries
    <2>1. e = Table({})
      BY <1>1, <1>5 DEF Tracked, OrInsert, evict_oldest_if_full
    <2>2. DOMAIN e = Kept \union {a}
      BY <2>1
    <2>3. IsFiniteSet(Kept \union {a}) /\ Cardinality(Kept \union {a}) = Cardinality(Kept) + 1
      BY <1>2, <1>5, FS_AddElement
    <2>4. Cardinality(Kept \union {a}) <= MaxEntries
      BY <1>2, <1>5, <2>3
    <2>5. Good({})
      BY <2>1, <2>2, <2>3, <2>4
    <2> HIDE DEF Good
    <2> QED
      BY <2>5
  <1>6. CASE a \notin Kept /\ ~(Cardinality(Kept) < MaxEntries)
    <2>1. PICK b \in Oldest(kept) : e = OrInsert(Restrict(kept, DOMAIN kept \ {b}), a, t)
      BY <1>1, <1>6 DEF Tracked, evict_oldest_if_full
    <2>2. b \in Kept /\ \A d \in Kept : entries[b].window_start <= entries[d].window_start
      BY <1>1 DEF Oldest
    <2>3. e = Table({b})
      BY <1>1, <1>6, <2>1, <2>2 DEF OrInsert, Restrict
    <2>4. {b} \subseteq Promise!Forgettable(a)
      <3>1. Promise!Open(b) /\ b # a /\ b \in Ip
        BY <1>3, <1>6, <2>2, OpenIsKept
      <3>2. {d \in Ip : Promise!Open(d)} = Kept
        BY <1>3, OpenIsKept
      <3>3. Promise!Cardinality({d \in Ip : Promise!Open(d)}) >= MaxEntries
        BY <1>2, <1>6, <3>2, SameCardinality
      <3>4. ASSUME NEW d \in Ip, Promise!Open(d)
            PROVE  (IF Live(b) THEN entries[b].window_start + Window ELSE 0)
                     <= (IF Live(d) THEN entries[d].window_start + Window ELSE 0)
        <4>1. d \in Kept
          BY <3>4, OpenIsKept
        <4>2. Live(b) /\ Live(d)
          BY <2>2, <4>1 DEF Kept, Live
        <4>3. entries[b].window_start \in Nat /\ entries[d].window_start \in Nat /\ Window \in Nat
          BY <2>2, <4>1 DEF Kept, IInv, IsTable, Entry, LimiterConstants
        <4> QED
          BY <2>2, <4>1, <4>2, <4>3
      <3>5. b \in Promise!Forgettable(a)
        BY <3>1, <3>3, <3>4 DEF Promise!Forgettable
      <3> QED
        BY <3>5
    <2>5. DOMAIN e = (Kept \ {b}) \union {a}
      BY <2>3
    <2>6. IsFiniteSet(Kept \ {b}) /\ Cardinality(Kept \ {b}) = Cardinality(Kept) - 1
      BY Zenon, <1>2, <2>2, FS_RemoveElement
    <2>7. /\ IsFiniteSet((Kept \ {b}) \union {a})
          /\ Cardinality((Kept \ {b}) \union {a}) = Cardinality(Kept \ {b}) + 1
      BY <1>6, <2>6, FS_AddElement
    <2>8. Cardinality((Kept \ {b}) \union {a}) <= MaxEntries
      BY <1>2, <2>6, <2>7
    <2>9. {b} \in {{}} \union {{d} : d \in Ip} /\ a \notin {b}
      BY <1>3, <1>6, <2>2
    <2>10. Good({b})
      BY <2>3, <2>4, <2>5, <2>7, <2>8, <2>9
    <2> HIDE DEF Good
    <2> QED
      BY <2>9, <2>10
  <1> QED
    BY Zenon, <1>4, <1>5, <1>6

(* Replacing the entry of the address in the cleaned table is the abstract  *)
(* limiter's step for it, and keeps the table in order.                     *)
LEMMA Replaced ==
    ASSUME LimiterConstants, IInv, NEW a \in Ip, NEW t \in Nat, now <= t, NEW F, a \notin F,
           NEW e,
           e = [b \in (Kept \ F) \union {a} |->
                    IF b \in Kept THEN entries[b] ELSE [attempts |-> 0, window_start |-> t]],
           IsFiniteSet(DOMAIN e), Cardinality(DOMAIN e) <= MaxEntries,
           NEW n \in Entry, n.attempts > 0, n.window_start <= t,
           entries' = [e EXCEPT ![a] = n], now' = t
    PROVE  /\ IInv'
           /\ Promise!Become(t, a, IF Expired(n, t) THEN 0 ELSE Max - Left(n.attempts),
                             IF Expired(n, t) THEN 0 ELSE n.window_start + Window, F)
  <1>1. Kept \subseteq DOMAIN entries /\ DOMAIN entries \subseteq Ip
    BY DEF Kept, IInv, IsTable
  <1>2. /\ DOMAIN entries' = (Kept \ F) \union {a}
        /\ entries'[a] = n
        /\ \A b \in (Kept \ F) \ {a} : entries'[b] = entries[b]
    OBVIOUS
  <1>3. IInv'
    <2>1. DOMAIN entries' = DOMAIN e
      OBVIOUS
    <2>2. \A b \in DOMAIN entries' :
             entries'[b] \in Entry /\ entries'[b].attempts > 0 /\ entries'[b].window_start <= t
      <3> SUFFICES ASSUME NEW b \in DOMAIN entries'
                   PROVE  /\ entries'[b] \in Entry
                          /\ entries'[b].attempts > 0 /\ entries'[b].window_start <= t
        OBVIOUS
      <3>1. CASE b = a
        BY <1>2, <3>1
      <3>2. CASE b # a
        <4>1. entries'[b] = entries[b] /\ b \in DOMAIN entries
          BY <1>1, <1>2, <3>2
        <4>2. /\ entries[b] \in Entry /\ entries[b].attempts > 0
              /\ entries[b].window_start <= now /\ now \in Nat
          BY <4>1 DEF IInv, IsTable
        <4>3. entries[b].window_start <= t
          BY <4>2 DEF Entry
        <4> QED
          BY <4>1, <4>2, <4>3
      <3> QED
        BY <3>1, <3>2
    <2>3. IsTable(entries')
      <3>1. DOMAIN entries' \subseteq Ip
        BY <1>1, <1>2
      <3>2. entries' \in [DOMAIN entries' -> Entry]
        BY <2>2
      <3> QED
        BY <3>1, <3>2 DEF IsTable
    <2> QED
      BY Zenon, <2>1, <2>2, <2>3 DEF IInv
  <1>4. /\ SpentIn(entries', t, a) = IF Expired(n, t) THEN 0 ELSE Max - Left(n.attempts)
        /\ ClosesIn(entries', t, a) = IF Expired(n, t) THEN 0 ELSE n.window_start + Window
    BY <1>2 DEF SpentIn, ClosesIn
  <1>5. ASSUME NEW b \in Ip \ {a}
        PROVE  /\ SpentIn(entries', t, b) = IF b \in F THEN 0 ELSE Promise!SpentAt(b, t)
               /\ ClosesIn(entries', t, b) = IF b \in F THEN 0 ELSE Promise!ClosesAt(b, t)
    <2>1. /\ Promise!SpentAt(b, t) = SpentIn(entries, t, b)
          /\ Promise!ClosesAt(b, t) = ClosesIn(entries, t, b)
      BY AtLater
    <2>2. CASE b \in F
      BY <1>2, <2>2 DEF SpentIn, ClosesIn
    <2>3. CASE b \notin F /\ b \in Kept
      BY <1>1, <1>2, <2>1, <2>3 DEF SpentIn, ClosesIn
    <2>4. CASE b \notin F /\ b \notin Kept
      <3>1. b \notin DOMAIN entries'
        BY <1>2, <2>4
      <3>2. b \in DOMAIN entries => Expired(entries[b], t)
        <4> SUFFICES ASSUME b \in DOMAIN entries PROVE Expired(entries[b], t)
          OBVIOUS
        <4>1. Expired(entries[b], now)
          BY <2>4 DEF Kept
        <4>2. entries[b].window_start \in Nat /\ now \in Nat /\ Window \in Nat
          BY DEF IInv, IsTable, Entry, LimiterConstants
        <4> QED
          BY <4>1, <4>2 DEF Expired
      <3> QED
        BY <2>1, <2>4, <3>1, <3>2 DEF SpentIn, ClosesIn
    <2> QED
      BY <2>2, <2>3, <2>4
  <1>6. Promise!Become(t, a, IF Expired(n, t) THEN 0 ELSE Max - Left(n.attempts),
                       IF Expired(n, t) THEN 0 ELSE n.window_start + Window, F)
    <2> DEFINE s == IF Expired(n, t) THEN 0 ELSE Max - Left(n.attempts)
               k == IF Expired(n, t) THEN 0 ELSE n.window_start + Window
    <2>1. SpentIn(entries', t, a) = s /\ ClosesIn(entries', t, a) = k
      BY <1>4
    <2> HIDE DEF s, k
    <2>2. Promise!Become(t, a, s, k, F)
      BY <1>5, <2>1, Becomes
    <2> QED
      BY <2>2 DEF s, k
  <1> QED
    BY <1>3, <1>6

(* The entry that Counted leaves is the abstract limiter's count, whether   *)
(* the address was tracked, its window ended since the cleaning, or it is   *)
(* new.                                                                     *)
LEMMA CountedIs ==
    ASSUME LimiterConstants, IInv, NEW a \in Ip, NEW t \in Nat, now <= t,
           NEW x, x = IF a \in Kept THEN entries[a] ELSE [attempts |-> 0, window_start |-> t],
           NEW n, n = Counted(x, t), NEW s, s = Promise!SpentAt(a, t)
    PROVE  /\ n \in Entry /\ n.attempts > 0 /\ n.window_start <= t /\ ~Expired(n, t)
           /\ s \in 0 .. Max /\ (s < Max <=> Allowed(x, t))
           /\ Max - Left(n.attempts) = IF s < Max THEN s + 1 ELSE Max
           /\ n.window_start + Window = IF s = 0 THEN t + Window ELSE Promise!ClosesAt(a, t)
  <1>1. s = SpentIn(entries, t, a) /\ Promise!ClosesAt(a, t) = ClosesIn(entries, t, a)
    BY AtLater
  <1>2. Max \in Nat \ {0} /\ Window \in Nat \ {0} /\ now \in Nat
    BY DEF LimiterConstants, IInv
  <1>3. x \in Entry /\ x.window_start <= t
    <2>1. CASE a \in Kept
      <3>1. entries[a] \in Entry /\ entries[a].window_start <= now
        BY <2>1 DEF Kept, IInv, IsTable
      <3> QED
        BY <1>2, <2>1, <3>1 DEF Entry
    <2>2. CASE a \notin Kept
      BY <2>2 DEF Entry
    <2> QED
      BY <2>1, <2>2
  <1>4. /\ x.attempts \in Nat /\ x.window_start \in Nat
        /\ x = [attempts |-> x.attempts, window_start |-> x.window_start]
    BY <1>3 DEF Entry
  <1>5. CASE a \in Kept /\ ~Expired(entries[a], t)
    <2>1. s = Max - Left(x.attempts) /\ Promise!ClosesAt(a, t) = x.window_start + Window
      BY <1>1, <1>5 DEF SpentIn, ClosesIn, Kept
    <2>2. x.attempts > 0 /\ ~Expired(x, t)
      BY <1>5 DEF IInv, Kept
    <2>3. n = [attempts |-> x.attempts + 1, window_start |-> x.window_start]
      BY <1>4, <2>2 DEF Counted
    <2>4. n \in Entry /\ n.attempts = x.attempts + 1 /\ n.window_start = x.window_start /\ ~Expired(n, t)
      BY <1>4, <2>2, <2>3 DEF Entry, Expired
    <2>5. s \in 1 .. Max /\ (s < Max <=> x.attempts < Max)
      BY <1>2, <1>4, <2>1, <2>2 DEF Left
    <2>6. Max - Left(n.attempts) = IF s < Max THEN s + 1 ELSE Max
      BY <1>2, <1>4, <2>1, <2>2, <2>4 DEF Left
    <2> QED
      BY <1>2, <1>3, <1>4, <2>1, <2>2, <2>4, <2>5, <2>6 DEF Allowed
  <1>6. CASE ~(a \in Kept /\ ~Expired(entries[a], t))
    <2>1. s = 0
      <3>1. CASE a \in Kept
        BY <1>1, <1>6, <3>1 DEF SpentIn
      <3>2. CASE a \notin Kept
        <4>1. a \in DOMAIN entries => Expired(entries[a], t)
          <5> SUFFICES ASSUME a \in DOMAIN entries PROVE Expired(entries[a], t)
            OBVIOUS
          <5>1. Expired(entries[a], now)
            BY <3>2 DEF Kept
          <5>2. entries[a].window_start \in Nat
            BY DEF IInv, IsTable, Entry
          <5> QED
            BY <1>2, <5>1, <5>2 DEF Expired
        <4> QED
          BY <1>1, <4>1 DEF SpentIn
      <3> QED
        BY <3>1, <3>2
    <2>2. n = [attempts |-> 1, window_start |-> t] /\ Allowed(x, t)
      <3>1. CASE a \in Kept
        BY <1>6, <3>1 DEF Counted, Allowed
      <3>2. CASE a \notin Kept
        <4>1. x = [attempts |-> 0, window_start |-> t] /\ ~Expired(x, t)
          BY <1>2, <3>2 DEF Expired
        <4> QED
          BY <1>2, <4>1 DEF Counted, Allowed
      <3> QED
        BY <3>1, <3>2
    <2>3. n \in Entry /\ n.attempts = 1 /\ n.window_start = t /\ ~Expired(n, t)
      BY <1>2, <2>2 DEF Entry, Expired
    <2>4. Max - Left(n.attempts) = 1
      BY <1>2, <2>3 DEF Left
    <2> QED
      BY <1>2, <2>1, <2>2, <2>3, <2>4
  <1> QED
    BY <1>5, <1>6

(* Dropping ended entries, and the one of the address or not, changes       *)
(* nothing for the other addresses.                                         *)
LEMMA Thinned ==
    ASSUME LimiterConstants, IInv, NEW a \in Ip, NEW t \in Nat, now <= t,
           NEW K, K \subseteq DOMAIN entries, Kept \subseteq K \union {a},
           entries' = [b \in K |-> entries[b]], now' = t
    PROVE  /\ IInv'
           /\ Promise!Become(t, a, SpentIn(entries', t, a), ClosesIn(entries', t, a), {})
           /\ (a \in Kept => a \in K) =>
                Promise!Become(t, a, Promise!SpentAt(a, t), Promise!ClosesAt(a, t), {})
  <1>1. IInv'
    <2>1. IsFiniteSet(K) /\ Cardinality(K) <= MaxEntries
      <3>1. /\ K \in SUBSET DOMAIN entries
            /\ IsFiniteSet(DOMAIN entries) /\ Cardinality(DOMAIN entries) <= MaxEntries
        BY DEF IInv
      <3>2. IsFiniteSet(K) /\ Cardinality(K) <= Cardinality(DOMAIN entries)
        BY <3>1, FS_Subset
      <3>3. Cardinality(K) \in Nat /\ Cardinality(DOMAIN entries) \in Nat
        BY <3>1, <3>2, FS_CardinalityType
      <3> QED
        BY <3>1, <3>2, <3>3 DEF LimiterConstants
    <2>2. \A b \in K : entries[b] \in Entry /\ entries[b].attempts > 0 /\ entries[b].window_start <= t
      <3> SUFFICES ASSUME NEW b \in K
                   PROVE  entries[b] \in Entry /\ entries[b].attempts > 0 /\ entries[b].window_start <= t
        OBVIOUS
      <3>1. /\ entries[b] \in Entry /\ entries[b].attempts > 0
            /\ entries[b].window_start <= now /\ now \in Nat
        BY DEF IInv, IsTable
      <3> QED
        BY <3>1 DEF Entry
    <2>3. K \subseteq Ip
      BY DEF IInv, IsTable
    <2>4. DOMAIN entries' = K /\ \A b \in K : entries'[b] = entries[b]
      OBVIOUS
    <2>5. IsTable(entries')
      BY <2>2, <2>3, <2>4 DEF IsTable
    <2> QED
      BY <2>1, <2>2, <2>4, <2>5 DEF IInv
  <1>2. ASSUME NEW b \in Ip, b \in Kept => b \in K
        PROVE  /\ SpentIn(entries', t, b) = Promise!SpentAt(b, t)
               /\ ClosesIn(entries', t, b) = Promise!ClosesAt(b, t)
    <2>1. /\ Promise!SpentAt(b, t) = SpentIn(entries, t, b)
          /\ Promise!ClosesAt(b, t) = ClosesIn(entries, t, b)
      BY AtLater
    <2>2. CASE b \in K
      BY <2>1, <2>2 DEF SpentIn, ClosesIn
    <2>3. CASE b \notin K
      <3>1. b \in DOMAIN entries => Expired(entries[b], t)
        <4> SUFFICES ASSUME b \in DOMAIN entries PROVE Expired(entries[b], t)
          OBVIOUS
        <4>1. Expired(entries[b], now)
          BY <1>2, <2>3 DEF Kept
        <4>2. entries[b].window_start \in Nat /\ now \in Nat /\ Window \in Nat
          BY DEF IInv, IsTable, Entry, LimiterConstants
        <4> QED
          BY <4>1, <4>2 DEF Expired
      <3> QED
        BY <2>1, <2>3, <3>1 DEF SpentIn, ClosesIn
    <2> QED
      BY <2>2, <2>3
  <1>3. Promise!Become(t, a, SpentIn(entries', t, a), ClosesIn(entries', t, a), {})
    <2>1. \A b \in Ip \ {a} :
             /\ SpentIn(entries', t, b) = IF b \in {} THEN 0 ELSE Promise!SpentAt(b, t)
             /\ ClosesIn(entries', t, b) = IF b \in {} THEN 0 ELSE Promise!ClosesAt(b, t)
      BY <1>2
    <2> DEFINE s == SpentIn(entries', t, a)
               k == ClosesIn(entries', t, a)
    <2>2. SpentIn(entries', t, a) = s /\ ClosesIn(entries', t, a) = k
      OBVIOUS
    <2> HIDE DEF s, k
    <2>3. Promise!Become(t, a, s, k, {})
      BY <2>1, <2>2, Becomes
    <2> QED
      BY <2>3 DEF s, k
  <1> QED
    BY <1>1, <1>2, <1>3

-----------------------------------------------------------------------------
(* The step of the abstract limiter, up to its bound on open windows. *)
Stepped(t) ==
    \/ \E a \in Ip, F \in {{}} \union {{b} : b \in Ip} :
        /\ F \subseteq Promise!Forgettable(a)
        /\ Promise!Attempt(a, t, F) \/ Promise!Record(a, t, F)
    \/ \E a \in Ip : Promise!Check(a, t) \/ Promise!Remaining(a, t) \/ Promise!Reset(a, t)
    \/ Promise!Pass(t)

(* try_check_and_record is an attempt of the abstract limiter. *)
LEMMA TryStep ==
    ASSUME LimiterConstants, IInv, NEW a \in Ip, NEW t \in Nat, now <= t, Try(a, t)
    PROVE  IInv' /\ Stepped(t)
  <1>1. PICK e \in Tracked(entries, a, now, t) :
           entries' = Tried(e, a, t) /\ answer' = Answer("try", a, Truth(Allowed(e[a], t)))
    BY DEF Try
  <1>2. PICK F \in {{}} \union {{b} : b \in Ip} :
                /\ F \subseteq Promise!Forgettable(a)
                /\ a \notin F
                /\ e = [b \in (Kept \ F) \union {a} |->
                            IF b \in Kept THEN entries[b] ELSE [attempts |-> 0, window_start |-> t]]
                /\ IsFiniteSet(DOMAIN e) /\ Cardinality(DOMAIN e) <= MaxEntries
    BY Zenon, TrackedForgets
  <1> DEFINE x == IF a \in Kept THEN entries[a] ELSE [attempts |-> 0, window_start |-> t]
             n == Counted(x, t)
             s == Promise!SpentAt(a, t)
  <1>3. e[a] = x /\ now' = t
    BY <1>2 DEF Try
  <1>4. /\ n \in Entry /\ n.attempts > 0 /\ n.window_start <= t /\ ~Expired(n, t)
        /\ s \in 0 .. Max /\ (s < Max <=> Allowed(x, t))
        /\ Max - Left(n.attempts) = IF s < Max THEN s + 1 ELSE Max
        /\ n.window_start + Window = IF s = 0 THEN t + Window ELSE Promise!ClosesAt(a, t)
    BY CountedIs
  <1>5. CASE Allowed(x, t)
    <2>1. entries' = [e EXCEPT ![a] = n]
      BY <1>1, <1>3, <1>5 DEF Tried
    <2> HIDE DEF n
    <2>2. IInv' /\ Promise!Become(t, a, IF Expired(n, t) THEN 0 ELSE Max - Left(n.attempts),
                                  IF Expired(n, t) THEN 0 ELSE n.window_start + Window, F)
      BY Zenon, <1>2, <1>3, <1>4, <2>1, Replaced
    <2>3. Promise!Become(t, a, IF s < Max THEN s + 1 ELSE Max,
                         IF s = 0 THEN t + Window ELSE Promise!ClosesAt(a, t), F)
      BY <1>4, <2>2
    <2>4. answer' = Promise!Answer("try", a, 1)
      BY <1>1, <1>3, <1>5 DEF Truth, Answer, Promise!Answer
    <2>5. Promise!Attempt(a, t, F)
      BY <1>4, <1>5, <2>3, <2>4 DEF Promise!Attempt, Promise!Count
    <2> QED
      BY <1>2, <2>2, <2>5 DEF Stepped
  <1>6. CASE ~Allowed(x, t)
    <2>1. a \in Kept /\ x = entries[a]
      <3>1. [attempts |-> 0, window_start |-> t].attempts < Max
        BY DEF LimiterConstants
      <3> QED
        BY <1>6, <3>1 DEF Allowed
    <2>2. x \in Entry /\ x.attempts > 0 /\ x.window_start <= now
      BY <2>1 DEF Kept, IInv, IsTable
    <2>3. x.window_start <= t
      BY <2>2 DEF IInv, Entry
    <2>4. ~Expired(x, t)
      BY <1>6 DEF Allowed
    <2>5. s = Max - Left(x.attempts) /\ Promise!ClosesAt(a, t) = x.window_start + Window
      BY <2>1, <2>4, AtLater DEF SpentIn, ClosesIn, Kept
    <2> HIDE DEF x, s
    <2>6. entries' = [e EXCEPT ![a] = x]
      BY <1>1, <1>2, <1>3, <1>6 DEF Tried
    <2>7. IInv' /\ Promise!Become(t, a, IF Expired(x, t) THEN 0 ELSE Max - Left(x.attempts),
                                  IF Expired(x, t) THEN 0 ELSE x.window_start + Window, F)
      BY Zenon, <1>2, <1>3, <2>2, <2>3, <2>6, Replaced
    <2>8. Promise!Become(t, a, s, Promise!ClosesAt(a, t), F)
      BY <2>4, <2>5, <2>7
    <2>9. answer' = Promise!Answer("try", a, 0)
      BY <1>1, <1>3, <1>6 DEF Truth, Answer, Promise!Answer
    <2>10. Promise!Attempt(a, t, F)
      BY <1>4, <1>6, <2>8, <2>9 DEF Promise!Attempt, s
    <2> QED
      BY <1>2, <2>7, <2>10 DEF Stepped
  <1> QED
    BY <1>5, <1>6

(* record_attempt is the abstract limiter's. *)
LEMMA RecordStep ==
    ASSUME LimiterConstants, IInv, NEW a \in Ip, NEW t \in Nat, now <= t, RecordAttempt(a, t)
    PROVE  IInv' /\ Stepped(t)
  <1>1. PICK e \in Tracked(entries, a, now, t) : entries' = Recorded(e, a, t)
    BY DEF RecordAttempt
  <1>2. PICK F \in {{}} \union {{b} : b \in Ip} :
                /\ F \subseteq Promise!Forgettable(a)
                /\ a \notin F
                /\ e = [b \in (Kept \ F) \union {a} |->
                            IF b \in Kept THEN entries[b] ELSE [attempts |-> 0, window_start |-> t]]
                /\ IsFiniteSet(DOMAIN e) /\ Cardinality(DOMAIN e) <= MaxEntries
    BY Zenon, TrackedForgets
  <1> DEFINE x == IF a \in Kept THEN entries[a] ELSE [attempts |-> 0, window_start |-> t]
             n == Counted(x, t)
             s == Promise!SpentAt(a, t)
  <1>3. e[a] = x /\ now' = t
    BY <1>2 DEF RecordAttempt
  <1>4. /\ n \in Entry /\ n.attempts > 0 /\ n.window_start <= t /\ ~Expired(n, t)
        /\ Max - Left(n.attempts) = IF s < Max THEN s + 1 ELSE Max
        /\ n.window_start + Window = IF s = 0 THEN t + Window ELSE Promise!ClosesAt(a, t)
    BY CountedIs
  <1>5. entries' = [e EXCEPT ![a] = n]
    BY <1>1, <1>3 DEF Recorded
  <1> HIDE DEF n
  <1>6. IInv' /\ Promise!Become(t, a, IF Expired(n, t) THEN 0 ELSE Max - Left(n.attempts),
                                IF Expired(n, t) THEN 0 ELSE n.window_start + Window, F)
    BY Zenon, <1>2, <1>3, <1>4, <1>5, Replaced
  <1>7. Promise!Become(t, a, IF s < Max THEN s + 1 ELSE Max,
                       IF s = 0 THEN t + Window ELSE Promise!ClosesAt(a, t), F)
    BY <1>4, <1>6
  <1>8. answer' = Promise!Answer("record", a, 0)
    BY DEF RecordAttempt, Answer, Promise!Answer
  <1>9. Promise!Record(a, t, F)
    BY <1>7, <1>8 DEF Promise!Record, Promise!Count
  <1> QED
    BY <1>2, <1>6, <1>9 DEF Stepped

(* check cleans the table and answers what the abstract limiter answers. *)
LEMMA CheckStep ==
    ASSUME LimiterConstants, IInv, NEW a \in Ip, NEW t \in Nat, now <= t, Check(a, t)
    PROVE  IInv' /\ Stepped(t)
  <1>1. entries' = [b \in Kept |-> entries[b]] /\ now' = t
    BY DEF Check, clean_expired, Restrict, Kept
  <1>2. Kept \subseteq DOMAIN entries
    BY DEF Kept
  <1>3. IInv' /\ Promise!Become(t, a, Promise!SpentAt(a, t), Promise!ClosesAt(a, t), {})
    BY <1>1, <1>2, Thinned
  <1> DEFINE x == IF a \in Kept THEN entries[a] ELSE [attempts |-> 0, window_start |-> t]
  <1>4. Promise!SpentAt(a, t) < Max <=> Allowed(x, t)
    BY CountedIs
  <1>5. check(entries, a, now, t) <=> Allowed(x, t)
    <2>1. check(entries, a, now, t) <=> (a \in Kept => Allowed(entries[a], t))
      BY DEF check, clean_expired, Restrict, Kept
    <2>2. Allowed([attempts |-> 0, window_start |-> t], t)
      BY DEF Allowed, LimiterConstants
    <2> QED
      BY <2>1, <2>2
  <1>6. answer' = Promise!Answer("check", a, IF Promise!SpentAt(a, t) < Max THEN 1 ELSE 0)
    BY <1>4, <1>5 DEF Check, Truth, Answer, Promise!Answer
  <1>7. Promise!Check(a, t)
    BY <1>3, <1>6 DEF Promise!Check
  <1> QED
    BY <1>3, <1>7 DEF Stepped

(* The table as it stands, some time later. *)
LEMMA Idle ==
    ASSUME LimiterConstants, IInv, NEW a \in Ip, NEW t \in Nat, now <= t,
           now' = t, UNCHANGED entries
    PROVE  IInv' /\ Promise!Become(t, a, Promise!SpentAt(a, t), Promise!ClosesAt(a, t), {})
  <1>1. entries' = [b \in DOMAIN entries |-> entries[b]]
    BY DEF IInv, IsTable
  <1>2. Kept \subseteq DOMAIN entries
    BY DEF Kept
  <1> QED
    BY <1>1, <1>2, Thinned

(* remaining_attempts answers what the abstract limiter has left. *)
LEMMA RemainingStep ==
    ASSUME LimiterConstants, IInv, NEW a \in Ip, NEW t \in Nat, now <= t, Remaining(a, t)
    PROVE  IInv' /\ Stepped(t)
  <1>1. IInv' /\ Promise!Become(t, a, Promise!SpentAt(a, t), Promise!ClosesAt(a, t), {})
    BY Idle DEF Remaining
  <1>2. remaining_attempts(entries, a, t) = Max - Promise!SpentAt(a, t)
    <2>1. Promise!SpentAt(a, t) = SpentIn(entries, t, a) /\ Max \in Nat
      BY AtLater DEF LimiterConstants
    <2>2. CASE a \in DOMAIN entries /\ ~Expired(entries[a], t)
      <3>1. entries[a].attempts \in Nat
        BY <2>2 DEF IInv, IsTable, Entry
      <3>2. Left(entries[a].attempts) \in Int
        BY <2>1, <3>1 DEF Left
      <3> QED
        BY <2>1, <2>2, <3>2 DEF SpentIn, remaining_attempts
    <2>3. CASE ~(a \in DOMAIN entries /\ ~Expired(entries[a], t))
      BY <2>1, <2>3 DEF SpentIn, remaining_attempts
    <2> QED
      BY <2>2, <2>3
  <1>3. Promise!Remaining(a, t)
    BY <1>1, <1>2 DEF Promise!Remaining, Remaining, Answer, Promise!Answer
  <1> QED
    BY <1>1, <1>3 DEF Stepped

(* reset closes the window of the address and no other. *)
LEMMA ResetStep ==
    ASSUME LimiterConstants, IInv, NEW a \in Ip, NEW t \in Nat, t = now, Reset(a)
    PROVE  IInv' /\ Stepped(t)
  <1> DEFINE K == DOMAIN entries \ {a}
  <1>1. entries' = [b \in K |-> entries[b]] /\ now' = t /\ now <= t
    BY DEF Reset, reset, Restrict, IInv
  <1>2. K \subseteq DOMAIN entries /\ Kept \subseteq K \union {a} /\ a \notin K
    BY DEF Kept
  <1> HIDE DEF K
  <1>3. IInv' /\ Promise!Become(t, a, SpentIn(entries', t, a), ClosesIn(entries', t, a), {})
    BY <1>1, <1>2, Thinned
  <1>4. SpentIn(entries', t, a) = 0 /\ ClosesIn(entries', t, a) = 0
    BY <1>1, <1>2 DEF SpentIn, ClosesIn
  <1>5. Promise!Reset(a, t)
    BY <1>3, <1>4 DEF Promise!Reset, Reset, Answer, Promise!Answer
  <1> QED
    BY <1>3, <1>5 DEF Stepped

(* Every step keeps the table in order and is a step of FixedWindow. *)
LEMMA StepImplements ==
    ASSUME LimiterConstants, Ip # {}, IInv, [Next]_vars
    PROVE  IInv' /\ [Promise!Next]_(Promise!vars)
  <1>1. CASE Next
    <2>1. \E t \in {now, now + 1} : IInv' /\ Stepped(t)
      <3>1. now \in Nat
        BY DEF IInv
      <3>2. ASSUME NEW a \in Ip, NEW t \in Instants,
                   Try(a, t) \/ RecordAttempt(a, t) \/ Check(a, t) \/ Remaining(a, t)
            PROVE  \E u \in {now, now + 1} : IInv' /\ Stepped(u)
        <4>1. t \in Nat /\ now <= t /\ t \in {now, now + 1}
          BY <3>1 DEF Instants
        <4> QED
          BY <3>2, <4>1, TryStep, RecordStep, CheckStep, RemainingStep
      <3>3. ASSUME NEW a \in Ip, Reset(a)
            PROVE  \E u \in {now, now + 1} : IInv' /\ Stepped(u)
        <4>1. PICK t \in Nat : t = now
          BY <3>1
        <4>2. IInv' /\ Stepped(t)
          BY <3>3, <4>1, ResetStep
        <4> QED
          BY <4>1, <4>2
      <3>4. ASSUME Tick
            PROVE  \E u \in {now, now + 1} : IInv' /\ Stepped(u)
        <4>1. PICK a \in Ip : TRUE
          OBVIOUS
        <4>2. PICK t \in Nat : t = now + 1 /\ now <= t
          BY <3>1
        <4>3. IInv' /\ Promise!Become(t, a, Promise!SpentAt(a, t), Promise!ClosesAt(a, t), {})
          BY <3>4, <4>2, Idle DEF Tick
        <4>4. Promise!Pass(t)
          BY <3>4, <4>3 DEF Promise!Pass, Tick
        <4> QED
          BY <4>2, <4>3, <4>4 DEF Stepped
      <3> QED
        BY <1>1, <3>2, <3>3, <3>4 DEF Next
    <2> DEFINE S == {a \in Ip : (IF Live(a)' THEN Max - Left(entries'[a].attempts) ELSE 0) > 0}
    <2>2. Promise!Cardinality(S) <= MaxEntries
      BY <2>1, Fits
    <2>3. Promise!Next
      BY Zenon, <2>1, <2>2 DEF Promise!Next, Stepped
    <2> QED
      BY <2>1, <2>3
  <1>2. CASE UNCHANGED vars
    BY <1>2 DEF vars, IInv, Promise!vars, Live
  <1> QED
    BY <1>1, <1>2

-----------------------------------------------------------------------------
(* The address of a request. *)

(* The header is what the client wrote, followed by the way of the request  *)
(* up to the hop before the last.                                           *)
HeaderIsPath ==
    /\ Len(forwarded) = Len(sent) + Len(path) - 1
    /\ \A k \in 1 .. Len(path) - 1 : forwarded[Len(sent) + k] = path[k]

AddressInv ==
    /\ Addresses!TypeOK
    /\ HeaderIsPath
    /\ CountedUnderLastUntrusted
    /\ ScrapedByListed

-----------------------------------------------------------------------------
(* A set of places that is not empty has a last one. *)
LEMMA LastPlace ==
    ASSUME NEW n \in Nat, NEW S, S \subseteq 1 .. n, S # {}
    PROVE  \E k \in S : \A j \in S : j <= k
  <1> DEFINE R == OpToRel(<, Nat)
             T == {n - k : k \in S}
  <1>1. IsWellFoundedOn(R, Nat)
    BY NatLessThanWellFounded, Zenon
  <1>2. \A x, y \in Nat : y < x => <<y, x>> \in R
    BY DEF OpToRel
  <1>3. T \subseteq Nat /\ T # {}
    <2>1. \A k \in S : n - k \in Nat
      OBVIOUS
    <2>2. PICK k \in S : TRUE
      BY Zenon
    <2>3. n - k \in T
      BY <2>2
    <2> QED
      BY <2>1, <2>3
  <1> HIDE DEF R, T
  <1>4. \E x \in T : \A y \in T : ~(<<y, x>> \in R)
    BY <1>1, <1>3, WFMin, Zenon
  <1>5. PICK x \in T : \A y \in T : ~(<<y, x>> \in R)
    BY <1>4
  <1>6. PICK k \in S : x = n - k
    BY <1>5 DEF T
  <1>7. ASSUME NEW j \in S
        PROVE  j <= k
    <2>1. n - j \in T
      BY DEF T
    <2>2. ~(n - j < n - k)
      BY Zenon, <1>2, <1>3, <1>5, <1>6, <2>1
    <2> QED
      BY <2>2
  <1> QED
    BY <1>7

(* Candidate is the place resolve_client_ip stops at when it walks the      *)
(* header from the right: the only place with nobody untrusted behind it.   *)
LEMMA CandidateIsLast ==
    ASSUME NEW xff \in Seq(Addresses!Entry), NEW k \in 1 .. Len(xff),
           xff[k] \in Address \ Trusted,
           \A j \in (k + 1) .. Len(xff) : xff[j] \notin Address \ Trusted
    PROVE  Addresses!Candidate(xff) = k
  <1> DEFINE Last(c) == /\ xff[c] \in Address \ Trusted
                        /\ \A j \in (c + 1) .. Len(xff) : xff[j] \notin Address \ Trusted
  <1>1. Last(k)
    OBVIOUS
  <1>2. ASSUME NEW c \in 1 .. Len(xff), Last(c)
        PROVE  c = k
    <2>1. CASE c < k
      <3>1. k \in (c + 1) .. Len(xff)
        BY <2>1
      <3> QED
        BY <1>2, <3>1
    <2>2. CASE k < c
      <3>1. c \in (k + 1) .. Len(xff)
        BY <2>2
      <3> QED
        BY <1>2, <3>1
    <2> QED
      BY <2>1, <2>2
  <1> HIDE DEF Last
  <1>3. (CHOOSE c \in 1 .. Len(xff) : Last(c)) = k
    BY <1>1, <1>2
  <1> QED
    BY <1>3 DEF Addresses!Candidate, Last

(* What resolve_client_ip returns is an address. *)
LEMMA ResolvesToIp ==
    ASSUME Addresses!TypeOK
    PROVE  Addresses!resolve_client_ip(Addresses!Peer, forwarded, real) \in Address
  <1>1. Addresses!Peer \in Address
    BY DEF Addresses!Peer, Addresses!TypeOK
  <1>2. ASSUME NEW c \in 1 .. Len(forwarded), forwarded[c] \in Address \ Trusted
        PROVE  forwarded[Addresses!Candidate(forwarded)] \in Address
    <2> DEFINE S == {d \in 1 .. Len(forwarded) : forwarded[d] \in Address \ Trusted}
    <2>1. Len(forwarded) \in Nat /\ forwarded \in Seq(Addresses!Entry)
      BY DEF Addresses!TypeOK
    <2>2. S \subseteq 1 .. Len(forwarded) /\ S # {}
      BY <1>2
    <2> HIDE DEF S
    <2>3. PICK k \in S : \A j \in S : j <= k
      BY Zenon, <2>1, <2>2, LastPlace
    <2>4. \A j \in (k + 1) .. Len(forwarded) : forwarded[j] \notin Address \ Trusted
      BY <2>1, <2>3 DEF S
    <2>5. k \in 1 .. Len(forwarded) /\ forwarded[k] \in Address \ Trusted
      BY <2>3 DEF S
    <2>6. Addresses!Candidate(forwarded) = k
      BY <2>1, <2>4, <2>5, CandidateIsLast
    <2> QED
      BY <2>5, <2>6
  <1> QED
    BY <1>1, <1>2 DEF Addresses!resolve_client_ip

(* The walk over the header finds the last address on the way that is not a *)
(* trusted proxy's; X-Real-IP gives it where the header cannot be read.     *)
LEMMA ResolvesToLastUntrusted ==
    ASSUME Addresses!TypeOK, HeaderIsPath, NEW a \in Address, Addresses!LastUntrusted(a),
           Addresses!Told(a)
    PROVE  Addresses!resolve_client_ip(Addresses!Peer, forwarded, real) = a
  <1>1. PICK k \in 1 .. Len(path) : /\ path[k] = a
                                    /\ a \notin Trusted
                                    /\ \A j \in (k + 1) .. Len(path) : path[j] \in Trusted
    BY DEF Addresses!LastUntrusted
  <1>2. CASE k = Len(path)
    BY <1>1, <1>2 DEF Addresses!resolve_client_ip, Addresses!Peer
  <1>3. CASE k < Len(path)
    <2>0. /\ Len(path) \in Nat /\ Len(sent) \in Nat /\ Len(forwarded) \in Nat
          /\ forwarded \in Seq(Addresses!Entry)
      BY DEF Addresses!TypeOK
    <2> DEFINE c == Len(sent) + k
    <2>1. c \in 1 .. Len(forwarded)
      BY <1>3, <2>0 DEF HeaderIsPath
    <2>2. forwarded[c] = a
      BY <1>1, <1>3, <2>0 DEF HeaderIsPath
    <2>3. ASSUME NEW j \in (c + 1) .. Len(forwarded)
          PROVE  forwarded[j] \notin Address \ Trusted
      <3> DEFINE i == j - Len(sent)
      <3>1. i \in (k + 1) .. Len(path) - 1
        BY <2>0 DEF HeaderIsPath
      <3>2. forwarded[Len(sent) + i] = path[i]
        BY <2>0, <3>1 DEF HeaderIsPath
      <3>3. path[i] \in Trusted
        BY <1>1, <2>0, <3>1
      <3>4. Len(sent) + i = j
        BY <2>0
      <3> HIDE DEF i
      <3> QED
        BY <3>2, <3>3, <3>4
    <2> HIDE DEF c
    <2>4. Addresses!Candidate(forwarded) = c
      BY <1>1, <2>0, <2>1, <2>2, <2>3, CandidateIsLast
    <2>5. Addresses!Peer \in Trusted
      BY <1>1, <1>3, <2>0 DEF Addresses!Peer
    <2>6. CASE Addresses!Legible(forwarded)
      BY <1>1, <2>1, <2>2, <2>4, <2>5, <2>6 DEF Addresses!resolve_client_ip
    <2>7. CASE ~Addresses!Legible(forwarded)
      <3>1. real = a
        BY <1>1, <2>5, <2>7 DEF Addresses!Told
      <3> QED
        BY <2>5, <2>7, <3>1 DEF Addresses!resolve_client_ip
    <2> QED
      BY <2>6, <2>7
  <1> QED
    BY <1>2, <1>3 DEF Addresses!TypeOK

-----------------------------------------------------------------------------
(* A request as its client sends it. *)
LEMMA AddressInitInv == Addresses!Init => AddressInv
  <1> SUFFICES ASSUME Addresses!Init PROVE AddressInv
    OBVIOUS
  <1>1. sent \in Seq(Addresses!Entry)
    <2>1. PICK n \in 0 .. MaxSent : sent \in [1 .. n -> Addresses!Entry]
      BY DEF Addresses!Init, Addresses!Written
    <2> QED
      BY <2>1, ThrottlingConstants DEF Addresses!AddressConstants
  <1>2. PICK client \in Address : path = <<client>>
    BY DEF Addresses!Init
  <1>3. Addresses!TypeOK
    BY <1>1, <1>2 DEF Addresses!Init, Addresses!TypeOK, Addresses!Entry
  <1>4. HeaderIsPath
    BY <1>1, <1>2 DEF Addresses!Init, HeaderIsPath
  <1> QED
    BY <1>3, <1>4
    DEF Addresses!Init, AddressInv, CountedUnderLastUntrusted, Addresses!CountedUnderLastUntrusted,
        ScrapedByListed, Addresses!ScrapedByListed

(* A proxy sends it on. *)
LEMMA ForwardInv ==
    ASSUME AddressInv, NEW proxy \in Address, Addresses!Forward(proxy)
    PROVE  AddressInv'
  <1> USE DEF AddressInv
  <1>1. Addresses!Peer \in Address
    BY DEF Addresses!Peer, Addresses!TypeOK
  <1>2. Addresses!TypeOK'
    <2>1. forwarded' \in Seq(Addresses!Entry)
      BY <1>1 DEF Addresses!Forward, Addresses!TypeOK, Addresses!Entry
    <2>2. path' \in Seq(Address) /\ path' # <<>>
      BY DEF Addresses!Forward, Addresses!TypeOK
    <2>3. real' \in Addresses!Entry
      BY <1>1 DEF Addresses!Forward, Addresses!TypeOK, Addresses!Entry
    <2> QED
      BY <2>1, <2>2, <2>3 DEF Addresses!Forward, Addresses!TypeOK
  <1>3. HeaderIsPath'
    <2>1. /\ Len(forwarded') = Len(forwarded) + 1 /\ Len(path') = Len(path) + 1
          /\ sent' = sent
          /\ Len(path) \in Nat /\ Len(sent) \in Nat
      BY <1>1 DEF Addresses!Forward, Addresses!TypeOK, Addresses!Entry
    <2>2. ASSUME NEW k \in 1 .. Len(path)
          PROVE  forwarded'[Len(sent) + k] = path'[k]
      <3>1. path'[k] = path[k]
        BY <2>1 DEF Addresses!Forward, Addresses!TypeOK
      <3>2. CASE k = Len(path)
        BY <1>1, <2>1, <3>1, <3>2
        DEF Addresses!Forward, Addresses!TypeOK, HeaderIsPath, Addresses!Peer, Addresses!Entry
      <3>3. CASE k < Len(path)
        <4>1. k \in 1 .. Len(path) - 1
          BY <2>1, <3>3
        <4>2. forwarded[Len(sent) + k] = path[k] /\ Len(sent) + k \in 1 .. Len(forwarded)
          BY <2>1, <4>1 DEF HeaderIsPath
        <4>3. forwarded \in Seq(Addresses!Entry) /\ forwarded' = Append(forwarded, Addresses!Peer)
          BY DEF Addresses!Forward, Addresses!TypeOK
        <4> HIDE DEF AddressInv
        <4>4. forwarded'[Len(sent) + k] = forwarded[Len(sent) + k]
          BY <4>2, <4>3
        <4> QED
          BY <3>1, <4>2, <4>4
      <3> QED
        BY <2>1, <3>2, <3>3
    <2> QED
      BY <2>1, <2>2 DEF HeaderIsPath
  <1>4. resolved' = Junk /\ scraped' = "none"
    BY ThrottlingConstants DEF Addresses!Forward, Addresses!TypeOK, Addresses!AddressConstants
  <1> QED
    BY <1>2, <1>3, <1>4
    DEF CountedUnderLastUntrusted, Addresses!CountedUnderLastUntrusted,
        ScrapedByListed, Addresses!ScrapedByListed

(* The service resolves the address, for a limiter or for /metrics. *)
LEMMA ResolveInv ==
    ASSUME AddressInv, Addresses!Resolve \/ Addresses!Scrape
    PROVE  AddressInv'
  <1> USE DEF AddressInv
  <1> DEFINE ip == Addresses!resolve_client_ip(Addresses!Peer, forwarded, real)
  <1>1. ip \in Address
    BY ResolvesToIp
  <1>2. \A a \in Address : Addresses!LastUntrusted(a) /\ Addresses!Told(a) => ip = a
    BY ResolvesToLastUntrusted
  <1> HIDE DEF ip
  <1>3. /\ resolved' = ip
        /\ UNCHANGED <<sent, path, forwarded, real>>
        /\ resolved = Junk
    BY DEF Addresses!Resolve, Addresses!Scrape, ip
  <1>4. \A a : /\ Addresses!LastUntrusted(a)' <=> Addresses!LastUntrusted(a)
               /\ Addresses!Told(a)' <=> Addresses!Told(a)
    BY <1>3 DEF Addresses!LastUntrusted, Addresses!Told, Addresses!Legible, Addresses!Peer
  <1>5. scraped = "none"
    BY <1>3, ThrottlingConstants DEF Addresses!TypeOK, Addresses!AddressConstants
  <1>6. \/ scraped' = "none"
        \/ scraped' = IF Addresses!is_metrics_access_allowed(ip) THEN "served" ELSE "forbidden"
    BY <1>3, <1>5 DEF Addresses!Resolve, Addresses!Scrape
  <1>7. Addresses!TypeOK' /\ HeaderIsPath'
    BY <1>1, <1>3, <1>6 DEF Addresses!TypeOK, HeaderIsPath, Addresses!Entry
  <1>8. CountedUnderLastUntrusted'
    BY <1>2, <1>3, <1>4 DEF CountedUnderLastUntrusted, Addresses!CountedUnderLastUntrusted
  <1>9. ScrapedByListed'
    BY <1>2, <1>4, <1>6
    DEF ScrapedByListed, Addresses!ScrapedByListed, Addresses!is_metrics_access_allowed
  <1> QED
    BY <1>1, <1>3, <1>7, <1>8, <1>9

(* The invariant is inductive. *)
LEMMA AddressNextInv == AddressInv /\ [Addresses!Next]_(Addresses!vars) => AddressInv'
  <1> SUFFICES ASSUME AddressInv, [Addresses!Next]_(Addresses!vars) PROVE AddressInv'
    OBVIOUS
  <1>1. ASSUME NEW proxy \in Address, Addresses!Forward(proxy) PROVE AddressInv'
    BY <1>1, ForwardInv
  <1>2. CASE Addresses!Resolve \/ Addresses!Scrape
    BY <1>2, ResolveInv
  <1>3. CASE UNCHANGED Addresses!vars
    BY <1>3
    DEF AddressInv, Addresses!TypeOK, HeaderIsPath,
        CountedUnderLastUntrusted, Addresses!CountedUnderLastUntrusted,
        ScrapedByListed, Addresses!ScrapedByListed,
        Addresses!LastUntrusted, Addresses!Told, Addresses!Legible, Addresses!Peer,
        Addresses!vars
  <1> QED
    BY <1>1, <1>2, <1>3 DEF Addresses!Next

-----------------------------------------------------------------------------

(* The in-memory limiter implements FixedWindow: for any set of addresses,  *)
(* budget, window and size of the table, every sequence of operations, with *)
(* the cleaning, the eviction of memory.rs and the second reading of the    *)
(* clock in it, is one of the abstract limiter's.                           *)
THEOREM KeepsFixedWindow == Spec => ImplementsFixedWindow
  <1>1. Init => IInv /\ Promise!Init
    <2> SUFFICES ASSUME Init PROVE IInv /\ Promise!Init
      OBVIOUS
    <2>1. DOMAIN entries = {} /\ entries = [a \in {} |-> 0] /\ now = 0
      BY DEF Init, Empty
    <2>2. IsFiniteSet(DOMAIN entries) /\ Cardinality(DOMAIN entries) = 0
      BY <2>1, FS_EmptySet
    <2>3. IInv
      BY <2>1, <2>2, ThrottlingConstants DEF IInv, IsTable, LimiterConstants
    <2>4. Promise!Init
      BY <2>1 DEF Promise!Init, Init, Live, NoAnswer, Promise!NoAnswer
    <2> QED
      BY <2>3, <2>4
  <1>2. IInv /\ [Next]_vars => IInv' /\ [Promise!Next]_(Promise!vars)
    BY StepImplements, ThrottlingConstants
  <1> QED
    BY <1>1, <1>2, PTL DEF Spec, ImplementsFixedWindow, Promise!Spec

(* Whichever entries the client wrote and however many proxies a request    *)
(* passed, resolve_client_ip returns the last address on its way that is    *)
(* not a trusted proxy's, if to_str() can read the header or the proxies    *)
(* have X-Real-IP name that address.                                        *)
THEOREM ResolvedIsLastUntrusted == Addresses!Spec => []CountedUnderLastUntrusted
  <1>1. AddressInv => CountedUnderLastUntrusted
    BY DEF AddressInv
  <1> QED
    BY AddressInitInv, AddressNextInv, <1>1, PTL DEF Addresses!Spec

(* /metrics answers a request from outside whose origin the headers tell    *)
(* only when that address is on METRICS_ALLOWED_IPS or this machine's, if   *)
(* there is a list.                                                         *)
THEOREM MetricsOnlyForListed == Addresses!Spec => []ScrapedByListed
  <1>1. AddressInv => ScrapedByListed
    BY DEF AddressInv
  <1> QED
    BY AddressInitInv, AddressNextInv, <1>1, PTL DEF Addresses!Spec
=============================================================================
