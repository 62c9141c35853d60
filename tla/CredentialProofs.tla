-------------------------- MODULE CredentialProofs --------------------------
(***************************************************************************)
(* What it takes to judge a credential: the permits of run_bounded, for    *)
(* any number of tasks and calls and any configured limit; the work of a   *)
(* login, for any number of threads and any costs; Google's keys and the   *)
(* blacklist in memory, for any number of logins, tokens and lookups and   *)
(* any lifetimes.                                                          *)
(***************************************************************************)
EXTENDS BcryptWork, Caches, FiniteSetTheorems, TLAPS

-----------------------------------------------------------------------------
(* The permits of run_bounded. *)

(* Who is in the queue waits, and is in it once. *)
QueueIsWaiting ==
    /\ \A k \in DOMAIN queue : pc[queue[k]] = "queued"
    /\ \A j, k \in DOMAIN queue : queue[j] = queue[k] => j = k

(* The work of a task that has not spawned its present call is of earlier   *)
(* calls.                                                                   *)
WorkIsPast ==
    \A w \in threads :
        /\ w.call <= calls[w.caller]
        /\ pc[w.caller] \in {"queued", "granted"} => w.call < calls[w.caller]

BcryptInv ==
    /\ TypeOK
    /\ QueueIsWaiting
    /\ WorkIsPast
    /\ IsFiniteSet(threads) /\ IsFiniteSet(Granted)
    /\ PermitsConserved

-----------------------------------------------------------------------------
(* A task that is assigned a permit: one more. *)
LEMMA GrantedGrows ==
    ASSUME TypeOK, IsFiniteSet(Granted), NEW c \in Caller, pc[c] # "granted",
           pc' = [pc EXCEPT ![c] = "granted"]
    PROVE  IsFiniteSet(Granted') /\ Cardinality(Granted') = Cardinality(Granted) + 1
  <1> DEFINE G == Granted
  <1>1. Granted' = G \union {c} /\ c \notin G
    BY DEF Granted, TypeOK
  <1> HIDE DEF G
  <1>2. IsFiniteSet(G \union {c}) /\ Cardinality(G \union {c}) = Cardinality(G) + 1
    BY <1>1, FS_AddElement DEF G
  <1> QED
    BY <1>1, <1>2 DEF G

(* A task that passes its permit on or gives it back: one less. *)
LEMMA GrantedShrinks ==
    ASSUME TypeOK, IsFiniteSet(Granted), NEW c \in Caller, pc[c] = "granted",
           NEW s, s # "granted", pc' = [pc EXCEPT ![c] = s]
    PROVE  IsFiniteSet(Granted') /\ Cardinality(Granted') = Cardinality(Granted) - 1
  <1> DEFINE G == Granted
  <1>1. Granted' = G \ {c} /\ c \in G
    BY DEF Granted, TypeOK
  <1> HIDE DEF G
  <1>2. IsFiniteSet(G \ {c}) /\ Cardinality(G \ {c}) = Cardinality(G) - 1
    BY <1>1, FS_RemoveElement DEF G
  <1> QED
    BY <1>1, <1>2 DEF G

(* A task that has no permit assigned before or after: as many as before. *)
LEMMA GrantedStays ==
    ASSUME TypeOK, NEW c \in Caller, pc[c] # "granted",
           NEW s, s # "granted", pc' = [pc EXCEPT ![c] = s]
    PROVE  Granted' = Granted
  BY DEF Granted, TypeOK

(* At the start every permit is free. *)
LEMMA BcryptInitInv == Init => BcryptInv
  <1> SUFFICES ASSUME Init PROVE BcryptInv
    OBVIOUS
  <1>1. Permits \in Nat
    BY BcryptConstants DEF Permits
  <1>2. Granted = {} /\ threads = {}
    BY DEF Init, Granted
  <1>3. PermitsConserved /\ IsFiniteSet(threads) /\ IsFiniteSet(Granted)
    BY <1>1, <1>2, FS_EmptySet DEF Init, PermitsConserved
  <1>4. TypeOK
    BY <1>1 DEF Init, TypeOK
  <1> QED
    BY <1>3, <1>4 DEF Init, BcryptInv, QueueIsWaiting, WorkIsPast

(* A call: a place in the queue, and no permit moves. *)
LEMMA CallInv ==
    ASSUME BcryptInv, NEW c \in Caller, Call(c)
    PROVE  BcryptInv'
  <1> USE DEF BcryptInv
  <1>1. Granted' = Granted
    BY GrantedStays, Zenon DEF Call
  <1>2. TypeOK'
    BY DEF Call, TypeOK
  <1>3. \A k \in DOMAIN queue : queue[k] \in Caller /\ queue[k] # c
    BY DEF Call, QueueIsWaiting, TypeOK
  <1>4. /\ Len(queue) \in Nat
        /\ DOMAIN queue = 1 .. Len(queue) /\ DOMAIN queue' = 1 .. Len(queue) + 1
        /\ \A k \in 1 .. Len(queue) : queue'[k] = queue[k]
        /\ queue'[Len(queue) + 1] = c
    BY DEF Call, TypeOK
  <1>5. QueueIsWaiting'
    <2>1. pc' = [pc EXCEPT ![c] = "queued"]
      BY DEF Call
    <2>2. \A k \in DOMAIN queue' : pc'[queue'[k]] = "queued"
      <3> SUFFICES ASSUME NEW k \in DOMAIN queue' PROVE pc'[queue'[k]] = "queued"
        OBVIOUS
      <3>1. CASE k \in DOMAIN queue
        BY <1>3, <1>4, <2>1, <3>1 DEF QueueIsWaiting, TypeOK
      <3>2. CASE k = Len(queue) + 1
        BY <1>4, <2>1, <3>2 DEF TypeOK
      <3> QED
        BY <1>4, <3>1, <3>2
    <2>3. \A j, k \in DOMAIN queue' : queue'[j] = queue'[k] => j = k
      BY <1>3, <1>4 DEF QueueIsWaiting
    <2> QED
      BY <2>2, <2>3 DEF QueueIsWaiting
  <1>6. WorkIsPast'
    BY DEF Call, WorkIsPast, TypeOK
  <1>7. threads' = threads /\ free' = free
    BY DEF Call
  <1> QED
    BY <1>1, <1>2, <1>5, <1>6, <1>7 DEF PermitsConserved, Permits

(* A permit passes from the semaphore to the task at the head. *)
LEMMA GrantInv ==
    ASSUME BcryptInv, Grant
    PROVE  BcryptInv'
  <1> USE DEF BcryptInv
  <1> DEFINE c == Head(queue)
  <1>1. c \in Caller /\ c = queue[1] /\ pc[c] = "queued"
    BY DEF Grant, QueueIsWaiting, TypeOK
  <1>2. /\ Len(queue) \in Nat \ {0}
        /\ DOMAIN queue = 1 .. Len(queue) /\ DOMAIN queue' = 1 .. Len(queue) - 1
        /\ \A k \in 1 .. Len(queue) - 1 : queue'[k] = queue[k + 1]
        /\ queue' \in Seq(Caller)
    BY DEF Grant, TypeOK
  <1>3. /\ pc' = [pc EXCEPT ![c] = "granted"] /\ free' = free - 1 /\ free > 0
        /\ UNCHANGED <<calls, threads>>
    BY DEF Grant
  <1> HIDE DEF c
  <1>4. TypeOK'
    BY <1>1, <1>2, <1>3 DEF TypeOK
  <1>5. QueueIsWaiting'
    <2>1. ASSUME NEW k \in DOMAIN queue'
          PROVE  pc'[queue'[k]] = "queued"
      <3>1. k + 1 \in DOMAIN queue /\ queue'[k] = queue[k + 1] /\ k + 1 # 1 /\ 1 \in DOMAIN queue
        BY <1>2
      <3>2. queue[k + 1] # c /\ pc[queue[k + 1]] = "queued" /\ queue[k + 1] \in Caller
        BY <1>1, <3>1 DEF QueueIsWaiting, TypeOK
      <3> QED
        BY <1>1, <1>3, <3>1, <3>2 DEF TypeOK
    <2>2. ASSUME NEW j \in DOMAIN queue', NEW k \in DOMAIN queue', queue'[j] = queue'[k]
          PROVE  j = k
      <3>1. /\ j \in Nat /\ j + 1 \in DOMAIN queue /\ queue'[j] = queue[j + 1]
            /\ k \in Nat /\ k + 1 \in DOMAIN queue /\ queue'[k] = queue[k + 1]
        BY <1>2
      <3>2. j + 1 = k + 1
        BY Zenon, <2>2, <3>1 DEF QueueIsWaiting
      <3> QED
        BY <3>1, <3>2
    <2> QED
      BY <2>1, <2>2 DEF QueueIsWaiting
  <1>6. WorkIsPast'
    BY <1>1, <1>3 DEF WorkIsPast, TypeOK
  <1>7. IsFiniteSet(Granted') /\ Cardinality(Granted') = Cardinality(Granted) + 1
    BY <1>1, <1>3, GrantedGrows, Zenon
  <1>8. Cardinality(Granted) \in Nat /\ Cardinality(threads) \in Nat
    BY FS_CardinalityType
  <1>9. PermitsConserved'
    BY <1>3, <1>7, <1>8 DEF PermitsConserved, Permits, TypeOK
  <1> QED
    BY <1>3, <1>4, <1>5, <1>6, <1>7, <1>9

(* The permit moves into the closure with the work. *)
LEMMA SpawnInv ==
    ASSUME BcryptInv, NEW c \in Caller, Spawn(c)
    PROVE  BcryptInv'
  <1> USE DEF BcryptInv
  <1> DEFINE w == Work(c)
             T == threads
  <1>1. /\ pc[c] = "granted" /\ pc' = [pc EXCEPT ![c] = "awaiting"]
        /\ UNCHANGED <<calls, queue, free>>
    BY DEF Spawn
  <1>2. w \in [caller : Caller, call : Nat] /\ w.caller = c /\ w.call = calls[c]
    BY DEF Work, TypeOK
  <1>3. threads' = T \union {w}
    BY DEF Spawn
  <1>4. w \notin T
    BY <1>1, <1>2 DEF WorkIsPast, TypeOK
  <1> HIDE DEF w, T
  <1>5. IsFiniteSet(T \union {w}) /\ Cardinality(T \union {w}) = Cardinality(T) + 1
    BY <1>4, FS_AddElement DEF T
  <1>6. IsFiniteSet(Granted') /\ Cardinality(Granted') = Cardinality(Granted) - 1
    BY <1>1, GrantedShrinks, Zenon
  <1>7. Cardinality(Granted) \in Nat /\ Cardinality(threads) \in Nat
    BY FS_CardinalityType
  <1>8. TypeOK'
    BY <1>1, <1>2, <1>3 DEF TypeOK, T
  <1>9. QueueIsWaiting'
    BY <1>1 DEF QueueIsWaiting, TypeOK
  <1>10. WorkIsPast'
    BY <1>1, <1>2, <1>3 DEF WorkIsPast, TypeOK, T
  <1>11. PermitsConserved'
    BY <1>1, <1>3, <1>5, <1>6, <1>7 DEF PermitsConserved, Permits, TypeOK, T
  <1> QED
    BY <1>3, <1>5, <1>6, <1>8, <1>9, <1>10, <1>11

(* The permit is dropped with the work, whether it returned or panicked. *)
LEMMA FinishInv ==
    ASSUME BcryptInv, NEW w \in threads, Finish(w)
    PROVE  BcryptInv'
  <1> USE DEF BcryptInv
  <1> DEFINE c == w.caller
             T == threads
  <1>1. c \in Caller
    BY DEF TypeOK
  <1>2. /\ threads' = T \ {w} /\ free' = free + 1
        /\ UNCHANGED <<calls, queue>>
    BY DEF Finish
  <1>3. \/ pc' = pc
        \/ \E s \in {"ok", "err"} : pc[c] = "awaiting" /\ pc' = [pc EXCEPT ![c] = s]
    BY DEF Finish, Tell
  <1> HIDE DEF c, T
  <1>4. Granted' = Granted
    BY <1>1, <1>3, GrantedStays DEF Granted
  <1>5. IsFiniteSet(T \ {w}) /\ Cardinality(T \ {w}) = Cardinality(T) - 1
    BY FS_RemoveElement DEF T
  <1>6. Cardinality(Granted) \in Nat /\ Cardinality(threads) \in Nat
    BY FS_CardinalityType
  <1>7. TypeOK'
    <2>1. pc' \in [Caller -> {"idle", "queued", "granted", "awaiting", "ok", "err"}]
      BY <1>1, <1>3, Zenon DEF TypeOK
    <2>2. threads' \subseteq [caller : Caller, call : Nat]
      BY <1>2 DEF TypeOK, T
    <2> QED
      BY <1>2, <2>1, <2>2 DEF TypeOK
  <1>8. QueueIsWaiting'
    BY <1>1, <1>2, <1>3 DEF QueueIsWaiting, TypeOK
  <1>9. WorkIsPast'
    BY <1>1, <1>2, <1>3 DEF WorkIsPast, TypeOK, T
  <1>10. PermitsConserved'
    BY <1>2, <1>4, <1>5, <1>6 DEF PermitsConserved, Permits, TypeOK, T
  <1> QED
    BY <1>2, <1>4, <1>5, <1>7, <1>8, <1>9, <1>10

(* A caller goes away: an assigned permit goes back, a moved one does not. *)
LEMMA DropInv ==
    ASSUME BcryptInv, NEW c \in Caller, Drop(c)
    PROVE  BcryptInv'
  <1> USE DEF BcryptInv
  <1>1. /\ pc[c] \in {"queued", "granted", "awaiting"} /\ pc' = [pc EXCEPT ![c] = "idle"]
        /\ free' = IF pc[c] = "granted" THEN free + 1 ELSE free
        /\ UNCHANGED <<calls, threads>>
    BY DEF Drop
  <1>2. queue' \in Seq(Caller) /\ QueueIsWaiting'
    <2>1. CASE pc[c] # "queued" /\ UNCHANGED queue
      BY <1>1, <2>1 DEF QueueIsWaiting, TypeOK
    <2>2. ASSUME NEW k \in DOMAIN queue, queue[k] = c,
                 queue' = [j \in 1 .. Len(queue) - 1 |-> queue[IF j < k THEN j ELSE j + 1]]
          PROVE  queue' \in Seq(Caller) /\ QueueIsWaiting'
      <3> DEFINE n == Len(queue)
                 at(j) == IF j < k THEN j ELSE j + 1
      <3>1. n \in Nat /\ DOMAIN queue = 1 .. n /\ k \in 1 .. n /\ n - 1 \in Nat
        BY DEF TypeOK
      <3>2. \A j \in 1 .. n - 1 : at(j) \in DOMAIN queue /\ at(j) # k
        BY <3>1
      <3>3. \A i, j \in 1 .. n - 1 : at(i) = at(j) => i = j
        BY <3>1
      <3>4. queue' = [j \in 1 .. n - 1 |-> queue[at(j)]]
        BY <2>2
      <3> HIDE DEF n, at
      <3>5. \A j \in 1 .. n - 1 : queue[at(j)] \in Caller
        BY <3>2 DEF TypeOK
      <3>6. queue' \in Seq(Caller)
        BY <3>1, <3>4, <3>5
      <3>7. DOMAIN queue' = 1 .. n - 1
        BY <3>4
      <3>8. ASSUME NEW j \in DOMAIN queue'
            PROVE  pc'[queue'[j]] = "queued"
        <4>1. queue'[j] = queue[at(j)] /\ at(j) \in DOMAIN queue /\ at(j) # k
          BY <3>2, <3>4, <3>7, <3>8
        <4>2. queue[at(j)] # c /\ pc[queue[at(j)]] = "queued"
          BY <2>2, <4>1 DEF QueueIsWaiting
        <4> QED
          BY <1>1, <3>5, <3>7, <4>1, <4>2 DEF TypeOK
      <3>9. \A i, j \in DOMAIN queue' : queue'[i] = queue'[j] => i = j
        BY <3>2, <3>3, <3>4, <3>7 DEF QueueIsWaiting
      <3> QED
        BY <3>6, <3>8, <3>9 DEF QueueIsWaiting
    <2> QED
      BY <2>1, <2>2 DEF Drop, LeaveQueue
  <1>3. TypeOK'
    BY <1>1, <1>2 DEF TypeOK
  <1>4. WorkIsPast'
    BY <1>1 DEF WorkIsPast, TypeOK
  <1>5. Cardinality(Granted) \in Nat /\ Cardinality(threads) \in Nat
    BY FS_CardinalityType
  <1>6. CASE pc[c] = "granted"
    <2>1. IsFiniteSet(Granted') /\ Cardinality(Granted') = Cardinality(Granted) - 1
      BY <1>1, <1>6, GrantedShrinks, Zenon
    <2>2. PermitsConserved'
      BY <1>1, <1>5, <1>6, <2>1 DEF PermitsConserved, Permits, TypeOK
    <2> QED
      BY <1>1, <1>2, <1>3, <1>4, <2>1, <2>2
  <1>7. CASE pc[c] # "granted"
    <2>1. Granted' = Granted
      BY <1>1, <1>7, GrantedStays, Zenon
    <2>2. PermitsConserved'
      BY <1>1, <1>7, <2>1 DEF PermitsConserved, Permits
    <2> QED
      BY <1>1, <1>2, <1>3, <1>4, <2>1, <2>2
  <1> QED
    BY <1>6, <1>7

(* The invariant is inductive. *)
LEMMA BcryptNextInv == BcryptInv /\ [Next]_vars => BcryptInv'
  <1> SUFFICES ASSUME BcryptInv, [Next]_vars PROVE BcryptInv'
    OBVIOUS
  <1>1. ASSUME NEW c \in Caller, Call(c) \/ Spawn(c) \/ Drop(c) PROVE BcryptInv'
    BY <1>1, CallInv, SpawnInv, DropInv
  <1>2. CASE Grant
    BY <1>2, GrantInv
  <1>3. ASSUME NEW w \in threads, Finish(w) PROVE BcryptInv'
    BY <1>3, FinishInv
  <1>4. CASE UNCHANGED vars
    BY <1>4
    DEF BcryptInv, TypeOK, QueueIsWaiting, WorkIsPast, PermitsConserved, Permits, Granted, vars
  <1> QED
    BY <1>1, <1>2, <1>3, <1>4 DEF Next

(* No more work runs at a time than the limit allows. *)
LEMMA BcryptBound == BcryptInv => AtMostPermits
  <1> SUFFICES ASSUME BcryptInv PROVE AtMostPermits
    OBVIOUS
  <1>1. Cardinality(Granted) \in Nat /\ Cardinality(threads) \in Nat /\ free \in Nat
    BY FS_CardinalityType DEF BcryptInv, TypeOK
  <1>2. Permits \in Nat
    BY BcryptConstants DEF Permits
  <1> QED
    BY <1>1, <1>2 DEF BcryptInv, PermitsConserved, AtMostPermits

-----------------------------------------------------------------------------
(* The work of a login. *)

(* Powers of two. *)
Powers == \A a, b \in Nat : 2^(a + b) = 2^a * 2^b /\ 2^a \in Nat \ {0}

(* Two to the power of a sum. *)
LEMMA PowerOfSum ==
    ASSUME NEW a \in Nat, NEW b \in Nat
    PROVE  2^(a + b) = 2^a * 2^b /\ 2^a \in Nat \ {0} /\ 2^b \in Nat \ {0}
  <1> DEFINE A == 1 .. a
             B == (a + 1) .. (a + b)
             C == 1 .. (a + b)
  <1>1. /\ IsFiniteSet(A) /\ Cardinality(A) = a
        /\ IsFiniteSet(B) /\ Cardinality(B) = b
        /\ IsFiniteSet(C) /\ Cardinality(C) = a + b
    <2>1. IsFiniteSet(A) /\ Cardinality(A) = a
      BY FS_Interval
    <2>2. IsFiniteSet(B) /\ Cardinality(B) = b
      <3>1. /\ IsFiniteSet(B)
            /\ Cardinality(B) = IF a + 1 > a + b THEN 0 ELSE a + b - (a + 1) + 1
        BY a + 1 \in Int, a + b \in Int, FS_Interval
      <3> QED
        BY <3>1
    <2>3. IsFiniteSet(C) /\ Cardinality(C) = a + b
      <3>1. IsFiniteSet(C) /\ Cardinality(C) = IF 1 > a + b THEN 0 ELSE a + b - 1 + 1
        BY a + b \in Int, FS_Interval
      <3> QED
        BY <3>1
    <2> QED
      BY <2>1, <2>2, <2>3
  <1>2. /\ IsFiniteSet(SUBSET A) /\ Cardinality(SUBSET A) = 2^a
        /\ IsFiniteSet(SUBSET B) /\ Cardinality(SUBSET B) = 2^b
        /\ IsFiniteSet(SUBSET C) /\ Cardinality(SUBSET C) = 2^(a + b)
    BY <1>1, FS_SUBSET, Zenon
  <1>3. /\ IsFiniteSet((SUBSET A) \X (SUBSET B))
        /\ Cardinality((SUBSET A) \X (SUBSET B)) = 2^a * 2^b
    <2> DEFINE P == SUBSET A
               Q == SUBSET B
    <2>1. IsFiniteSet(P) /\ Cardinality(P) = 2^a /\ IsFiniteSet(Q) /\ Cardinality(Q) = 2^b
      BY <1>2, Zenon
    <2> HIDE DEF P, Q
    <2>2. IsFiniteSet(P \X Q) /\ Cardinality(P \X Q) = Cardinality(P) * Cardinality(Q)
      <3>1. IsFiniteSet(P) /\ IsFiniteSet(Q)
        BY <2>1
      <3> HIDE <2>1
      <3> QED
        BY <3>1, FS_Product
    <2>3. IsFiniteSet(P \X Q) /\ Cardinality(P \X Q) = 2^a * 2^b
      BY <2>1, <2>2, Zenon
    <2> QED
      BY <2>3, Zenon DEF P, Q
  <1> DEFINE join == [p \in (SUBSET A) \X (SUBSET B) |-> p[1] \union p[2]]
  <1>4. join \in Bijection((SUBSET A) \X (SUBSET B), SUBSET C)
    <2>1. A \union B = C /\ A \intersect B = {}
      OBVIOUS
    <2> HIDE DEF A, B, C
    <2>2. join \in [(SUBSET A) \X (SUBSET B) -> SUBSET C]
      BY <2>1
    <2>3. ASSUME NEW p \in (SUBSET A) \X (SUBSET B), NEW q \in (SUBSET A) \X (SUBSET B),
                 join[p] = join[q]
          PROVE  p = q
      <3>1. p[1] = q[1] /\ p[2] = q[2]
        BY <2>1, <2>3
      <3> QED
        BY <3>1
    <2>4. ASSUME NEW s \in SUBSET C PROVE \E p \in (SUBSET A) \X (SUBSET B) : join[p] = s
      <3>1. <<s \intersect A, s \intersect B>> \in (SUBSET A) \X (SUBSET B)
        OBVIOUS
      <3>2. join[<<s \intersect A, s \intersect B>>] = s
        BY <2>1, <3>1
      <3> QED
        BY <3>1, <3>2, Zenon
    <2> QED
      BY <2>2, <2>3, <2>4, Zenon DEF Bijection, Injection, Surjection, IsInjective
  <1> HIDE DEF join
  <1>5. Cardinality((SUBSET A) \X (SUBSET B)) = Cardinality(SUBSET C)
    <2> HIDE DEF A, B, C
    <2>1. ExistsBijection((SUBSET A) \X (SUBSET B), SUBSET C)
      BY <1>4, Zenon DEF ExistsBijection
    <2> QED
      BY <1>3, <2>1, FS_Bijection
  <1>6. 2^a \in Nat \ {0} /\ 2^b \in Nat \ {0}
    <2>1. SUBSET A # {} /\ SUBSET B # {}
      BY Zenon
    <2> HIDE DEF A, B
    <2> QED
      BY <1>2, <2>1, FS_CardinalityType, FS_EmptySet, Zenon
  <1> QED
    BY <1>2, <1>3, <1>5, <1>6

(* So for all of them. *)
LEMMA PowersHold == Powers
  BY PowerOfSum DEF Powers

(* What a thread has done for its login so far. *)
WorkSound(r) ==
    /\ r.pc \in {"lookup", "hash", "store"} \/ r.hash = Passwords!NoHash =>
        r.cost \in Passwords!DummyCost(r.hash)
    /\ r.pc \in {"lookup", "hash"} => r.made = 0
    /\ r.pc # "done" => r.work = r.made /\ ~r.answer
    /\ r.pc = "done" =>
        /\ r.hash = Passwords!NoHash => r.work = r.made + Passwords!Spend(Cost)
        /\ r.hash \in Passwords!Stored =>
            r.work = r.made + Passwords!pad_timing_to(r.hash) + Passwords!Spend(r.hash)
        /\ r.answer <=> r.hash \in Cheapest .. Dearest /\ r.password = "right"

PasswordInv ==
    /\ verifying \in [Thread -> Passwords!Verification \union {Passwords!Idle}]
    /\ \A t \in Thread : verifying[t] # Passwords!Idle => WorkSound(verifying[t])

(* Work is a number. *)
LEMMA SpendType ==
    ASSUME Passwords!CostConstants, NEW c \in 0 .. Dearest
    PROVE  Passwords!Spend(c) \in Nat /\ Passwords!pad_timing_to(c) \in Nat
  <1>1. Passwords!Spend(c) \in Nat
    BY PowersHold DEF Passwords!CostConstants, Passwords!Spend, Powers
  <1>2. ASSUME c \in Cheapest .. Cost - 1 PROVE (2^(Cost - c) - 1) * Passwords!Spend(c) \in Nat
    <2>1. 2^(Cost - c) - 1 \in Nat
      BY <1>2, PowersHold DEF Passwords!CostConstants, Powers
    <2> QED
      BY <1>1, <2>1
  <1> QED
    BY <1>1, <1>2 DEF Passwords!pad_timing_to

(* The dummies' costs, and stored hashes that are none. *)
LEMMA CostsAre ==
    ASSUME Passwords!CostConstants,
           NEW hash \in Passwords!Stored \union {Passwords!NoHash, Passwords!Garbled}
    PROVE  /\ Passwords!DummyCost(hash) \subseteq 0 .. Dearest
           /\ hash = Passwords!NoHash => Passwords!DummyCost(hash) = {Cost}
           /\ Passwords!NoHash \notin Passwords!Stored
           /\ Passwords!Garbled \notin Passwords!Stored
           /\ Passwords!NoHash # Passwords!Garbled
  BY
  DEF Passwords!CostConstants, Passwords!Stored, Passwords!NoHash, Passwords!Garbled,
      Passwords!DummyCost

(* A thread that verifies is not idle. *)
LEMMA RunsAreNotIdle ==
    \A r \in Passwords!Verification : r # Passwords!Idle
  <1> SUFFICES ASSUME NEW r \in Passwords!Verification PROVE r # Passwords!Idle
    OBVIOUS
  <1>1. r.pc # "idle"
    BY DEF Passwords!Verification
  <1> QED
    BY <1>1 DEF Passwords!Idle

(* A step of one thread. *)
LEMMA ThreadStep ==
    ASSUME PasswordInv, NEW t \in Thread, NEW r \in Passwords!Verification \union {Passwords!Idle},
           r # Passwords!Idle => WorkSound(r), Passwords!Set(t, r)
    PROVE  PasswordInv'
  BY DEF PasswordInv, Passwords!Set

(* A login reaches a thread. *)
LEMMA ThreadStartInv ==
    ASSUME Passwords!CostConstants, PasswordInv, NEW t \in Thread, Passwords!Start(t)
    PROVE  PasswordInv'
  <1>1. PICK hash \in Passwords!Stored \union {Passwords!NoHash, Passwords!Garbled},
             password \in {"right", "wrong", "dummy"} :
            Passwords!Set(t, [pc |-> IF Passwords!DummyCost(hash) = {} THEN "verify" ELSE "lookup",
                   hash |-> hash, password |-> password,
                   cost |-> IF Passwords!DummyCost(hash) = {} THEN 0
                            ELSE CHOOSE c \in Passwords!DummyCost(hash) : TRUE,
                   made |-> 0, work |-> 0, answer |-> FALSE])
    BY Zenon DEF Passwords!Start
  <1>2. PICK p \in {"verify", "lookup"} :
            p = IF Passwords!DummyCost(hash) = {} THEN "verify" ELSE "lookup"
    OBVIOUS
  <1>3. PICK c : c = IF Passwords!DummyCost(hash) = {} THEN 0
                     ELSE CHOOSE d \in Passwords!DummyCost(hash) : TRUE
    OBVIOUS
  <1>4. c \in 0 .. Dearest /\ (Passwords!DummyCost(hash) # {} => c \in Passwords!DummyCost(hash))
    BY <1>3, CostsAre DEF Passwords!CostConstants
  <1>5. PICK r : r = [pc |-> p, hash |-> hash, password |-> password, cost |-> c,
                      made |-> 0, work |-> 0, answer |-> FALSE]
    BY Zenon
  <1>6. Passwords!Set(t, r)
    BY <1>1, <1>2, <1>3, <1>5
  <1>7. r \in Passwords!Verification
    BY <1>4, <1>5 DEF Passwords!Verification
  <1>8. WorkSound(r)
    BY <1>2, <1>4, <1>5, CostsAre DEF WorkSound
  <1> QED
    BY <1>6, <1>7, <1>8, ThreadStep

(* The steps of a verification. *)
LEMMA ThreadWorkInv ==
    ASSUME Passwords!CostConstants, PasswordInv, NEW t \in Thread,
           Passwords!Lookup(t) \/ Passwords!Hash(t) \/ Passwords!Store(t) \/ Passwords!Verify(t)
    PROVE  PasswordInv'
  <1>1. verifying[t] \in Passwords!Verification /\ WorkSound(verifying[t])
    BY RunsAreNotIdle
    DEF PasswordInv, Passwords!Lookup, Passwords!Hash, Passwords!Store, Passwords!Verify,
        Passwords!Idle
  <1>2. PICK r \in Passwords!Verification : r = verifying[t]
    BY <1>1
  <1>3. /\ WorkSound(r)
        /\ r.hash \in Passwords!Stored \union {Passwords!NoHash, Passwords!Garbled}
        /\ r.cost \in 0 .. Dearest
        /\ r.made \in Nat /\ r.work \in Nat
    BY <1>1, <1>2 DEF Passwords!Verification
  <1>4. Passwords!Spend(r.cost) \in Nat
    BY <1>3, SpendType
  <1>5. CASE Passwords!Lookup(t)
    <2>1. PICK p \in {"hash", "verify"} :
            p = IF dummies[r.cost] = Passwords!Nobody THEN "hash" ELSE "verify"
      OBVIOUS
    <2> DEFINE s == [r EXCEPT !.pc = p]
    <2>2. Passwords!Set(t, s) /\ r.pc = "lookup"
      BY <1>2, <1>5, <2>1 DEF Passwords!Lookup
    <2>3. s \in Passwords!Verification
      BY DEF Passwords!Verification
    <2>4. /\ s.pc = p /\ s.hash = r.hash /\ s.cost = r.cost
          /\ s.made = r.made /\ s.work = r.work /\ s.answer = r.answer
      BY DEF Passwords!Verification
    <2> HIDE DEF s
    <2>5. WorkSound(s)
      BY <1>3, <2>2, <2>4 DEF WorkSound
    <2> QED
      BY <2>2, <2>3, <2>5, ThreadStep
  <1>6. CASE Passwords!Hash(t)
    <2>1. PICK n \in Nat, w \in Nat :
            n = Passwords!Spend(r.cost) /\ w = r.work + Passwords!Spend(r.cost)
      BY <1>3, <1>4
    <2> DEFINE s == [r EXCEPT !.pc = "store", !.made = n, !.work = w]
    <2>2. Passwords!Set(t, s) /\ r.pc = "hash"
      BY <1>2, <1>6, <2>1 DEF Passwords!Hash
    <2>3. s \in Passwords!Verification
      BY Zenon DEF Passwords!Verification
    <2>4. /\ s.pc = "store" /\ s.hash = r.hash /\ s.cost = r.cost
          /\ s.made = n /\ s.work = w /\ s.answer = r.answer
      BY DEF Passwords!Verification
    <2> HIDE DEF s
    <2>5. WorkSound(s)
      BY <1>3, <1>4, <2>1, <2>2, <2>4 DEF WorkSound
    <2> QED
      BY <2>2, <2>3, <2>5, ThreadStep
  <1>7. CASE Passwords!Store(t)
    <2> DEFINE s == [r EXCEPT !.pc = "verify"]
    <2>1. Passwords!Set(t, s) /\ r.pc = "store"
      BY <1>2, <1>7 DEF Passwords!Store
    <2>2. s \in Passwords!Verification
      BY DEF Passwords!Verification
    <2>3. /\ s.pc = "verify" /\ s.hash = r.hash /\ s.cost = r.cost
          /\ s.made = r.made /\ s.work = r.work /\ s.answer = r.answer
      BY DEF Passwords!Verification
    <2> HIDE DEF s
    <2>4. WorkSound(s)
      BY <1>3, <2>1, <2>3 DEF WorkSound
    <2> QED
      BY <2>1, <2>2, <2>4, ThreadStep
  <1>8. CASE Passwords!Verify(t)
    <2>1. /\ r.pc = "verify" /\ r.work = r.made /\ ~r.answer
          /\ r.hash = Passwords!NoHash => r.cost = Cost
      BY <1>2, <1>3, <1>8, CostsAre DEF Passwords!Verify, WorkSound
    <2>2. CASE r.hash = Passwords!NoHash
      <3>1. PICK w \in Nat : w = r.work + Passwords!Spend(r.cost)
        BY <1>3, <1>4
      <3> DEFINE s == [r EXCEPT !.pc = "done", !.work = w]
      <3>2. Passwords!Set(t, s)
        BY <1>2, <1>8, <2>2, <3>1, CostsAre, <1>3, Zenon DEF Passwords!Verify
      <3>3. s \in Passwords!Verification
        BY Zenon DEF Passwords!Verification
      <3>4. /\ s.pc = "done" /\ s.hash = r.hash /\ s.cost = r.cost
            /\ s.made = r.made /\ s.work = w /\ s.answer = r.answer
        BY DEF Passwords!Verification
      <3> HIDE DEF s
      <3>5. WorkSound(s)
        <4>1. r.hash \notin Passwords!Stored /\ r.hash \notin Cheapest .. Dearest
          BY <2>2, CostsAre DEF Passwords!Stored, Passwords!NoHash, Passwords!CostConstants
        <4> QED
          BY <1>3, <2>1, <2>2, <3>1, <3>4, <4>1 DEF WorkSound
      <3> QED
        BY <3>2, <3>3, <3>5, ThreadStep
    <2>3. CASE r.hash = Passwords!Garbled
      <3> DEFINE s == [r EXCEPT !.pc = "done"]
      <3>1. Passwords!Set(t, s)
        BY <1>2, <1>8, <2>3, CostsAre, <1>3 DEF Passwords!Verify
      <3>2. s \in Passwords!Verification
        BY DEF Passwords!Verification
      <3>3. /\ s.pc = "done" /\ s.hash = r.hash /\ s.cost = r.cost
            /\ s.made = r.made /\ s.work = r.work /\ s.answer = r.answer
        BY DEF Passwords!Verification
      <3> HIDE DEF s
      <3>4. WorkSound(s)
        <4>1. /\ r.hash \notin Passwords!Stored /\ r.hash # Passwords!NoHash
              /\ r.hash \notin Cheapest .. Dearest
          BY <2>3, CostsAre
          DEF Passwords!Stored, Passwords!NoHash, Passwords!Garbled, Passwords!CostConstants
        <4> QED
          BY <1>3, <2>1, <2>3, <3>3, <4>1 DEF WorkSound
      <3> QED
        BY <3>1, <3>2, <3>4, ThreadStep
    <2>4. CASE r.hash \in Passwords!Stored
      <3>0. Passwords!Spend(r.hash) \in Nat /\ Passwords!pad_timing_to(r.hash) \in Nat
        BY <2>4, SpendType DEF Passwords!Stored
      <3>1. PICK w \in Nat : w = r.work + Passwords!pad_timing_to(r.hash) + Passwords!Spend(r.hash)
        BY <1>3, <3>0
      <3>6. PICK b \in BOOLEAN : b = (r.password = "right" /\ r.hash >= Cheapest)
        BY Zenon
      <3> DEFINE s == [r EXCEPT !.pc = "done", !.work = w, !.answer = b]
      <3>2. Passwords!Set(t, s)
        BY <1>2, <1>3, <1>8, <2>4, <3>1, <3>6, CostsAre DEF Passwords!Verify
      <3>3. s \in Passwords!Verification
        BY Zenon DEF Passwords!Verification
      <3>4. /\ s.pc = "done" /\ s.hash = r.hash /\ s.cost = r.cost /\ s.password = r.password
            /\ s.made = r.made /\ s.work = w /\ s.answer = b
        BY DEF Passwords!Verification
      <3> HIDE DEF s
      <3>5. WorkSound(s)
        <4>1. r.hash # Passwords!NoHash
          BY <2>4, CostsAre
        <4>2. b <=> r.hash \in Cheapest .. Dearest /\ r.password = "right"
          <5>1. r.hash \in Cheapest .. Dearest <=> r.hash >= Cheapest
            BY <2>4 DEF Passwords!Stored, Passwords!CostConstants
          <5> QED
            BY <3>6, <5>1, Zenon
        <4> QED
          BY <1>3, <2>1, <3>1, <3>4, <4>1, <4>2 DEF WorkSound
      <3> QED
        BY <3>2, <3>3, <3>5, ThreadStep
    <2> QED
      BY <1>3, <2>2, <2>3, <2>4
  <1> QED
    BY <1>5, <1>6, <1>7, <1>8

(* The invariant is inductive. *)
LEMMA PasswordNextInv ==
    ASSUME Passwords!CostConstants, PasswordInv, Passwords!Next
    PROVE  PasswordInv'
  <1>1. ASSUME NEW t \in Thread, Passwords!Leave(t) PROVE PasswordInv'
    BY <1>1, ThreadStep DEF Passwords!Leave
  <1> QED
    BY <1>1, ThreadStartInv, ThreadWorkInv DEF Passwords!Next

(* No thread works at first. *)
LEMMA PasswordInitInv ==
    Passwords!Init => PasswordInv
  BY DEF Passwords!Init, PasswordInv

(* The padding makes up for a cheaper hash: 2^(D-C) checks at cost C are    *)
(* one at cost D.                                                           *)
LEMMA WorkIsEqual ==
    ASSUME Passwords!CostConstants, PasswordInv
    PROVE  Passwords!EqualWork
  <1> SUFFICES ASSUME NEW t \in Thread, verifying[t].pc = "done"
               PROVE  LET r == verifying[t] IN
                      /\ r.hash \in (Cheapest .. Cost) \union {Passwords!NoHash} =>
                            r.work = 2^Cost + r.made
                      /\ r.answer <=> r.hash \in Cheapest .. Dearest /\ r.password = "right"
    BY DEF Passwords!EqualWork, Passwords!Done
  <1>1. PICK r \in Passwords!Verification : r = verifying[t] /\ r.pc = "done" /\ WorkSound(r)
    BY RunsAreNotIdle DEF PasswordInv, Passwords!Idle
  <1>2. r.made \in Nat /\ r.answer \in BOOLEAN
    BY DEF Passwords!Verification
  <1>3. r.answer <=> r.hash \in Cheapest .. Dearest /\ r.password = "right"
    BY <1>1 DEF WorkSound
  <1>4. CASE r.hash = Passwords!NoHash
    <2>1. r.work = r.made + 2^Cost
      BY <1>1, <1>4 DEF WorkSound, Passwords!Spend, Passwords!CostConstants
    <2> QED
      BY <1>1, <1>2, <1>3, <2>1, PowersHold DEF Passwords!CostConstants, Powers
  <1>5. CASE r.hash \in Cheapest .. Cost
    <2>1. /\ r.hash \in Passwords!Stored /\ r.hash \in Cheapest .. Dearest
          /\ r.hash \in Nat /\ Cost - r.hash \in Nat
      BY <1>5 DEF Passwords!Stored, Passwords!CostConstants
    <2>2. /\ r.work = r.made + Passwords!pad_timing_to(r.hash) + 2^r.hash
          /\ Passwords!Spend(r.hash) = 2^r.hash
      BY <1>1, <2>1 DEF WorkSound, Passwords!Spend
    <2>3. 2^Cost = 2^(Cost - r.hash) * 2^r.hash /\ 2^(Cost - r.hash) \in Nat /\ 2^r.hash \in Nat
      <3>1. (Cost - r.hash) + r.hash = Cost
        BY <2>1 DEF Passwords!CostConstants
      <3> QED
        BY <2>1, <3>1, Zenon, PowersHold DEF Powers
    <2>4. Passwords!pad_timing_to(r.hash) = 2^Cost - 2^r.hash
      <3>1. CASE r.hash = Cost
        BY <2>3, <3>1 DEF Passwords!pad_timing_to, Passwords!CostConstants
      <3>2. CASE r.hash # Cost
        <4>1. Passwords!pad_timing_to(r.hash) = (2^(Cost - r.hash) - 1) * 2^r.hash
          BY <1>5, <2>2, <3>2 DEF Passwords!pad_timing_to, Passwords!CostConstants
        <4> QED
          BY <2>3, <4>1
      <3> QED
        BY <3>1, <3>2
    <2> QED
      BY <1>1, <1>2, <1>3, <2>2, <2>3, <2>4
  <1> QED
    BY <1>1, <1>3, <1>4, <1>5

-----------------------------------------------------------------------------
(* Every permit is free, assigned, or with running work, whoever is dropped *)
(* and whatever panics.                                                     *)
THEOREM Conservation == Spec => []PermitsConserved
  <1>1. BcryptInv => PermitsConserved
    BY DEF BcryptInv
  <1> QED
    BY BcryptInitInv, BcryptNextInv, <1>1, PTL DEF Spec

(* No more bcrypt work runs at a time than the limit allows, also work      *)
(* whose caller has been dropped.                                           *)
THEOREM Bounded == Spec => []AtMostPermits
  BY BcryptInitInv, BcryptNextInv, BcryptBound, PTL DEF Spec

(* A login does the work of one check at the configured cost, whatever that *)
(* is and whatever its account's hash was made at, and only a stored hash   *)
(* lets it in.                                                              *)
THEOREM LoginsCostTheSame == Passwords!Spec => []EqualWork
  <1>1. PasswordInv => EqualWork
    BY PasswordConstants, WorkIsEqual DEF EqualWork
  <1>2. PasswordInv /\ [Passwords!Next]_(Passwords!vars) => PasswordInv'
    <2>1. PasswordInv /\ UNCHANGED Passwords!vars => PasswordInv'
      BY DEF PasswordInv, Passwords!vars
    <2> QED
      BY <2>1, PasswordConstants, PasswordNextInv
  <1> QED
    BY <1>1, <1>2, PasswordInitInv, PTL DEF Passwords!Spec

-----------------------------------------------------------------------------
(* Google's keys. *)

(* Keys that Google gave at time asof hold, until Lead after that, the key  *)
(* it signs with, the next one unless it was published later, and the last  *)
(* one while it is still published.                                         *)
KeysSound(k) ==
    /\ google.signing \in k.jwks \/ k.asof + Lead <= clock
    /\ google.signing < google.newest => google.newest \in k.jwks \/ k.asof <= google.since
    /\ google.oldest < google.signing => google.oldest \in k.jwks \/ k.asof + Lead <= clock

EntrySound(k) ==
    /\ k.asof <= clock
    /\ k.expires_at <= k.asof + LongestTtl + Timeout
    /\ KeysSound(k)

(* The key that signed a token still signs, or signed until since, or the   *)
(* token has expired.                                                       *)
TokenSound(t) ==
    /\ t.issued <= clock
    /\ \/ t.key = google.signing
       \/ google.oldest < google.signing /\ t.key = google.oldest /\ t.issued <= google.since
       \/ t.issued + Linger <= clock

GoogleSound ==
    /\ google \in [oldest : Nat, signing : Nat, newest : Nat, since : Int]
    /\ google.since <= clock
    /\ \/ google.oldest = google.signing /\ google.newest \in {google.signing, google.signing + 1}
       \/ google.oldest + 1 = google.signing /\ google.newest = google.signing

AToken == [key : Nat, issued : Nat, defect : Jwks!Defect]
AKeySet == [jwks : SUBSET Nat, asof : Nat, ttl : Nat]
AnEntry == [jwks : SUBSET Nat, asof : Nat, expires_at : Nat]
ALogin ==
    [pc : {"idle"}]
    \union [pc : {"fetching"}, token : AToken, until : Nat, got : AKeySet \union {Jwks!None}]
    \union [pc : {"storing"}, token : AToken, entry : AnEntry]

FetchSound(r) ==
    /\ TokenSound(r.token)
    /\ clock <= r.until
    /\ r.until <= clock + Timeout
    /\ r.got # Jwks!None =>
        /\ r.got.asof <= clock /\ r.until <= r.got.asof + Timeout
        /\ r.got.ttl <= LongestTtl
        /\ KeysSound(r.got)

LoginSound(r) ==
    /\ r.pc = "fetching" => FetchSound(r)
    /\ r.pc = "storing" =>
        TokenSound(r.token) /\ EntrySound(r.entry) /\ clock <= r.entry.asof + Timeout

JwksInv ==
    /\ clock \in Nat
    /\ GoogleSound
    /\ keys \in AnEntry \union {Jwks!None}
    /\ keys # Jwks!None => EntrySound(keys)
    /\ logins \in [Login -> ALogin]
    /\ \A l \in Login : LoginSound(logins[l])
    /\ stored => keys # Jwks!None
    /\ Jwks!TokensJudged
    /\ Jwks!StaleOnlyOnFailure

(* Keys are never taken for no keys. *)
LEMMA KeysAreNotNone ==
    /\ \A k \in AnEntry : k # Jwks!None
    /\ \A k \in AKeySet : k # Jwks!None
  <1>1. ASSUME NEW k \in AnEntry PROVE k # Jwks!None
    <2>1. DOMAIN k = {"jwks", "asof", "expires_at"} /\ DOMAIN Jwks!None = {"none"}
      BY DEF AnEntry, Jwks!None
    <2> QED
      BY <2>1
  <1>2. ASSUME NEW k \in AKeySet PROVE k # Jwks!None
    <2>1. DOMAIN k = {"jwks", "asof", "ttl"} /\ DOMAIN Jwks!None = {"none"}
      BY DEF AKeySet, Jwks!None
    <2> QED
      BY <2>1
  <1> QED
    BY <1>1, <1>2

(* What most steps need of the constants and of the invariant. *)
LEMMA JwksNumbers ==
    ASSUME Jwks!JwksConstants, JwksInv
    PROVE  /\ clock \in Nat /\ Timeout \in Nat /\ LongestTtl \in Nat /\ 0 < LongestTtl
           /\ \A l \in Login : logins[l] \in ALogin /\ LoginSound(logins[l])
  <1>1. Timeout \in Nat /\ LongestTtl \in Nat /\ 0 < LongestTtl
    BY DEF Jwks!JwksConstants
  <1>2. \A l \in Login : logins[l] \in ALogin /\ LoginSound(logins[l])
    BY Zenon DEF JwksInv
  <1> QED
    BY <1>1, <1>2 DEF JwksInv

(* Time passes, or Google rotates its keys. *)
LEMMA KeysKept ==
    ASSUME Jwks!JwksConstants, JwksInv, NEW k \in AnEntry \union AKeySet,
           k.asof <= clock, KeysSound(k),
           Jwks!Rotate \/ Jwks!Tick \/ UNCHANGED <<clock, google>>
    PROVE  KeysSound(k)'
  <1>1. k.asof \in Nat /\ clock \in Nat /\ Lead \in Nat
    BY DEF JwksInv, Jwks!JwksConstants, AnEntry, AKeySet
  <1>2. CASE UNCHANGED <<clock, google>>
    BY <1>2 DEF KeysSound
  <1>3. CASE Jwks!Tick
    BY <1>1, <1>3 DEF Jwks!Tick, KeysSound
  <1>4. CASE Jwks!Rotate
    <2>1. clock' = clock
      BY <1>4 DEF Jwks!Rotate
    <2>2. CASE /\ google.oldest = google.newest /\ google.newest < MaxKey
               /\ google' = [google EXCEPT !.newest = @ + 1, !.since = clock]
      BY <1>1, <2>1, <2>2 DEF KeysSound, JwksInv, GoogleSound
    <2>3. CASE /\ google.signing < google.newest /\ clock - google.since >= Lead
               /\ google' = [google EXCEPT !.signing = google.newest, !.since = clock]
      BY <1>1, <2>1, <2>3 DEF KeysSound, JwksInv, GoogleSound
    <2>4. CASE /\ google.oldest < google.signing /\ clock - google.since >= Linger
               /\ google' = [google EXCEPT !.oldest = google.signing]
      BY <1>1, <2>1, <2>4 DEF KeysSound, JwksInv, GoogleSound
    <2> QED
      BY <1>4, <2>2, <2>3, <2>4 DEF Jwks!Rotate
  <1> QED
    BY <1>2, <1>3, <1>4

(* Tokens stay signed with a key Google still publishes, until they expire. *)
LEMMA TokensKept ==
    ASSUME Jwks!JwksConstants, JwksInv, NEW t \in AToken, TokenSound(t),
           Jwks!Rotate \/ Jwks!Tick \/ UNCHANGED <<clock, google>>
    PROVE  TokenSound(t)'
  <1>1. t.issued \in Nat /\ clock \in Nat /\ Linger \in Nat
    BY DEF JwksInv, Jwks!JwksConstants, AToken
  <1>2. CASE UNCHANGED <<clock, google>>
    BY <1>2 DEF TokenSound
  <1>3. CASE Jwks!Tick
    BY <1>1, <1>3 DEF Jwks!Tick, TokenSound
  <1>4. CASE Jwks!Rotate
    <2>1. clock' = clock
      BY <1>4 DEF Jwks!Rotate
    <2>2. CASE /\ google.oldest = google.newest /\ google.newest < MaxKey
               /\ google' = [google EXCEPT !.newest = @ + 1, !.since = clock]
      BY <1>1, <2>1, <2>2 DEF TokenSound, JwksInv, GoogleSound
    <2>3. CASE /\ google.signing < google.newest /\ clock - google.since >= Lead
               /\ google' = [google EXCEPT !.signing = google.newest, !.since = clock]
      BY <1>1, <2>1, <2>3 DEF TokenSound, JwksInv, GoogleSound
    <2>4. CASE /\ google.oldest < google.signing /\ clock - google.since >= Linger
               /\ google' = [google EXCEPT !.oldest = google.signing]
      BY <1>1, <2>1, <2>4 DEF TokenSound, JwksInv, GoogleSound
    <2> QED
      BY <1>4, <2>2, <2>3, <2>4 DEF Jwks!Rotate
  <1> QED
    BY <1>2, <1>3, <1>4

(* Google keeps to its phases. *)
LEMMA GoogleKept ==
    ASSUME Jwks!JwksConstants, JwksInv, Jwks!Rotate \/ Jwks!Tick \/ UNCHANGED <<clock, google>>
    PROVE  GoogleSound' /\ clock' \in Nat
  <1>1. clock \in Nat /\ Lead \in Nat /\ Linger \in Nat /\ GoogleSound
    BY DEF JwksInv, Jwks!JwksConstants
  <1>2. CASE Jwks!Tick \/ UNCHANGED <<clock, google>>
    BY <1>1, <1>2 DEF Jwks!Tick, GoogleSound
  <1>3. CASE Jwks!Rotate
    <2>1. PICK o \in Nat, s \in Nat, n \in Nat, d \in Int :
            google = [oldest |-> o, signing |-> s, newest |-> n, since |-> d]
      BY <1>1 DEF GoogleSound
    <2>2. /\ d <= clock
          /\ (o = s /\ n \in {s, s + 1}) \/ (o + 1 = s /\ n = s)
      BY <1>1, <2>1 DEF GoogleSound
    <2>3. /\ clock' = clock
          /\ \/ o = n /\ google' = [oldest |-> o, signing |-> s, newest |-> n + 1, since |-> clock]
             \/ s < n /\ google' = [oldest |-> o, signing |-> n, newest |-> n, since |-> clock]
             \/ o < s /\ google' = [oldest |-> s, signing |-> s, newest |-> n, since |-> d]
      BY <1>3, <2>1, Zenon DEF Jwks!Rotate
    <2> QED
      BY <1>1, <2>2, <2>3 DEF GoogleSound
  <1> QED
    BY <1>2, <1>3

(* The lifetime Google gives its keys. *)
LEMMA MaxAge ==
    ASSUME Jwks!JwksConstants, NEW header \in Headers
    PROVE  Jwks!parse_max_age(header) \in Nat /\ Jwks!parse_max_age(header) <= LongestTtl
  <1>1. DefaultTtl \in Nat /\ DefaultTtl <= LongestTtl
    BY DEF Jwks!JwksConstants
  <1>2. header \in Seq([name : STRING, value : Nat \union {Jwks!Unparsable}])
    BY Zenon DEF Jwks!JwksConstants
  <1>3. CASE Jwks!Ages(header) # {}
    <2> DEFINE first == CHOOSE i \in Jwks!Ages(header) : \A j \in Jwks!Ages(header) : i <= j
    <2>1. PICK k \in Jwks!Ages(header) :
            (\A j \in Jwks!Ages(header) : k <= j) /\ header[k].value <= LongestTtl
      BY <1>3 DEF Jwks!JwksConstants
    <2>2. first \in Jwks!Ages(header) /\ \A j \in Jwks!Ages(header) : first <= j
      BY <2>1
    <2> HIDE DEF first
    <2>3. first = k
      BY <1>2, <2>1, <2>2 DEF Jwks!Ages
    <2>4. k \in DOMAIN header /\ header[k].value # Jwks!Unparsable
      BY DEF Jwks!Ages
    <2>5. header[k].value \in Nat
      <3> DEFINE directive == [name : STRING, value : Nat \union {Jwks!Unparsable}]
      <3> HIDE DEF directive
      <3>1. header \in Seq(directive)
        BY <1>2 DEF directive
      <3>2. header[k] \in directive
        BY <2>4, <3>1
      <3> QED
        BY <2>4, <3>2 DEF directive
    <2> QED
      BY <1>3, <2>1, <2>3, <2>5, Zenon DEF Jwks!parse_max_age, first
  <1> QED
    BY <1>1, <1>3 DEF Jwks!parse_max_age

(* A token that is in order is signed with one of the keys, if they are not *)
(* older than the lead Google gives.                                        *)
LEMMA Judged ==
    ASSUME Jwks!JwksConstants, JwksInv, NEW t \in AToken, TokenSound(t),
           NEW k \in AnEntry, EntrySound(k), clock < k.asof + LongestTtl + Timeout
    PROVE  Jwks!Valid(t, k.jwks) <=> t.defect = "none" /\ clock <= t.issued + Life
  <1>1. /\ k.asof \in Nat /\ t.issued \in Nat /\ clock \in Nat
        /\ {Lead, Linger, Life, LongestTtl, Timeout} \subseteq Nat
        /\ Lead >= LongestTtl + Timeout /\ Linger > Life
    BY DEF JwksInv, Jwks!JwksConstants, AnEntry, AToken
  <1>2. clock <= t.issued + Life => t.key \in k.jwks
    BY <1>1 DEF TokenSound, EntrySound, KeysSound
  <1>3. t.defect \in Jwks!Defect
    BY DEF AToken
  <1> QED
    BY <1>2, <1>3 DEF Jwks!Valid, Jwks!validate_google_claims, Jwks!Defect

(* A step of login l. *)
LEMMA LoginStep ==
    ASSUME JwksInv, UNCHANGED <<clock, google>>, NEW l \in Login, NEW r \in ALogin, LoginSound(r),
           logins' = [logins EXCEPT ![l] = r],
           keys' \in AnEntry \union {Jwks!None}, keys' # Jwks!None => EntrySound(keys'),
           stored' => keys' # Jwks!None, Jwks!TokensJudged', Jwks!StaleOnlyOnFailure'
    PROVE  JwksInv'
  <1>1. clock' \in Nat /\ GoogleSound' /\ (keys' # Jwks!None => EntrySound(keys)')
    BY DEF JwksInv, GoogleSound, EntrySound, KeysSound
  <1>2. logins' \in [Login -> ALogin]
    BY DEF JwksInv
  <1>3. ASSUME NEW m \in Login PROVE LoginSound(logins[m])'
    <2>1. LoginSound(logins'[m])
      BY DEF JwksInv
    <2> QED
      BY Zenon, <2>1 DEF LoginSound, FetchSound, TokenSound, EntrySound, KeysSound
  <1> QED
    BY <1>1, <1>2, <1>3 DEF JwksInv

(* A login that asks nothing. *)
LEMMA NobodyAsks ==
    Jwks!Idle \in ALogin /\ LoginSound(Jwks!Idle)
  BY DEF Jwks!Idle, ALogin, LoginSound

(* A step that answers nobody. *)
LEMMA NoReply ==
    replied' = Jwks!None => Jwks!TokensJudged' /\ Jwks!StaleOnlyOnFailure'
  BY DEF Jwks!TokensJudged, Jwks!StaleOnlyOnFailure

(* An answer from keys that are young enough. *)
LEMMA ReplyHolds ==
    ASSUME Jwks!JwksConstants, JwksInv, UNCHANGED clock, NEW t \in AToken, TokenSound(t),
           NEW k \in AnEntry, EntrySound(k), NEW stale \in BOOLEAN, Jwks!Reply(t, k, stale),
           ~failed' \/ ~stale => clock < k.asof + LongestTtl + Timeout
    PROVE  Jwks!TokensJudged' /\ Jwks!StaleOnlyOnFailure'
  <1>1. /\ k.asof \in Nat /\ clock \in Nat /\ LongestTtl \in Nat /\ Timeout \in Nat
    BY DEF JwksInv, Jwks!JwksConstants, AnEntry
  <1>2. /\ replied'.answer = (IF Jwks!Valid(t, k.jwks) THEN "user" ELSE "refused")
        /\ replied'.token = t /\ replied'.age = clock - k.asof /\ replied'.stale = stale
    BY DEF Jwks!Reply
  <1>3. Jwks!TokensJudged'
    <2>1. ~failed' => (Jwks!Valid(t, k.jwks) <=> t.defect = "none" /\ clock <= t.issued + Life)
      BY Judged
    <2> QED
      BY <1>2, <2>1 DEF Jwks!TokensJudged
  <1>4. Jwks!StaleOnlyOnFailure'
    <2>1. ~stale => clock - k.asof < LongestTtl + Timeout
      BY <1>1
    <2> QED
      BY <1>2, <2>1 DEF Jwks!StaleOnlyOnFailure
  <1> QED
    BY <1>3, <1>4

(* A token is signed with the key Google signs with. *)
LEMMA IssuedSound ==
    ASSUME Jwks!JwksConstants, JwksInv, NEW defect \in Flawed
    PROVE  Jwks!Issued(defect) \in AToken /\ TokenSound(Jwks!Issued(defect))
  BY DEF Jwks!JwksConstants, JwksInv, GoogleSound, Jwks!Issued, AToken, TokenSound

(* A login finds fresh keys, or sends a request. *)
LEMMA AskInv ==
    ASSUME Jwks!JwksConstants, JwksInv, NEW l \in Login, NEW defect \in Flawed,
           Jwks!Ask(l, Jwks!Issued(defect))
    PROVE  JwksInv'
  <1>1. PICK t \in AToken : t = Jwks!Issued(defect)
    BY IssuedSound
  <1>2. TokenSound(t)
    BY <1>1, IssuedSound
  <1>3. UNCHANGED <<clock, google, keys, stored, failed>> /\ clock \in Nat /\ Timeout \in Nat
    BY DEF Jwks!Ask, JwksInv, Jwks!JwksConstants
  <1>4. CASE keys # Jwks!None /\ keys.expires_at > clock
    <2>1. Jwks!Reply(t, keys, FALSE) /\ UNCHANGED logins
      BY <1>1, <1>4, Zenon DEF Jwks!Ask
    <2>2. PICK k \in AnEntry : k = keys
      BY <1>4 DEF JwksInv
    <2>3. EntrySound(k) /\ clock < k.asof + LongestTtl + Timeout
      <3>1. k.expires_at \in Nat /\ k.asof \in Nat /\ LongestTtl \in Nat
        BY DEF AnEntry, Jwks!JwksConstants
      <3> QED
        BY <1>3, <1>4, <2>2, <3>1 DEF JwksInv, EntrySound
    <2>4. Jwks!TokensJudged' /\ Jwks!StaleOnlyOnFailure'
      BY <1>2, <1>3, <2>1, <2>2, <2>3, ReplyHolds, Zenon
    <2>5. \A m \in Login : logins' = [logins EXCEPT ![m] = logins[m]]
      BY <2>1 DEF JwksInv
    <2> QED
      BY <1>3, <1>4, <2>4, <2>5, LoginStep DEF JwksInv
  <1>5. CASE ~(keys # Jwks!None /\ keys.expires_at > clock)
    <2> DEFINE r == [pc |-> "fetching", token |-> t, until |-> clock + Timeout, got |-> Jwks!None]
    <2>1. logins' = [logins EXCEPT ![l] = r] /\ replied' = Jwks!None
      BY <1>1, <1>5, Zenon DEF Jwks!Ask, Jwks!Become
    <2>2. r \in ALogin /\ LoginSound(r)
      <3>1. PICK u \in Nat : u = clock + Timeout /\ clock <= u /\ u <= clock + Timeout
        BY <1>3
      <3> QED
        BY Zenon, <1>2, <3>1 DEF ALogin, LoginSound, FetchSound
    <2> HIDE DEF r
    <2> QED
      BY <1>3, <2>1, <2>2, NoReply, LoginStep, Zenon DEF JwksInv
  <1> QED
    BY <1>4, <1>5

(* Google answers. *)
LEMMA AnswerInv ==
    ASSUME Jwks!JwksConstants, JwksInv, NEW l \in Login, Jwks!Answer(l)
    PROVE  JwksInv'
  <1>1. PICK header \in Headers :
            /\ logins[l].pc = "fetching" /\ logins[l].got = Jwks!None
            /\ logins' = [logins EXCEPT ![l] = [logins[l] EXCEPT !.got =
                    [jwks |-> Jwks!Published, asof |-> clock, ttl |-> Jwks!parse_max_age(header)]]]
            /\ replied' = Jwks!None
            /\ UNCHANGED <<clock, google, keys, stored, failed>>
    BY Zenon DEF Jwks!Answer, Jwks!Become
  <1>2. PICK t \in AToken, u \in Nat :
            logins[l] = [pc |-> "fetching", token |-> t, until |-> u, got |-> Jwks!None]
    BY <1>1 DEF JwksInv, ALogin
  <1>3. TokenSound(t) /\ clock <= u /\ u <= clock + Timeout
    <2>1. LoginSound(logins[l])
      BY JwksNumbers
    <2>2a. PICK r : r = logins[l]
      OBVIOUS
    <2>2b. r = [pc |-> "fetching", token |-> t, until |-> u, got |-> Jwks!None]
      BY Zenon, <1>2, <2>2a
    <2>2c. r.pc = "fetching" /\ r.token = t /\ r.until = u
      BY <2>2b
    <2>2. logins[l].pc = "fetching" /\ logins[l].token = t /\ logins[l].until = u
      BY Zenon, <2>2a, <2>2c
    <2>3. FetchSound(logins[l])
      BY Zenon, <2>1, <2>2 DEF LoginSound
    <2> QED
      BY Zenon, <2>2, <2>3 DEF FetchSound
  <1>4. PICK k \in AKeySet :
            k = [jwks |-> Jwks!Published, asof |-> clock, ttl |-> Jwks!parse_max_age(header)]
    <2>1. Jwks!Published \subseteq Nat
      BY DEF Jwks!Published, JwksInv, GoogleSound
    <2>2. clock \in Nat /\ Jwks!parse_max_age(header) \in Nat
      BY MaxAge DEF JwksInv
    <2> QED
      BY <2>1, <2>2, Zenon DEF AKeySet
  <1>5. k.asof = clock /\ k.ttl <= LongestTtl /\ KeysSound(k)
    <2>1. k.asof = clock /\ k.ttl <= LongestTtl
      BY <1>4, MaxAge
    <2>2. KeysSound(k)
      BY <1>4 DEF KeysSound, Jwks!Published, JwksInv, GoogleSound
    <2> QED
      BY <2>1, <2>2
  <1> DEFINE r == [pc |-> "fetching", token |-> t, until |-> u, got |-> k]
  <1>6. logins' = [logins EXCEPT ![l] = r]
    <2>1. [logins[l] EXCEPT !.got = k] = r
      BY <1>2
    <2> QED
      BY <1>1, <1>4, <2>1, Zenon
  <1>7. r \in ALogin /\ LoginSound(r)
    <2>1. r \in ALogin
      BY DEF ALogin
    <2>2. k.asof <= clock /\ u <= k.asof + Timeout
      BY <1>3, <1>5, JwksNumbers
    <2>3. FetchSound(r)
      BY <1>3, <1>5, <2>2 DEF FetchSound
    <2> QED
      BY <2>1, <2>3 DEF LoginSound
  <1> HIDE DEF r
  <1> QED
    BY <1>1, <1>6, <1>7, NoReply, LoginStep, Zenon DEF JwksInv

(* Its answer arrives. *)
LEMMA ArriveInv ==
    ASSUME Jwks!JwksConstants, JwksInv, NEW l \in Login, Jwks!Arrive(l)
    PROVE  JwksInv'
  <1>1. PICK t \in AToken, u \in Nat, k \in AKeySet :
            logins[l] = [pc |-> "fetching", token |-> t, until |-> u, got |-> k]
    BY DEF JwksInv, ALogin, Jwks!Arrive
  <1>2. /\ TokenSound(t) /\ clock <= u /\ k.asof <= clock /\ u <= k.asof + Timeout
        /\ k.ttl <= LongestTtl /\ KeysSound(k)
    BY <1>1, KeysAreNotNone DEF JwksInv, LoginSound, FetchSound
  <1>3. PICK e \in AnEntry : e = [jwks |-> k.jwks, asof |-> k.asof, expires_at |-> clock + k.ttl]
    <2>1. k.jwks \in SUBSET Nat /\ k.asof \in Nat /\ k.ttl \in Nat /\ clock \in Nat
      BY DEF JwksInv, AKeySet
    <2>2. clock + k.ttl \in Nat
      BY <2>1
    <2> QED
      BY <2>1, <2>2, Zenon DEF AnEntry
  <1>4. EntrySound(e) /\ clock <= e.asof + Timeout
    <2>1. k.asof \in Nat /\ k.ttl \in Nat /\ clock \in Nat /\ Timeout \in Nat /\ LongestTtl \in Nat
      BY DEF JwksInv, AKeySet, Jwks!JwksConstants
    <2> QED
      BY <1>2, <1>3, <2>1 DEF EntrySound, KeysSound
  <1> DEFINE r == [pc |-> "storing", token |-> t, entry |-> e]
  <1>5. /\ logins' = [logins EXCEPT ![l] = r] /\ replied' = Jwks!None
        /\ UNCHANGED <<clock, google, keys, stored, failed>>
    BY <1>1, <1>3 DEF Jwks!Arrive, Jwks!Become
  <1>6. r \in ALogin /\ LoginSound(r)
    BY Zenon, <1>2, <1>4 DEF ALogin, LoginSound
  <1> HIDE DEF r
  <1> QED
    BY <1>5, <1>6, NoReply, LoginStep, Zenon DEF JwksInv

(* The keys are stored. *)
LEMMA StoreInv ==
    ASSUME Jwks!JwksConstants, JwksInv, NEW l \in Login, Jwks!Store(l)
    PROVE  JwksInv'
  <1>1. PICK t \in AToken, e \in AnEntry : logins[l] = [pc |-> "storing", token |-> t, entry |-> e]
    BY DEF JwksInv, ALogin, Jwks!Store
  <1>2. TokenSound(t) /\ EntrySound(e) /\ clock <= e.asof + Timeout
    BY <1>1 DEF JwksInv, LoginSound
  <1>3. clock < e.asof + LongestTtl + Timeout
    <2>1. e.asof \in Nat /\ clock \in Nat /\ Timeout \in Nat /\ LongestTtl \in Nat /\ 0 < LongestTtl
      BY JwksNumbers DEF AnEntry
    <2> QED
      BY <1>2, <2>1
  <1>4. /\ logins' = [logins EXCEPT ![l] = Jwks!Idle] /\ keys' = e /\ Jwks!Reply(t, e, FALSE)
        /\ UNCHANGED <<clock, google>>
    <2>1a. PICK r : r = logins[l]
      OBVIOUS
    <2>1b. r = [pc |-> "storing", token |-> t, entry |-> e]
      BY Zenon, <1>1, <2>1a
    <2>1c. r.token = t /\ r.entry = e
      BY <2>1b
    <2>1. logins[l].token = t /\ logins[l].entry = e
      BY Zenon, <2>1a, <2>1c
    <2> QED
      BY <2>1, Zenon DEF Jwks!Store, Jwks!Become
  <1>5. Jwks!TokensJudged' /\ Jwks!StaleOnlyOnFailure'
    BY <1>2, <1>3, <1>4, ReplyHolds, Zenon
  <1> QED
    BY <1>2, <1>4, <1>5, KeysAreNotNone, NobodyAsks, LoginStep, Zenon

(* A fetch fails. *)
LEMMA FailInv ==
    ASSUME Jwks!JwksConstants, JwksInv, NEW l \in Login, Jwks!Fail(l)
    PROVE  JwksInv'
  <1>1. PICK t \in AToken : logins[l].token = t /\ TokenSound(t)
    BY DEF JwksInv, ALogin, Jwks!Fail, LoginSound, FetchSound
  <1>2. /\ logins' = [logins EXCEPT ![l] = Jwks!Idle] /\ failed' = TRUE
        /\ UNCHANGED <<clock, google, keys, stored>>
    BY DEF Jwks!Fail, Jwks!Become
  <1>3. Jwks!TokensJudged' /\ Jwks!StaleOnlyOnFailure'
    <2>1. CASE keys # Jwks!None
      <3>1. PICK k \in AnEntry : k = keys
        BY <2>1 DEF JwksInv
      <3>2. Jwks!Reply(t, k, TRUE) /\ EntrySound(k)
        BY <1>1, <2>1, <3>1, Zenon DEF Jwks!Fail, JwksInv
      <3> QED
        BY <1>1, <1>2, <3>2, ReplyHolds, Zenon
    <2>2. CASE keys = Jwks!None
      <3>1. replied' = [answer |-> "error", token |-> t, age |-> 0, stale |-> FALSE]
        BY <1>1, <2>2 DEF Jwks!Fail
      <3>2. ~stored'
        BY <1>2, <2>2 DEF JwksInv
      <3>3. 0 < LongestTtl + Timeout
        BY DEF Jwks!JwksConstants
      <3> QED
        BY <1>2, <3>1, <3>2, <3>3 DEF Jwks!TokensJudged, Jwks!StaleOnlyOnFailure
    <2> QED
      BY <2>1, <2>2
  <1> QED
    BY <1>2, <1>3, NobodyAsks, LoginStep, Zenon DEF JwksInv

(* A login goes away. *)
LEMMA LeaveInv ==
    ASSUME JwksInv, NEW l \in Login, Jwks!Leave(l)
    PROVE  JwksInv'
  <1>1. /\ logins' = [logins EXCEPT ![l] = Jwks!Idle] /\ replied' = Jwks!None
        /\ UNCHANGED <<clock, google, keys, stored, failed>>
    BY DEF Jwks!Leave, Jwks!Become
  <1> QED
    BY <1>1, NoReply, NobodyAsks, LoginStep, Zenon DEF JwksInv

(* Google rotates its keys, or time passes. *)
LEMMA JwksOutsideInv ==
    ASSUME Jwks!JwksConstants, JwksInv, Jwks!Rotate \/ Jwks!Tick
    PROVE  JwksInv'
  <1>1. /\ UNCHANGED <<keys, logins, stored, failed>> /\ replied' = Jwks!None
        /\ clock \in Nat /\ clock' \in Nat /\ clock <= clock' /\ clock' <= clock + 1
        /\ Timeout \in Nat /\ LongestTtl \in Nat
    BY DEF Jwks!Rotate, Jwks!Tick, JwksInv, Jwks!JwksConstants
  <1>2. GoogleSound' /\ Jwks!TokensJudged' /\ Jwks!StaleOnlyOnFailure'
    BY <1>1, GoogleKept, NoReply
  <1>3. ASSUME keys' # Jwks!None PROVE EntrySound(keys)'
    <2>1. PICK k \in AnEntry : k = keys
      BY <1>1, <1>3 DEF JwksInv
    <2>2. EntrySound(k) /\ k.asof \in Nat
      BY <1>1, <1>3, <2>1 DEF JwksInv, AnEntry
    <2>3. KeysSound(k)'
      BY <2>2, KeysKept DEF EntrySound
    <2> QED
      BY <1>1, <2>1, <2>2, <2>3 DEF EntrySound, KeysSound
  <1>4. ASSUME NEW l \in Login PROVE LoginSound(logins[l])'
    <2>1. CASE logins[l].pc = "idle"
      BY <1>1, <2>1 DEF LoginSound
    <2>2. CASE logins[l].pc = "fetching"
      <3>1. PICK t \in AToken, u \in Nat, g \in AKeySet \union {Jwks!None} :
                logins[l] = [pc |-> "fetching", token |-> t, until |-> u, got |-> g]
        BY <2>2 DEF JwksInv, ALogin
      <3>2. FetchSound(logins[l])
        BY <2>2 DEF JwksInv, LoginSound
      <3>3. TokenSound(t)'
        BY <3>1, <3>2, TokensKept DEF FetchSound
      <3>4. clock' <= u /\ u <= clock' + Timeout
        BY <1>1, <2>2, <3>1, <3>2 DEF Jwks!Rotate, Jwks!Tick, FetchSound
      <3>5. ASSUME g # Jwks!None
            PROVE  g.asof <= clock' /\ u <= g.asof + Timeout /\ g.ttl <= LongestTtl /\ KeysSound(g)'
        <4>1. g \in AKeySet /\ g.asof \in Nat
          BY <3>5 DEF AKeySet
        <4> QED
          <5>0a. PICK r : r = logins[l]
            OBVIOUS
          <5>0b. r = [pc |-> "fetching", token |-> t, until |-> u, got |-> g]
            BY Zenon, <3>1, <5>0a
          <5>0c. r.until = u /\ r.got = g
            BY <5>0b
          <5>0. logins[l].until = u /\ logins[l].got = g
            BY Zenon, <5>0a, <5>0c
          <5>1. g.asof <= clock /\ u <= g.asof + Timeout /\ g.ttl <= LongestTtl /\ KeysSound(g)
            BY Zenon, <3>2, <3>5, <5>0 DEF FetchSound
          <5>2. KeysSound(g)'
            BY <4>1, <5>1, KeysKept
          <5> QED
            BY <1>1, <4>1, <5>1, <5>2
      <3>6. FetchSound(logins[l])'
        <4>1a. PICK r : r = logins'[l]
          OBVIOUS
        <4>1b. r = [pc |-> "fetching", token |-> t, until |-> u, got |-> g]
          BY Zenon, <1>1, <3>1, <4>1a
        <4>1c. r.token = t /\ r.until = u /\ r.got = g
          BY <4>1b
        <4>1. logins'[l].token = t /\ logins'[l].until = u /\ logins'[l].got = g
          BY Zenon, <4>1a, <4>1c
        <4>2. TokenSound(logins[l].token)'
          BY <3>3, <4>1 DEF TokenSound
        <4>3. clock' <= logins'[l].until /\ logins'[l].until <= clock' + Timeout
          BY <3>4, <4>1
        <4>4. ASSUME logins'[l].got # Jwks!None
              PROVE  /\ logins'[l].got.asof <= clock'
                     /\ logins'[l].until <= logins'[l].got.asof + Timeout
                     /\ logins'[l].got.ttl <= LongestTtl
          BY <3>5, <4>1, <4>4, Zenon
        <4>5. ASSUME logins'[l].got # Jwks!None PROVE KeysSound(logins[l].got)'
          BY <3>5, <4>1, <4>5 DEF KeysSound
        <4> QED
          BY <4>2, <4>3, <4>4, <4>5 DEF FetchSound
      <3> QED
        BY <1>1, <2>2, <3>6 DEF LoginSound
    <2>3. CASE logins[l].pc = "storing"
      <3>1. PICK t \in AToken, e \in AnEntry :
                logins[l] = [pc |-> "storing", token |-> t, entry |-> e]
        BY <2>3 DEF JwksInv, ALogin
      <3>2. TokenSound(t) /\ EntrySound(e) /\ clock <= e.asof + Timeout
        BY <3>1 DEF JwksInv, LoginSound
      <3>3. TokenSound(t)' /\ KeysSound(e)'
        BY <3>2, TokensKept, KeysKept DEF EntrySound
      <3>4. clock' = clock
        BY <2>3 DEF Jwks!Rotate, Jwks!Tick
      <3>5. EntrySound(e)'
        BY <3>2, <3>3, <3>4 DEF EntrySound, KeysSound
      <3>6. /\ logins'[l] = logins[l] /\ logins[l].pc = "storing"
            /\ logins[l].token = t /\ logins[l].entry = e
        BY <1>1, <3>1
      <3>7. TokenSound(logins[l].token)'
        BY <3>3, <3>6 DEF TokenSound
      <3>8. EntrySound(logins[l].entry)'
        BY <3>5, <3>6 DEF EntrySound, KeysSound
      <3>9. clock' <= logins'[l].entry.asof + Timeout /\ logins'[l].pc = "storing"
        BY <3>2, <3>4, <3>6
      <3> QED
        BY <3>7, <3>8, <3>9 DEF LoginSound
    <2> QED
      BY <2>1, <2>2, <2>3 DEF JwksInv, ALogin
  <1> QED
    BY <1>1, <1>2, <1>3, <1>4 DEF JwksInv

(* Nothing is cached at first. *)
LEMMA JwksInitInv ==
    Jwks!JwksConstants /\ Jwks!Init => JwksInv
  <1> SUFFICES ASSUME Jwks!JwksConstants, Jwks!Init PROVE JwksInv
    OBVIOUS
  <1>1. GoogleSound /\ clock \in Nat
    BY DEF Jwks!JwksConstants, Jwks!Init, GoogleSound
  <1>2. logins \in [Login -> ALogin] /\ \A l \in Login : LoginSound(logins[l])
    BY NobodyAsks DEF Jwks!Init
  <1> QED
    BY <1>1, <1>2 DEF Jwks!Init, JwksInv, Jwks!TokensJudged, Jwks!StaleOnlyOnFailure

(* The invariant is inductive. *)
LEMMA JwksNextInv ==
    ASSUME Jwks!JwksConstants, JwksInv, Jwks!Next
    PROVE  JwksInv'
  BY AskInv, AnswerInv, ArriveInv, StoreInv, FailInv, LeaveInv, JwksOutsideInv DEF Jwks!Next

-----------------------------------------------------------------------------
(* The blacklist in memory. *)

(* The map holds every revocation that is in force, with what was promised. *)
EntriesSound ==
    /\ DOMAIN entries \subseteq Jti /\ entries \in [DOMAIN entries -> Blacklist!Entry]
    /\ \A j \in DOMAIN entries :
        entries[j].revoked_at <= now /\ entries[j].revoked_at + entries[j].ttl = promised[j]
    /\ \A j \in Jti : now < promised[j] => j \in DOMAIN entries

BlacklistInv ==
    /\ now \in Nat
    /\ promised \in [Jti -> Nat]
    /\ EntriesSound
    /\ lookups \subseteq Blacklist!Call
    /\ \A q \in lookups : q.clock <= now

(* An entry is in force at t as long as what was promised. *)
LEMMA InForceUntil ==
    ASSUME NEW e \in Blacklist!Entry, NEW t \in Nat
    PROVE  /\ Blacklist!InForce(e, t) => t < e.revoked_at + e.ttl
           /\ ~Blacklist!InForce(e, t) =>
                e.revoked_at + e.ttl <= t \/ e.revoked_at + e.ttl = e.revoked_at
  BY DEF Blacklist!Entry, Blacklist!InForce, Blacklist!Age

(* Nothing is revoked at first. *)
LEMMA BlacklistInitInv ==
    Blacklist!Init => BlacklistInv
  BY DEF Blacklist!Init, BlacklistInv, EntriesSound

(* A revocation drops only what has lapsed. *)
LEMMA RevokeInv ==
    ASSUME Blacklist!BlacklistConstants, BlacklistInv, NEW j \in Jti, NEW ttl \in Ttl,
           Blacklist!Revoke(j, ttl)
    PROVE  BlacklistInv' /\ Blacklist!AnswersTrue
  <1>1. ttl \in Nat /\ now \in Nat /\ UNCHANGED <<now, lookups>>
    BY DEF Blacklist!BlacklistConstants, BlacklistInv, Blacklist!Revoke
  <1>2. promised' \in [Jti -> Nat] /\ promised' = [promised EXCEPT ![j] = now + ttl]
    BY <1>1 DEF BlacklistInv, Blacklist!Revoke
  <1> DEFINE kept == {k \in DOMAIN entries : Blacklist!InForce(entries[k], now)}
  <1>3. entries' = [k \in kept \union {j} |->
                    IF k = j THEN [revoked_at |-> now, ttl |-> ttl] ELSE entries[k]]
    BY DEF Blacklist!Revoke
  <1>4. kept \subseteq DOMAIN entries /\ DOMAIN entries \subseteq Jti
    BY DEF BlacklistInv, EntriesSound
  <1>5. DOMAIN entries' \subseteq Jti /\ entries' \in [DOMAIN entries' -> Blacklist!Entry]
    BY <1>1, <1>3, <1>4 DEF BlacklistInv, EntriesSound, Blacklist!Entry
  <1>6. ASSUME NEW k \in DOMAIN entries'
        PROVE  /\ entries'[k].revoked_at <= now'
               /\ entries'[k].revoked_at + entries'[k].ttl = promised'[k]
    <2>1. CASE k = j
      BY <1>1, <1>2, <1>3, <2>1 DEF BlacklistInv
    <2>2. CASE k # j
      <3>1. k \in DOMAIN entries /\ entries'[k] = entries[k] /\ promised'[k] = promised[k]
        BY <1>2, <1>3, <1>4, <2>2 DEF BlacklistInv
      <3> QED
        BY <1>1, <3>1 DEF BlacklistInv, EntriesSound
    <2> QED
      BY <2>1, <2>2
  <1>7. ASSUME NEW k \in Jti, now' < promised'[k] PROVE k \in DOMAIN entries'
    <2>1. CASE k # j
      <3>1. now < promised[k] /\ k \in DOMAIN entries
        BY <1>1, <1>2, <1>7, <2>1 DEF BlacklistInv, EntriesSound
      <3>2. /\ entries[k] \in Blacklist!Entry /\ entries[k].revoked_at <= now
            /\ entries[k].revoked_at + entries[k].ttl = promised[k]
        BY <3>1 DEF BlacklistInv, EntriesSound
      <3>3. Blacklist!InForce(entries[k], now)
        BY <1>1, <3>1, <3>2, InForceUntil DEF Blacklist!Entry
      <3> QED
        BY <1>3, <3>1, <3>3
    <2> QED
      BY <1>3, <2>1
  <1>8. Blacklist!AnswersTrue
    BY <1>1 DEF Blacklist!AnswersTrue
  <1> HIDE DEF kept
  <1> QED
    BY <1>1, <1>2, <1>5, <1>6, <1>7, <1>8 DEF BlacklistInv, EntriesSound

(* The steps of a lookup. *)
LEMMA LookupInv ==
    ASSUME BlacklistInv, NEW q \in lookups,
           \/ Blacklist!FastPath(q) \/ Blacklist!ReadClock(q)
           \/ Blacklist!SlowPath(q) \/ Blacklist!Return(q)
    PROVE  BlacklistInv' /\ Blacklist!AnswersTrue
  <1>1. PICK id \in Reader, j \in Jti, c \in Nat,
             s \in {"read", "expired", "write", "true", "false"} :
            q = [id |-> id, jti |-> j, pc |-> s, clock |-> c]
    BY DEF BlacklistInv, Blacklist!Call
  <1>2. now \in Nat /\ c <= now /\ promised \in [Jti -> Nat] /\ UNCHANGED <<now, promised>>
    BY <1>1
    DEF BlacklistInv, Blacklist!FastPath, Blacklist!ReadClock, Blacklist!SlowPath,
        Blacklist!Return
  <1>3. j \in DOMAIN entries =>
            /\ entries[j] \in Blacklist!Entry /\ entries[j].revoked_at <= now
            /\ entries[j].revoked_at + entries[j].ttl = promised[j]
    BY DEF BlacklistInv, EntriesSound
  <1>4. /\ j \notin DOMAIN entries => promised[j] <= now
        /\ j \in DOMAIN entries /\ Blacklist!InForce(entries[j], c) => c < promised[j]
        /\ j \in DOMAIN entries /\ ~Blacklist!InForce(entries[j], c) => promised[j] <= now
    <2>1. j \notin DOMAIN entries => promised[j] <= now
      BY <1>2 DEF BlacklistInv, EntriesSound
    <2>2. j \in DOMAIN entries /\ Blacklist!InForce(entries[j], c) => c < promised[j]
      BY <1>3, InForceUntil
    <2>3. j \in DOMAIN entries /\ ~Blacklist!InForce(entries[j], c) => promised[j] <= now
      <3>1. promised[j] \in Nat
        BY <1>2
      <3> QED
        BY <1>2, <1>3, <3>1, InForceUntil
    <2> QED
      BY <2>1, <2>2, <2>3
  <1>5. ASSUME NEW p \in {"read", "expired", "write", "true", "false"}, NEW d \in Nat, d <= now,
               lookups' = (lookups \ {q}) \union {[id |-> id, jti |-> j, pc |-> p, clock |-> d]}
                 \/ lookups' = lookups \ {q},
               p = "false" => promised[j] <= now, p = "true" => d < promised[j]
        PROVE  /\ lookups' \subseteq Blacklist!Call
               /\ \A r \in lookups' : r.clock <= now'
               /\ Blacklist!AnswersTrue
    <2>1. [id |-> id, jti |-> j, pc |-> p, clock |-> d] \in Blacklist!Call
      BY <1>5 DEF Blacklist!Call
    <2> QED
      BY <1>2, <1>5, <2>1 DEF BlacklistInv, Blacklist!AnswersTrue
  <1>6. CASE Blacklist!FastPath(q)
    <2> DEFINE p == IF j \notin DOMAIN entries THEN "false"
                    ELSE IF Blacklist!InForce(entries[j], c) THEN "true" ELSE "expired"
    <2>1. /\ lookups' = (lookups \ {q}) \union {[id |-> id, jti |-> j, pc |-> p, clock |-> c]}
          /\ UNCHANGED entries
      BY <1>1, <1>6 DEF Blacklist!FastPath, Blacklist!Become
    <2>2. /\ lookups' \subseteq Blacklist!Call
          /\ \A r \in lookups' : r.clock <= now'
          /\ Blacklist!AnswersTrue
      BY <1>2, <1>4, <1>5, <2>1
    <2> QED
      BY <1>2, <2>1, <2>2 DEF BlacklistInv, EntriesSound
  <1>7. CASE Blacklist!ReadClock(q)
    <2> DEFINE r == [q EXCEPT !.pc = "write", !.clock = now]
    <2>1. lookups' = (lookups \ {q}) \union {r} /\ UNCHANGED entries
      BY <1>7 DEF Blacklist!ReadClock, Blacklist!Become
    <2>2. r \in Blacklist!Call /\ r.pc = "write" /\ r.clock = now
      BY <1>2, Zenon DEF Blacklist!Call, BlacklistInv
    <2> HIDE DEF r
    <2> QED
      BY <1>2, <2>1, <2>2 DEF BlacklistInv, EntriesSound, Blacklist!AnswersTrue
  <1>8. CASE Blacklist!SlowPath(q)
    <2> DEFINE live == j \in DOMAIN entries /\ Blacklist!InForce(entries[j], c)
               p == IF live THEN "true" ELSE "false"
    <2>1. /\ lookups' = (lookups \ {q}) \union {[id |-> id, jti |-> j, pc |-> p, clock |-> c]}
          /\ entries' = IF live THEN entries ELSE [k \in DOMAIN entries \ {j} |-> entries[k]]
      BY <1>1, <1>8 DEF Blacklist!SlowPath, Blacklist!Become
    <2>2. /\ lookups' \subseteq Blacklist!Call
          /\ \A r \in lookups' : r.clock <= now'
          /\ Blacklist!AnswersTrue
      BY <1>2, <1>4, <1>5, <2>1
    <2>3. EntriesSound'
      <3>1. ~live => promised[j] <= now
        BY <1>4
      <3> QED
        BY <1>2, <2>1, <3>1 DEF BlacklistInv, EntriesSound
    <2> QED
      BY <1>2, <2>2, <2>3 DEF BlacklistInv
  <1>9. CASE Blacklist!Return(q)
    <2>1. lookups' = lookups \ {q} /\ UNCHANGED entries
      BY <1>9 DEF Blacklist!Return
    <2> QED
      BY <1>2, <2>1 DEF BlacklistInv, EntriesSound, Blacklist!AnswersTrue
  <1> QED
    BY <1>6, <1>7, <1>8, <1>9

(* The invariant is inductive, and answers are true. *)
LEMMA BlacklistNextInv ==
    ASSUME Blacklist!BlacklistConstants, BlacklistInv, Blacklist!Next
    PROVE  BlacklistInv' /\ Blacklist!AnswersTrue
  <1>1. ASSUME NEW id \in Reader, NEW j \in Jti, Blacklist!Ask(id, j)
        PROVE  BlacklistInv' /\ Blacklist!AnswersTrue
    BY <1>1 DEF Blacklist!Ask, BlacklistInv, EntriesSound, Blacklist!AnswersTrue, Blacklist!Call
  <1>2. CASE Blacklist!Tick
    BY <1>2
    DEF Blacklist!Tick, BlacklistInv, EntriesSound, Blacklist!AnswersTrue, Blacklist!Entry,
        Blacklist!Call
  <1> QED
    BY <1>1, <1>2, RevokeInv, LookupInv DEF Blacklist!Next

-----------------------------------------------------------------------------
(* The invariants are kept by every step. *)
LEMMA JwksStepInv == JwksInv /\ [Jwks!Next]_(Jwks!vars) => JwksInv'
  <1> SUFFICES ASSUME JwksInv, Jwks!Next \/ UNCHANGED Jwks!vars PROVE JwksInv'
    BY Zenon
  <1>1. CASE UNCHANGED Jwks!vars
    <2>1. UNCHANGED <<clock, google, keys, logins, replied, stored, failed>>
      BY <1>1 DEF Jwks!vars
    <2>2. GoogleSound'
      BY <2>1 DEF JwksInv, GoogleSound
    <2>3. (keys # Jwks!None => EntrySound(keys))'
      BY <2>1, Zenon DEF JwksInv, EntrySound, KeysSound
    <2>4. ASSUME NEW l \in Login PROVE LoginSound(logins[l])'
      <3>1. LoginSound(logins[l])
        BY DEF JwksInv
      <3> QED
        BY <2>1, <3>1, Zenon DEF LoginSound, FetchSound, TokenSound, EntrySound, KeysSound
    <2>5. Jwks!TokensJudged' /\ Jwks!StaleOnlyOnFailure'
      BY <2>1, Zenon DEF JwksInv, Jwks!TokensJudged, Jwks!StaleOnlyOnFailure
    <2> QED
      BY <2>1, <2>2, <2>3, <2>4, <2>5, Zenon DEF JwksInv
  <1>2. Jwks!JwksConstants
    BY CacheConstants, Zenon
  <1> QED
    BY <1>1, <1>2, JwksNextInv, Zenon

(* The same for the blacklist. *)
LEMMA BlacklistStepInv == BlacklistInv /\ [Blacklist!Next]_(Blacklist!vars) => BlacklistInv'
  <1>1. CASE UNCHANGED Blacklist!vars
    BY <1>1 DEF Blacklist!vars, BlacklistInv, EntriesSound
  <1> QED
    BY <1>1, CacheConstants, BlacklistNextInv

(* While no fetch fails, tokens are judged by what they are, for every      *)
(* lifetime of keys that Google's lead allows for.                          *)
THEOREM TokensAreJudged == Jwks!Spec => []TokensJudged
  <1>1. JwksInv => TokensJudged
    BY DEF JwksInv, TokensJudged
  <1> QED
    BY <1>1, CacheConstants, JwksInitInv, JwksStepInv, PTL DEF Jwks!Spec

(* Keys past their lifetime are for logins whose own fetch failed. *)
THEOREM StaleKeysAreForFailures == Jwks!Spec => []StaleOnlyOnFailure
  <1>1. JwksInv => StaleOnlyOnFailure
    BY DEF JwksInv, StaleOnlyOnFailure
  <1> QED
    BY <1>1, CacheConstants, JwksInitInv, JwksStepInv, PTL DEF Jwks!Spec

(* The answers of the blacklist in memory are true. *)
THEOREM LookupsAreTrue == Blacklist!Spec => AnswersAreTrue
  <1>1. BlacklistInv /\ [Blacklist!Next]_(Blacklist!vars) => [Blacklist!AnswersTrue]_blacklist
    <2> SUFFICES ASSUME BlacklistInv, Blacklist!Next PROVE Blacklist!AnswersTrue
      BY DEF Blacklist!vars, blacklist
    <2> QED
      BY CacheConstants, BlacklistNextInv
  <1> QED
    BY <1>1, CacheConstants, BlacklistInitInv, BlacklistStepInv, PTL
    DEF Blacklist!Spec, AnswersAreTrue
=============================================================================
