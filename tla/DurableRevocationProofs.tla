----------------------- MODULE DurableRevocationProofs -----------------------
(***************************************************************************)
(* Proofs about DurableRevocation, for any instances, tokens, requests,    *)
(* token lifetimes, batch size and clock bound.                            *)
(***************************************************************************)
EXTENDS DurableRevocation, FiniteSetTheorems, TLAPS

(* Every token dies at some second. *)
LEMMA DeadlineType == Deadline \in [Jti -> Nat]
  BY ConstantsOK DEF Deadline

(* The TTL a logout computes is a natural number and, counted from the     *)
(* second it was computed in, reaches the token's deadline.                *)
LEMMA TtlReachesDeadline ==
  ASSUME NEW j \in Jti, NEW t \in Nat
  PROVE  /\ revocation_ttl_secs(Exp[j], t) \in Nat
         /\ Deadline[j] <= t + revocation_ttl_secs(Exp[j], t)
  BY ConstantsOK DEF Deadline, revocation_ttl_secs

-----------------------------------------------------------------------------
(* Type correctness, and a finite outbox. *)
TypeInv == TypeOK /\ IsFiniteSet(outbox)

(* Every store is empty at first. *)
LEMMA TypeInit == Init => TypeInv
  <1> SUFFICES ASSUME Init PROVE TypeInv
    OBVIOUS
  <1>1. IsFiniteSet(outbox)
    BY FS_EmptySet DEF Init
  <1>2. Idle \in Sweep
    BY DEF Idle, Sweep
  <1> QED
    BY <1>1, <1>2 DEF Init, TypeInv, TypeOK

(* The row a journal() call inserts. *)
LEMMA InsertedType ==
  ASSUME TypeInv, NEW q \in reqs
  PROVE  Inserted(q) \subseteq Row /\ IsFiniteSet(Inserted(q)) /\ outbox \subseteq Inserted(q)
  <1> q \in Request
    BY DEF TypeInv, TypeOK
  <1>1. [jti |-> q.jti, ttl |-> q.ttl, expires |-> now + q.ttl, created |-> now] \in Row
    BY DEF TypeInv, TypeOK, Request, Row
  <1> QED
    BY Zenon, <1>1, FS_AddElement DEF TypeInv, TypeOK, Inserted

(* The steps of a request keep the types. *)
LEMMA TypeHandler ==
  ASSUME TypeInv, NEW q \in reqs, Handler(q)
  PROVE  TypeInv'
  <1> USE DEF TypeInv, TypeOK, env, store, history
  <1>0. q \in Request
    OBVIOUS
  <1>1. CASE Lookup(q)
    <2> DEFINE must == q.jti \in seen[q.inst] \/ now < redis[q.jti]
               q2 == [q EXCEPT !.pc = "exists", !.t = 0, !.must = must]
    <2>1. must \in BOOLEAN
      OBVIOUS
    <2>2. q2 \in Request
      <3> HIDE DEF must
      <3> QED  BY Zenon, <1>0, <2>1 DEF Request
    <2>3. reqs' \subseteq reqs \union {q2}
      BY Zenon, <1>1 DEF Lookup, Become, Finish
    <2>4. pending' \in [Instance -> [Jti -> Nat]]
      BY <1>0, <1>1 DEF Lookup, Request
    <2> HIDE DEF q2, must
    <2> QED
      BY <1>1, <2>2, <2>3, <2>4 DEF Lookup
  <1>2. CASE Exists(q)
    <2>1. /\ [q EXCEPT !.pc = "handler", !.clear = TRUE] \in Request
          /\ [q EXCEPT !.pc = "handler"] \in Request
      BY Zenon, <1>0 DEF Request
    <2>2. reqs' \subseteq Request
      BY Zenon, <1>2, <2>1 DEF Exists, Become, Finish
    <2> QED
      BY <1>2, <2>2 DEF Exists
  <1>3. CASE OtherHandler(q)
    BY <1>0, <1>3 DEF OtherHandler, Finish
  <1>4. CASE LogoutHandler(q)
    <2> DEFINE ttl == revocation_ttl_secs(Exp[q.jti], now)
               q2  == [q EXCEPT !.pc = "setex", !.must = FALSE, !.clear = FALSE, !.ttl = ttl]
    <2>1. ttl \in Nat
      BY <1>0, TtlReachesDeadline DEF Request
    <2>2. q2 \in Request
      <3> HIDE DEF ttl
      <3> QED  BY Zenon, <1>0, <2>1 DEF Request
    <2>3. reqs' \subseteq reqs \union {q2}
      BY <1>4 DEF LogoutHandler, Become
    <2> HIDE DEF q2, ttl
    <2> QED
      BY <1>4, <2>2, <2>3 DEF LogoutHandler
  <1>5. CASE RevokeInner(q)
    <2>1. CASE InnerOk(q.jti, q.ttl) /\ Finish(q) /\ Acknowledge(q)
      BY <1>0, <1>5, <2>1 DEF RevokeInner, InnerOk, Finish, Acknowledge, Request
    <2>2. CASE InnerErr(q.jti, q.ttl) /\ Become(q, [q EXCEPT !.pc = "journal"]) /\ UNCHANGED history
      BY <1>0, <1>5, <2>2 DEF RevokeInner, InnerErr, Become, Request, Setex
    <2> QED
      BY <1>5, <2>1, <2>2 DEF RevokeInner
  <1>6. CASE Journal(q)
    BY <1>0, <1>6, InsertedType DEF Journal, Become, Finish, Request
  <1>7. CASE Remember(q)
    BY <1>0, <1>7 DEF Remember, Finish, Acknowledge, Request
  <1>8. CASE Abandon(q)
    BY <1>0, <1>8, InsertedType DEF Abandon, Finish, Request, Setex
  <1> QED
    BY <1>1, <1>2, <1>3, <1>4, <1>5, <1>6, <1>7, <1>8 DEF Handler

(* The steps of a flush worker keep the types. *)
LEMMA TypeFlush ==
  ASSUME TypeInv, NEW i \in Instance, FlushWorker(i)
  PROVE  TypeInv'
  <1> USE DEF TypeInv, TypeOK, env, store, history
  <1>0. flush[i] \in Sweep /\ Idle \in Sweep
    BY DEF Idle, Sweep
  <1>1. CASE FlushPurge(i)
    BY Zenon, <1>0, <1>1, FS_Subset DEF FlushPurge, Sweep
  <1>2. CASE FlushSelect(i)
    <2>1. CASE ~pgUp
      BY <1>0, <1>2, <2>1 DEF FlushSelect
    <2>2. CASE pgUp
      <3>1. PICK B \in SUBSET outbox :
              flush' = [flush EXCEPT ![i] =
                 [pc |-> "rows", flushed |-> {}, remaining |-> 0,
                  rows |-> {[jti |-> b.jti, ttl |-> b.ttl] : b \in B}]]
        BY Zenon, <1>2, <2>2 DEF FlushSelect
      <3>3. {[jti |-> b.jti, ttl |-> b.ttl] : b \in B} \subseteq Setex
        BY DEF Row, Setex
      <3> DEFINE rows == {[jti |-> b.jti, ttl |-> b.ttl] : b \in B}
      <3> HIDE DEF rows
      <3>4. [pc |-> "rows", flushed |-> {}, remaining |-> 0, rows |-> rows] \in Sweep
        BY <3>3 DEF Sweep, rows
      <3>5. flush' \in [Instance -> Sweep]
        BY <3>1, <3>4 DEF rows
      <3> QED
        BY <1>2, <3>5 DEF FlushSelect
    <2> QED
      BY <2>1, <2>2
  <1>3. CASE FlushRow(i)
    <2>1. PICK r \in flush[i].rows :
            \/ /\ InnerOk(r.jti, r.ttl)
               /\ flush' = [flush EXCEPT ![i].rows = @ \ {r}, ![i].flushed = @ \union {r.jti}]
            \/ /\ InnerErr(r.jti, r.ttl)
               /\ flush' = [flush EXCEPT ![i].rows = @ \ {r}, ![i].remaining = @ + 1]
      BY Zenon, <1>3 DEF FlushRow
    <2>2. r \in Setex
      BY <1>0 DEF Sweep
    <2>3. flush' \in [Instance -> Sweep]
      <3>1. [flush[i] EXCEPT !.rows = @ \ {r}, !.flushed = @ \union {r.jti}] \in Sweep
        BY Zenon, <1>0, <2>2 DEF Sweep, Setex
      <3>2. [flush[i] EXCEPT !.rows = @ \ {r}, !.remaining = @ + 1] \in Sweep
        <4>1. flush[i].remaining + 1 \in Nat /\ flush[i].rows \ {r} \in SUBSET Setex
          BY <1>0 DEF Sweep
        <4> QED
          BY Zenon, <1>0, <4>1 DEF Sweep
      <3> QED
        BY Zenon, <2>1, <3>1, <3>2
    <2>4. redis' \in [Jti -> Nat] /\ late' \subseteq Setex
      <3>1. CASE InnerOk(r.jti, r.ttl)
        BY <2>2, <3>1 DEF InnerOk, Setex
      <3>2. CASE InnerErr(r.jti, r.ttl)
        BY <2>2, <3>2 DEF InnerErr, Setex
      <3> QED
        BY <2>1, <3>1, <3>2
    <2> QED
      BY <1>3, <2>3, <2>4 DEF FlushRow
  <1>4. CASE FlushNothing(i)
    BY <1>0, <1>4 DEF FlushNothing, Return
  <1>5. CASE FlushDelete(i)
    <2>1. flush' \in [Instance -> Sweep]
      <3>1. [flush[i] EXCEPT !.pc = "forget"] \in Sweep
        BY Zenon, <1>0 DEF Sweep
      <3> QED
        BY Zenon, <1>0, <1>5, <3>1 DEF FlushDelete
    <2>2. outbox' \subseteq outbox
      BY <1>5 DEF FlushDelete
    <2> QED
      BY <1>5, <2>1, <2>2, FS_Subset DEF FlushDelete
  <1>6. CASE FlushForget(i)
    BY <1>0, <1>6 DEF FlushForget, Return
  <1> QED
    BY <1>1, <1>2, <1>3, <1>4, <1>5, <1>6 DEF FlushWorker

(* Every step does. *)
LEMMA TypeNext == TypeInv /\ [Next]_vars => TypeInv'
  <1> SUFFICES ASSUME TypeInv, [Next]_vars PROVE TypeInv'
    OBVIOUS
  <1> USE DEF env, store, history
  <1>1. ASSUME NEW id \in Req, NEW i \in Instance, NEW j \in Jti, Arrive(id, i, j)
        PROVE  TypeInv'
    <2>1. now \in Nat
      BY DEF TypeInv, TypeOK
    <2>2. [id |-> id, inst |-> i, jti |-> j, pc |-> "lookup", t |-> now, ttl |-> 0,
           must |-> FALSE, clear |-> FALSE] \in Request
      BY <2>1 DEF Request
    <2> QED
      BY Zenon, <1>1, <2>2 DEF Arrive, TypeInv, TypeOK
  <1>2. ASSUME NEW i \in Instance, Crash(i)
        PROVE  TypeInv'
    <2>1. Idle \in Sweep
      BY DEF Idle, Sweep
    <2> QED
      BY <1>2, <2>1 DEF Crash, TypeInv, TypeOK
  <1>3. ASSUME NEW i \in Instance, Start(i)
        PROVE  TypeInv'
    BY <1>3 DEF Start, TypeInv, TypeOK
  <1>4. ASSUME NEW c \in late, LateSetex(c)
        PROVE  TypeInv'
    BY <1>4 DEF LateSetex, TypeInv, TypeOK, Setex
  <1>5. CASE Tick
    BY <1>5 DEF Tick, TypeInv, TypeOK
  <1>6. CASE RedisFlips
    BY <1>6 DEF RedisFlips, TypeInv, TypeOK
  <1>7. CASE PostgresFlips
    BY <1>7 DEF PostgresFlips, TypeInv, TypeOK
  <1>8. CASE UNCHANGED vars
    BY <1>8 DEF vars, TypeInv, TypeOK
  <1> QED
    BY <1>1, <1>2, <1>3, <1>4, <1>5, <1>6, <1>7, <1>8, TypeHandler, TypeFlush DEF Next

(* Every variable keeps its type, in every instance of the model. *)
THEOREM TypeCorrect == Spec => []TypeOK
  <1>1. Spec => []TypeInv
    BY TypeInit, TypeNext, PTL DEF Spec
  <1>2. TypeInv => TypeOK
    BY DEF TypeInv
  <1> QED
    BY <1>1, <1>2, PTL

-----------------------------------------------------------------------------
(* The inductive invariant. *)
IInv == TypeInv /\ RevocationsCovered

(* What a step must do for everything covered before it to stay covered:   *)
(* the clock does not run back, no token stops being landed, and no row    *)
(* leaves the outbox before its token is landed.                           *)
Carries ==
    /\ now <= now'
    /\ \A j \in Jti : Landed(j) => Landed(j)'
    /\ \A j \in Jti : Journaled(j) => Journaled(j)' \/ Landed(j)'

(* Then single records stay covered, *)
LEMMA CarryOver ==
  ASSUME TypeInv, TypeInv', Carries
  PROVE  /\ \A c \in Setex : LongEnough(c) => LongEnough(c)'
         /\ \A row \in Row : RowCovered(row) => RowCovered(row)'
         /\ \A s \in Sweep : SweepCovered(s) => SweepCovered(s)'
         /\ \A q \in Request : RequestCovered(q) => RequestCovered(q)'
  <1> USE DeadlineType
  <1>0. now \in Nat /\ now' \in Nat /\ now <= now'
    BY DEF TypeInv, TypeOK, Carries
  <1>1. ASSUME NEW c \in Setex, LongEnough(c) PROVE LongEnough(c)'
    BY <1>0, <1>1 DEF LongEnough, Setex, Deadline
  <1>2. ASSUME NEW row \in Row, RowCovered(row) PROVE RowCovered(row)'
    BY <1>0, <1>2 DEF RowCovered, LongEnough, Row, Deadline
  <1>3. ASSUME NEW s \in Sweep, SweepCovered(s) PROVE SweepCovered(s)'
    <2>1. s.rows \subseteq Setex /\ s.flushed \subseteq Jti
      BY DEF Sweep
    <2> QED
      BY <1>1, <1>3, <2>1 DEF SweepCovered, Carries
  <1>4. ASSUME NEW q \in Request, RequestCovered(q) PROVE RequestCovered(q)'
    <2>1. q.jti \in Jti /\ q.t \in Nat /\ q.ttl \in Nat
      BY DEF Request
    <2>2. LongEnough(q) => LongEnough(q)'
      BY <1>0, <2>1 DEF LongEnough, Deadline
    <2>3. Deadline[q.jti] <= now => Deadline[q.jti] <= now'
      BY <1>0, <2>1
    <2> QED
      BY <1>0, <1>4, <2>1, <2>2, <2>3 DEF RequestCovered, Carries, Deadline
  <1> QED
    BY <1>1, <1>2, <1>3, <1>4

(* and the whole state does once what the step adds is covered. *)
LEMMA KeepsCovered ==
  ASSUME IInv, TypeInv', Carries,
         \A j \in Jti : redis'[j] = 0 \/ Deadline[j] <= redis'[j],
         \A c \in late' \ late : LongEnough(c)',
         \A row \in outbox' \ outbox : RowCovered(row)',
         \A i \in Instance : flush'[i] = flush[i] \/ SweepCovered(flush[i])',
         \A q \in reqs' \ reqs : RequestCovered(q)',
         \A i \in Instance : \A j \in seen'[i] :
            \/ Deadline[j] <= pending'[i][j]
            \/ Landed(j)'
            \/ j \in seen[i] /\ pending'[i][j] = pending[i][j],
         \A j \in acked' \ acked : Landed(j)' \/ Journaled(j)'
  PROVE  IInv' /\ Carries
  <1> USE DEF IInv
  <1>1. \A c \in late' : LongEnough(c)'
    BY CarryOver DEF RevocationsCovered, TypeInv, TypeOK
  <1>2. \A row \in outbox' : RowCovered(row)'
    BY CarryOver DEF RevocationsCovered, TypeInv, TypeOK
  <1>3. ASSUME NEW i \in Instance PROVE SweepCovered(flush[i])'
    <2>1. CASE flush'[i] = flush[i]
      <3>1. flush[i] \in Sweep /\ SweepCovered(flush[i])
        BY DEF RevocationsCovered, TypeInv, TypeOK
      <3>2. PICK s \in Sweep : s = flush[i]
        BY <3>1
      <3>3. SweepCovered(s)'
        BY <3>1, <3>2, CarryOver
      <3> QED
        BY <2>1, <3>2, <3>3 DEF SweepCovered
    <2> QED
      BY <2>1
  <1>4. \A q \in reqs' : RequestCovered(q)'
    BY CarryOver DEF RevocationsCovered, TypeInv, TypeOK
  <1>5. ASSUME NEW i \in Instance, NEW j \in seen'[i]
        PROVE  Deadline[j] <= pending'[i][j] \/ Landed(j)'
    BY DEF RevocationsCovered, Carries, TypeInv, TypeOK
  <1>6. ASSUME NEW j \in acked' PROVE Landed(j)' \/ Journaled(j)'
    BY DEF RevocationsCovered, Carries, TypeInv, TypeOK
  <1> QED
    BY <1>1, <1>2, <1>3, <1>4, <1>5, <1>6 DEF RevocationsCovered, Deadline

(* A step that leaves the clock, Redis and the outbox alone carries over. *)
LEMMA QuietCarries ==
  ASSUME TypeInv, now' = now, redis' = redis, outbox \subseteq outbox'
  PROVE  Carries
  BY DEF Carries, Landed, Journaled, Deadline, TypeInv, TypeOK

(* A SETEX whose TTL is long enough lands its token and takes nothing back. *)
LEMMA SetexCarries ==
  ASSUME IInv, NEW j \in Jti, NEW ttl \in Nat, Deadline[j] <= now + ttl,
         redis' = [redis EXCEPT ![j] = now + ttl] \/ (ttl = 0 /\ redis' = redis),
         now' = now, outbox' = outbox
  PROVE  /\ Carries
         /\ Landed(j)'
         /\ \A k \in Jti : redis'[k] = 0 \/ Deadline[k] <= redis'[k]
  <1> USE DeadlineType
  <1>0. now \in Nat /\ redis \in [Jti -> Nat]
    BY DEF IInv, TypeInv, TypeOK
  <1>1. Landed(j)'
    BY <1>0 DEF Landed, Deadline
  <1>2. \A k \in Jti : redis'[k] = 0 \/ Deadline[k] <= redis'[k]
    BY <1>0 DEF IInv, RevocationsCovered
  <1>3. \A k \in Jti : Landed(k) => Landed(k)'
    <2> TAKE k \in Jti
    <2>1. CASE k = j
      BY <1>1, <2>1
    <2>2. CASE k # j
      BY <1>0, <2>2 DEF Landed, Deadline
    <2> QED
      BY <2>1, <2>2
  <1>4. \A k \in Jti : Journaled(k) => Journaled(k)'
    BY DEF Journaled
  <1> QED
    BY <1>0, <1>1, <1>2, <1>3, <1>4 DEF Carries

(* INSERT ... ON CONFLICT DO NOTHING leaves a covered row for the token. *)
LEMMA InsertCovers ==
  ASSUME IInv, NEW q \in reqs, q.pc = "journal", now' = now, redis' = redis
  PROVE  /\ outbox' \in {outbox, Inserted(q)} =>
              Carries /\ \A row \in outbox' \ outbox : RowCovered(row)'
         /\ outbox' = Inserted(q) => Journaled(q.jti)'
  <1>0. /\ q \in Request /\ q.jti \in Jti /\ q.ttl \in Nat /\ now \in Nat
        /\ Deadline[q.jti] <= now + q.ttl
    BY DEF IInv, TypeInv, TypeOK, Request, RevocationsCovered, RequestCovered, LongEnough
  <1> DEFINE row == [jti |-> q.jti, ttl |-> q.ttl, expires |-> now + q.ttl, created |-> now]
  <1>1. RowCovered(row)'
    BY <1>0 DEF RowCovered, LongEnough, Deadline
  <1>2. outbox \subseteq Inserted(q) /\ Inserted(q) \subseteq outbox \union {row}
    BY DEF Inserted
  <1>3. ASSUME outbox' \in {outbox, Inserted(q)}
        PROVE  Carries /\ \A r \in outbox' \ outbox : RowCovered(r)'
    BY <1>1, <1>2, <1>3, QuietCarries DEF IInv
  <1>4. ASSUME outbox' = Inserted(q) PROVE Journaled(q.jti)'
    <2>1. CASE Journaled(q.jti)
      BY <1>4, <2>1 DEF Journaled, Inserted
    <2>2. CASE ~Journaled(q.jti)
      <3>1. row \in outbox' /\ row.jti = q.jti
        BY <1>4, <2>2 DEF Inserted
      <3> QED
        BY <3>1 DEF Journaled
    <2> QED
      BY <2>1, <2>2
  <1> QED
    BY <1>3, <1>4

(* The steps of a request keep the invariant, and carry what is on record. *)
LEMMA CoveredHandler ==
  ASSUME IInv, NEW q \in reqs, Handler(q)
  PROVE  IInv' /\ Carries
  <1> USE DEF env, store, history
  <1>0. /\ q \in Request /\ q.jti \in Jti /\ q.inst \in Instance
        /\ q.ttl \in Nat /\ q.t \in Nat /\ now \in Nat /\ RequestCovered(q)
    BY DEF IInv, TypeInv, TypeOK, Request, RevocationsCovered
  <1>t. TypeInv /\ TypeInv'
    BY TypeHandler DEF IInv
  <1>r. \A j \in Jti : redis[j] = 0 \/ Deadline[j] <= redis[j]
    BY DEF IInv, RevocationsCovered
  <1>1. CASE Lookup(q)
    <2>1. Carries
      BY <1>1, <1>t, QuietCarries DEF Lookup
    <2>2. pending[q.inst][q.jti] <= q.t /\ q.jti \in seen[q.inst] => Landed(q.jti)
      <3>1. pending[q.inst][q.jti] \in Nat /\ Deadline[q.jti] \in Nat
        BY <1>0, <1>t, DeadlineType DEF TypeInv, TypeOK
      <3>2. q.t <= now
        BY <1>0, <1>1 DEF Lookup, RequestCovered
      <3> QED
        BY <1>0, <3>1, <3>2 DEF IInv, RevocationsCovered, Landed
    <2>3. \A i \in Instance : \A j \in seen'[i] :
            \/ Landed(j)'
            \/ j \in seen[i] /\ pending'[i][j] = pending[i][j]
      <3> SUFFICES ASSUME NEW i \in Instance, NEW j \in seen'[i]
                   PROVE  Landed(j)' \/ (j \in seen[i] /\ pending'[i][j] = pending[i][j])
        OBVIOUS
      <3>1. j \in Jti /\ j \in seen[i]
        BY <1>1, <1>t DEF Lookup, history, TypeInv, TypeOK
      <3>2. CASE pending' = pending
        BY <3>1, <3>2
      <3>3. CASE /\ pending[q.inst][q.jti] <= q.t
                 /\ pending' = [pending EXCEPT ![q.inst][q.jti] = 0]
        <4>1. CASE i = q.inst /\ j = q.jti
          BY <3>1, <3>3, <4>1, <2>1, <2>2 DEF Carries
        <4>2. CASE ~(i = q.inst /\ j = q.jti)
          <5>1. pending \in [Instance -> [Jti -> Nat]]
            BY <1>t DEF TypeInv, TypeOK
          <5>2. pending'[i][j] = pending[i][j]
            BY <3>1, <3>3, <4>2, <5>1
          <5> QED
            BY <3>1, <5>2
        <4> QED
          BY <4>1, <4>2
      <3> QED
        BY <1>1, <3>2, <3>3 DEF Lookup
    <2>4. \A q2 \in reqs' \ reqs : RequestCovered(q2)'
      <3> DEFINE must == q.jti \in seen[q.inst] \/ now < redis[q.jti]
                 q2 == [q EXCEPT !.pc = "exists", !.t = 0, !.must = must]
      <3> SUFFICES ASSUME NEW x \in reqs' \ reqs PROVE RequestCovered(x)'
        OBVIOUS
      <3>1. pending[q.inst][q.jti] <= q.t /\ x = q2
        BY Zenon, <1>1 DEF Lookup, Become, Finish
      <3>2. must => Landed(q.jti)'
        <4>1. CASE q.jti \in seen[q.inst]
          BY <1>0, <2>1, <2>2, <3>1, <4>1 DEF Carries
        <4>2. CASE now < redis[q.jti]
          <5>1. Deadline[q.jti] <= redis[q.jti]
            BY <1>0, <1>r, <4>2
          <5> QED
            BY <1>0, <2>1, <5>1 DEF Landed, Carries
        <4> QED
          BY <4>1, <4>2
      <3> HIDE DEF must
      <3>3. x.pc = "exists" /\ x.jti = q.jti /\ x.must = must /\ x.clear = q.clear
        BY <1>0, <3>1 DEF Request
      <3>4. ~q.clear
        BY <1>0, <1>1 DEF Lookup, RequestCovered
      <3> QED
        BY <3>2, <3>3, <3>4 DEF RequestCovered
    <2> QED
      BY <1>1, <1>t, <1>r, <2>1, <2>3, <2>4, KeepsCovered DEF Lookup
  <1>2. CASE Exists(q)
    <2>1. Carries
      BY <1>2, <1>t, QuietCarries DEF Exists
    <2>2. \A q2 \in reqs' \ reqs : RequestCovered(q2)'
      <3> DEFINE qc == [q EXCEPT !.pc = "handler", !.clear = TRUE]
                 qo == [q EXCEPT !.pc = "handler"]
      <3>1. \/ reqs' \subseteq reqs
            \/ redis[q.jti] <= now /\ reqs' \subseteq reqs \union {qc}
            \/ ~redisUp /\ reqs' \subseteq reqs \union {qo}
        BY <1>2 DEF Exists, Become, Finish
      <3>2. ASSUME redis[q.jti] <= now PROVE RequestCovered(qc)'
        <4>1. qc.pc = "handler" /\ qc.jti = q.jti /\ qc.must = q.must
          BY <1>0 DEF Request
        <4>2. q.must => Deadline[q.jti] <= now
          <5>1. redis[q.jti] \in Nat /\ Deadline[q.jti] \in Nat
            BY <1>0, <1>t, DeadlineType DEF TypeInv, TypeOK
          <5> QED
            BY <1>0, <1>2, <3>2, <5>1 DEF Exists, RequestCovered, Landed
        <4> QED
          BY <1>2, <4>1, <4>2 DEF RequestCovered, Exists, Deadline
      <3>3. RequestCovered(qo)'
        <4>1. qo.pc = "handler" /\ qo.clear = q.clear
          BY <1>0 DEF Request
        <4>2. ~q.clear
          BY <1>0, <1>2 DEF Exists, RequestCovered
        <4> QED
          BY <4>1, <4>2 DEF RequestCovered
      <3> QED
        BY <3>1, <3>2, <3>3
    <2> QED
      BY <1>2, <1>t, <1>r, <2>1, <2>2, KeepsCovered DEF Exists
  <1>3. CASE OtherHandler(q)
    <2>1. Carries
      BY <1>3, <1>t, QuietCarries DEF OtherHandler
    <2> QED
      BY <1>3, <1>t, <1>r, <2>1, KeepsCovered DEF OtherHandler, Finish
  <1>4. CASE LogoutHandler(q)
    <2>1. Carries
      BY <1>4, <1>t, QuietCarries DEF LogoutHandler
    <2>2. \A q2 \in reqs' \ reqs : RequestCovered(q2)'
      <3> SUFFICES ASSUME NEW x \in reqs' \ reqs PROVE RequestCovered(x)'
        OBVIOUS
      <3> DEFINE ttl == revocation_ttl_secs(Exp[q.jti], now)
      <3>1. x = [q EXCEPT !.pc = "setex", !.must = FALSE, !.clear = FALSE, !.ttl = ttl]
        BY <1>4 DEF LogoutHandler, Become
      <3>2. ttl \in Nat /\ Deadline[q.jti] <= now + ttl
        BY <1>0, TtlReachesDeadline
      <3> HIDE DEF ttl
      <3>3. x.pc = "setex" /\ x.jti = q.jti /\ x.ttl = ttl /\ x.clear = FALSE
        BY <1>0, <3>1 DEF Request
      <3>4. LongEnough(x)'
        BY <1>4, <3>2, <3>3 DEF LongEnough, LogoutHandler, Deadline
      <3> QED
        BY <3>3, <3>4 DEF RequestCovered
    <2> QED
      BY <1>4, <1>t, <1>r, <2>1, <2>2, KeepsCovered DEF LogoutHandler
  <1>5. CASE RevokeInner(q)
    <2>0. LongEnough(q)
      BY <1>0, <1>5 DEF RevokeInner, RequestCovered
    <2>1. CASE InnerOk(q.jti, q.ttl) /\ Finish(q) /\ Acknowledge(q)
      <3>1. /\ Carries
            /\ Landed(q.jti)'
            /\ \A k \in Jti : redis'[k] = 0 \/ Deadline[k] <= redis'[k]
        BY <1>0, <1>5, <2>0, <2>1, SetexCarries DEF RevokeInner, InnerOk, LongEnough
      <3>2. \A i \in Instance : \A j \in seen'[i] : Landed(j)' \/ j \in seen[i]
        BY <1>0, <1>t, <2>1, <3>1 DEF Acknowledge, TypeInv, TypeOK
      <3>3. \A j \in acked' \ acked : Landed(j)'
        BY <2>1, <3>1 DEF Acknowledge
      <3> QED
        BY <1>5, <1>t, <2>1, <3>1, <3>2, <3>3, KeepsCovered DEF RevokeInner, InnerOk, Finish
    <2>2. CASE InnerErr(q.jti, q.ttl) /\ Become(q, [q EXCEPT !.pc = "journal"]) /\ UNCHANGED history
      <3>1. Carries
        BY <1>5, <1>t, <2>2, QuietCarries DEF RevokeInner, InnerErr
      <3>2. LongEnough([jti |-> q.jti, ttl |-> q.ttl])'
        BY <1>5, <2>0 DEF LongEnough, RevokeInner, Deadline
      <3>3. \A c \in late' \ late : LongEnough(c)'
        BY <2>2, <3>2 DEF InnerErr
      <3>4. RequestCovered([q EXCEPT !.pc = "journal"])'
        <4> DEFINE x == [q EXCEPT !.pc = "journal"]
        <4>1. x.pc = "journal" /\ x.jti = q.jti /\ x.ttl = q.ttl /\ x.clear = q.clear
          BY <1>0 DEF Request
        <4>2. LongEnough(x)' /\ ~q.clear
          BY <1>0, <1>5, <2>0, <4>1 DEF LongEnough, RevokeInner, Deadline, RequestCovered
        <4> QED
          BY <4>1, <4>2 DEF RequestCovered
      <3> QED
        BY <1>5, <1>t, <1>r, <2>2, <3>1, <3>3, <3>4, KeepsCovered DEF RevokeInner, InnerErr, Become
    <2> QED
      BY <1>5, <2>1, <2>2 DEF RevokeInner
  <1>6. CASE Journal(q)
    <2>1. outbox' \in {outbox, Inserted(q)} /\ now' = now /\ redis' = redis /\ q.pc = "journal"
      BY <1>6 DEF Journal
    <2>2. Carries /\ \A row \in outbox' \ outbox : RowCovered(row)'
      BY <2>1, InsertCovers
    <2>3. \A q2 \in reqs' \ reqs : RequestCovered(q2)'
      <3> DEFINE x == [q EXCEPT !.pc = "remember"]
      <3>1. CASE reqs' \subseteq reqs
        BY <3>1
      <3>2. CASE outbox' = Inserted(q) /\ reqs' \subseteq reqs \union {x}
        <4>1. x.pc = "remember" /\ x.jti = q.jti /\ x.ttl = q.ttl /\ x.clear = q.clear
          BY <1>0 DEF Request
        <4>2. LongEnough(x)' /\ ~q.clear
          BY <1>0, <2>1, <4>1 DEF LongEnough, Deadline, RequestCovered
        <4>3. Journaled(x.jti)'
          BY <2>1, <3>2, <4>1, InsertCovers
        <4>4. RequestCovered(x)'
          BY <4>1, <4>2, <4>3 DEF RequestCovered
        <4> QED
          BY <3>2, <4>4
      <3> QED
        BY <1>6, <3>1, <3>2 DEF Journal, Become, Finish
    <2> QED
      BY <1>6, <1>t, <1>r, <2>2, <2>3, KeepsCovered DEF Journal
  <1>7. CASE Remember(q)
    <2>1. Carries
      BY <1>7, <1>t, QuietCarries DEF Remember
    <2>2. Deadline[q.jti] <= now + q.ttl /\ (Landed(q.jti) \/ Journaled(q.jti))
      BY <1>0, <1>7 DEF Remember, RequestCovered, LongEnough
    <2>3. \A i \in Instance : \A j \in seen'[i] :
            \/ Deadline[j] <= pending'[i][j]
            \/ j \in seen[i] /\ pending'[i][j] = pending[i][j]
      BY <1>0, <1>7, <1>t, <2>2 DEF Remember, Acknowledge, TypeInv, TypeOK
    <2>4. \A j \in acked' \ acked : Landed(j)' \/ Journaled(j)'
      BY <1>0, <1>7, <2>1, <2>2 DEF Remember, Acknowledge, Carries
    <2> QED
      BY <1>7, <1>t, <1>r, <2>1, <2>3, <2>4, KeepsCovered DEF Remember, Finish
  <1>8. CASE Abandon(q)
    <2>1. Carries /\ \A row \in outbox' \ outbox : RowCovered(row)'
      <3>1. CASE q.pc = "journal"
        BY <1>8, <3>1, InsertCovers DEF Abandon
      <3>2. CASE q.pc # "journal"
        BY <1>8, <1>t, <3>2, QuietCarries DEF Abandon
      <3> QED
        BY <3>1, <3>2
    <2>2. \A c \in late' \ late : LongEnough(c)'
      <3>1. ASSUME q.pc = "setex" PROVE LongEnough([jti |-> q.jti, ttl |-> q.ttl])'
        BY <1>0, <1>8, <3>1 DEF LongEnough, Abandon, Deadline, RequestCovered
      <3> QED
        BY <1>8, <3>1 DEF Abandon
    <2> QED
      BY <1>8, <1>t, <1>r, <2>1, <2>2, KeepsCovered DEF Abandon, Finish
  <1> QED
    BY <1>1, <1>2, <1>3, <1>4, <1>5, <1>6, <1>7, <1>8 DEF Handler

(* So do those of a flush worker, whatever it read earlier. *)
LEMMA CoveredFlush ==
  ASSUME IInv, NEW i \in Instance, FlushWorker(i)
  PROVE  IInv' /\ Carries
  <1> USE DEF env, store, history
  <1>0. flush[i] \in Sweep /\ SweepCovered(flush[i]) /\ now \in Nat
    BY DEF IInv, TypeInv, TypeOK, RevocationsCovered
  <1>t. TypeInv /\ TypeInv'
    BY TypeFlush DEF IInv
  <1>r. \A j \in Jti : redis[j] = 0 \/ Deadline[j] <= redis[j]
    BY DEF IInv, RevocationsCovered
  <1>f. \A k \in Instance \ {i} : flush'[k] = flush[k]
    BY Zenon, <1>t DEF FlushWorker, FlushPurge, FlushSelect, FlushRow, FlushNothing, FlushDelete,
                FlushForget, Return, TypeInv, TypeOK
  <1>1. CASE FlushPurge(i)
    <2>1. \A j \in Jti : Journaled(j) => Journaled(j)' \/ Landed(j)'
      <3> SUFFICES ASSUME NEW row \in outbox, row.jti \in Jti
                   PROVE  Journaled(row.jti)' \/ Landed(row.jti)'
        BY DEF Journaled
      <3>1. CASE now < row.expires
        BY <1>1, <3>1 DEF FlushPurge, Journaled
      <3>2. CASE ~(now < row.expires)
        <4>1. row.expires \in Nat /\ Deadline[row.jti] \in Nat /\ Deadline[row.jti] <= row.expires
          BY <1>t, DeadlineType DEF TypeInv, TypeOK, Row, IInv, RevocationsCovered, RowCovered
        <4>2. Deadline[row.jti] <= now
          BY <1>0, <3>2, <4>1
        <4> QED
          BY <1>1, <4>2 DEF FlushPurge, Landed, Deadline
      <3> QED
        BY <3>1, <3>2
    <2>2. Carries
      BY <1>0, <1>1, <2>1 DEF FlushPurge, Carries, Landed, Deadline
    <2>3. SweepCovered(flush[i])'
      <3>1. flush'[i].rows = flush[i].rows /\ flush'[i].flushed = flush[i].flushed
        BY <1>0, <1>1, <1>t DEF FlushPurge, TypeInv, TypeOK, Sweep
      <3>2. SweepCovered(flush[i])
        BY <1>0
      <3> QED
        BY <1>1, <3>1, <3>2 DEF SweepCovered, LongEnough, Landed, Deadline, FlushPurge
    <2> QED
      BY <1>1, <1>t, <1>r, <1>f, <2>2, <2>3, KeepsCovered DEF FlushPurge
  <1>2. CASE FlushSelect(i)
    <2>1. Carries
      BY <1>2, <1>t, QuietCarries DEF FlushSelect
    <2>2. SweepCovered(flush[i])'
      <3>1. CASE ~pgUp
        <4>1. flush'[i] = Idle
          BY <1>2, <1>t, <3>1 DEF FlushSelect, TypeInv, TypeOK
        <4> QED
          BY <4>1 DEF SweepCovered, Idle
      <3>2. CASE pgUp
        <4>0. PICK B \in SUBSET outbox :
                flush' = [flush EXCEPT ![i] =
                   [pc |-> "rows", flushed |-> {}, remaining |-> 0,
                    rows |-> {[jti |-> b.jti, ttl |-> b.ttl] : b \in B}]]
          BY <1>2, <3>2 DEF FlushSelect
        <4>1. /\ flush'[i].flushed = {}
              /\ flush'[i].rows = {[jti |-> b.jti, ttl |-> b.ttl] : b \in B}
          BY <1>t, <4>0 DEF TypeInv, TypeOK
        <4>2. \A b \in B : LongEnough([jti |-> b.jti, ttl |-> b.ttl])'
          BY <1>2 DEF IInv, RevocationsCovered, RowCovered, LongEnough, FlushSelect, Deadline
        <4> QED
          BY <4>1, <4>2 DEF SweepCovered
      <3> QED
        BY <3>1, <3>2
    <2> QED
      BY <1>2, <1>t, <1>r, <1>f, <2>1, <2>2, KeepsCovered DEF FlushSelect
  <1>3. CASE FlushRow(i)
    <2>1. PICK r \in flush[i].rows :
            \/ /\ InnerOk(r.jti, r.ttl)
               /\ flush' = [flush EXCEPT ![i].rows = @ \ {r}, ![i].flushed = @ \union {r.jti}]
            \/ /\ InnerErr(r.jti, r.ttl)
               /\ flush' = [flush EXCEPT ![i].rows = @ \ {r}, ![i].remaining = @ + 1]
      BY Zenon, <1>3 DEF FlushRow
    <2>2. r \in Setex /\ r.jti \in Jti /\ r.ttl \in Nat /\ LongEnough(r)
      BY <1>0 DEF Sweep, Setex, SweepCovered
    <2>3. now' = now /\ outbox' = outbox
      BY <1>3 DEF FlushRow
    <2>4. CASE InnerOk(r.jti, r.ttl)
               /\ flush' = [flush EXCEPT ![i].rows = @ \ {r}, ![i].flushed = @ \union {r.jti}]
      <3>1. /\ Carries
            /\ Landed(r.jti)'
            /\ \A k \in Jti : redis'[k] = 0 \/ Deadline[k] <= redis'[k]
        BY <2>2, <2>3, <2>4, SetexCarries DEF InnerOk, LongEnough
      <3>2. /\ flush'[i].rows = flush[i].rows \ {r}
            /\ flush'[i].flushed = flush[i].flushed \union {r.jti}
        BY <1>0, <1>t, <2>4 DEF TypeInv, TypeOK, Sweep
      <3>3. \A c \in flush[i].rows : LongEnough(c)'
        BY <1>0, <2>3 DEF SweepCovered, LongEnough, Deadline
      <3>4. \A j \in flush[i].flushed : Landed(j)'
        BY <1>0, <3>1 DEF SweepCovered, Carries, Sweep
      <3>5. SweepCovered(flush[i])'
        BY <3>1, <3>2, <3>3, <3>4 DEF SweepCovered
      <3> QED
        BY Zenon, <1>3, <1>t, <1>f, <2>4, <3>1, <3>5, KeepsCovered DEF FlushRow, InnerOk
    <2>5. CASE InnerErr(r.jti, r.ttl)
               /\ flush' = [flush EXCEPT ![i].rows = @ \ {r}, ![i].remaining = @ + 1]
      <3>1. Carries
        BY <1>t, <2>3, <2>5, QuietCarries DEF InnerErr
      <3>2. flush'[i].rows = flush[i].rows \ {r} /\ flush'[i].flushed = flush[i].flushed
        BY <1>0, <1>t, <2>5 DEF TypeInv, TypeOK, Sweep
      <3>3. SweepCovered(flush[i])'
        BY Zenon, <1>0, <2>3, <2>5, <3>2 DEF SweepCovered, LongEnough, Landed, Deadline, InnerErr
      <3>4. \A c \in late' \ late : LongEnough(c)'
        <4>1. LongEnough([jti |-> r.jti, ttl |-> r.ttl])'
          BY <2>2, <2>3 DEF LongEnough, Deadline
        <4> QED
          BY <2>5, <4>1 DEF InnerErr
      <3> QED
        BY Zenon, <1>3, <1>t, <1>r, <1>f, <2>5, <3>1, <3>3, <3>4, KeepsCovered DEF FlushRow, InnerErr
    <2> QED
      BY <2>1, <2>4, <2>5
  <1>4. CASE FlushNothing(i)
    <2>1. Carries
      BY <1>4, <1>t, QuietCarries DEF FlushNothing
    <2>2. SweepCovered(flush[i])'
      <3>1. flush'[i] = Idle
        BY <1>4, <1>t DEF FlushNothing, Return, TypeInv, TypeOK
      <3> QED
        BY <3>1 DEF SweepCovered, Idle
    <2> QED
      BY <1>4, <1>t, <1>r, <1>f, <2>1, <2>2, KeepsCovered DEF FlushNothing
  <1>5. CASE FlushDelete(i)
    <2>1. \A j \in Jti : Journaled(j) => Journaled(j)' \/ Landed(j)'
      <3> SUFFICES ASSUME NEW row \in outbox, row.jti \in Jti
                   PROVE  Journaled(row.jti)' \/ Landed(row.jti)'
        BY DEF Journaled
      <3>1. CASE row.jti \in flush[i].flushed
        BY <1>0, <1>5, <3>1 DEF FlushDelete, SweepCovered, Landed, Deadline
      <3>2. CASE row.jti \notin flush[i].flushed
        BY <1>5, <3>2 DEF FlushDelete, Journaled
      <3> QED
        BY <3>1, <3>2
    <2>2. Carries
      BY <1>0, <1>5, <2>1 DEF FlushDelete, Carries, Landed, Deadline
    <2>3. SweepCovered(flush[i])'
      <3>1. \/ flush'[i] = Idle
            \/ flush'[i].rows = flush[i].rows /\ flush'[i].flushed = flush[i].flushed
        <4>1. flush \in [Instance -> Sweep]
          BY <1>t DEF TypeInv, TypeOK
        <4>2. \/ flush' = [flush EXCEPT ![i].pc = "forget"]
              \/ flush' = [flush EXCEPT ![i] = Idle]
          BY <1>5 DEF FlushDelete
        <4>3. CASE flush' = [flush EXCEPT ![i].pc = "forget"]
          <5>1. flush'[i] = [flush[i] EXCEPT !.pc = "forget"]
            BY <4>1, <4>3
          <5> QED
            BY <1>0, <5>1 DEF Sweep
        <4>4. CASE flush' = [flush EXCEPT ![i] = Idle]
          BY <4>1, <4>4
        <4> QED
          BY <4>2, <4>3, <4>4
      <3> QED
        BY <1>0, <1>5, <3>1 DEF SweepCovered, LongEnough, Landed, Deadline, FlushDelete, Idle
    <2> QED
      BY <1>5, <1>t, <1>r, <1>f, <2>2, <2>3, KeepsCovered DEF FlushDelete
  <1>6. CASE FlushForget(i)
    <2>1. Carries
      BY <1>6, <1>t, QuietCarries DEF FlushForget
    <2>2. SweepCovered(flush[i])'
      <3>1. flush'[i] = Idle
        BY <1>6, <1>t DEF FlushForget, Return, TypeInv, TypeOK
      <3> QED
        BY <3>1 DEF SweepCovered, Idle
    <2>3. ASSUME NEW k \in Instance, NEW j \in seen'[k]
          PROVE  Landed(j)' \/ (j \in seen[k] /\ pending'[k][j] = pending[k][j])
      <3>1. j \in Jti /\ j \in seen[k] /\ (Deadline[j] <= pending[k][j] \/ Landed(j))
        BY <1>6, <1>t DEF FlushForget, TypeInv, TypeOK, IInv, RevocationsCovered
      <3>2. CASE k # i
        BY <1>6, <1>t, <3>1, <3>2 DEF FlushForget, TypeInv, TypeOK
      <3>3. CASE k = i /\ j \in flush[i].flushed
        BY <1>0, <2>1, <3>1, <3>3 DEF SweepCovered, Carries
      <3>4. CASE k = i /\ pending[i][j] <= now
        <4>1. Deadline[j] \in Nat /\ pending[i][j] \in Nat
          BY <1>t, <3>1, DeadlineType DEF TypeInv, TypeOK
        <4>2. Landed(j)
          BY <1>0, <3>1, <3>4, <4>1 DEF Landed
        <4> QED
          BY <2>1, <3>1, <4>2 DEF Carries
      <3>5. CASE k = i /\ j \notin flush[i].flushed /\ ~(pending[i][j] <= now)
        BY <1>6, <1>t, <3>1, <3>5 DEF FlushForget, TypeInv, TypeOK
      <3> QED
        BY <3>2, <3>3, <3>4, <3>5
    <2> QED
      BY <1>6, <1>t, <1>r, <1>f, <2>1, <2>2, <2>3, KeepsCovered DEF FlushForget
  <1> QED
    BY <1>1, <1>2, <1>3, <1>4, <1>5, <1>6 DEF FlushWorker

(* The invariant is inductive. *)
LEMMA CoveredNext == IInv /\ [Next]_vars => IInv' /\ Carries
  <1> SUFFICES ASSUME IInv, [Next]_vars PROVE IInv' /\ Carries
    OBVIOUS
  <1> USE DEF env, store, history
  <1>t. TypeInv /\ TypeInv'
    BY TypeNext DEF IInv
  <1>r. \A j \in Jti : redis[j] = 0 \/ Deadline[j] <= redis[j]
    BY DEF IInv, RevocationsCovered
  <1>1. ASSUME NEW id \in Req, NEW i \in Instance, NEW j \in Jti, Arrive(id, i, j)
        PROVE  IInv' /\ Carries
    <2>1. Carries
      BY <1>1, <1>t, QuietCarries DEF Arrive
    <2>2. ASSUME NEW x \in reqs' \ reqs PROVE RequestCovered(x)'
      <3>1. x = [id |-> id, inst |-> i, jti |-> j, pc |-> "lookup", t |-> now, ttl |-> 0,
                 must |-> FALSE, clear |-> FALSE]
        BY <1>1 DEF Arrive
      <3>2. x.pc = "lookup" /\ x.t = now /\ x.clear = FALSE
        BY <3>1
      <3> QED
        BY <1>1, <1>t, <3>2 DEF RequestCovered, Arrive, TypeInv, TypeOK
    <2> QED
      BY <1>1, <1>t, <1>r, <2>1, <2>2, KeepsCovered DEF Arrive
  <1>2. ASSUME NEW i \in Instance, Crash(i)
        PROVE  IInv' /\ Carries
    <2>1. Carries
      BY <1>2, <1>t, QuietCarries DEF Crash
    <2>2. \A k \in Instance : flush'[k] = flush[k] \/ SweepCovered(flush[k])'
      <3> SUFFICES ASSUME NEW k \in Instance, flush'[k] # flush[k]
                   PROVE  SweepCovered(flush[k])'
        OBVIOUS
      <3>1. flush'[k] = Idle
        BY <1>2, <1>t DEF Crash, TypeInv, TypeOK
      <3> QED
        BY <3>1 DEF SweepCovered, Idle
    <2>3. \A k \in Instance : \A j \in seen'[k] : j \in seen[k] /\ pending'[k][j] = pending[k][j]
      BY <1>2, <1>t DEF Crash, TypeInv, TypeOK
    <2> QED
      BY <1>2, <1>t, <1>r, <2>1, <2>2, <2>3, KeepsCovered DEF Crash
  <1>3. ASSUME NEW i \in Instance, Start(i)
        PROVE  IInv' /\ Carries
    <2>1. Carries
      BY <1>3, <1>t, QuietCarries DEF Start
    <2> QED
      BY <1>3, <1>t, <1>r, <2>1, KeepsCovered DEF Start
  <1>4. ASSUME NEW c \in late, LateSetex(c)
        PROVE  IInv' /\ Carries
    <2>1. c.jti \in Jti /\ c.ttl \in Nat /\ LongEnough(c)
      BY <1>t DEF TypeInv, TypeOK, Setex, IInv, RevocationsCovered
    <2>2. Carries /\ \A k \in Jti : redis'[k] = 0 \/ Deadline[k] <= redis'[k]
      BY Zenon, <1>4, <2>1, SetexCarries DEF LateSetex, LongEnough
    <2> QED
      BY <1>4, <1>t, <2>2, KeepsCovered DEF LateSetex
  <1>5. CASE Tick
    <2>0. now \in Nat /\ redis \in [Jti -> Nat] /\ Deadline \in [Jti -> Nat]
      BY <1>t, DeadlineType DEF TypeInv, TypeOK
    <2>1. \A j \in Jti : redis'[j] = 0 \/ Deadline[j] <= redis'[j]
      BY <1>5, <1>r DEF Tick
    <2>2. \A j \in Jti : Landed(j) => Landed(j)'
      BY <1>5, <2>0 DEF Tick, Landed, Deadline
    <2>3. Carries
      BY <1>5, <2>0, <2>2 DEF Tick, Carries, Journaled
    <2> QED
      BY <1>5, <1>t, <2>1, <2>3, KeepsCovered DEF Tick
  <1>6. CASE RedisFlips \/ PostgresFlips \/ UNCHANGED vars
    <2>1. UNCHANGED <<now, store, pending, flush, reqs, history>>
      BY <1>6 DEF RedisFlips, PostgresFlips, vars
    <2>2. Carries
      BY <1>t, <2>1, QuietCarries
    <2> QED
      BY <1>t, <1>r, <2>1, <2>2, KeepsCovered
  <1> QED
    BY <1>1, <1>2, <1>3, <1>4, <1>5, <1>6, CoveredHandler, CoveredFlush DEF Next

(* Nothing is revoked at first. *)
LEMMA CoveredInit == Init => IInv
  <1> SUFFICES ASSUME Init PROVE IInv
    OBVIOUS
  <1>1. TypeInv
    BY TypeInit
  <1>2. \A i \in Instance : SweepCovered(flush[i])
    BY DEF Init, SweepCovered, Idle
  <1> QED
    BY <1>1, <1>2 DEF Init, IInv, RevocationsCovered

(* The inductive invariant holds throughout. *)
THEOREM Inductive == Spec => []IInv
  BY CoveredInit, CoveredNext, PTL DEF Spec

(* Everything a token's revocation is entrusted to, a SETEX in flight, a   *)
(* row, a sweep or the pending map, outlives the token (durable.rs).       *)
THEOREM AlwaysCovered == Spec => []RevocationsCovered
  <1>1. IInv => RevocationsCovered
    BY DEF IInv
  <1> QED
    BY <1>1, Inductive, PTL

(* An acknowledged revocation is in Redis or in the outbox until its token *)
(* dies (DurableRevocationBlacklist::revoke and flush_pending).            *)
THEOREM Durability == Spec => []AcknowledgedIsOnRecord
  <1>1. IInv => AcknowledgedIsOnRecord
    <2> SUFFICES ASSUME IInv, NEW j \in acked, now < Deadline[j] PROVE OnRecord(j)
      BY DEF AcknowledgedIsOnRecord
    <2>1. /\ j \in Jti /\ now \in Nat /\ redis[j] \in Nat /\ Deadline[j] \in Nat
          /\ Landed(j) \/ Journaled(j)
      BY DeadlineType DEF IInv, TypeInv, TypeOK, RevocationsCovered
    <2> QED
      BY <2>1 DEF Landed, OnRecord
  <1> QED
    BY <1>1, Inductive, PTL

(* No request is told "not revoked" about a revocation its instance had    *)
(* acknowledged or Redis held (is_revoked against flush_pending).          *)
THEOREM NoStaleAnswer == Spec => []NeverToldNotRevoked
  <1>1. IInv => NeverToldNotRevoked
    BY DEF IInv, RevocationsCovered, RequestCovered, NeverToldNotRevoked
  <1> QED
    BY <1>1, Inductive, PTL

-----------------------------------------------------------------------------
(* DurableRevocation implements RevocationRegistry. *)

(* A row is taken off the outbox only when its token is landed, so what    *)
(* goes off the record is dead.                                            *)
LEMMA OnlyTheDeadAreDropped ==
  ASSUME IInv, IInv', Carries
  PROVE  \A j \in Recorded \ Recorded' : Deadline[j] <= now'
  <1> SUFFICES ASSUME NEW j \in Jti, OnRecord(j), ~OnRecord(j)'
               PROVE  Deadline[j] <= now'
    BY DEF Recorded
  <1>0. /\ now \in Nat /\ now' \in Nat /\ redis[j] \in Nat /\ redis'[j] \in Nat
        /\ Deadline[j] \in Nat
    BY DeadlineType DEF IInv, TypeInv, TypeOK
  <1>1. Landed(j) \/ Journaled(j)
    BY <1>0 DEF OnRecord, Landed, IInv, RevocationsCovered
  <1>2. Landed(j)'
    BY <1>1 DEF Carries, OnRecord
  <1> QED
    BY <1>0, <1>2 DEF Landed, OnRecord, Deadline

(* Every step is one of the registry, or leaves what it records and has     *)
(* acknowledged.                                                            *)
LEMMA RegistryStep == IInv /\ [Next]_vars => [Registry!Next]_(Registry!vars)
  <1> SUFFICES ASSUME IInv, [Next]_vars
               PROVE  Registry!Next \/ UNCHANGED <<now, Recorded, acked>>
    BY DEF Registry!vars
  <1> USE DEF env, store, history
  <1>c. IInv' /\ Carries
    BY CoveredNext
  <1>d. \A j \in Recorded \ Recorded' : Deadline[j] <= now'
    BY <1>c, OnlyTheDeadAreDropped
  <1>t. TypeInv /\ TypeInv'
    BY <1>c DEF IInv
  <1>j. Recorded \subseteq Jti /\ Recorded' \subseteq Jti
    BY DEF Recorded
  <1>q. ASSUME UNCHANGED <<now, redis, outbox, acked>>
        PROVE  UNCHANGED <<now, Recorded, acked>>
    BY <1>q DEF Recorded, OnRecord, Journaled
  <1>g. ASSUME UNCHANGED <<now, acked>>, Recorded \subseteq Recorded'
        PROVE  Registry!Next
    BY <1>g, <1>j DEF Registry!Next, Registry!Record
  <1>e. ASSUME now' \in {now, now + 1}, UNCHANGED acked, Recorded' \subseteq Recorded
        PROVE  Registry!Next
    BY <1>d, <1>e DEF Registry!Next, Registry!Expire, Registry!Dead
  <1>a. ASSUME NEW j \in Jti, now' = now, acked' = acked \union {j},
               Recorded' \in {Recorded, Recorded \union {j}},
               j \in Recorded' \/ Deadline[j] <= now
        PROVE  Registry!Next
    BY <1>a DEF Registry!Next, Registry!Acknowledge, Registry!Dead
  <1>s. ASSUME NEW j \in Jti, NEW ttl \in Nat, redis' = [redis EXCEPT ![j] = now + ttl],
               now' = now, outbox' = outbox
        PROVE  \/ Recorded' = Recorded \union {j}
               \/ ttl = 0 /\ Recorded' \subseteq Recorded
    <2>1. now \in Nat /\ redis \in [Jti -> Nat]
      BY <1>t DEF TypeInv, TypeOK
    <2>2. \A k \in Jti : k # j => (OnRecord(k)' <=> OnRecord(k))
      BY <1>s, <2>1 DEF OnRecord, Journaled
    <2>3. ttl # 0 => OnRecord(j)'
      BY <1>s, <2>1 DEF OnRecord
    <2>4. ttl = 0 => (OnRecord(j)' => OnRecord(j))
      BY <1>s, <2>1 DEF OnRecord, Journaled
    <2> QED
      BY <2>2, <2>3, <2>4 DEF Recorded
  <1>1. ASSUME NEW q \in reqs, Handler(q)
        PROVE  Registry!Next \/ UNCHANGED <<now, Recorded, acked>>
    <2>0. q.jti \in Jti /\ q.ttl \in Nat /\ RequestCovered(q)
      BY <1>t DEF TypeInv, TypeOK, Request, IInv, RevocationsCovered
    <2>1. CASE Lookup(q) \/ Exists(q) \/ OtherHandler(q) \/ LogoutHandler(q)
      BY <1>q, <2>1 DEF Lookup, Exists, OtherHandler, LogoutHandler
    <2>2. CASE RevokeInner(q)
      <3>1. CASE InnerErr(q.jti, q.ttl) /\ UNCHANGED history
        BY <1>q, <2>2, <3>1 DEF RevokeInner, InnerErr
      <3>2. CASE InnerOk(q.jti, q.ttl) /\ Acknowledge(q) /\ q.ttl = 0
        <4>1. Recorded' = Recorded
          BY <2>2, <3>2 DEF RevokeInner, InnerOk, Recorded, OnRecord, Journaled
        <4>2. Deadline[q.jti] <= now
          BY <1>t, <2>0, <2>2, <3>2 DEF RevokeInner, RequestCovered, LongEnough, TypeInv, TypeOK
        <4> QED
          BY <1>a, <2>0, <2>2, <3>2, <4>1, <4>2 DEF RevokeInner, Acknowledge
      <3>3. CASE InnerOk(q.jti, q.ttl) /\ Acknowledge(q) /\ q.ttl # 0
        <4>1. Recorded' = Recorded \union {q.jti}
          BY Zenon, <1>s, <2>0, <2>2, <3>3 DEF RevokeInner, InnerOk
        <4> QED
          BY <1>a, <2>0, <2>2, <3>3, <4>1 DEF RevokeInner, Acknowledge
      <3> QED
        BY <2>2, <3>1, <3>2, <3>3 DEF RevokeInner
    <2>3. CASE Journal(q) \/ Abandon(q)
      <3>1. outbox \subseteq outbox' /\ UNCHANGED <<now, redis, acked>>
        BY <2>3 DEF Journal, Abandon, Inserted
      <3>2. Recorded \subseteq Recorded'
        BY <3>1 DEF Recorded, OnRecord, Journaled
      <3> QED
        BY <1>g, <3>1, <3>2
    <2>4. CASE Remember(q)
      <3>1. Recorded' = Recorded
        BY <2>4 DEF Remember, Recorded, OnRecord, Journaled
      <3>2. now \in Nat /\ redis[q.jti] \in Nat /\ Deadline[q.jti] \in Nat
        BY <1>t, <2>0, DeadlineType DEF TypeInv, TypeOK
      <3>3. q.jti \in Recorded \/ Deadline[q.jti] <= now
        BY <2>0, <2>4, <3>2 DEF Remember, RequestCovered, Landed, Recorded, OnRecord
      <3> QED
        BY <1>a, <2>0, <2>4, <3>1, <3>3 DEF Remember, Acknowledge
    <2> QED
      BY <1>1, <2>1, <2>2, <2>3, <2>4 DEF Handler
  <1>2. ASSUME NEW i \in Instance, FlushWorker(i)
        PROVE  Registry!Next \/ UNCHANGED <<now, Recorded, acked>>
    <2>1. CASE FlushSelect(i) \/ FlushNothing(i) \/ FlushForget(i)
      BY <1>q, <2>1 DEF FlushSelect, FlushNothing, FlushForget
    <2>2. CASE FlushPurge(i) \/ FlushDelete(i)
      <3>1. outbox' \subseteq outbox /\ UNCHANGED <<now, redis, acked>>
        BY <2>2 DEF FlushPurge, FlushDelete
      <3>2. Recorded' \subseteq Recorded
        BY <3>1 DEF Recorded, OnRecord, Journaled
      <3> QED
        BY <1>e, <3>1, <3>2
    <2>3. CASE FlushRow(i)
      <3>1. PICK r \in flush[i].rows : InnerOk(r.jti, r.ttl) \/ InnerErr(r.jti, r.ttl)
        BY <2>3 DEF FlushRow
      <3>2. r.jti \in Jti /\ r.ttl \in Nat
        BY <1>t DEF TypeInv, TypeOK, Sweep, Setex
      <3>3. UNCHANGED <<now, outbox, acked>>
        BY <2>3 DEF FlushRow
      <3>4. CASE redis' = redis
        BY <1>q, <3>3, <3>4
      <3>5. CASE r.ttl # 0 /\ redis' = [redis EXCEPT ![r.jti] = now + r.ttl]
        <4>1. Recorded \subseteq Recorded'
          BY Zenon, <1>s, <3>2, <3>3, <3>5
        <4> QED
          BY <1>g, <3>3, <4>1
      <3> QED
        BY <3>1, <3>4, <3>5 DEF InnerOk, InnerErr
    <2> QED
      BY <1>2, <2>1, <2>2, <2>3 DEF FlushWorker
  <1>3. ASSUME NEW c \in late, LateSetex(c)
        PROVE  Registry!Next
    <2>1. c.jti \in Jti /\ c.ttl \in Nat
      BY <1>t DEF TypeInv, TypeOK, Setex
    <2>2. Recorded \subseteq Recorded' \/ Recorded' \subseteq Recorded
      BY Zenon, <1>3, <1>s, <2>1 DEF LateSetex
    <2> QED
      BY <1>3, <1>g, <1>e, <2>2 DEF LateSetex
  <1>4. CASE Tick
    <2>1. now \in Nat /\ redis \in [Jti -> Nat]
      BY <1>t DEF TypeInv, TypeOK
    <2>2. Recorded' \subseteq Recorded
      BY <1>4, <2>1 DEF Tick, Recorded, OnRecord, Journaled
    <2> QED
      BY <1>4, <1>e, <2>2 DEF Tick
  <1>5. CASE \/ \E id \in Req, i \in Instance, j \in Jti : Arrive(id, i, j)
             \/ \E i \in Instance : Crash(i) \/ Start(i)
             \/ RedisFlips \/ PostgresFlips \/ UNCHANGED vars
    BY <1>5, <1>q DEF Arrive, Crash, Start, RedisFlips, PostgresFlips, vars
  <1> QED
    BY <1>1, <1>2, <1>3, <1>4, <1>5 DEF Next

(* DurableRevocation implements the registry: from the outside there is    *)
(* only a record that is never dropped early.                              *)
THEOREM Refinement == Spec => ImplementsRegistry
  <1>1. Init => Registry!Init
    BY DEF Init, Registry!Init, Recorded, OnRecord, Journaled
  <1>2. IInv /\ [Next]_vars => [Registry!Next]_(Registry!vars)
    BY RegistryStep
  <1> QED
    BY <1>1, <1>2, Inductive, PTL DEF Spec, ImplementsRegistry, Registry!Spec
=============================================================================
