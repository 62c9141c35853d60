---------------------------- MODULE RecordsProofs ---------------------------
(***************************************************************************)
(* What requests leave in the database, apart from sessions: proofs for    *)
(* any number of requests, users, tasks, connections and sessions, any     *)
(* page size, any texts and any capacity of the audit channel.             *)
(***************************************************************************)
EXTENDS MCRecords, FiniteSetTheorems, WellFoundedInduction, TLAPS

(* Numbers. *)

(* Some numbers, not above a bound, have a largest. *)
LEMMA HasLargest ==
    ASSUME NEW S \in SUBSET Nat, S # {}, NEW b \in Nat, \A n \in S : n <= b
    PROVE  \E m \in S : \A n \in S : n <= m
  <1> DEFINE R == OpToRel(<, Nat)
             T == {b - k : k \in S}
  <1>1. IsWellFoundedOn(R, Nat)
    BY Zenon, NatLessThanWellFounded
  <1>2. \A x, y \in Nat : <<y, x>> \in R <=> y < x
    BY Zenon DEF OpToRel
  <1> HIDE DEF R
  <1>3. T \subseteq Nat /\ T # {}
    <2>1. \A k \in S : b - k \in Nat
      OBVIOUS
    <2> QED
      BY Zenon, <2>1
  <1> HIDE DEF T
  <1>4. \E x \in T : \A y \in T : ~(<<y, x>> \in R)
    BY <1>1, <1>3, WFMin, Zenon
  <1>5. PICK x \in T : \A y \in T : ~(<<y, x>> \in R)
    BY <1>4
  <1>6. PICK k \in S : x = b - k
    BY <1>5 DEF T
  <1>7. ASSUME NEW j \in S
        PROVE  j <= k
    <2>1. b - j \in T
      BY DEF T
    <2>2. ~(b - j < b - k)
      BY Zenon, <1>2, <1>3, <1>5, <1>6, <2>1
    <2> QED
      BY <2>2
  <1> QED
    BY <1>7

(* And a smallest. *)
LEMMA HasSmallest ==
    ASSUME NEW S \in SUBSET Nat, S # {}
    PROVE  \E m \in S : \A n \in S : m <= n
  <1> DEFINE R == OpToRel(<, Nat)
  <1>1. IsWellFoundedOn(R, Nat)
    BY Zenon, NatLessThanWellFounded
  <1>2. \A x, y \in Nat : <<y, x>> \in R <=> y < x
    BY Zenon DEF OpToRel
  <1> HIDE DEF R
  <1>3. \E x \in S : \A y \in S : ~(<<y, x>> \in R)
    BY <1>1, WFMin, Zenon
  <1>4. PICK x \in S : \A y \in S : ~(<<y, x>> \in R)
    BY <1>3
  <1>5. ASSUME NEW y \in S PROVE x <= y
    <2>1. ~(y < x)
      BY Zenon, <1>2, <1>4
    <2> QED
      BY <2>1
  <1> QED
    BY <1>5

-----------------------------------------------------------------------------
(* Audit rows. *)

(* The rows are of events the task is done with; the event it holds comes   *)
(* after all of them and needs a row.                                       *)
RowsBeforeNext ==
    /\ \A m \in DOMAIN user_actions : user_actions[m] < next
    /\ holding # 0 =>
        /\ \A m \in DOMAIN user_actions : user_actions[m] < holding
        /\ published[holding] # "user_created"

AuditInv ==
    /\ TypeOK
    /\ RowsBeforeNext
    /\ RowsAccountedFor

-----------------------------------------------------------------------------
(* A table with one more row. *)
LEMMA AppendedRow ==
    ASSUME NEW S, NEW q \in Seq(S), NEW e \in S
    PROVE  /\ Append(q, e) \in Seq(S)
           /\ DOMAIN Append(q, e) = DOMAIN q \union {Len(q) + 1}
           /\ \A m \in DOMAIN q : Append(q, e)[m] = q[m] /\ m < Len(q) + 1
           /\ Append(q, e)[Len(q) + 1] = e
  OBVIOUS

(* The row of the event that is held goes behind the others. *)
LEMMA HeldRowFits ==
    ASSUME AuditInv, holding # 0, user_actions' = Append(user_actions, holding),
           published' = published
    PROVE  /\ user_actions' \in Seq(Places)
           /\ InOrder'
           /\ \A m \in DOMAIN user_actions : m \in DOMAIN user_actions' /\ user_actions'[m] = user_actions[m]
           /\ \A m \in DOMAIN user_actions' : user_actions'[m] <= holding
           /\ \E m \in DOMAIN user_actions' : user_actions'[m] = holding
  <1> DEFINE n == Len(user_actions) + 1
  <1>1. holding \in Places /\ user_actions \in Seq(Places)
    BY DEF AuditInv, TypeOK, Places
  <1>2. /\ user_actions' \in Seq(Places)
        /\ DOMAIN user_actions' = DOMAIN user_actions \union {n}
        /\ \A m \in DOMAIN user_actions : user_actions'[m] = user_actions[m] /\ m < n
        /\ user_actions'[n] = holding
    BY <1>1, AppendedRow
  <1>3. \A m \in DOMAIN user_actions : m \in Nat /\ user_actions[m] \in Nat
    BY <1>1 DEF Places
  <1>4. n \in Nat /\ holding \in Nat
    BY <1>1 DEF Places
  <1> HIDE DEF n
  <1>5. \A m \in DOMAIN user_actions : user_actions[m] < holding
    BY DEF AuditInv, RowsBeforeNext
  <1>6. published[holding] # "user_created"
    BY DEF AuditInv, RowsBeforeNext
  <1>7. InOrder
    BY DEF AuditInv, RowsAccountedFor
  <1>8. \A l, m \in DOMAIN user_actions' : l < m => user_actions'[l] < user_actions'[m]
    BY <1>2, <1>3, <1>4, <1>5, <1>7 DEF InOrder
  <1>9. \A m \in DOMAIN user_actions' : published'[user_actions'[m]] # "user_created"
    BY <1>2, <1>6, <1>7 DEF InOrder
  <1>10. InOrder'
    BY <1>8, <1>9 DEF InOrder
  <1>11. \A m \in DOMAIN user_actions' : user_actions'[m] <= holding
    BY <1>2, <1>3, <1>4, <1>5
  <1> QED
    BY <1>2, <1>10, <1>11

-----------------------------------------------------------------------------
(* At the start nothing is published. *)
LEMMA AuditInitInv == Init => AuditInv
  BY DEF Init, AuditInv, TypeOK, Places, RowsBeforeNext, RowsAccountedFor, InOrder

(* Steps that leave the channel and the table alone. *)
LEMMA AuditOutsideInv ==
    ASSUME AuditInv, TypeOK', UNCHANGED <<published, next, holding, user_actions, failed, died>>
    PROVE  AuditInv'
  BY DEF AuditInv, RowsBeforeNext, RowsAccountedFor, InOrder, MissingForCause

(* Events are appended; what is there keeps its place. *)
LEMMA AuditPublishInv ==
    ASSUME AuditInv, NEW w \in waiting, Publish(w)
    PROVE  AuditInv'
  <1> USE DEF AuditInv
  <1>1. w.events \in Seq(Kind) /\ Len(w.events) \in Nat
    <2>1. w.events \in Batch
      BY DEF TypeOK
    <2>2. /\ <<"login">> \in Seq(Kind) /\ <<"refresh">> \in Seq(Kind) /\ <<"logout">> \in Seq(Kind)
          /\ <<"user_created", "login">> \in Seq(Kind)
      BY DEF Kind
    <2>3. w.events \in Seq(Kind)
      BY Zenon, <2>1, <2>2 DEF Batch
    <2> QED
      BY <2>3
  <1> DEFINE es == w.events
  <1>2. /\ published' = published \o es
        /\ UNCHANGED <<up, next, holding, user_actions, failed, died>>
        /\ waiting' \subseteq waiting
    BY DEF Publish
  <1> HIDE DEF es
  <1>3. /\ published' \in Seq(Kind)
        /\ Len(published) \in Nat /\ Len(published') \in Nat /\ Len(published') >= Len(published)
        /\ \A p \in Places : published'[p] = published[p]
    BY <1>1, <1>2 DEF TypeOK, Places, es
  <1>4. \A p \in Places : p \in Places'
    BY <1>3 DEF Places
  <1>5. user_actions' \in Seq(Places')
    BY <1>2, <1>4 DEF TypeOK
  <1>6. TypeOK'
    BY <1>2, <1>3, <1>4, <1>5 DEF TypeOK
  <1>7. \A m \in DOMAIN user_actions : user_actions[m] \in Places
    BY DEF TypeOK
  <1>8. holding # 0 => holding \in Places
    BY <1>3 DEF TypeOK, Places
  <1>9. RowsBeforeNext'
    BY Zenon, <1>2, <1>3, <1>8 DEF RowsBeforeNext
  <1>10. InOrder'
    BY Zenon, <1>2, <1>3, <1>7 DEF InOrder, RowsAccountedFor
  <1>11. \A p \in 1 .. next - 1 : MissingForCause(p) => MissingForCause(p)'
    BY <1>2, <1>3, AuditConstants DEF MissingForCause, TypeOK, Places
  <1>12. RowsAccountedFor'
    BY <1>2, <1>10, <1>11 DEF RowsAccountedFor
  <1> QED
    BY <1>6, <1>9, <1>12

(* The receiver skips what is Capacity events behind. *)
LEMMA AuditLaggedInv ==
    ASSUME AuditInv, Lagged
    PROVE  AuditInv'
  <1> USE DEF AuditInv
  <1>1. /\ next < Oldest /\ next' = Oldest /\ holding = 0
        /\ UNCHANGED <<up, waiting, published, holding, user_actions, failed, died>>
    BY DEF Lagged
  <1>2. Len(published) \in Nat /\ Capacity \in Nat \ {0} /\ next \in Nat
    BY AuditConstants DEF TypeOK
  <1>3. next' \in 1 .. Len(published) + 1 /\ next' > next
    BY <1>1, <1>2 DEF Oldest, TypeOK
  <1>4. TypeOK'
    BY <1>1, <1>2, <1>3 DEF TypeOK, Places
  <1>5. RowsBeforeNext'
    <2>1. \A m \in DOMAIN user_actions : user_actions[m] \in Nat
      BY DEF TypeOK, Places
    <2> QED
      BY <1>1, <1>2, <1>3, <2>1 DEF RowsBeforeNext
  <1>6. \A p \in next .. next' - 1 : MissingForCause(p)'
    BY <1>1, <1>2, <1>3 DEF MissingForCause, Oldest
  <1>7. \A p \in 1 .. next - 1 : MissingForCause(p) => MissingForCause(p)'
    BY <1>1 DEF MissingForCause
  <1>8. RowsAccountedFor'
    <2>1. InOrder'
      BY <1>1 DEF InOrder, RowsAccountedFor
    <2>2. PICK n \in Nat : n = next'
      BY <1>2, <1>3
    <2>3. \A p \in 1 .. n - 1 : p \in 1 .. next - 1 \/ p \in next .. n - 1
      BY <1>2
    <2> QED
      BY <1>1, <1>6, <1>7, <2>1, <2>2, <2>3 DEF RowsAccountedFor
  <1> QED
    BY <1>4, <1>5, <1>8

(* The next event is held, unless it needs no row. *)
LEMMA AuditReceiveInv ==
    ASSUME AuditInv, Receive
    PROVE  AuditInv'
  <1> USE DEF AuditInv
  <1>1. /\ next \in Places /\ next' = next + 1 /\ holding = 0
        /\ holding' = IF published[next] = "user_created" THEN 0 ELSE next
        /\ UNCHANGED <<up, waiting, published, user_actions, failed, died>>
    BY DEF Receive
  <1>2. Len(published) \in Nat /\ next \in Nat /\ next <= Len(published)
    BY <1>1 DEF TypeOK, Places
  <1>3. TypeOK'
    BY <1>1, <1>2 DEF TypeOK, Places
  <1>4. RowsBeforeNext'
    <2>1. \A m \in DOMAIN user_actions : user_actions[m] \in Nat
      BY DEF TypeOK, Places
    <2> QED
      BY <1>1, <1>2, <2>1 DEF RowsBeforeNext
  <1>5. \A p \in 1 .. next - 1 : MissingForCause(p) => MissingForCause(p)'
    BY <1>1 DEF MissingForCause
  <1>6. \A p : p = next => p = holding' \/ MissingForCause(p)'
    BY <1>1 DEF MissingForCause
  <1>7. RowsAccountedFor'
    <2>1. InOrder'
      BY <1>1 DEF InOrder, RowsAccountedFor
    <2>2. \A p \in 1 .. next' - 1 : p \in 1 .. next - 1 \/ p = next
      BY <1>1, <1>2
    <2>3. \A p \in 1 .. next - 1 : p # holding
      BY <1>1
    <2> QED
      BY <1>1, <1>5, <1>6, <2>1, <2>2, <2>3 DEF RowsAccountedFor
  <1> QED
    BY <1>3, <1>4, <1>7

(* The event that is held gets its row, or is known to have failed. *)
LEMMA AuditInsertInv ==
    ASSUME AuditInv, Insert
    PROVE  AuditInv'
  <1> USE DEF AuditInv
  <1>1. /\ holding # 0 /\ holding' = 0
        /\ UNCHANGED <<up, waiting, published, next, died>>
        /\ \/ user_actions' = Append(user_actions, holding)
           \/ user_actions' = user_actions /\ holding \in failed'
        /\ failed' \in {failed, failed \union {holding}}
    BY DEF Insert
  <1>2. Len(published) \in Nat /\ next \in Nat /\ holding \in Nat /\ holding < next /\ holding \in Places
    BY <1>1 DEF TypeOK, Places
  <1>3. \A p \in 1 .. next - 1 : MissingForCause(p) => MissingForCause(p)'
    BY <1>1 DEF MissingForCause
  <1>4. CASE user_actions' = Append(user_actions, holding)
    <2>1. /\ user_actions' \in Seq(Places)
          /\ InOrder'
          /\ \A m \in DOMAIN user_actions : m \in DOMAIN user_actions' /\ user_actions'[m] = user_actions[m]
          /\ \A m \in DOMAIN user_actions' : user_actions'[m] <= holding
          /\ \E m \in DOMAIN user_actions' : user_actions'[m] = holding
      BY <1>1, <1>4, HeldRowFits
    <2>2. TypeOK'
      BY <1>1, <1>2, <2>1 DEF TypeOK, Places
    <2>3. RowsBeforeNext'
      <3>1. \A m \in DOMAIN user_actions' : user_actions'[m] \in Nat
        BY <2>1 DEF Places
      <3> QED
        BY <1>1, <1>2, <2>1, <3>1 DEF RowsBeforeNext
    <2>4. RowsAccountedFor'
      BY <1>1, <1>3, <2>1 DEF RowsAccountedFor
    <2> QED
      BY <2>2, <2>3, <2>4
  <1>5. CASE user_actions' = user_actions /\ holding \in failed'
    <2>1. TypeOK'
      BY <1>1, <1>2, <1>5 DEF TypeOK, Places
    <2>2. RowsBeforeNext'
      BY <1>1, <1>5 DEF RowsBeforeNext
    <2>3. \A p : p = holding => MissingForCause(p)'
      BY <1>1, <1>5 DEF MissingForCause
    <2>4. RowsAccountedFor'
      BY <1>1, <1>3, <1>5, <2>3 DEF RowsAccountedFor, InOrder
    <2> QED
      BY <2>1, <2>2, <2>4
  <1> QED
    BY <1>1, <1>4, <1>5

(* What was unread or held is known to have died with its process. *)
LEMMA AuditCrashInv ==
    ASSUME AuditInv, Crash
    PROVE  AuditInv'
  <1> USE DEF AuditInv
  <1>1. /\ up' = FALSE /\ waiting' = {} /\ holding' = 0 /\ next' = Len(published) + 1
        /\ died' = died \union (next .. Len(published)) \union ({holding} \ {0})
        /\ UNCHANGED <<published, failed>>
        /\ \/ user_actions' = user_actions
           \/ holding # 0 /\ user_actions' = Append(user_actions, holding)
    BY DEF Crash
  <1>2. Len(published) \in Nat /\ next \in 1 .. Len(published) + 1 /\ holding \in 0 .. next - 1
    BY DEF TypeOK
  <1>3. /\ user_actions' \in Seq(Places) /\ InOrder'
        /\ \A m \in DOMAIN user_actions : m \in DOMAIN user_actions' /\ user_actions'[m] = user_actions[m]
    <2>1. CASE user_actions' = user_actions
      BY <1>1, <2>1 DEF TypeOK, InOrder, RowsAccountedFor
    <2>2. CASE holding # 0 /\ user_actions' = Append(user_actions, holding)
      BY <1>1, <2>2, HeldRowFits
    <2> QED
      BY <1>1, <2>1, <2>2
  <1>4. TypeOK'
    <2>1. died \subseteq 1 .. Len(published)
      BY DEF TypeOK, Places
    <2>2. (next .. Len(published)) \union ({holding} \ {0}) \subseteq 1 .. Len(published)
      BY <1>2
    <2>3. died' \subseteq Places'
      BY Zenon, <1>1, <2>1, <2>2 DEF Places
    <2>4. Places' = Places
      BY <1>1 DEF Places
    <2>5. next' \in 1 .. Len(published') + 1 /\ holding' \in 0 .. next' - 1
      BY <1>1, <1>2
    <2> QED
      BY Zenon, <1>1, <1>3, <2>3, <2>4, <2>5 DEF TypeOK
  <1>5. RowsBeforeNext'
    <2>1. \A m \in DOMAIN user_actions' : user_actions'[m] \in 1 .. Len(published)
      BY <1>3 DEF Places
    <2> QED
      BY <1>1, <1>2, <2>1 DEF RowsBeforeNext
  <1>6. \A p \in 1 .. next - 1 : MissingForCause(p) => MissingForCause(p)'
    BY <1>1 DEF MissingForCause
  <1>7. \A p \in next .. Len(published) : MissingForCause(p)'
    BY <1>1 DEF MissingForCause
  <1>8. \A p : p = holding /\ p # 0 => MissingForCause(p)'
    BY <1>1 DEF MissingForCause
  <1>9. RowsAccountedFor'
    <2>1. \A p \in 1 .. next' - 1 : p \in 1 .. next - 1 \/ p \in next .. Len(published)
      BY <1>1, <1>2
    <2>2. \A p \in 1 .. next - 1 : p = holding => p # 0
      BY <1>2
    <2> QED
      BY <1>3, <1>6, <1>7, <1>8, <2>1, <2>2 DEF RowsAccountedFor
  <1> QED
    BY <1>4, <1>5, <1>9

(* The invariant is inductive. *)
LEMMA AuditNextInv == AuditInv /\ [Next]_vars => AuditInv'
  <1> SUFFICES ASSUME AuditInv, [Next]_vars PROVE AuditInv'
    OBVIOUS
  <1>1. ASSUME NEW s \in Slot, NEW batch \in Batch, Commit(s, batch) PROVE AuditInv'
    <2>1. waiting' \subseteq [slot : Slot, events : Batch]
      BY <1>1 DEF Commit, AuditInv, TypeOK
    <2>2. TypeOK'
      BY <1>1, <2>1 DEF Commit, AuditInv, TypeOK, Places
    <2> QED
      BY <1>1, <2>2, AuditOutsideInv DEF Commit
  <1>2. ASSUME NEW w \in waiting, Publish(w) PROVE AuditInv'
    BY <1>2, AuditPublishInv
  <1>3. ASSUME NEW w \in waiting, Leave(w) PROVE AuditInv'
    <2>1. TypeOK'
      BY <1>3 DEF Leave, AuditInv, TypeOK, Places
    <2> QED
      BY <1>3, <2>1, AuditOutsideInv DEF Leave
  <1>4. CASE AuditTask
    BY <1>4, AuditLaggedInv, AuditReceiveInv, AuditInsertInv DEF AuditTask
  <1>5. CASE Crash
    BY <1>5, AuditCrashInv
  <1>6. CASE Start \/ UNCHANGED vars
    <2>1. TypeOK'
      BY Zenon, <1>6 DEF Start, vars, AuditInv, TypeOK, Places
    <2> QED
      BY <1>6, <2>1, AuditOutsideInv DEF Start, vars
  <1> QED
    BY <1>1, <1>2, <1>3, <1>4, <1>5, <1>6 DEF Next

(* The rows of user_actions are the published events in their order, none   *)
(* twice, and an event without a row has a known cause.                     *)
THEOREM EveryEventAccountedFor == Spec => []RowsAccountedFor
  <1>1. AuditInv => RowsAccountedFor
    BY DEF AuditInv
  <1> QED
    BY AuditInitInv, AuditNextInv, <1>1, PTL DEF Spec

-----------------------------------------------------------------------------
(* The list of users. *)

(* The users there are when c[u] is the time at which u was created, those  *)
(* of them that the list has before u, and how many they are.               *)
There(c) == {u \in Ids : c[u] > 0}
IsAhead(c, v, u) == c[v] > c[u] \/ (c[v] = c[u] /\ v > u)
Ahead(c, u) == {v \in There(c) : IsAhead(c, v, u)}
Place(c, u) == Cardinality(Ahead(c, u))

PageLen == Listing!normalize_per_page(walk.raw)
PageStart == Listing!Offset(walk.page, PageLen)

(* Whoever was there and has not been met is not before the page that is    *)
(* read next, and is after the page that has been read; a page that is not  *)
(* full is the last.                                                        *)
NotBefore == \A u \in walk.there \ walk.seen : Place(created, u) >= PageStart
AfterPage == \A u \in walk.there \ (walk.seen \union walk.rows) : Place(created, u) >= PageStart + PageLen
LastIsShort == Cardinality(walk.rows) < PageLen => walk.there \subseteq walk.seen \union walk.rows

ListingInv ==
    /\ Listing!TypeOK
    /\ walk.there \subseteq There(created)
    /\ NotBefore
    /\ walk.pc \in {"ask", "is_admin"} => ~walk.selected
    /\ walk.pc = "select" => walk.page >= 1
    /\ walk.pc = "roles" => walk.selected
    /\ walk.selected => walk.page >= 1 /\ AfterPage /\ LastIsShort
    /\ Listing!NobodySkipped

(* What is assumed of the list's constants, with this module's notion of    *)
(* finite.                                                                  *)
LEMMA ListingConstantsAre ==
    /\ Ids \subseteq Nat /\ IsFiniteSet(Ids)
    /\ Latest \in Nat /\ PageSize \in Nat /\ LongestPage \in Nat
    /\ 1 <= PageSize /\ PageSize <= LongestPage
    /\ PageSizes \subseteq Nat \union {-1}
  <1>1. \A S : Listing!IsFiniteSet(S) <=> IsFiniteSet(S)
    BY Zenon DEF Listing!IsFiniteSet, IsFiniteSet
  <1> QED
    BY <1>1, RecordsConstants DEF Listing!ListingConstants, Listing!SizeConstants, Listing!Omitted

(* Cardinality is the one of the component. *)
LEMMA ListingCardinality == \A S : Listing!Cardinality(S) = Cardinality(S)
  BY Zenon DEF Listing!Cardinality, Cardinality

(* The place of a user is its rank in the component. *)
LEMMA RankIsPlace ==
    /\ Listing!Users = There(created)
    /\ \A u : Listing!Rank(u) = Place(created, u)
  BY ListingCardinality
  DEF Listing!Rank, Listing!Users, Listing!Before, Place, Ahead, There, IsAhead

(* A place is a number. *)
LEMMA PlaceType ==
    ASSUME NEW c, NEW u
    PROVE  Place(c, u) \in Nat /\ IsFiniteSet(Ahead(c, u))
  <1>1. Ahead(c, u) \in SUBSET Ids
    BY DEF Ahead, There
  <1> QED
    BY <1>1, ListingConstantsAre, FS_Subset, FS_CardinalityType DEF Place

(* The order of the list is strict and total. *)
LEMMA AheadOrder ==
    ASSUME NEW c \in [Ids -> Nat], NEW u \in Ids, NEW v \in Ids, NEW w \in Ids
    PROVE  /\ ~IsAhead(c, u, u)
           /\ IsAhead(c, u, v) /\ IsAhead(c, v, w) => IsAhead(c, u, w)
           /\ u # v => IsAhead(c, u, v) \/ IsAhead(c, v, u)
  <1>1. {u, v, w} \subseteq Nat
    BY ListingConstantsAre
  <1>2. c[u] \in Nat /\ c[v] \in Nat /\ c[w] \in Nat
    OBVIOUS
  <1> QED
    BY <1>1, <1>2 DEF IsAhead

(* Whoever is ahead has an earlier place. *)
LEMMA AheadIsEarlier ==
    ASSUME NEW c \in [Ids -> Nat], NEW u \in There(c), NEW v \in There(c), IsAhead(c, v, u)
    PROVE  Place(c, v) < Place(c, u)
  <1>1. Ahead(c, v) \in SUBSET Ahead(c, u)
    BY AheadOrder DEF Ahead, There
  <1>2. v \in Ahead(c, u) /\ v \notin Ahead(c, v)
    BY AheadOrder DEF Ahead, There
  <1>3. /\ Cardinality(Ahead(c, v)) <= Cardinality(Ahead(c, u))
        /\ Cardinality(Ahead(c, u)) = Cardinality(Ahead(c, v)) => Ahead(c, u) = Ahead(c, v)
    BY <1>1, PlaceType, FS_Subset
  <1> QED
    BY <1>2, <1>3, PlaceType DEF Place

(* Somebody has the place just before that of a user who is not the first. *)
LEMMA PlaceBefore ==
    ASSUME NEW c \in [Ids -> Nat], NEW u \in There(c), Place(c, u) > 0
    PROVE  \E w \in There(c) : Place(c, w) = Place(c, u) - 1
  <1> DEFINE P == Ahead(c, u)
             S == {Place(c, v) : v \in P}
  <1>1. IsFiniteSet(P) /\ P \subseteq There(c) /\ There(c) \subseteq Ids
    BY PlaceType DEF Ahead, There
  <1>2. P # {}
    BY FS_EmptySet, PlaceType DEF Place
  <1>3. S \subseteq Nat /\ S # {}
    BY <1>2, PlaceType
  <1>4. \A n \in S : n <= Place(c, u)
    <2>1. ASSUME NEW v \in P PROVE Place(c, v) <= Place(c, u)
      <3>1. v \in There(c) /\ IsAhead(c, v, u)
        BY DEF Ahead
      <3> QED
        BY <3>1, AheadIsEarlier, PlaceType
    <2> QED
      BY <2>1
  <1>5. Place(c, u) \in Nat
    BY PlaceType
  <1>6. PICK w \in P : \A v \in P : Place(c, v) <= Place(c, w)
    <2> HIDE DEF S
    <2>1. \E m \in S : \A n \in S : n <= m
      BY Zenon, <1>3, <1>4, <1>5, HasLargest
    <2> QED
      BY <2>1 DEF S
  <1>7. Ahead(c, w) = P \ {w}
    <2>1. ASSUME NEW v \in Ahead(c, w) PROVE v \in P \ {w}
      BY <1>1, AheadOrder DEF Ahead, There
    <2>2. ASSUME NEW v \in P, v # w PROVE v \in Ahead(c, w)
      <3>1. IsAhead(c, v, w) \/ IsAhead(c, w, v)
        BY <1>1, <2>2, AheadOrder
      <3>2. ~IsAhead(c, w, v)
        <4>1. Place(c, v) <= Place(c, w) /\ Place(c, v) \in Nat /\ Place(c, w) \in Nat
          BY <1>6, PlaceType
        <4>2. v \in There(c) /\ w \in There(c)
          BY <1>1
        <4> QED
          BY <4>1, <4>2, AheadIsEarlier
      <3> QED
        BY <1>1, <3>1, <3>2 DEF Ahead
    <2> QED
      BY <2>1, <2>2
  <1> HIDE DEF P
  <1>8. Cardinality(P \ {w}) = Cardinality(P) - 1
    BY Zenon, <1>1, FS_RemoveElement
  <1> QED
    BY <1>1, <1>7, <1>8 DEF Place, P

(* Every place before a user's is somebody's. *)
LEMMA PlacesFilled ==
    ASSUME NEW c \in [Ids -> Nat], NEW u \in There(c), NEW k \in Nat, k <= Place(c, u)
    PROVE  \E w \in There(c) : Place(c, w) = k
  <1> DEFINE S == {n \in Nat : n >= k /\ \E v \in There(c) : Place(c, v) = n}
  <1>1. S \subseteq Nat /\ S # {}
    BY PlaceType
  <1> HIDE DEF S
  <1>2. PICK m \in S : \A n \in S : m <= n
    BY <1>1, HasSmallest
  <1>3. m \in Nat /\ m >= k
    BY <1>2 DEF S
  <1>4. PICK v \in There(c) : Place(c, v) = m
    BY <1>2 DEF S
  <1>5. CASE m > k
    <2>1. PICK w \in There(c) : Place(c, w) = m - 1
      BY <1>3, <1>4, <1>5, PlaceBefore
    <2>2. m - 1 \in S
      BY <1>3, <1>5, <2>1 DEF S
    <2> QED
      BY <1>2, <1>3, <2>2
  <1> QED
    BY <1>3, <1>4, <1>5

(* The page from k on is full when somebody has a place after it. *)
LEMMA PageFull ==
    ASSUME NEW c \in [Ids -> Nat], NEW u \in There(c), NEW k \in Nat, NEW n \in Nat,
           Place(c, u) >= k + n
    PROVE  Cardinality({v \in There(c) : Place(c, v) \in k .. k + n - 1}) >= n
  <1> DEFINE S == {v \in There(c) : Place(c, v) \in k .. k + n - 1}
             f == [v \in S |-> Place(c, v)]
  <1>1. S \in SUBSET Ids
    BY DEF There
  <1>2. IsFiniteSet(S) /\ Cardinality(S) \in Nat
    BY <1>1, ListingConstantsAre, FS_Subset, FS_CardinalityType
  <1>3. f \in Surjection(S, k .. k + n - 1)
    <2>1. ASSUME NEW i \in k .. k + n - 1 PROVE \E v \in S : f[v] = i
      <3>1. PICK v \in There(c) : Place(c, v) = i
        BY PlacesFilled, PlaceType
      <3> QED
        BY <3>1
    <2>2. f \in [S -> k .. k + n - 1]
      OBVIOUS
    <2> HIDE DEF f, S
    <2> QED
      BY <2>1, <2>2 DEF Surjection
  <1> HIDE DEF f, S
  <1>4. Cardinality(k .. k + n - 1) <= Cardinality(S)
    BY <1>2, <1>3, FS_Surjection
  <1>5. Cardinality(k .. k + n - 1) = n
    BY FS_Interval
  <1> QED
    BY <1>2, <1>4, <1>5 DEF S
(* The size of a page, and where a page begins. *)
LEMMA SizeType ==
    ASSUME NEW raw \in PageSizes
    PROVE  /\ Listing!normalize_per_page(raw) \in Nat
           /\ Listing!normalize_per_page(raw) >= 1
  BY ListingConstantsAre DEF Listing!normalize_per_page, Listing!Omitted

(* A page begins where the one before it ends; the first, and any smaller   *)
(* number, at 0.                                                            *)
LEMMA OffsetType ==
    ASSUME NEW page \in Nat \union {-1}, NEW size \in Nat
    PROVE  /\ Listing!Offset(page, size) \in Nat
           /\ page <= 1 => Listing!Offset(page, size) = 0
           /\ page >= 1 => Listing!Offset(page + 1, size) = Listing!Offset(page, size) + size
  <1>1. CASE page <= 1
    <2>1. page = 1 => (page + 1) - 1 = 1 /\ 1 * size = size
      OBVIOUS
    <2> QED
      BY <1>1, <2>1 DEF Listing!Offset
  <1>2. CASE page > 1
    <2>1. page \in Nat
      BY <1>2
    <2>2. (page - 1) * size \in Nat
      BY <1>2, <2>1
    <2>3. ((page + 1) - 1) * size = (page - 1) * size + size
      BY <2>1
    <2> QED
      BY <1>2, <2>1, <2>2, <2>3 DEF Listing!Offset
  <1> QED
    BY <1>1, <1>2

(* A user who appears puts nobody at an earlier place. *)
LEMMA PlaceGrows ==
    ASSUME NEW c \in [Ids -> Nat], NEW d \in [Ids -> Nat], NEW new \in Ids \ There(c),
           NEW t \in Nat, d = [c EXCEPT ![new] = t], t > 0, NEW u \in There(c)
    PROVE  Place(c, u) <= Place(d, u)
  <1>1. Ahead(c, u) \in SUBSET Ahead(d, u)
    BY DEF Ahead, There, IsAhead
  <1> QED
    BY Zenon, <1>1, PlaceType, FS_Subset DEF Place

(* Nobody has been met at first, and no page is read. *)
LEMMA ListingInitInv == Listing!Init => ListingInv
  <1> SUFFICES ASSUME Listing!Init PROVE ListingInv
    OBVIOUS
  <1>1. PICK raw \in PageSizes, page \in {-1, 0, 1} :
            walk = [pc |-> "ask", page |-> page, raw |-> raw, rows |-> {}, counted |-> FALSE,
                    selected |-> FALSE, there |-> There(created), seen |-> {}]
    BY Zenon, RankIsPlace DEF Listing!Init, Listing!Omitted
  <1>2. PageStart = 0
    <2>1. walk.page = page /\ walk.raw = raw /\ page \in Nat \union {-1} /\ page <= 1
      BY <1>1
    <2>2. PageLen \in Nat
      BY <2>1, SizeType DEF PageLen
    <2> QED
      BY <2>1, <2>2, OffsetType DEF PageStart
  <1>3. Listing!TypeOK
    BY <1>1 DEF Listing!TypeOK, Listing!Init, Listing!Walk, Listing!Omitted, There
  <1>4. NotBefore
    BY <1>2, PlaceType DEF NotBefore
  <1> QED
    BY <1>1, <1>3, <1>4 DEF ListingInv, Listing!NobodySkipped

(* The client asks again, or goes on, at the page where it is. *)
LEMMA WalkStays ==
    ASSUME ListingInv, created' = created, walk' \in Listing!Walk,
           walk'.page = walk.page \/ (walk.page \in {-1, 0, 1} /\ walk'.page \in {0, 1}),
           walk'.raw = walk.raw, walk'.there = walk.there, walk'.seen = walk.seen
    PROVE  /\ Listing!TypeOK' /\ walk'.there \subseteq There(created') /\ NotBefore'
           /\ PageLen' = PageLen /\ PageStart' = PageStart
  <1>1. walk \in Listing!Walk
    BY DEF ListingInv, Listing!TypeOK
  <1>2. PageLen' = PageLen /\ PageLen \in Nat
    BY <1>1, SizeType DEF PageLen, Listing!Walk, Listing!normalize_per_page
  <1>3. PageStart' = PageStart
    <2>1. PageStart = Listing!Offset(walk.page, PageLen) /\ PageStart' = Listing!Offset(walk'.page, PageLen)
      BY <1>2 DEF PageStart, Listing!Offset
    <2>2. CASE walk'.page = walk.page
      BY <2>1, <2>2
    <2>3. CASE walk.page \in {-1, 0, 1} /\ walk'.page \in {0, 1}
      <3>1. \A n \in {-1, 0, 1} : n \in Nat \union {-1} /\ n <= 1
        OBVIOUS
      <3>2. Listing!Offset(walk.page, PageLen) = 0 /\ Listing!Offset(walk'.page, PageLen) = 0
        BY Zenon, <1>2, <2>3, <3>1, OffsetType
      <3> QED
        BY <2>1, <3>2
    <2> QED
      BY <2>2, <2>3
  <1>4. Listing!TypeOK'
    BY DEF ListingInv, Listing!TypeOK, Listing!Walk
  <1>5. NotBefore'
    BY <1>3 DEF ListingInv, NotBefore
  <1> QED
    BY <1>2, <1>3, <1>4, <1>5 DEF ListingInv

(* The invariant is inductive: a user that appears moves others to later    *)
(* places in the list, never to earlier ones.                               *)
LEMMA ListingNextInv ==
    ASSUME ListingInv, [Listing!Next \/ Walked]_listing
    PROVE  ListingInv'
  <1>1. /\ walk \in Listing!Walk /\ created \in [Ids -> 0 .. Latest]
        /\ walk.page \in Nat \union {-1} /\ walk.raw \in PageSizes
    BY DEF ListingInv, Listing!TypeOK, Listing!Walk, Listing!Omitted
  <1>2. PageLen \in Nat /\ PageLen >= 1 /\ PageStart \in Nat
    BY Zenon, <1>1, SizeType, OffsetType DEF PageLen, PageStart
  <1>3. CASE UNCHANGED listing
    BY <1>3 DEF ListingInv, listing, Listing!TypeOK, NotBefore, AfterPage, LastIsShort,
                Listing!NobodySkipped, PageStart, PageLen
  <1>4. CASE Listing!Ask
    <2>1. walk.pc = "ask" /\ walk' = [walk EXCEPT !.pc = "is_admin"] /\ created' = created
      BY <1>4 DEF Listing!Ask, Listing!Set
    <2>2. walk' \in Listing!Walk /\ walk'.pc = "is_admin" /\ walk'.selected = walk.selected
      BY <1>1, <2>1 DEF Listing!Walk
    <2>3. Listing!TypeOK' /\ walk'.there \subseteq There(created') /\ NotBefore'
      BY <1>1, <2>1, <2>2, WalkStays DEF Listing!Walk
    <2> QED
      BY <2>1, <2>2, <2>3 DEF ListingInv, Listing!NobodySkipped
  <1>5. CASE Listing!Fail
    <2>1. walk' = [walk EXCEPT !.pc = "ask", !.counted = FALSE, !.selected = FALSE] /\ created' = created
      BY <1>5 DEF Listing!Fail, Listing!Set
    <2>2. walk' \in Listing!Walk /\ walk'.pc = "ask" /\ walk'.selected = FALSE
      BY Zenon, <1>1, <2>1 DEF Listing!Walk
    <2>3. Listing!TypeOK' /\ walk'.there \subseteq There(created') /\ NotBefore'
      BY <1>1, <2>1, <2>2, WalkStays DEF Listing!Walk
    <2> QED
      BY <2>2, <2>3 DEF ListingInv, Listing!NobodySkipped
  <1>6. CASE Listing!IsAdmin
    <2> DEFINE page == Listing!normalize_page(walk.page)
    <2>1. walk.pc = "is_admin" /\ created' = created
      BY <1>6 DEF Listing!IsAdmin, Listing!Set, Listing!Fail
    <2>2. CASE walk' = [walk EXCEPT !.pc = "refused"]
      <3>1. walk' \in Listing!Walk /\ walk'.pc = "refused" /\ walk'.selected = walk.selected
        BY <1>1, <2>2 DEF Listing!Walk
      <3>2. Listing!TypeOK' /\ walk'.there \subseteq There(created') /\ NotBefore'
        BY <1>1, <2>1, <2>2, <3>1, WalkStays DEF Listing!Walk
      <3> QED
        BY <2>1, <3>1, <3>2 DEF ListingInv, Listing!NobodySkipped
    <2>3. CASE walk' = [walk EXCEPT !.page = page, !.pc = IF page = 0 THEN "refused" ELSE "select"]
      <3>1. /\ page \in Nat
            /\ page = walk.page \/ (walk.page = -1 /\ page = 1)
        BY <1>1 DEF Listing!normalize_page, Listing!Omitted
      <3> HIDE DEF page
      <3>2. /\ walk' \in Listing!Walk /\ walk'.pc \in {"refused", "select"}
            /\ walk'.pc = "select" => page # 0
            /\ walk'.selected = walk.selected /\ walk'.page = page
        <4>1. CASE page = 0
          BY Zenon, <1>1, <2>3, <3>1, <4>1 DEF Listing!Walk
        <4>2. CASE page # 0
          BY Zenon, <1>1, <2>3, <3>1, <4>2 DEF Listing!Walk
        <4> QED
          BY <4>1, <4>2
      <3>3. Listing!TypeOK' /\ walk'.there \subseteq There(created') /\ NotBefore'
        BY <1>1, <2>1, <2>3, <3>1, <3>2, WalkStays DEF Listing!Walk
      <3> QED
        BY <2>1, <3>1, <3>2, <3>3 DEF ListingInv, Listing!NobodySkipped
    <2> QED
      BY <1>5, <1>6, <2>2, <2>3 DEF Listing!IsAdmin, Listing!Set
  <1>7. CASE Listing!Select
    <2> DEFINE rows == {u \in There(created) : Place(created, u) \in PageStart .. PageStart + PageLen - 1}
               pc == IF walk.counted THEN "roles" ELSE walk.pc
    <2>1. walk.pc = "select" /\ created' = created
      BY <1>7 DEF Listing!Select, Listing!Set, Listing!Fail
    <2>2. Listing!list_user_summaries(PageLen, PageStart) = rows
      BY RankIsPlace DEF Listing!list_user_summaries
    <2>3. CASE walk' = [walk EXCEPT !.selected = TRUE, !.pc = pc, !.rows = rows]
      <3>1. rows \subseteq Ids
        BY DEF There
      <3> HIDE DEF rows
      <3>2. /\ walk' \in Listing!Walk /\ walk'.pc \in {"select", "roles"}
            /\ walk'.selected = TRUE /\ walk'.rows = rows
            /\ walk'.page = walk.page /\ walk'.raw = walk.raw
            /\ walk'.there = walk.there /\ walk'.seen = walk.seen
        BY Zenon, <1>1, <2>1, <2>3, <3>1 DEF Listing!Walk
      <3>3. /\ Listing!TypeOK' /\ walk'.there \subseteq There(created') /\ NotBefore'
            /\ PageLen' = PageLen /\ PageStart' = PageStart
        BY <2>1, <3>2, WalkStays
      <3>4. \A u \in walk.there \ (walk.seen \union rows) : Place(created, u) >= PageStart + PageLen
        <4> SUFFICES ASSUME NEW u \in walk.there \ (walk.seen \union rows)
                     PROVE  Place(created, u) >= PageStart + PageLen
          OBVIOUS
        <4>1. u \in There(created) /\ Place(created, u) >= PageStart /\ Place(created, u) \in Nat
          BY PlaceType DEF ListingInv, NotBefore
        <4>2. Place(created, u) \notin PageStart .. PageStart + PageLen - 1
          BY <4>1 DEF rows
        <4> QED
          BY <1>2, <4>1, <4>2
      <3>5. Cardinality(rows) < PageLen => walk.there \subseteq walk.seen \union rows
        <4> SUFFICES ASSUME NEW u \in walk.there \ (walk.seen \union rows)
                     PROVE  ~(Cardinality(rows) < PageLen)
          OBVIOUS
        <4>1. u \in There(created) /\ created \in [Ids -> Nat]
          BY <1>1, ListingConstantsAre DEF ListingInv
        <4>2. Cardinality(rows) >= PageLen
          BY <1>2, <3>4, <4>1, PageFull DEF rows
        <4>3. Cardinality(rows) \in Nat
          BY Zenon, <3>1, ListingConstantsAre, FS_Subset, FS_CardinalityType
        <4> QED
          BY <1>2, <4>2, <4>3
      <3>6. AfterPage' /\ LastIsShort'
        BY <2>1, <3>2, <3>3, <3>4, <3>5 DEF AfterPage, LastIsShort
      <3> QED
        BY <2>1, <3>2, <3>3, <3>6 DEF ListingInv, Listing!NobodySkipped
    <2> QED
      BY <1>5, <1>7, <2>2, <2>3 DEF Listing!Select, Listing!Set, PageStart, PageLen
  <1>8. CASE Listing!Count
    <2> DEFINE pc == IF walk.selected THEN "roles" ELSE walk.pc
    <2>1. walk.pc = "select" /\ created' = created
      BY <1>8 DEF Listing!Count, Listing!Set, Listing!Fail
    <2>2. CASE walk' = [walk EXCEPT !.counted = TRUE, !.pc = pc]
      <3>1. /\ walk' \in Listing!Walk /\ walk'.pc \in {"select", "roles"}
            /\ walk'.pc = "roles" => walk.selected
            /\ walk'.selected = walk.selected /\ walk'.rows = walk.rows
            /\ walk'.page = walk.page /\ walk'.raw = walk.raw
            /\ walk'.there = walk.there /\ walk'.seen = walk.seen
        BY Zenon, <1>1, <2>1, <2>2 DEF Listing!Walk
      <3>2. /\ Listing!TypeOK' /\ walk'.there \subseteq There(created') /\ NotBefore'
            /\ PageLen' = PageLen /\ PageStart' = PageStart
        BY <2>1, <3>1, WalkStays
      <3>3. walk.selected => AfterPage' /\ LastIsShort'
        BY <2>1, <3>1, <3>2 DEF ListingInv, AfterPage, LastIsShort
      <3> QED
        BY <2>1, <3>1, <3>2, <3>3 DEF ListingInv, Listing!NobodySkipped
    <2> QED
      BY <1>5, <1>8, <2>2 DEF Listing!Count, Listing!Set
  <1>9. CASE Listing!Roles
    <2> DEFINE last == Listing!Cardinality(walk.rows) < PageLen \/ walk.rows = {}
    <2>1. walk.pc = "roles" /\ created' = created
      BY <1>9 DEF Listing!Roles, Listing!Set, Listing!Fail
    <2>2. walk.selected /\ walk.page \in Nat /\ walk.page >= 1 /\ AfterPage /\ LastIsShort
      BY <1>1, <2>1 DEF ListingInv
    <2>3. last => walk.there \subseteq walk.seen \union walk.rows
      <3>1. walk.rows = {} => Cardinality(walk.rows) < PageLen
        BY <1>2, FS_EmptySet
      <3> QED
        BY <2>2, <3>1, ListingCardinality DEF LastIsShort
    <2> HIDE DEF last
    <2>4. CASE walk' = [walk EXCEPT !.seen = walk.seen \union walk.rows, !.page = walk.page + 1,
                                    !.counted = FALSE, !.selected = FALSE, !.rows = {},
                                    !.pc = IF last THEN "done" ELSE "ask"]
      <3>1. /\ walk' \in Listing!Walk /\ walk'.pc \in {"done", "ask"}
            /\ walk'.pc = "done" => last
            /\ walk'.selected = FALSE
            /\ walk'.page = walk.page + 1 /\ walk'.raw = walk.raw
            /\ walk'.there = walk.there /\ walk'.seen = walk.seen \union walk.rows
        <4>1. PICK s, p, pc : /\ s = walk.seen \union walk.rows /\ p = walk.page + 1
                              /\ pc = IF last THEN "done" ELSE "ask"
          BY Zenon
        <4>2. s \in SUBSET Ids /\ p \in Nat
          BY <1>1, <2>2, <4>1 DEF Listing!Walk
        <4>3. walk' = [walk EXCEPT !.seen = s, !.page = p, !.counted = FALSE, !.selected = FALSE,
                                   !.rows = {}, !.pc = pc]
          BY <2>4, <4>1
        <4>4. pc \in {"done", "ask"} /\ (pc = "done" => last)
          BY <4>1
        <4>5. /\ walk' \in Listing!Walk /\ walk'.pc = pc /\ walk'.selected = FALSE
              /\ walk'.page = p /\ walk'.raw = walk.raw
              /\ walk'.there = walk.there /\ walk'.seen = s
          BY Zenon, <1>1, <4>2, <4>3, <4>4 DEF Listing!Walk
        <4> QED
          BY <4>1, <4>4, <4>5
      <3>2. PageLen' = PageLen
        BY <3>1 DEF PageLen, Listing!normalize_per_page
      <3>3. PageStart' = PageStart + PageLen
        <4>1. PageStart' = Listing!Offset(walk.page + 1, PageLen)
          BY <3>1, <3>2 DEF PageStart, Listing!Offset
        <4> QED
          BY Zenon, <1>1, <1>2, <2>2, <4>1, OffsetType DEF PageStart
      <3>4. NotBefore'
        BY <2>1, <2>2, <3>1, <3>3 DEF NotBefore, AfterPage
      <3>5. Listing!TypeOK' /\ walk'.there \subseteq There(created')
        BY <2>1, <3>1 DEF ListingInv, Listing!TypeOK, Listing!Walk
      <3> QED
        BY <2>3, <3>1, <3>4, <3>5 DEF ListingInv, Listing!NobodySkipped
    <2> QED
      BY <1>5, <1>9, <2>4 DEF Listing!Roles, Listing!Set, last, PageLen
  <1>10. CASE Listing!Create
    <2>1. PICK u \in Ids \ There(created), t \in 1 .. Latest : created' = [created EXCEPT ![u] = t]
      BY Zenon, <1>10, RankIsPlace DEF Listing!Create
    <2>2. /\ walk' = walk /\ created' \in [Ids -> 0 .. Latest]
          /\ There(created) \subseteq There(created')
      BY <1>1, <1>10, <2>1, ListingConstantsAre DEF Listing!Create, There
    <2>3. created \in [Ids -> Nat] /\ created' \in [Ids -> Nat] /\ t \in Nat /\ t > 0
      BY <1>1, <2>1, <2>2, ListingConstantsAre
    <2>4. ASSUME NEW v \in There(created)
          PROVE  Place(created, v) <= Place(created', v)
      BY Zenon, <2>1, <2>3, PlaceGrows
    <2>5. ASSUME NEW v \in walk.there
          PROVE  /\ Place(created, v) <= Place(created', v)
                 /\ Place(created, v) \in Nat /\ Place(created', v) \in Nat
      BY <2>4, PlaceType DEF ListingInv
    <2>6. PageLen' = PageLen /\ PageStart' = PageStart
      BY <2>2 DEF PageLen, PageStart, Listing!Offset, Listing!normalize_per_page
    <2>7. NotBefore'
      BY <1>2, <2>2, <2>5, <2>6 DEF NotBefore, ListingInv
    <2>8. walk.selected => AfterPage' /\ LastIsShort'
      BY <1>2, <2>2, <2>5, <2>6 DEF AfterPage, LastIsShort, ListingInv
    <2> QED
      BY <2>2, <2>7, <2>8 DEF ListingInv, Listing!TypeOK, Listing!NobodySkipped
  <1>11. CASE Walked
    BY <1>3, <1>11 DEF Walked
  <1> QED
    BY <1>3, <1>4, <1>6, <1>7, <1>8, <1>9, <1>10, <1>11 DEF Listing!Next

-----------------------------------------------------------------------------
(* Profiles. *)

TextRecord == [chars : Nat, width : 1 .. 4, spaced : BOOLEAN]

(* What reading a field gives back as it is stored. *)
Kept(max) == {t \in TextRecord \union {UserProfile!None} : UserProfile!FieldRead(t, max) = t}
KeptProfile == [avatar_url : Kept(UrlLen), bio : Kept(BioLen)]

SentField == Texts \union {UserProfile!None}

ProfileSlot ==
    [pc : {"idle", "get"}]
    \union [pc : {"find"}, avatar_url : SentField, bio : SentField]
    \union [pc : {"upsert"}, avatar_url : SentField, bio : SentField, profile : KeptProfile,
            read : KeptProfile \union {UserProfile!None}]
    \union [pc : {"done"}, status : {200, 400, 404, 500},
            profile : KeptProfile \union {UserProfile!None}]

(* What is about to be written differs from what was read in the fields    *)
(* provided.                                                               *)
Was(p, f) == IF p = UserProfile!None THEN UserProfile!None ELSE p[f]
WritesProvided(q) ==
    /\ q.profile.avatar_url = UserProfile!Field(q.avatar_url, Was(q.read, "avatar_url"))
    /\ q.profile.bio = UserProfile!Field(q.bio, Was(q.read, "bio"))

ProfileInv ==
    /\ row \in KeptProfile \union {UserProfile!None}
    /\ changes \in [Slot -> ProfileSlot]
    /\ \A r \in Slot : changes[r].pc = "upsert" => WritesProvided(changes[r])

(* What is assumed of the texts and their limits. *)
LEMMA TextsAre == Texts \subseteq TextRecord /\ UrlLen \in Nat /\ BioLen \in Nat
  BY RecordsConstants DEF UserProfile!ProfileConstants, TextRecord

(* None is none of the records it stands beside. *)
LEMMA NoneIsNot ==
    /\ \A t \in TextRecord : t # UserProfile!None
    /\ \A p \in KeptProfile : p # UserProfile!None
  <1>1. ASSUME NEW t \in TextRecord PROVE t # UserProfile!None
    <2>1. DOMAIN t = {"chars", "width", "spaced"} /\ DOMAIN UserProfile!None = {"none"}
      BY DEF TextRecord, UserProfile!None
    <2> QED
      BY <2>1
  <1>2. ASSUME NEW p \in KeptProfile PROVE p # UserProfile!None
    <2>1. DOMAIN p = {"avatar_url", "bio"} /\ DOMAIN UserProfile!None = {"none"}
      BY DEF KeptProfile, UserProfile!None
    <2> QED
      BY <2>1
  <1> QED
    BY <1>1, <1>2

(* A text that is accepted is kept once it is trimmed. *)
LEMMA TrimmedKept ==
    ASSUME NEW t \in Texts, NEW max \in Nat, UserProfile!Accepts(t, max)
    PROVE  UserProfile!Trimmed(t) \in Kept(max)
  <1> DEFINE u == UserProfile!Trimmed(t)
  <1>1. t \in TextRecord
    BY TextsAre
  <1>2. u \in TextRecord /\ u.chars = t.chars /\ u.width = t.width /\ u.spaced = FALSE
    BY Zenon, <1>1 DEF UserProfile!Trimmed, TextRecord
  <1> HIDE DEF u
  <1>3. UserProfile!Trimmed(u) = u
    BY <1>2 DEF UserProfile!Trimmed, TextRecord
  <1>4. UserProfile!Accepts(u, max) /\ u.chars # 0
    BY <1>1, <1>2 DEF UserProfile!Accepts, TextRecord
  <1>5. u # UserProfile!Empty
    BY <1>4 DEF UserProfile!Empty
  <1>6. u # UserProfile!None
    BY <1>2, NoneIsNot
  <1>7. UserProfile!FieldRead(u, max) = u
    BY <1>3, <1>4, <1>5, <1>6 DEF UserProfile!FieldRead
  <1>8. u \in Kept(max)
    BY <1>2, <1>7 DEF Kept
  <1> QED
    BY <1>8 DEF u

(* The field that is written is kept. *)
LEMMA FieldKept ==
    ASSUME NEW sent \in SentField, NEW max \in Nat, NEW old \in Kept(max),
           ~UserProfile!Bad(sent, max)
    PROVE  UserProfile!Field(sent, old) \in Kept(max)
  <1>1. UserProfile!None \in Kept(max)
    BY DEF Kept, UserProfile!FieldRead
  <1>2. CASE sent \notin {UserProfile!None, UserProfile!Empty}
    <2>1. sent \in Texts /\ UserProfile!Accepts(sent, max)
      BY <1>2 DEF SentField, UserProfile!Bad
    <2> QED
      BY <1>2, <2>1, TrimmedKept DEF UserProfile!Field
  <1> QED
    BY <1>1, <1>2 DEF UserProfile!Field

(* What a change reads is what the row holds. *)
LEMMA ReadsRow ==
    ASSUME row \in KeptProfile
    PROVE  UserProfile!find_by_user_id = [avatar_url |-> row.avatar_url, bio |-> row.bio]
  BY NoneIsNot DEF UserProfile!find_by_user_id, KeptProfile, Kept

(* There is no profile and no request at first. *)
LEMMA ProfileInitInv == UserProfile!Init => ProfileInv
  BY DEF UserProfile!Init, ProfileInv, UserProfile!Idle, ProfileSlot

(* A step of one request, to where it writes nothing or what it should. *)
LEMMA ProfileMove ==
    ASSUME ProfileInv, NEW r \in Slot, NEW s \in ProfileSlot, s.pc = "upsert" => WritesProvided(s),
           changes' = [changes EXCEPT ![r] = s],
           row' \in KeptProfile \union {UserProfile!None}
    PROVE  ProfileInv'
  <1>1. changes \in [Slot -> ProfileSlot]
    BY DEF ProfileInv
  <1>2. PICK c : c = changes'
    OBVIOUS
  <1>3. c \in [Slot -> ProfileSlot] /\ \A x \in Slot : c[x] = IF x = r THEN s ELSE changes[x]
    BY <1>1, <1>2
  <1>4. \A x \in Slot : c[x].pc = "upsert" => WritesProvided(c[x])
    BY <1>3 DEF ProfileInv
  <1>5. \A q : WritesProvided(q)' <=> WritesProvided(q)
    BY DEF WritesProvided
  <1>6. \A x \in Slot : changes'[x].pc = "upsert" => WritesProvided(changes'[x])
    BY <1>2, <1>4
  <1> QED
    BY <1>2, <1>3, <1>6 DEF ProfileInv, WritesProvided

(* The invariant is inductive, however many requests there are. *)
LEMMA ProfileNextInv ==
    ASSUME ProfileInv, [UserProfile!Next]_profile
    PROVE  ProfileInv'
  <1>0. CASE UNCHANGED profile
    BY <1>0 DEF ProfileInv, profile, WritesProvided
  <1> SUFFICES ASSUME NEW r \in Slot,
                      \/ UserProfile!BeginGet(r) \/ UserProfile!Get(r) \/ UserProfile!BeginUpdate(r)
                      \/ UserProfile!Find(r) \/ UserProfile!Upsert(r) \/ UserProfile!Leave(r)
               PROVE  ProfileInv'
    BY <1>0 DEF UserProfile!Next
  <1> DEFINE q == changes[r]
             None == UserProfile!None
  <1>1. changes \in [Slot -> ProfileSlot] /\ row \in KeptProfile \union {None} /\ q \in ProfileSlot
    BY DEF ProfileInv
  <1>2. \A status \in {200, 400, 404, 500}, p \in KeptProfile \union {None} :
            /\ UserProfile!Done(status, p) \in ProfileSlot
            /\ UserProfile!Done(status, p).pc = "done"
    BY DEF UserProfile!Done, ProfileSlot
  <1>3. UserProfile!Idle \in ProfileSlot /\ UserProfile!Idle.pc = "idle"
    BY DEF UserProfile!Idle, ProfileSlot
  <1>5. CASE UserProfile!BeginGet(r)
    <2>1. PICK s : s = [pc |-> "get"]
      BY Zenon
    <2>2. s \in ProfileSlot /\ s.pc # "upsert"
      BY <2>1 DEF ProfileSlot
    <2>3. changes' = [changes EXCEPT ![r] = s] /\ row' = row
      BY <1>5, <2>1 DEF UserProfile!BeginGet, UserProfile!Become
    <2> QED
      BY Zenon, <1>1, <2>2, <2>3, ProfileMove
  <1>6. CASE UserProfile!Get(r)
    <2>1. PICK s : /\ s = UserProfile!Done(404, None) \/ s = UserProfile!Done(500, None)
                      \/ (row # None /\ s = UserProfile!Done(200, UserProfile!find_by_user_id))
                   /\ changes' = [changes EXCEPT ![r] = s] /\ row' = row
      BY <1>6 DEF UserProfile!Get, UserProfile!Become
    <2>2. row # None => UserProfile!find_by_user_id \in KeptProfile
      BY <1>1, ReadsRow DEF KeptProfile
    <2>3. s \in ProfileSlot /\ s.pc = "done"
      BY <1>2, <2>1, <2>2
    <2> QED
      BY Zenon, <1>1, <2>1, <2>3, ProfileMove
  <1>7. CASE UserProfile!BeginUpdate(r)
    <2>1. PICK a \in Texts \union {None}, b \in Texts \union {None} :
            /\ changes' = [changes EXCEPT ![r] =
                              IF a = None /\ b = None THEN UserProfile!Done(400, None)
                              ELSE [pc |-> "find", avatar_url |-> a, bio |-> b]]
            /\ row' = row
      BY Zenon, <1>7 DEF UserProfile!BeginUpdate, UserProfile!Become
    <2>2. PICK s : s = IF a = None /\ b = None THEN UserProfile!Done(400, None)
                       ELSE [pc |-> "find", avatar_url |-> a, bio |-> b]
      BY Zenon
    <2>3. s \in ProfileSlot /\ s.pc # "upsert"
      BY <1>2, <2>2 DEF ProfileSlot, SentField
    <2> QED
      BY Zenon, <1>1, <2>1, <2>2, <2>3, ProfileMove
  <1>8. CASE UserProfile!Find(r)
    <2> DEFINE existing == IF row = None THEN [avatar_url |-> None, bio |-> None]
                           ELSE UserProfile!find_by_user_id
               p == [avatar_url |-> UserProfile!Field(q.avatar_url, existing.avatar_url),
                     bio |-> UserProfile!Field(q.bio, existing.bio)]
               s == [pc |-> "upsert", avatar_url |-> q.avatar_url, bio |-> q.bio, profile |-> p,
                     read |-> row]
               bad == UserProfile!Bad(q.avatar_url, UrlLen) \/ UserProfile!Bad(q.bio, BioLen)
    <2>1. /\ row' = row /\ q.pc = "find"
          /\ \/ changes' = [changes EXCEPT ![r] = UserProfile!Done(400, None)]
             \/ changes' = [changes EXCEPT ![r] = UserProfile!Done(500, None)]
             \/ ~bad /\ changes' = [changes EXCEPT ![r] = s]
      BY <1>8 DEF UserProfile!Find, UserProfile!Become
    <2>2. CASE ~bad /\ changes' = [changes EXCEPT ![r] = s]
      <3>1. q.avatar_url \in SentField /\ q.bio \in SentField
        BY <1>1, <2>1 DEF ProfileSlot
      <3>2. None \in Kept(UrlLen) /\ None \in Kept(BioLen)
        BY DEF Kept, UserProfile!FieldRead
      <3>3. /\ existing.avatar_url = Was(row, "avatar_url")
            /\ existing.bio = Was(row, "bio")
            /\ existing.avatar_url \in Kept(UrlLen) /\ existing.bio \in Kept(BioLen)
        <4>1. CASE row = None
          BY <3>2, <4>1 DEF Was
        <4>2. CASE row # None
          BY <1>1, <4>2, ReadsRow DEF Was, KeptProfile
        <4> QED
          BY <4>1, <4>2
      <3> HIDE DEF existing
      <3>4. p.avatar_url \in Kept(UrlLen) /\ p.bio \in Kept(BioLen)
        BY <2>2, <3>1, <3>3, FieldKept, TextsAre
      <3>5. p \in KeptProfile
        BY <3>4 DEF KeptProfile
      <3>6. s \in ProfileSlot
        <4>1. row \in KeptProfile \union {None}
          BY <1>1
        <4> HIDE DEF p, q
        <4>2. s \in [pc : {"upsert"}, avatar_url : SentField, bio : SentField, profile : KeptProfile,
                     read : KeptProfile \union {None}]
          BY <3>1, <3>5, <4>1
        <4> QED
          BY Zenon, <4>2 DEF ProfileSlot
      <3>7. WritesProvided(s)
        BY <3>3 DEF WritesProvided
      <3> HIDE DEF s
      <3> QED
        BY Zenon, <1>1, <2>1, <2>2, <3>6, <3>7, ProfileMove
    <2> QED
      BY <1>1, <1>2, <2>1, <2>2, ProfileMove
  <1>9. CASE UserProfile!Upsert(r)
    <2>1. q.profile \in KeptProfile
      BY <1>1, <1>9 DEF UserProfile!Upsert, ProfileSlot
    <2>2. PICK s : /\ s = UserProfile!Done(200, q.profile) \/ s = UserProfile!Done(500, None)
                   /\ changes' = [changes EXCEPT ![r] = s]
                   /\ row' \in {row, q.profile}
      BY <1>9 DEF UserProfile!Upsert, UserProfile!Become
    <2>3. s \in ProfileSlot /\ s.pc = "done"
      <3>1. PICK w \in KeptProfile \union {None} :
                s = UserProfile!Done(200, w) \/ s = UserProfile!Done(500, None)
        BY Zenon, <2>1, <2>2
      <3>2. 200 \in {200, 400, 404, 500} /\ 500 \in {200, 400, 404, 500}
        OBVIOUS
      <3>3. None \in KeptProfile \union {None}
        OBVIOUS
      <3>4. UserProfile!Done(200, w) \in ProfileSlot /\ UserProfile!Done(200, w).pc = "done"
        BY <1>2, <3>2
      <3>5. UserProfile!Done(500, None) \in ProfileSlot /\ UserProfile!Done(500, None).pc = "done"
        BY <1>2, <3>2, <3>3
      <3>6. CASE s = UserProfile!Done(200, w)
        BY <3>4, <3>6
      <3>7. CASE s = UserProfile!Done(500, None)
        BY <3>5, <3>7
      <3> QED
        BY <3>1, <3>6, <3>7
    <2>4. row \in KeptProfile \union {None}
      BY <1>1
    <2>5. row' \in KeptProfile \union {None}
      BY <2>1, <2>2, <2>4
    <2> HIDE DEF q
    <2> QED
      BY Zenon, <1>1, <2>2, <2>3, <2>5, ProfileMove
  <1>10. CASE UserProfile!Leave(r)
    <2>1. PICK s : s = UserProfile!Idle
      OBVIOUS
    <2>2. changes' = [changes EXCEPT ![r] = s] /\ row' = row
      BY <1>10, <2>1 DEF UserProfile!Leave, UserProfile!Become
    <2> QED
      BY Zenon, <1>1, <1>3, <2>1, <2>2, ProfileMove
  <1> QED
    BY <1>5, <1>6, <1>7, <1>8, <1>9, <1>10

(* A write changes the fields provided, and no others. *)
LEMMA ProfileShow ==
    ASSUME ProfileInv, UserProfile!FreshNext
    PROVE  UserProfile!ChangesProvided
  <1> SUFFICES ASSUME NEW r \in Slot, changes[r].pc = "upsert", changes'[r] # changes[r],
                      row' # row, NEW f \in {"avatar_url", "bio"}
               PROVE  /\ changes[r][f] = UserProfile!None => row'[f] = UserProfile!Old(f)
                      /\ changes[r][f] = UserProfile!Empty => row'[f] = UserProfile!None
                      /\ changes[r][f] \notin {UserProfile!None, UserProfile!Empty} =>
                            row'[f] = UserProfile!Trimmed(changes[r][f])
    BY DEF UserProfile!ChangesProvided, UserProfile!Fields
  <1>1. PICK x \in Slot : UserProfile!Upsert(x) /\ row = changes[x].read
    BY DEF UserProfile!FreshNext, UserProfile!BeginGet, UserProfile!Get,
           UserProfile!BeginUpdate, UserProfile!Find, UserProfile!Leave
  <1>2. \E s : changes' = [changes EXCEPT ![x] = s]
    BY <1>1 DEF UserProfile!Upsert, UserProfile!Become
  <1>3. x = r
    BY <1>2 DEF ProfileInv
  <1>4. row' = changes[r].profile
    BY <1>1, <1>3 DEF UserProfile!Upsert
  <1>5. Was(changes[r].read, f) = UserProfile!Old(f)
    BY <1>1, <1>3 DEF Was, UserProfile!Old
  <1>6. changes[r].profile[f] = UserProfile!Field(changes[r][f], UserProfile!Old(f))
    <2>1. WritesProvided(changes[r])
      BY DEF ProfileInv
    <2> QED
      BY <1>5, <2>1 DEF WritesProvided
  <1>7. UserProfile!Empty # UserProfile!None
    <2>1. UserProfile!Empty \in TextRecord
      BY DEF UserProfile!Empty, TextRecord
    <2> QED
      BY <2>1, NoneIsNot
  <1> QED
    BY <1>4, <1>6, <1>7 DEF UserProfile!Field

-----------------------------------------------------------------------------
(* SaveTransaction. *)

SaveTask ==
    [pc : {"idle", "acquire", "insert", "update", "commit"}, opens : BOOLEAN,
     new : SUBSET Saves!Session, todo : SUBSET Saves!Session, locked : SUBSET Saves!Session]

(* Who commits has done all it had to do. *)
CommitsAreDone == \A t \in Trio : tasks[t].pc = "commit" => tasks[t].todo = {}

(* A row is held by one transaction at a time. *)
RowsHeldOnce ==
    \A t, u \in Trio : tasks[t].locked \intersect tasks[u].locked # {} => t = u

(* Who is in the queue waits for a connection, and is in it once. *)
QueueIsWaiting ==
    /\ \A k \in DOMAIN queue : tasks[queue[k]].pc = "acquire"
    /\ \A j, k \in DOMAIN queue : queue[j] = queue[k] => j = k

(* A connection is free or with one task. *)
ConnectionsConserved ==
    IsFiniteSet(Saves!Connected) /\ free + Cardinality(Saves!Connected) = Connections

SavesInv ==
    /\ Saves!TypeOK
    /\ CommitsAreDone
    /\ RowsHeldOnce
    /\ QueueIsWaiting
    /\ ConnectionsConserved

(* The largest of some session numbers is one of them. *)
LEMMA MaxIsIn ==
    ASSUME NEW n \in Nat, NEW S \in SUBSET (1 .. n), S # {}
    PROVE  Saves!Max(S) \in S
  <1>1. S \in SUBSET Nat /\ \A k \in S : k <= n
    OBVIOUS
  <1>2. \E m \in S : \A k \in S : k <= m
    BY Zenon, <1>1, HasLargest
  <1>3. \E m \in S : \A k \in S : m >= k
    BY <1>1, <1>2
  <1> QED
    BY Zenon, <1>3 DEF Saves!Max

(* And not smaller than any. *)
LEMMA MaxIsLargest ==
    ASSUME NEW n \in Nat, NEW S \in SUBSET (1 .. n), NEW k \in S
    PROVE  k <= Saves!Max(S)
  <1>1. S \in SUBSET Nat /\ \A j \in S : j <= n
    OBVIOUS
  <1>2. \E m \in S : \A j \in S : j <= m
    BY Zenon, <1>1, HasLargest
  <1>3. \E m \in S : \A j \in S : m >= j
    BY <1>1, <1>2
  <1>4. \A j \in S : Saves!Max(S) >= j
    BY Zenon, <1>3 DEF Saves!Max
  <1>5. Saves!Max(S) \in S
    BY MaxIsIn
  <1> QED
    BY <1>1, <1>4, <1>5

(* A step of one task. *)
LEMMA SaveStep ==
    ASSUME SavesInv, NEW t \in Trio, NEW q \in SaveTask, tasks' = [tasks EXCEPT ![t] = q],
           active' \subseteq there', there' \subseteq Saves!Session,
           number' \in 1 .. SessionsEver + 1,
           q.pc = "commit" => q.todo = {},
           \A s \in q.locked, u \in Trio : s \in tasks[u].locked => u = t,
           queue' \in Seq(Trio), QueueIsWaiting',
           free' = free + (IF t \in Saves!Connected THEN 1 ELSE 0)
                        - (IF q.pc \in {"insert", "update", "commit"} THEN 1 ELSE 0),
           free' >= 0
    PROVE  SavesInv'
  <1> USE DEF SavesInv
  <1> DEFINE C == Saves!Connected
  <1>1. tasks \in [Trio -> SaveTask]
    BY DEF Saves!TypeOK, SaveTask
  <1>2. CommitsAreDone'
    BY <1>1 DEF CommitsAreDone
  <1>3. RowsHeldOnce'
    BY <1>1 DEF RowsHeldOnce
  <1>4. Connections \in Nat /\ free \in Int
    BY RecordsConstants DEF Saves!SaveConstants, Saves!TypeOK
  <1>5. Saves!Connected' = IF q.pc \in {"insert", "update", "commit"} THEN C \union {t} ELSE C \ {t}
    BY <1>1 DEF Saves!Connected
  <1>6. IsFiniteSet(C) /\ free + Cardinality(C) = Connections
    BY DEF ConnectionsConserved
  <1> HIDE DEF C
  <1>7. IsFiniteSet(C \union {t}) /\ IsFiniteSet(C \ {t})
    BY <1>6, FS_AddElement, FS_RemoveElement
  <1>8. /\ Cardinality(C \union {t}) = IF t \in C THEN Cardinality(C) ELSE Cardinality(C) + 1
        /\ Cardinality(C \ {t}) = IF t \in C THEN Cardinality(C) - 1 ELSE Cardinality(C)
        /\ Cardinality(C) \in Nat
    BY <1>6, FS_AddElement, FS_RemoveElement, FS_CardinalityType
  <1>9. free' = free + (IF t \in C THEN 1 ELSE 0)
                     - (IF q.pc \in {"insert", "update", "commit"} THEN 1 ELSE 0)
    BY DEF C
  <1>10. ConnectionsConserved'
    BY <1>4, <1>5, <1>6, <1>7, <1>8, <1>9 DEF ConnectionsConserved
  <1>11. Cardinality(Saves!Connected') \in Nat
    BY <1>10, FS_CardinalityType DEF ConnectionsConserved
  <1>12. free' \in 0 .. Connections
    BY <1>4, <1>9, <1>10, <1>11 DEF ConnectionsConserved
  <1>13. tasks' \in [Trio -> SaveTask]
    BY <1>1
  <1>14. Saves!TypeOK'
    BY <1>12, <1>13 DEF Saves!TypeOK, SaveTask, Saves!Session
  <1> QED
    BY <1>2, <1>3, <1>10, <1>14

(* A step that leaves the queue alone, of a task that is not in it. *)
LEMMA QueueStays ==
    ASSUME SavesInv, NEW t \in Trio, tasks[t].pc # "acquire", NEW q,
           tasks' = [tasks EXCEPT ![t] = q], UNCHANGED queue
    PROVE  queue' \in Seq(Trio) /\ QueueIsWaiting'
  BY DEF SavesInv, QueueIsWaiting, Saves!TypeOK

(* A task joins the queue. *)
LEMMA QueueGrows ==
    ASSUME SavesInv, NEW t \in Trio, tasks[t].pc # "acquire", NEW q, q.pc = "acquire",
           tasks' = [tasks EXCEPT ![t] = q], queue' = Append(queue, t)
    PROVE  queue' \in Seq(Trio) /\ QueueIsWaiting'
  <1> USE DEF SavesInv
  <1>1. \A k \in DOMAIN queue : queue[k] \in Trio /\ queue[k] # t
    BY DEF QueueIsWaiting, Saves!TypeOK
  <1>2. /\ Len(queue) \in Nat
        /\ DOMAIN queue = 1 .. Len(queue) /\ DOMAIN queue' = 1 .. Len(queue) + 1
        /\ \A k \in 1 .. Len(queue) : queue'[k] = queue[k]
        /\ queue'[Len(queue) + 1] = t
        /\ queue' \in Seq(Trio)
    BY DEF Saves!TypeOK
  <1>3. \A k \in DOMAIN queue' : tasks'[queue'[k]].pc = "acquire"
    <2> SUFFICES ASSUME NEW k \in DOMAIN queue' PROVE tasks'[queue'[k]].pc = "acquire"
      OBVIOUS
    <2>1. CASE k \in DOMAIN queue
      BY <1>1, <1>2, <2>1 DEF QueueIsWaiting, Saves!TypeOK
    <2>2. CASE k = Len(queue) + 1
      BY <1>2, <2>2 DEF Saves!TypeOK
    <2> QED
      BY <1>2, <2>1, <2>2
  <1>4. \A j, k \in DOMAIN queue' : queue'[j] = queue'[k] => j = k
    BY <1>1, <1>2 DEF QueueIsWaiting
  <1> QED
    BY <1>2, <1>3, <1>4 DEF QueueIsWaiting

(* A task leaves the queue from wherever it is. *)
LEMMA QueueShrinks ==
    ASSUME SavesInv, NEW t \in Trio, Saves!Unqueue(t), NEW q, tasks' = [tasks EXCEPT ![t] = q]
    PROVE  queue' \in Seq(Trio) /\ QueueIsWaiting'
  <1> USE DEF SavesInv
  <1>1. CASE tasks[t].pc # "acquire" /\ UNCHANGED queue
    BY Zenon, <1>1, QueueStays
  <1>2. ASSUME NEW k \in DOMAIN queue, queue[k] = t,
               queue' = [j \in 1 .. Len(queue) - 1 |-> queue[IF j < k THEN j ELSE j + 1]]
        PROVE  queue' \in Seq(Trio) /\ QueueIsWaiting'
    <2> DEFINE n == Len(queue)
               at(j) == IF j < k THEN j ELSE j + 1
    <2>1. n \in Nat /\ DOMAIN queue = 1 .. n /\ k \in 1 .. n /\ n - 1 \in Nat
      BY DEF Saves!TypeOK
    <2>2. \A j \in 1 .. n - 1 : at(j) \in DOMAIN queue /\ at(j) # k
      BY <2>1
    <2>3. \A i, j \in 1 .. n - 1 : at(i) = at(j) => i = j
      BY <2>1
    <2>4. queue' = [j \in 1 .. n - 1 |-> queue[at(j)]]
      BY <1>2
    <2> HIDE DEF n, at
    <2>5. \A j \in 1 .. n - 1 : queue[at(j)] \in Trio
      BY <2>2 DEF Saves!TypeOK
    <2>6. queue' \in Seq(Trio)
      BY <2>1, <2>4, <2>5
    <2>7. DOMAIN queue' = 1 .. n - 1
      BY <2>4
    <2>8. ASSUME NEW j \in DOMAIN queue'
          PROVE  tasks'[queue'[j]].pc = "acquire"
      <3>1. queue'[j] = queue[at(j)] /\ at(j) \in DOMAIN queue /\ at(j) # k
        BY <2>2, <2>4, <2>7, <2>8
      <3>2. queue[at(j)] # t /\ tasks[queue[at(j)]].pc = "acquire"
        BY <1>2, <3>1 DEF QueueIsWaiting
      <3> QED
        BY <2>5, <2>7, <3>1, <3>2 DEF Saves!TypeOK
    <2>9. \A i, j \in DOMAIN queue' : queue'[i] = queue'[j] => i = j
      BY <2>2, <2>3, <2>4, <2>7 DEF QueueIsWaiting
    <2> QED
      BY <2>6, <2>8, <2>9 DEF QueueIsWaiting
  <1> QED
    BY <1>1, <1>2 DEF Saves!Unqueue

(* The steps of a save. *)
LEMMA SavesNextInv == SavesInv /\ [Saves!Next]_saves => SavesInv'
  <1> SUFFICES ASSUME SavesInv, [Saves!Next]_saves PROVE SavesInv'
    OBVIOUS
  <1> USE DEF SavesInv
  <1>t. /\ tasks \in [Trio -> SaveTask] /\ free \in 0 .. Connections /\ SessionsEver \in Nat
        /\ Connections \in Nat /\ number \in 1 .. SessionsEver + 1
        /\ active \subseteq there /\ there \subseteq Saves!Session
    BY RecordsConstants DEF Saves!TypeOK, SaveTask, Saves!SaveConstants
  <1>i. Saves!Idle \in SaveTask /\ Saves!Idle.pc = "idle" /\ Saves!Idle.locked = {}
    BY DEF Saves!Idle, SaveTask
  <1>c. ASSUME NEW t \in Trio
        PROVE  t \in Saves!Connected <=> tasks[t].pc \in {"insert", "update", "commit"}
    BY DEF Saves!Connected
  <1>1. ASSUME NEW t \in Trio, Saves!Begin(t) \/ Saves!BeginRead(t)
        PROVE  SavesInv'
    <2>1. PICK q \in SaveTask :
            /\ q.pc = "acquire" /\ q.locked = {} /\ Saves!Become(t, q)
      BY Zenon, <1>1, <1>t DEF Saves!Begin, Saves!BeginRead, Saves!invalidated_ids, Saves!Idle, SaveTask
    <2>2. tasks[t].pc = "idle" /\ queue' = Append(queue, t) /\ UNCHANGED <<there, active, number, free>>
      BY Zenon, <1>1, <1>i DEF Saves!Begin, Saves!BeginRead
    <2>3. tasks' = [tasks EXCEPT ![t] = q]
      BY <2>1 DEF Saves!Become
    <2>4. queue' \in Seq(Trio) /\ QueueIsWaiting'
      BY Zenon, <2>1, <2>2, <2>3, QueueGrows
    <2>5. free' = free + (IF t \in Saves!Connected THEN 1 ELSE 0)
                        - (IF q.pc \in {"insert", "update", "commit"} THEN 1 ELSE 0)
         /\ free' >= 0
      BY <1>t, <1>c, <2>1, <2>2
    <2>6. /\ active' \subseteq there' /\ there' \subseteq Saves!Session
          /\ number' \in 1 .. SessionsEver + 1
      BY <1>t, <2>2
    <2>7. /\ q.pc = "commit" => q.todo = {}
          /\ \A s \in q.locked, u \in Trio : s \in tasks[u].locked => u = t
      BY <2>1
    <2> QED
      BY ONLY Zenon, SavesInv, t \in Trio, <2>1, <2>3, <2>4, <2>5, <2>6, <2>7, SaveStep
  <1>2. ASSUME NEW t \in Trio, Saves!Insert(t)
        PROVE  SavesInv'
    <2> DEFINE opens == tasks[t].opens /\ number <= SessionsEver
               q == [tasks[t] EXCEPT !.pc = "update", !.new = IF opens THEN {number} ELSE {}]
    <2>1. /\ tasks[t].pc = "insert" /\ UNCHANGED <<there, active, free, queue>>
          /\ number' = IF opens THEN number + 1 ELSE number
          /\ tasks' = [tasks EXCEPT ![t] = q]
      BY <1>2 DEF Saves!Insert, Saves!Become
    <2>2. number' \in 1 .. SessionsEver + 1 /\ (opens => number \in Saves!Session)
      BY <1>t, <2>1 DEF Saves!Session
    <2>3. q \in SaveTask /\ q.pc = "update" /\ q.locked = tasks[t].locked
      BY Zenon, <1>t, <2>2 DEF SaveTask
    <2> HIDE DEF q, opens
    <2>4. queue' \in Seq(Trio) /\ QueueIsWaiting'
      BY Zenon, <2>1, QueueStays
    <2>5. \A s \in q.locked, u \in Trio : s \in tasks[u].locked => u = t
      BY <2>3 DEF RowsHeldOnce
    <2>6. free' = free + (IF t \in Saves!Connected THEN 1 ELSE 0)
                        - (IF q.pc \in {"insert", "update", "commit"} THEN 1 ELSE 0)
         /\ free' >= 0
      BY <1>t, <1>c, <2>1, <2>3
    <2>7. /\ active' \subseteq there' /\ there' \subseteq Saves!Session
          /\ q.pc = "commit" => q.todo = {}
      BY <1>t, <2>1, <2>3
    <2> QED
      BY ONLY Zenon, SavesInv, t \in Trio, <2>1, <2>2, <2>3, <2>4, <2>5, <2>6, <2>7, SaveStep
  <1>3. ASSUME NEW t \in Trio, Saves!Update(t)
        PROVE  SavesInv'
    <2> DEFINE s == Saves!Max(tasks[t].todo)
    <2>1. tasks[t].pc = "update" /\ UNCHANGED <<there, active, number, free, queue>>
      BY <1>3 DEF Saves!Update
    <2>2. CASE tasks[t].todo = {} /\ Saves!Become(t, [tasks[t] EXCEPT !.pc = "commit"])
      <3> DEFINE q == [tasks[t] EXCEPT !.pc = "commit"]
      <3>1. q \in SaveTask /\ q.pc = "commit" /\ q.locked = tasks[t].locked /\ q.todo = {}
        BY <1>t, <2>2 DEF SaveTask
      <3>2. tasks' = [tasks EXCEPT ![t] = q]
        BY <2>2 DEF Saves!Become
      <3> HIDE DEF q
      <3>3. queue' \in Seq(Trio) /\ QueueIsWaiting'
        BY Zenon, <2>1, <3>2, QueueStays
      <3>4. \A r \in q.locked, u \in Trio : r \in tasks[u].locked => u = t
        BY <3>1 DEF RowsHeldOnce
      <3>5. free' = free + (IF t \in Saves!Connected THEN 1 ELSE 0)
                        - (IF q.pc \in {"insert", "update", "commit"} THEN 1 ELSE 0)
           /\ free' >= 0
        BY <1>t, <1>c, <2>1, <3>1
      <3>6. /\ active' \subseteq there' /\ there' \subseteq Saves!Session
            /\ number' \in 1 .. SessionsEver + 1
        BY <1>t, <2>1
      <3> QED
        BY ONLY Zenon, SavesInv, t \in Trio, <3>1, <3>2, <3>3, <3>4, <3>5, <3>6, SaveStep
    <2>3. CASE /\ tasks[t].todo # {} /\ Saves!Holders(s) = {}
               /\ Saves!Become(t, [tasks[t] EXCEPT !.todo = @ \ {Saves!Max(@)},
                                                   !.locked = @ \union {Saves!Max(tasks[t].todo)}])
      <3> DEFINE q == [tasks[t] EXCEPT !.todo = @ \ {s}, !.locked = @ \union {s}]
      <3>1. s \in tasks[t].todo /\ s \in Saves!Session
        BY <1>t, <2>3, MaxIsIn DEF SaveTask, Saves!Session
      <3>2. tasks' = [tasks EXCEPT ![t] = q]
        BY <2>3 DEF Saves!Become
      <3>3. \A u \in Trio : s \notin tasks[u].locked
        BY <2>3 DEF Saves!Holders
      <3> HIDE DEF s
      <3>4. q \in SaveTask /\ q.pc = "update" /\ q.locked = tasks[t].locked \union {s}
        BY Zenon, <1>t, <2>1, <3>1 DEF SaveTask
      <3> HIDE DEF q
      <3>5. queue' \in Seq(Trio) /\ QueueIsWaiting'
        BY Zenon, <2>1, <3>2, QueueStays
      <3>6. \A r \in q.locked, u \in Trio : r \in tasks[u].locked => u = t
        BY <3>3, <3>4 DEF RowsHeldOnce
      <3>7. free' = free + (IF t \in Saves!Connected THEN 1 ELSE 0)
                        - (IF q.pc \in {"insert", "update", "commit"} THEN 1 ELSE 0)
           /\ free' >= 0
        BY <1>t, <1>c, <2>1, <3>4
      <3>8. /\ active' \subseteq there' /\ there' \subseteq Saves!Session
            /\ number' \in 1 .. SessionsEver + 1
            /\ q.pc = "commit" => q.todo = {}
        BY <1>t, <2>1, <3>4
      <3> QED
        BY ONLY Zenon, SavesInv, t \in Trio, <3>2, <3>4, <3>5, <3>6, <3>7, <3>8, SaveStep
    <2> QED
      BY <1>3, <2>2, <2>3 DEF Saves!Update
  <1>4. ASSUME NEW t \in Trio, Saves!Commit(t)
        PROVE  SavesInv'
    <2>1. /\ tasks[t].pc = "commit" /\ free' = free + 1 /\ UNCHANGED <<number, queue>>
          /\ there' = there \union tasks[t].new
          /\ active' = (active \union tasks[t].new) \ tasks[t].locked
          /\ tasks' = [tasks EXCEPT ![t] = Saves!Idle]
      BY <1>4 DEF Saves!Commit, Saves!Become
    <2>2. active' \subseteq there' /\ there' \subseteq Saves!Session
      BY <1>t, <2>1 DEF SaveTask
    <2>3. queue' \in Seq(Trio) /\ QueueIsWaiting'
      BY Zenon, <2>1, QueueStays
    <2>4. PICK q : q = Saves!Idle
      OBVIOUS
    <2>5. free' = free + (IF t \in Saves!Connected THEN 1 ELSE 0)
                        - (IF q.pc \in {"insert", "update", "commit"} THEN 1 ELSE 0)
         /\ free' >= 0
      BY <1>t, <1>i, <1>c, <2>1, <2>4
    <2>6. /\ number' \in 1 .. SessionsEver + 1 /\ tasks' = [tasks EXCEPT ![t] = q]
          /\ q \in SaveTask /\ (q.pc = "commit" => q.todo = {})
          /\ \A s \in q.locked, u \in Trio : s \in tasks[u].locked => u = t
      BY <1>t, <1>i, <2>1, <2>4
    <2> QED
      BY ONLY Zenon, SavesInv, t \in Trio, <2>2, <2>3, <2>5, <2>6, SaveStep
  <1>5. ASSUME NEW t \in Trio, Saves!Rollback(t)
        PROVE  SavesInv'
    <2>1. /\ free' = IF t \in Saves!Connected THEN free + 1 ELSE free
          /\ Saves!Unqueue(t) /\ UNCHANGED <<there, active, number>>
          /\ tasks' = [tasks EXCEPT ![t] = Saves!Idle]
      BY <1>5 DEF Saves!Rollback, Saves!Become
    <2>2. queue' \in Seq(Trio) /\ QueueIsWaiting'
      BY Zenon, <2>1, QueueShrinks
    <2>3. PICK q : q = Saves!Idle
      OBVIOUS
    <2>4. free' = free + (IF t \in Saves!Connected THEN 1 ELSE 0)
                        - (IF q.pc \in {"insert", "update", "commit"} THEN 1 ELSE 0)
         /\ free' >= 0
      BY <1>t, <1>i, <2>1, <2>3
    <2>5. /\ number' \in 1 .. SessionsEver + 1 /\ tasks' = [tasks EXCEPT ![t] = q]
          /\ active' \subseteq there' /\ there' \subseteq Saves!Session
          /\ q \in SaveTask /\ (q.pc = "commit" => q.todo = {})
          /\ \A s \in q.locked, u \in Trio : s \in tasks[u].locked => u = t
      BY <1>t, <1>i, <2>1, <2>3
    <2> QED
      BY ONLY Zenon, SavesInv, t \in Trio, <2>2, <2>4, <2>5, SaveStep
  <1>6. CASE Saves!Acquire
    <2> DEFINE t == Head(queue)
               q == [tasks[t] EXCEPT !.pc = "insert"]
    <2>1. t \in Trio /\ t = queue[1] /\ tasks[t].pc = "acquire"
      BY <1>6 DEF Saves!Acquire, QueueIsWaiting, Saves!TypeOK
    <2>2. /\ Len(queue) \in Nat \ {0}
          /\ DOMAIN queue = 1 .. Len(queue) /\ DOMAIN queue' = 1 .. Len(queue) - 1
          /\ \A k \in 1 .. Len(queue) - 1 : queue'[k] = queue[k + 1]
          /\ queue' \in Seq(Trio)
      BY <1>6 DEF Saves!Acquire, Saves!TypeOK
    <2>3. /\ tasks' = [tasks EXCEPT ![t] = q] /\ free > 0 /\ free' = free - 1
          /\ UNCHANGED <<there, active, number>>
      BY <1>6 DEF Saves!Acquire, Saves!Become
    <2> HIDE DEF t
    <2>4. q \in SaveTask /\ q.pc = "insert" /\ q.locked = tasks[t].locked
      BY <1>t, <2>1 DEF SaveTask
    <2> HIDE DEF q
    <2>5. \A k \in DOMAIN queue' : tasks'[queue'[k]].pc = "acquire"
      <3> SUFFICES ASSUME NEW k \in DOMAIN queue' PROVE tasks'[queue'[k]].pc = "acquire"
        OBVIOUS
      <3>1. k + 1 \in DOMAIN queue /\ queue'[k] = queue[k + 1] /\ k + 1 # 1 /\ 1 \in DOMAIN queue
        BY <2>2
      <3>2. queue[k + 1] # t /\ tasks[queue[k + 1]].pc = "acquire" /\ queue[k + 1] \in Trio
        BY <2>1, <3>1 DEF QueueIsWaiting, Saves!TypeOK
      <3> QED
        BY <1>t, <2>3, <3>1, <3>2
    <2>6. \A j, k \in DOMAIN queue' : queue'[j] = queue'[k] => j = k
      BY <2>2 DEF QueueIsWaiting
    <2>7. \A r \in q.locked, u \in Trio : r \in tasks[u].locked => u = t
      BY <2>1, <2>4 DEF RowsHeldOnce
    <2>8. QueueIsWaiting'
      BY <2>5, <2>6 DEF QueueIsWaiting
    <2>9. free' = free + (IF t \in Saves!Connected THEN 1 ELSE 0)
                        - (IF q.pc \in {"insert", "update", "commit"} THEN 1 ELSE 0)
         /\ free' >= 0
      BY <1>t, <1>c, <2>1, <2>3, <2>4
    <2>10. /\ active' \subseteq there' /\ there' \subseteq Saves!Session
           /\ number' \in 1 .. SessionsEver + 1
           /\ q.pc = "commit" => q.todo = {}
      BY <1>t, <2>3, <2>4
    <2> QED
      BY ONLY Zenon, SavesInv, <2>1, <2>2, <2>3, <2>4, <2>7, <2>8, <2>9, <2>10, SaveStep
  <1>7. CASE UNCHANGED saves
    BY <1>7 DEF saves, Saves!TypeOK, CommitsAreDone, RowsHeldOnce, QueueIsWaiting,
                ConnectionsConserved, Saves!Connected
  <1> QED
    BY <1>1, <1>2, <1>3, <1>4, <1>5, <1>6, <1>7 DEF Saves!Next

(* Nothing is under way at the start. *)
LEMMA SavesInitInv == Saves!Init => SavesInv
  <1> SUFFICES ASSUME Saves!Init PROVE SavesInv
    OBVIOUS
  <1>1. Saves!Idle \in SaveTask /\ Saves!Idle.pc = "idle" /\ Saves!Idle.locked = {}
    BY DEF Saves!Idle, SaveTask
  <1>2. Connections \in Nat /\ SessionsEver \in Nat
    BY RecordsConstants DEF Saves!SaveConstants
  <1>3. Saves!Connected = {}
    BY <1>1 DEF Saves!Init, Saves!Connected
  <1>4. ConnectionsConserved
    BY <1>2, <1>3, FS_EmptySet DEF Saves!Init, ConnectionsConserved
  <1>5. Saves!TypeOK
    BY <1>1, <1>2 DEF Saves!Init, Saves!TypeOK, SaveTask, Saves!Session
  <1>6. \A t \in Trio : tasks[t] = Saves!Idle
    BY DEF Saves!Init
  <1>7. Saves!Idle.pc = "idle" /\ Saves!Idle.locked = {}
    BY DEF Saves!Idle
  <1>8. CommitsAreDone /\ RowsHeldOnce
    BY <1>6, <1>7 DEF CommitsAreDone, RowsHeldOnce
  <1>9. QueueIsWaiting
    BY DEF Saves!Init, QueueIsWaiting
  <1> QED
    BY <1>4, <1>5, <1>8, <1>9 DEF SavesInv

(* What becomes visible does so with a commit. *)
LEMMA SavesShow == SavesInv /\ Saves!Next => Saves!ShowsAllAtOnce
  BY Zenon DEF SavesInv, CommitsAreDone, Saves!Next, Saves!ShowsAllAtOnce, Saves!Begin, Saves!BeginRead,
         Saves!Insert, Saves!Update, Saves!Commit, Saves!Rollback, Saves!Acquire

(* What a task has locked is newer than what it has still to lock; who has  *)
(* locked a row holds a connection; and nothing is left of one that ended.  *)
TaskOrder(q) ==
    /\ \A x \in q.locked, y \in q.todo : y < x
    /\ q.locked # {} => q.pc \in {"update", "commit"}
    /\ q.pc = "idle" => q = Saves!Idle

(* Who waits for a connection is in the queue. *)
EverybodyQueued ==
    \A t \in Trio : tasks[t].pc = "acquire" => \E k \in DOMAIN queue : queue[k] = t

OrderInv == (\A t \in Trio : TaskOrder(tasks[t])) /\ EverybodyQueued

(* A step of one task keeps the order. *)
LEMMA OrderStep ==
    ASSUME SavesInv, OrderInv, NEW t \in Trio, NEW q, tasks' = [tasks EXCEPT ![t] = q],
           TaskOrder(q), EverybodyQueued'
    PROVE  OrderInv'
  <1>1. PICK f : f = tasks'
    OBVIOUS
  <1>2. \A u \in Trio : f[u] = IF u = t THEN q ELSE tasks[u]
    BY <1>1 DEF SavesInv, Saves!TypeOK
  <1>3. \A u \in Trio : TaskOrder(f[u])
    BY <1>2 DEF OrderInv
  <1>4. \A u \in Trio : TaskOrder(tasks[u])'
    BY <1>1, <1>3 DEF TaskOrder, Saves!Idle
  <1> QED
    BY <1>4 DEF OrderInv

(* Where the queue stays, everybody stays queued. *)
LEMMA QueuedStays ==
    ASSUME SavesInv, OrderInv, NEW t \in Trio, NEW q, q.pc # "acquire",
           tasks' = [tasks EXCEPT ![t] = q], UNCHANGED queue
    PROVE  EverybodyQueued'
  BY DEF SavesInv, Saves!TypeOK, OrderInv, EverybodyQueued

(* A task joins at the end of the queue. *)
LEMMA QueuedGrows ==
    ASSUME SavesInv, OrderInv, NEW t \in Trio, NEW q, tasks' = [tasks EXCEPT ![t] = q],
           queue' = Append(queue, t)
    PROVE  EverybodyQueued'
  <1>1. /\ Len(queue) \in Nat /\ DOMAIN queue = 1 .. Len(queue)
        /\ DOMAIN queue' = 1 .. Len(queue) + 1
        /\ \A k \in 1 .. Len(queue) : queue'[k] = queue[k]
        /\ queue'[Len(queue) + 1] = t
    BY DEF SavesInv, Saves!TypeOK
  <1>2. ASSUME NEW u \in Trio, tasks'[u].pc = "acquire"
        PROVE  \E k \in DOMAIN queue' : queue'[k] = u
    <2>1. CASE u = t
      BY <1>1, <2>1
    <2>2. CASE u # t
      <3>1. tasks[u].pc = "acquire"
        BY <1>2, <2>2 DEF SavesInv, Saves!TypeOK
      <3>2. PICK k \in DOMAIN queue : queue[k] = u
        BY <3>1 DEF OrderInv, EverybodyQueued
      <3>3. k \in DOMAIN queue' /\ queue'[k] = u
        BY <1>1, <3>2
      <3> QED
        BY <3>3
    <2> QED
      BY <2>1, <2>2
  <1> QED
    BY <1>2 DEF EverybodyQueued

(* A task leaves the queue from wherever it is; the others are still in it. *)
LEMMA QueuedShrinks ==
    ASSUME SavesInv, OrderInv, NEW t \in Trio, Saves!Unqueue(t), NEW q, q.pc # "acquire",
           tasks' = [tasks EXCEPT ![t] = q]
    PROVE  EverybodyQueued'
  <1>1. CASE UNCHANGED queue
    BY Zenon, <1>1, QueuedStays
  <1>2. ASSUME NEW k \in DOMAIN queue, queue[k] = t,
               queue' = [j \in 1 .. Len(queue) - 1 |-> queue[IF j < k THEN j ELSE j + 1]]
        PROVE  EverybodyQueued'
    <2>1. Len(queue) \in Nat /\ DOMAIN queue = 1 .. Len(queue) /\ k \in 1 .. Len(queue)
      BY DEF SavesInv, Saves!TypeOK
    <2>2. DOMAIN queue' = 1 .. Len(queue) - 1
      BY <1>2
    <2>3. ASSUME NEW u \in Trio, tasks'[u].pc = "acquire"
          PROVE  \E j \in DOMAIN queue' : queue'[j] = u
      <3>1. u # t /\ tasks[u].pc = "acquire"
        BY <2>3 DEF SavesInv, Saves!TypeOK
      <3>2. PICK i \in DOMAIN queue : queue[i] = u
        BY <3>1 DEF OrderInv, EverybodyQueued
      <3>3. i # k
        BY <1>2, <3>1, <3>2
      <3>4. CASE i < k
        <4>1. i \in 1 .. Len(queue) - 1
          BY <2>1, <3>2, <3>4
        <4>2. queue'[i] = u
          BY <1>2, <3>2, <3>4, <4>1
        <4> QED
          BY <2>2, <4>1, <4>2
      <3>5. CASE k < i
        <4>1. i - 1 \in 1 .. Len(queue) - 1 /\ ~(i - 1 < k) /\ (i - 1) + 1 = i
          BY <2>1, <3>2, <3>5
        <4>2. queue'[i - 1] = u
          BY <1>2, <3>2, <4>1
        <4> QED
          BY <2>2, <4>1, <4>2
      <3> QED
        BY <2>1, <3>2, <3>3, <3>4, <3>5
    <2> QED
      BY <2>3 DEF EverybodyQueued
  <1> QED
    BY <1>1, <1>2 DEF Saves!Unqueue

(* Every step keeps the order: the next row is the newest of those left. *)
LEMMA OrderNextInv == SavesInv /\ OrderInv /\ [Saves!Next]_saves => OrderInv'
  <1> SUFFICES ASSUME SavesInv, OrderInv, [Saves!Next]_saves PROVE OrderInv'
    OBVIOUS
  <1>t. tasks \in [Trio -> SaveTask] /\ SessionsEver \in Nat
    BY RecordsConstants DEF SavesInv, Saves!TypeOK, SaveTask, Saves!SaveConstants
  <1>o. \A t \in Trio : TaskOrder(tasks[t])
    BY DEF OrderInv
  <1>i. Saves!Idle.pc = "idle" /\ TaskOrder(Saves!Idle)
    BY DEF Saves!Idle, TaskOrder
  <1>1. ASSUME NEW t \in Trio, Saves!Begin(t) \/ Saves!BeginRead(t)
        PROVE  OrderInv'
    <2>1. PICK q : q.pc = "acquire" /\ q.locked = {} /\ Saves!Become(t, q)
      BY Zenon, <1>1 DEF Saves!Begin, Saves!BeginRead, Saves!Idle
    <2>2. queue' = Append(queue, t) /\ tasks' = [tasks EXCEPT ![t] = q]
      BY Zenon, <1>1, <2>1 DEF Saves!Begin, Saves!BeginRead, Saves!Become
    <2>3. TaskOrder(q)
      BY <2>1 DEF TaskOrder
    <2>4. EverybodyQueued'
      BY Zenon, <2>2, QueuedGrows
    <2> QED
      BY Zenon, <2>2, <2>3, <2>4, OrderStep
  <1>2. ASSUME NEW t \in Trio, Saves!Insert(t)
        PROVE  OrderInv'
    <2>1. PICK n : Saves!Become(t, [tasks[t] EXCEPT !.pc = "update", !.new = n])
      BY Zenon, <1>2 DEF Saves!Insert
    <2>2. PICK q : q = [tasks[t] EXCEPT !.pc = "update", !.new = n]
      OBVIOUS
    <2>3. q.pc = "update" /\ q.locked = tasks[t].locked /\ q.todo = tasks[t].todo
      BY <1>t, <2>2 DEF SaveTask
    <2>4. tasks' = [tasks EXCEPT ![t] = q] /\ UNCHANGED queue
      BY Zenon, <1>2, <2>1, <2>2 DEF Saves!Insert, Saves!Become
    <2>5. TaskOrder(q)
      BY <1>o, <2>3 DEF TaskOrder
    <2>6. EverybodyQueued'
      BY Zenon, <2>3, <2>4, QueuedStays
    <2> QED
      BY Zenon, <2>4, <2>5, <2>6, OrderStep
  <1>3. ASSUME NEW t \in Trio, Saves!Update(t)
        PROVE  OrderInv'
    <2> DEFINE s == Saves!Max(tasks[t].todo)
    <2>1. tasks[t].pc = "update" /\ UNCHANGED queue
      BY <1>3 DEF Saves!Update
    <2>2. CASE tasks[t].todo = {} /\ Saves!Become(t, [tasks[t] EXCEPT !.pc = "commit"])
      <3>1. PICK q : q = [tasks[t] EXCEPT !.pc = "commit"]
        BY Zenon
      <3>2. q.pc = "commit" /\ q.locked = tasks[t].locked /\ q.todo = {}
        BY <1>t, <2>2, <3>1 DEF SaveTask
      <3>3. tasks' = [tasks EXCEPT ![t] = q]
        BY <2>2, <3>1 DEF Saves!Become
      <3>4. TaskOrder(q)
        BY <3>2 DEF TaskOrder
      <3>5. EverybodyQueued'
        BY Zenon, <2>1, <3>2, <3>3, QueuedStays
      <3> QED
        BY Zenon, <3>3, <3>4, <3>5, OrderStep
    <2>3. CASE /\ tasks[t].todo # {}
               /\ Saves!Become(t, [tasks[t] EXCEPT !.todo = @ \ {Saves!Max(@)},
                                                   !.locked = @ \union {Saves!Max(tasks[t].todo)}])
      <3>1. tasks[t].todo \in SUBSET (1 .. SessionsEver)
        BY <1>t DEF SaveTask, Saves!Session
      <3>2. s \in tasks[t].todo /\ \A y \in tasks[t].todo : y <= s
        BY <1>t, <2>3, <3>1, MaxIsIn, MaxIsLargest
      <3>3. PICK q : q = [tasks[t] EXCEPT !.todo = @ \ {s}, !.locked = @ \union {s}]
        OBVIOUS
      <3>4. tasks' = [tasks EXCEPT ![t] = q]
        BY <2>3, <3>3 DEF Saves!Become
      <3> HIDE DEF s
      <3>5. /\ q.pc = "update" /\ q.todo = tasks[t].todo \ {s}
            /\ q.locked = tasks[t].locked \union {s}
        BY <1>t, <2>1, <3>3 DEF SaveTask
      <3>6. ASSUME NEW x \in q.locked, NEW y \in q.todo
            PROVE  y < x
        <4>1. y \in tasks[t].todo /\ y # s /\ y \in Int /\ s \in Int
          BY <3>1, <3>2, <3>5
        <4>2. CASE x = s
          BY <3>2, <4>1, <4>2
        <4>3. CASE x \in tasks[t].locked
          BY <1>o, <4>1, <4>3 DEF TaskOrder
        <4> QED
          BY <3>5, <4>2, <4>3
      <3>7. TaskOrder(q)
        BY <3>5, <3>6 DEF TaskOrder
      <3>8. EverybodyQueued'
        BY Zenon, <2>1, <3>4, <3>5, QueuedStays
      <3> QED
        BY Zenon, <3>4, <3>7, <3>8, OrderStep
    <2> QED
      BY <1>3, <2>2, <2>3 DEF Saves!Update
  <1>4. ASSUME NEW t \in Trio, Saves!Commit(t) \/ Saves!Rollback(t)
        PROVE  OrderInv'
    <2>1. Saves!Unqueue(t) /\ tasks' = [tasks EXCEPT ![t] = Saves!Idle]
      BY <1>4 DEF Saves!Commit, Saves!Rollback, Saves!Become, Saves!Unqueue
    <2>2. PICK q : q = Saves!Idle
      OBVIOUS
    <2>3. EverybodyQueued'
      BY Zenon, <1>i, <2>1, <2>2, QueuedShrinks
    <2> QED
      BY Zenon, <1>i, <2>1, <2>2, <2>3, OrderStep
  <1>5. CASE Saves!Acquire
    <2>1. PICK t : t = Head(queue)
      OBVIOUS
    <2>2. t \in Trio /\ t = queue[1] /\ tasks[t].pc = "acquire"
      BY <1>5, <2>1 DEF Saves!Acquire, SavesInv, QueueIsWaiting, Saves!TypeOK
    <2>3. PICK q : q = [tasks[t] EXCEPT !.pc = "insert"]
      BY Zenon
    <2>4. tasks' = [tasks EXCEPT ![t] = q]
      BY <1>5, <2>1, <2>3 DEF Saves!Acquire, Saves!Become
    <2>5. q.pc = "insert" /\ q.locked = tasks[t].locked
      BY <1>t, <2>2, <2>3 DEF SaveTask
    <2>6. tasks[t].locked = {}
      BY <1>o, <2>2 DEF TaskOrder
    <2>7. TaskOrder(q)
      BY <2>5, <2>6 DEF TaskOrder
    <2>8. /\ Len(queue) \in Nat \ {0}
          /\ DOMAIN queue = 1 .. Len(queue) /\ DOMAIN queue' = 1 .. Len(queue) - 1
          /\ \A k \in 1 .. Len(queue) - 1 : queue'[k] = queue[k + 1]
      BY <1>5 DEF Saves!Acquire, SavesInv, Saves!TypeOK
    <2>9. ASSUME NEW u \in Trio, tasks'[u].pc = "acquire"
          PROVE  \E k \in DOMAIN queue' : queue'[k] = u
      <3>1. u # t /\ tasks[u].pc = "acquire"
        BY <1>t, <2>2, <2>4, <2>5, <2>9
      <3>2. PICK k \in DOMAIN queue : queue[k] = u
        BY <3>1 DEF OrderInv, EverybodyQueued
      <3>3. k # 1
        BY <2>2, <3>1, <3>2
      <3>4. k - 1 \in 1 .. Len(queue) - 1 /\ (k - 1) + 1 = k
        BY <2>8, <3>2, <3>3
      <3>5. queue'[k - 1] = u
        BY <2>8, <3>2, <3>4
      <3> QED
        BY <2>8, <3>4, <3>5
    <2>10. EverybodyQueued'
      BY <2>9 DEF EverybodyQueued
    <2> QED
      BY Zenon, <2>2, <2>4, <2>7, <2>10, OrderStep
  <1>6. CASE UNCHANGED saves
    BY <1>6 DEF saves, OrderInv, EverybodyQueued, TaskOrder
  <1> QED
    BY <1>1, <1>2, <1>3, <1>4, <1>5, <1>6 DEF Saves!Next

(* Nobody has begun. *)
LEMMA OrderInitInv == Saves!Init => OrderInv
  BY DEF Saves!Init, OrderInv, EverybodyQueued, TaskOrder, Saves!Idle

(* The one who waits for the oldest row waits for somebody who does not     *)
(* wait; and if nobody has a connection, they all are free.                 *)
LEMMA OrderShow == SavesInv /\ OrderInv => Saves!SomebodyGoesOn
  <1> SUFFICES ASSUME SavesInv, OrderInv, NEW t0 \in Trio, tasks[t0] # Saves!Idle,
                      \A t \in Saves!Connected : Saves!Blocked(t)
               PROVE  queue # <<>> /\ free > 0
    BY DEF Saves!SomebodyGoesOn
  <1>t. tasks \in [Trio -> SaveTask] /\ SessionsEver \in Nat /\ Connections \in Nat \ {0}
    BY RecordsConstants DEF SavesInv, Saves!TypeOK, SaveTask, Saves!SaveConstants
  <1>o. \A t \in Trio : TaskOrder(tasks[t])
    BY DEF OrderInv
  <1> DEFINE want(t) == Saves!Max(tasks[t].todo)
             W == {want(t) : t \in Saves!Connected}
  <1>1. ASSUME NEW t \in Saves!Connected
        PROVE  want(t) \in tasks[t].todo /\ want(t) \in Nat /\ \E u \in Trio : want(t) \in tasks[u].locked
    <2>1. t \in Trio /\ tasks[t].todo \in SUBSET (1 .. SessionsEver)
      BY <1>t DEF Saves!Connected, SaveTask, Saves!Session
    <2>2. tasks[t].todo # {} /\ Saves!Holders(want(t)) # {}
      BY DEF Saves!Blocked
    <2>3. want(t) \in tasks[t].todo
      BY Zenon, <1>t, <2>1, <2>2, MaxIsIn
    <2> HIDE DEF want
    <2>4. \E u \in Trio : want(t) \in tasks[u].locked
      BY <2>2 DEF Saves!Holders
    <2> QED
      BY <2>1, <2>3, <2>4
  <1> HIDE DEF want
  <1>2. Saves!Connected = {}
    <2> SUFFICES ASSUME Saves!Connected # {} PROVE FALSE
      OBVIOUS
    <2>1. W \in SUBSET Nat /\ W # {}
      BY <1>1
    <2>2. PICK w \in W : \A n \in W : w <= n
      BY Zenon, <2>1, HasSmallest
    <2>3. PICK t \in Saves!Connected : w = want(t)
      BY <2>2
    <2>4. PICK u \in Trio : w \in tasks[u].locked
      BY <1>1, <2>3
    <2>5. u \in Saves!Connected
      BY <1>o, <2>4 DEF TaskOrder, Saves!Connected
    <2>6. want(u) < w
      BY <1>o, <1>1, <2>4, <2>5 DEF TaskOrder
    <2>7. want(u) \in W /\ want(u) \in Nat /\ w \in Nat
      BY <1>1, <2>1, <2>2, <2>5
    <2> QED
      BY <2>2, <2>6, <2>7
  <1>3. free > 0
    BY <1>t, <1>2, FS_EmptySet DEF SavesInv, ConnectionsConserved, Saves!TypeOK
  <1>4. tasks[t0].pc = "acquire"
    BY <1>t, <1>o, <1>2 DEF TaskOrder, SaveTask, Saves!Connected
  <1>5. PICK k \in DOMAIN queue : queue[k] = t0
    BY <1>4 DEF OrderInv, EverybodyQueued
  <1>6. queue # <<>>
    BY <1>5
  <1> QED
    BY <1>3, <1>6

-----------------------------------------------------------------------------
(* Roles: the proofs about the component are those about its instance. *)

AP == INSTANCE AdminRolesProofs WITH User <- Trio, Request <- Slot

(* Both instances take the same steps. *)
LEMMA AdminSameNext == (Admin!Next <=> AP!Next) /\ (Admin!FreshNext <=> AP!FreshNext)
  <1>1. \A r : Admin!Begin(r) <=> AP!Begin(r)
    BY DEF Admin!Begin, Admin!Idle, Admin!is_admin, Admin!role_for, Admin!None, Admin!Role,
           AP!Begin, AP!Idle, AP!is_admin, AP!role_for, AP!None, AP!Role
  <1>2. \A r : Admin!Handle(r) <=> AP!Handle(r)
    BY DEF Admin!Handle, Admin!ActorSummary, Admin!ActorRole, Admin!TargetSummary, Admin!TargetRole,
           Admin!Upsert, Admin!Read, Admin!Goto, Admin!Reply, Admin!Refused, Admin!Witness,
           Admin!is_admin, Admin!role_for, Admin!Idle, Admin!None, Admin!Role,
           AP!Handle, AP!ActorSummary, AP!ActorRole, AP!TargetSummary, AP!TargetRole,
           AP!Upsert, AP!Read, AP!Goto, AP!Reply, AP!Refused, AP!Witness,
           AP!is_admin, AP!role_for, AP!Idle, AP!None, AP!Role
  <1>3. \A r : Admin!Leave(r) <=> AP!Leave(r)
    BY DEF Admin!Leave, Admin!Idle, Admin!None, AP!Leave, AP!Idle, AP!None
  <1>4. Admin!CreateUser <=> AP!CreateUser
    BY DEF Admin!CreateUser, Admin!None, AP!CreateUser, AP!None
  <1>5. \A u : Admin!is_admin(u) <=> AP!is_admin(u)
    BY DEF Admin!is_admin, Admin!role_for, AP!is_admin, AP!role_for
  <1>6. Admin!Next <=> AP!Next
    BY <1>1, <1>2, <1>3, <1>4 DEF Admin!Next, AP!Next
  <1>7. Admin!FreshNext <=> AP!FreshNext
    BY <1>1, <1>2, <1>3, <1>4, <1>5 DEF Admin!FreshNext, AP!FreshNext
  <1> QED
    BY <1>6, <1>7

(* And begin in the same states. *)
LEMMA AdminSameInit == Admin!Init => AP!Init
  BY DEF Admin!Init, Admin!Role, Admin!Admins, Admin!is_admin, Admin!role_for, Admin!Idle, Admin!None,
         AP!Init, AP!Role, AP!Admins, AP!is_admin, AP!role_for, AP!Idle, AP!None

(* What is said of one is said of the other. *)
LEMMA AdminSameClaims ==
    /\ Admin!OnlyAdminsServed <=> AP!OnlyAdminsServed
    /\ Admin!AnswerIsLater <=> AP!AnswerIsLater
    /\ Admin!SomeAdmin <=> AP!SomeAdmin
  <1>1. Admin!SomeAdmin <=> AP!SomeAdmin
    BY DEF Admin!SomeAdmin, Admin!Admins, Admin!is_admin, Admin!role_for,
           AP!SomeAdmin, AP!Admins, AP!is_admin, AP!role_for
  <1> QED
    BY <1>1 DEF Admin!OnlyAdminsServed, Admin!AnswerIsLater, Admin!None,
                      AP!OnlyAdminsServed, AP!AnswerIsLater, AP!None

-----------------------------------------------------------------------------
(* All of them side by side. *)

RecordsInv ==
    /\ AuditInv
    /\ AP!IInv
    /\ part = "fresh admin" => AP!SomeAdmin
    /\ ListingInv
    /\ ProfileInv
    /\ SavesInv /\ OrderInv

(* Every component begins in one of its initial states. *)
LEMMA RecordsInitInv == RecordsInit => RecordsInv
  <1> SUFFICES ASSUME RecordsInit PROVE RecordsInv
    OBVIOUS
  <1>1. Init /\ Admin!Init /\ Listing!Init /\ UserProfile!Init /\ Saves!Init
    BY Zenon DEF RecordsInit
  <1>2. AP!IInv /\ AP!SomeAdmin
    BY <1>1, AdminSameInit, AP!InitInv, AP!FreshInitInv
  <1> QED
    BY <1>1, <1>2, AuditInitInv, ListingInitInv, ProfileInitInv, SavesInitInv, OrderInitInv
    DEF RecordsInv

(* Every step is one of each component, or leaves it alone. *)
LEMMA RecordsSteps ==
    ASSUME [RecordsNext]_all
    PROVE  /\ part' = part
           /\ [Next]_audit /\ [Admin!Next]_admin
           /\ part = "fresh admin" => [Admin!FreshNext]_admin
           /\ [Listing!Next \/ Walked]_listing
           /\ [UserProfile!Next]_profile
           /\ [Saves!Next]_saves
  <1>1. Admin!FreshNext => Admin!Next
    BY DEF Admin!FreshNext, Admin!Next
  <1>2. UserProfile!FreshNext => UserProfile!Next
    BY DEF UserProfile!FreshNext, UserProfile!Next
  <1> QED
    BY Zenon, <1>1, <1>2 DEF RecordsNext, all

(* The invariant is inductive. *)
LEMMA RecordsNextInv == RecordsInv /\ [RecordsNext]_all => RecordsInv'
  <1> SUFFICES ASSUME RecordsInv, [RecordsNext]_all PROVE RecordsInv'
    OBVIOUS
  <1>1. AuditInv'
    BY Zenon, RecordsSteps, AuditNextInv DEF RecordsInv, audit
  <1>2. AP!IInv'
    <2>1. [AP!Next]_(AP!vars)
      BY Zenon, RecordsSteps, AdminSameNext DEF admin, AP!vars
    <2> QED
      BY Zenon, <2>1, AP!NextInv DEF RecordsInv
  <1>3. part' = "fresh admin" => AP!SomeAdmin'
    <2>1. part = "fresh admin" => [AP!FreshNext]_(AP!vars)
      BY Zenon, RecordsSteps, AdminSameNext DEF admin, AP!vars
    <2> QED
      BY Zenon, <2>1, RecordsSteps, AP!FreshNextInv DEF RecordsInv
  <1>4. ListingInv'
    BY Zenon, RecordsSteps, ListingNextInv DEF RecordsInv
  <1>5. ProfileInv'
    BY Zenon, RecordsSteps, ProfileNextInv DEF RecordsInv
  <1>6. SavesInv'
    BY Zenon, RecordsSteps, SavesNextInv DEF RecordsInv
  <1>7. OrderInv'
    BY Zenon, RecordsSteps, OrderNextInv DEF RecordsInv
  <1> QED
    BY Zenon, <1>1, <1>2, <1>3, <1>4, <1>5, <1>6, <1>7 DEF RecordsInv

(* Nobody is answered by an admin endpoint who was not an admin at some     *)
(* moment of the request.                                                   *)
THEOREM AdminsAreServed == RecordsSpec => []OnlyAdminsServed
  <1>1. RecordsInv => OnlyAdminsServed
    BY Zenon, AdminSameClaims DEF RecordsInv, AP!IInv, OnlyAdminsServed
  <1> QED
    BY <1>1, RecordsInitInv, RecordsNextInv, PTL DEF RecordsSpec

(* The role in the answer to a change is one the target had after it. *)
THEOREM AnswersAreLater == RecordsSpec => []AnswerIsLater
  <1>1. RecordsInv => AnswerIsLater
    BY Zenon, AdminSameClaims DEF RecordsInv, AP!IInv, AnswerIsLater
  <1> QED
    BY <1>1, RecordsInitInv, RecordsNextInv, PTL DEF RecordsSpec

(* Role changes leave an admin, as long as each is written while its caller *)
(* still is one.                                                            *)
THEOREM AnAdminIsLeft == RecordsSpec => []SomeAdmin
  <1>1. RecordsInv => SomeAdmin
    BY Zenon, AdminSameClaims DEF RecordsInv, SomeAdmin
  <1> QED
    BY <1>1, RecordsInitInv, RecordsNextInv, PTL DEF RecordsSpec

(* A walk through the pages, of any size, of the list of users meets        *)
(* everybody who was there when it began, whoever appears meanwhile.        *)
THEOREM WalksMeetEverybody == RecordsSpec => []NobodySkipped
  <1>1. RecordsInv => NobodySkipped
    BY DEF RecordsInv, ListingInv, NobodySkipped
  <1> QED
    BY <1>1, RecordsInitInv, RecordsNextInv, PTL DEF RecordsSpec

(* A profile change that is not overtaken by another changes the fields     *)
(* that its request provides and no others, however many are under way.     *)
THEOREM ProvidedFieldsChange == RecordsSpec => OnlyProvidedFields
  <1>1. RecordsInv /\ [RecordsNext]_all
            => [part = "profile" => UserProfile!ChangesProvided]_all
    BY Zenon, ProfileShow DEF RecordsInv, RecordsNext
  <1> QED
    BY <1>1, RecordsInitInv, RecordsNextInv, PTL DEF RecordsSpec, OnlyProvidedFields

(* What a save changes becomes visible at once, with its COMMIT. *)
THEOREM SavesShowAtOnce == RecordsSpec => AllOrNothing
  <1>1. RecordsInv /\ [RecordsNext]_all => [part = "saves" => Saves!ShowsAllAtOnce]_all
    BY Zenon, SavesShow DEF RecordsInv, RecordsNext
  <1> QED
    BY <1>1, RecordsInitInv, RecordsNextInv, PTL DEF RecordsSpec, AllOrNothing

(* Connections are neither lost nor handed out twice, whatever fails or is  *)
(* dropped; a row is locked by one transaction; who is in the queue of the  *)
(* pool waits.                                                              *)
THEOREM ConnectionsAreConserved ==
    RecordsSpec => [](ConnectionsConserved /\ RowsHeldOnce /\ QueueIsWaiting)
  <1>1. RecordsInv => ConnectionsConserved /\ RowsHeldOnce /\ QueueIsWaiting
    BY Zenon DEF RecordsInv, SavesInv
  <1> QED
    BY <1>1, RecordsInitInv, RecordsNextInv, PTL DEF RecordsSpec

(* Saves never wait for each other in a circle, nor for a connection that   *)
(* nobody gives back: while any is under way, one can go on.                *)
THEOREM SavesNeverStandStill == RecordsSpec => []SomebodyGoesOn
  <1>1. RecordsInv => SomebodyGoesOn
    BY OrderShow DEF RecordsInv, SomebodyGoesOn
  <1> QED
    BY <1>1, RecordsInitInv, RecordsNextInv, PTL DEF RecordsSpec
=============================================================================
