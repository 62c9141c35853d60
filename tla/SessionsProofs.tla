--------------------------- MODULE SessionsProofs ---------------------------
(***************************************************************************)
(* What holds of a user's sessions for any number of requests in flight,   *)
(* however stale the aggregates they decide on; and, at the end, what      *)
(* holds when the requests of a user are handled one at a time, which is   *)
(* what the documents describe.                                            *)
(***************************************************************************)
EXTENDS Sessions, FiniteSetTheorems, TLAPS

Replies == {"none", "ok", "invalid", "reused", "error"}

-----------------------------------------------------------------------------
(* Types. *)

(* An answered request is a request. *)
LEMMA AnsweredType ==
    ASSUME NEW o \in Operation, NEW r \in Replies, NEW table \in [Sid -> Status]
    PROVE  Answered(o, r, table) \in Operation
  BY Zenon DEF Answered, Operation, Replies

(* The initial table. *)
LEMMA NoRowsType == NoRows \in [Sid -> Status]
  BY DEF NoRows, Status

(* A request on its way to publish its events is a request. *)
LEMMA ToPublishType ==
    ASSUME NEW o \in Operation, NEW es \in SUBSET Event
    PROVE  ToPublish(o, es) \in Operation
  <1> DEFINE a == Answered(o, "ok", NoRows)
  <1>1. a \in Operation
    BY AnsweredType, NoRowsType DEF Replies
  <1> HIDE DEF a
  <1>2. [a EXCEPT !.pc = "publish", !.events = es] \in Operation
    BY Zenon, <1>1 DEF Operation
  <1> QED
    BY <1>2 DEF ToPublish, a

(* The table a transaction leaves behind is a table. *)
LEMMA SavedType ==
    ASSUME TypeOK, NEW o, NEW closed, NEW new
    PROVE  Saved(o, closed, new) \in [Sid -> Status]
  BY DEF Saved, TypeOK, Status

(* The transaction keeps the types. *)
LEMMA TypeSave ==
    ASSUME TypeOK, NEW o \in ops, NEW closed, NEW new \in Sid \union {None},
           NEW from \in Sid \union {None}, NEW o2 \in Operation,
           SaveAggregate(o, closed, new, from, o2)
    PROVE  TypeOK'
  <1>1. Answered(o, "error", NoRows) \in Operation
    BY AnsweredType, NoRowsType DEF TypeOK, Replies
  <1>2. ops' \subseteq Operation
    BY <1>1 DEF SaveAggregate, Become, Reply, TypeOK
  <1>3. status' \in [Sid -> Status]
    BY SavedType DEF SaveAggregate
  <1>4. expires' \in [Sid -> Nat]
    BY SessionConstants DEF SaveAggregate, TypeOK
  <1>5. parent' \in [Sid -> Sid \union {None}]
    BY DEF SaveAggregate, TypeOK
  <1> QED
    BY <1>2, <1>3, <1>4, <1>5 DEF SaveAggregate, TypeOK

(* Every step of a request keeps the types. *)
LEMMA TypeStep ==
    ASSUME TypeOK, NEW o \in ops, Step(o)
    PROVE  TypeOK'
  <1>0. o \in Operation /\ \A r \in Replies : Answered(o, r, NoRows) \in Operation
    BY AnsweredType, NoRowsType DEF TypeOK
  <1>1. CASE Create(o)
    <2>1. [o EXCEPT !.pc = "reload", !.isnew = TRUE] \in Operation
      BY Zenon, <1>0 DEF Operation
    <2> QED
      BY <1>0, <1>1, <2>1 DEF Create, Become, Reply, TypeOK, rows, Replies
  <1>2. CASE Reload(o)
    <2>1. [o EXCEPT !.pc = "decide", !.snap = status] \in Operation
      BY Zenon, <1>0 DEF Operation, TypeOK
    <2> QED
      BY <1>2, <2>1 DEF Reload, Become, TypeOK, rows
  <1>3. CASE Login(o)
    <2>1. PICK n \in Sid : SaveAggregate(o, {}, n, None,
              ToPublish(o, {[type |-> "logged_in", sid |-> n]}
                           \union IF o.isnew THEN {Created} ELSE {}))
      BY Zenon, <1>3 DEF Login
    <2>2. {[type |-> "logged_in", sid |-> n]} \union (IF o.isnew THEN {Created} ELSE {}) \in SUBSET Event
      BY DEF Event, Created
    <2> QED
      BY <1>0, <2>1, <2>2, ToPublishType, TypeSave
  <1>4. CASE Logout(o)
    <2>1. {[type |-> "logged_out", sid |-> o.target]} \in SUBSET Event
      BY <1>0 DEF Operation, Event
    <2> QED
      BY <1>0, <1>4, <2>1, ToPublishType, TypeSave DEF Logout
  <1>5. CASE Rotate(o)
    <2>1. PICK n \in Sid : SaveAggregate(o, {o.target}, n, o.target,
              ToPublish(o, {[type |-> "refreshed", sid |-> n]}))
      BY Zenon, <1>5 DEF Rotate
    <2>2. {[type |-> "refreshed", sid |-> n]} \in SUBSET Event /\ o.target \in Sid
      BY <1>5 DEF Event, Rotate, LiveIn
    <2> QED
      BY <1>0, <2>1, <2>2, ToPublishType, TypeSave
  <1>6. CASE ReuseDetected(o)
    <2> DEFINE all == {s \in Sid : o.snap[s] = "active"}
               a == Answered(o, "reused", Saved(o, all, None))
    <2>1. a \in Operation
      BY <1>0, AnsweredType, SavedType DEF Replies
    <2>2. SaveAggregate(o, all, None, None, a)
      BY <1>6 DEF ReuseDetected
    <2> HIDE DEF all, a
    <2> QED
      BY <2>1, <2>2, TypeSave
  <1>7. CASE Refuse(o)
    BY <1>0, <1>7 DEF Refuse, Refused, Reply, Become, TypeOK, rows, Replies
  <1>8. CASE DatabaseError(o)
    BY <1>0, <1>8 DEF DatabaseError, Reply, Become, TypeOK, rows, Replies
  <1>9. CASE Publish(o)
    <2>1. o.events \subseteq Event
      BY <1>0 DEF Operation
    <2> QED
      BY <1>0, <1>9, <2>1 DEF Publish, Reply, Become, TypeOK, rows, Replies
  <1>10. CASE Leave(o)
    BY <1>10 DEF Leave, TypeOK, rows
  <1> QED
    BY <1>1, <1>2, <1>3, <1>4, <1>5, <1>6, <1>7, <1>8, <1>9, <1>10 DEF Step, Save, OtherStep

(* A request that has just loaded is a request. *)
LEMMA NewOpType ==
    ASSUME TypeOK, NEW id \in Op, NEW k \in {"password", "google", "logout", "refresh"},
           NEW t \in Sid \union {None}, NEW pc \in {"create", "decide"}
    PROVE  NewOp(id, k, t, pc) \in Operation
  BY DEF NewOp, Operation, TypeOK

(* Every step keeps the types. *)
LEMMA TypeNext == TypeOK /\ [Next]_vars => TypeOK'
  <1> SUFFICES ASSUME TypeOK, [Next]_vars
               PROVE  TypeOK'
    OBVIOUS
  <1>1. ASSUME NEW id \in Op, NEW k \in {"password", "google", "logout", "refresh"},
               NEW t \in Sid \union {None}, Load(id, k, t)
        PROVE  TypeOK'
    <2>1. NewOp(id, k, t, "decide") \in Operation
      BY NewOpType
    <2> QED
      BY <1>1, <2>1 DEF Load, TypeOK, rows
  <1>2. ASSUME NEW id \in Op, LoadNobody(id)
        PROVE  TypeOK'
    <2>1. NewOp(id, "google", None, "create") \in Operation
      BY NewOpType
    <2> QED
      BY <1>2, <2>1 DEF LoadNobody, TypeOK, rows
  <1>3. CASE Tick
    BY <1>3 DEF Tick, TypeOK, rows
  <1>4. CASE UNCHANGED vars
    BY <1>4 DEF vars, TypeOK, rows
  <1> QED
    BY <1>1, <1>2, <1>3, <1>4, TypeStep DEF Next, Arrive

(* The first state is well typed. *)
LEMMA TypeInit == Init => TypeOK
  BY NoRowsType DEF Init, TypeOK

(* Every reachable state of the users and sessions tables, the requests    *)
(* and the bus is well typed.                                              *)
THEOREM SessionsTypeCorrect == Spec => []TypeOK
  BY TypeInit, TypeNext, PTL DEF Spec

-----------------------------------------------------------------------------
(* The inductive invariant.  A snapshot only knows sessions the table has, *)
(* so a save never touches a row that is not there; with that, whatever a  *)
(* request is about to publish is already backed by the tables.            *)

OpInv(o) ==
    /\ \A s \in Sid : o.snap[s] # "absent" => status[s] # "absent"
    /\ o.isnew => user = "google"
    /\ \A e \in o.events : Backed(e)

SInv ==
    /\ TypeOK
    /\ \A o \in ops : OpInv(o)
    /\ PublishedIsBacked
    /\ PredecessorClosed

(* What no step undoes. *)
Grows ==
    /\ \A s \in Sid : status[s] # "absent" => status'[s] # "absent" /\ parent'[s] = parent[s]
    /\ \A s \in Sid : status[s] = "inactive" => status'[s] = "inactive"
    /\ user # "absent" => user' = user

(* An event that was backed stays backed. *)
LEMMA BackedGrows ==
    ASSUME Grows, NEW e \in Event, Backed(e)
    PROVE  Backed(e)'
  <1>1. CASE e.type = "logged_in"
    BY <1>1 DEF Grows, Backed
  <1>2. CASE e.type = "refreshed"
    BY <1>2 DEF Grows, Backed
  <1>3. CASE e.type = "logged_out"
    BY <1>3 DEF Grows, Backed
  <1>4. CASE e.type = "user_created"
    BY <1>4 DEF Grows, Backed
  <1> QED
    BY <1>1, <1>2, <1>3, <1>4 DEF Event

(* A request a step leaves alone keeps its part of the invariant. *)
LEMMA OpGrows ==
    ASSUME TypeOK, Grows, NEW o \in Operation, OpInv(o)
    PROVE  OpInv(o)'
  <1>1. \A e \in o.events : Backed(e)'
    BY BackedGrows DEF OpInv, Operation
  <1> QED
    BY <1>1 DEF OpInv, Grows

(* So a step preserves the invariant when it only grows the tables, keeps  *)
(* predecessors closed, and leaves the requests it changes in order.       *)
LEMMA Preserves ==
    ASSUME SInv, TypeOK', Grows, PredecessorClosed',
           \A o \in ops' \ ops : OpInv(o)',
           \A e \in published' \ published : Backed(e)'
    PROVE  SInv'
  <1>1. \A o \in ops' : OpInv(o)'
    BY OpGrows DEF SInv, TypeOK
  <1>2. PublishedIsBacked'
    BY BackedGrows DEF SInv, PublishedIsBacked, TypeOK
  <1> QED
    BY <1>1, <1>2 DEF SInv

(* A request that has been answered owes nothing. *)
LEMMA AnsweredInv ==
    ASSUME NEW o \in Operation, NEW r \in Replies
    PROVE  OpInv(Answered(o, r, NoRows))'
  <1> DEFINE a == Answered(o, r, NoRows)
  <1>1. a.snap = NoRows /\ a.isnew = FALSE /\ a.events = {}
    BY DEF Answered, Operation
  <1> HIDE DEF a
  <1>2. \A s \in Sid : a.snap[s] = "absent"
    BY <1>1 DEF NoRows
  <1>3. OpInv(a)'
    BY <1>1, <1>2 DEF OpInv
  <1> QED
    BY <1>3 DEF a

(* The row-level effect of a save that closes only sessions it knows. *)
LEMMA SaveGrows ==
    ASSUME SInv, NEW o \in ops, NEW closed \in SUBSET Sid, NEW new \in Sid \union {None},
           NEW from \in closed \union {None}, NEW o2,
           \A s \in closed : o.snap[s] = "active",
           new \in Sid => status[new] = "absent",
           new = None => from = None,
           SaveAggregate(o, closed, new, from, o2)
    PROVE  /\ Grows
           /\ PredecessorClosed'
           /\ \A s \in closed : status'[s] = "inactive"
           /\ new \in Sid => status'[new] = "active" /\ parent'[new] = from
  <1>1. \A s \in Sid : status'[s] = IF s = new THEN "active"
                                   ELSE IF s \in Invalidated(o, closed) THEN "inactive"
                                   ELSE status[s]
    BY DEF SaveAggregate, Saved
  <1>2. \A s \in Invalidated(o, closed) : status[s] # "absent"
    BY DEF Invalidated, SInv, OpInv
  <1>3. \A s \in Sid : parent'[s] = IF s = new THEN from ELSE parent[s]
    BY SessionConstants DEF SaveAggregate, SInv, TypeOK
  <1>4. user' = user
    BY DEF SaveAggregate
  <1>5. Grows
    BY <1>1, <1>3, <1>4 DEF Grows
  <1>6. \A s \in closed : s # new /\ status'[s] = "inactive"
    BY <1>1, <1>2 DEF Invalidated
  <1>7. ASSUME NEW s \in Sid, parent'[s] # None
        PROVE  status'[s] # "absent" /\ status'[parent'[s]] = "inactive"
    <2>1. CASE s = new
      BY <1>1, <1>3, <1>6, <1>7, <2>1
    <2>2. CASE s # new
      <3>1. parent'[s] = parent[s] /\ parent[s] \in Sid
        BY <1>3, <1>7, <2>2 DEF SInv, TypeOK
      <3>2. status[s] # "absent" /\ status[parent[s]] = "inactive"
        BY <1>7, <3>1 DEF SInv, PredecessorClosed
      <3> QED
        BY <1>5, <3>1, <3>2 DEF Grows
    <2> QED
      BY <2>1, <2>2
  <1>8. PredecessorClosed'
    BY <1>7 DEF PredecessorClosed
  <1> QED
    BY <1>1, <1>3, <1>5, <1>6, <1>8

(* A save preserves the invariant when the request it answers with carries *)
(* events that the save itself backs.                                      *)
LEMMA SaveInv ==
    ASSUME SInv, NEW o \in ops, NEW closed \in SUBSET Sid, NEW new \in Sid \union {None},
           NEW from \in closed \union {None}, NEW o2 \in Operation,
           \A s \in closed : o.snap[s] = "active",
           new \in Sid => status[new] = "absent",
           new = None => from = None,
           SaveAggregate(o, closed, new, from, o2),
           OpInv(o2)'
    PROVE  SInv' /\ Grows
  <1>1. Grows /\ PredecessorClosed'
    BY SaveGrows
  <1>2. TypeOK'
    BY TypeSave DEF SInv
  <1>3. OpInv(Answered(o, "error", NoRows))'
    BY AnsweredInv DEF SInv, TypeOK, Replies
  <1>4. \A x \in ops' \ ops : OpInv(x)'
    BY <1>3 DEF SaveAggregate, Become, Reply
  <1>5. published' = published
    BY DEF SaveAggregate
  <1> QED
    BY <1>1, <1>2, <1>4, <1>5, Preserves

(* A request on its way to publish owes only its events. *)
LEMMA ToPublishInv ==
    ASSUME NEW o \in Operation, NEW es \in SUBSET Event, \A e \in es : Backed(e)'
    PROVE  OpInv(ToPublish(o, es))'
  <1> DEFINE a == Answered(o, "ok", NoRows)
             b == [a EXCEPT !.pc = "publish", !.events = es]
  <1>0. a \in Operation
    BY AnsweredType, NoRowsType DEF Replies
  <1>1. a.snap = NoRows /\ a.isnew = FALSE
    BY DEF Answered, Operation
  <1> HIDE DEF a
  <1>2. b.snap = NoRows /\ b.isnew = FALSE /\ b.events = es
    BY <1>0, <1>1 DEF Operation
  <1> HIDE DEF b
  <1>3. \A s \in Sid : b.snap[s] = "absent"
    BY <1>2 DEF NoRows
  <1>4. OpInv(b)'
    BY <1>2, <1>3 DEF OpInv
  <1> QED
    BY <1>4 DEF ToPublish, a, b

(* Every step of a request preserves the invariant. *)
LEMMA InvStep ==
    ASSUME SInv, NEW o \in ops, Step(o)
    PROVE  SInv' /\ Grows
  <1>0. o \in Operation /\ OpInv(o) /\ TypeOK'
    BY TypeStep DEF SInv, TypeOK
  <1>a. ASSUME UNCHANGED <<status, parent>>
        PROVE  PredecessorClosed'
    BY <1>a DEF SInv, PredecessorClosed
  <1>b. \A r \in Replies : OpInv(Answered(o, r, NoRows))'
    BY <1>0, AnsweredInv
  <1>1. CASE Create(o)
    <2> DEFINE o2 == [o EXCEPT !.pc = "reload", !.isnew = TRUE]
    <2>1. Grows /\ UNCHANGED <<status, parent, published>>
      BY <1>1 DEF Create, Grows, rows
    <2>2. o2.snap = o.snap /\ o2.events = o.events
      BY <1>0 DEF Operation
    <2> HIDE DEF o2
    <2>3. ASSUME user' = "google"
          PROVE  OpInv(o2)'
      <3>1. \A e \in o.events : Backed(e)'
        BY <1>0, <2>1, BackedGrows DEF OpInv, Operation
      <3> QED
        BY <1>0, <2>1, <2>2, <2>3, <3>1 DEF OpInv
    <2>4. \A x \in ops' \ ops : OpInv(x)'
      BY <1>1, <1>b, <2>3 DEF Create, Become, Reply, Replies, o2
    <2> QED
      BY <1>0, <1>a, <2>1, <2>4, Preserves
  <1>2. CASE Reload(o)
    <2> DEFINE o2 == [o EXCEPT !.pc = "decide", !.snap = status]
    <2>1. Grows /\ UNCHANGED <<status, parent, user, published>>
      BY <1>2 DEF Reload, Grows, rows
    <2>2. o2.snap = status /\ o2.events = o.events /\ o2.isnew = o.isnew
      BY <1>0 DEF Operation
    <2>3. \A x \in ops' \ ops : x = o2
      BY <1>2 DEF Reload, Become
    <2> HIDE DEF o2
    <2>4. ASSUME NEW x \in ops' \ ops
          PROVE  OpInv(x)'
      <3>1. \A e \in o.events : Backed(e)'
        BY <1>0, <2>1, BackedGrows DEF OpInv, Operation
      <3> QED
        BY <1>0, <2>1, <2>2, <2>3, <3>1 DEF OpInv
    <2> QED
      BY <1>0, <1>a, <2>1, <2>4, Preserves
  <1>3. CASE Login(o)
    <2> DEFINE es(n) == {[type |-> "logged_in", sid |-> n]} \union IF o.isnew THEN {Created} ELSE {}
    <2>1. PICK n \in Sid : status[n] = "absent" /\ SaveAggregate(o, {}, n, None, ToPublish(o, es(n)))
      BY <1>3 DEF Login
    <2>2. es(n) \in SUBSET Event
      BY DEF Event, Created
    <2>3. Grows /\ status'[n] = "active" /\ parent'[n] = None
      BY <2>1, SaveGrows
    <2>4. ASSUME NEW e \in es(n)
          PROVE  Backed(e)'
      <3>1. CASE e = [type |-> "logged_in", sid |-> n]
        BY <2>3, <3>1 DEF Backed
      <3>2. CASE o.isnew /\ e = Created
        BY <1>0, <2>3, <3>2 DEF Backed, Created, OpInv, Grows
      <3> QED
        BY <3>1, <3>2
    <2>5. ToPublish(o, es(n)) \in Operation /\ OpInv(ToPublish(o, es(n)))'
      BY <1>0, <2>2, <2>4, ToPublishType, ToPublishInv
    <2> HIDE DEF es
    <2> QED
      BY <2>1, <2>5, SaveInv
  <1>4. CASE Logout(o)
    <2> DEFINE es == {[type |-> "logged_out", sid |-> o.target]}
    <2>0. o.target \in Sid /\ o.snap[o.target] = "active"
      BY <1>4 DEF Logout, LiveIn
    <2>1. SaveAggregate(o, {o.target}, None, None, ToPublish(o, es))
      BY <1>4 DEF Logout
    <2>2. es \in SUBSET Event
      BY <2>0 DEF Event
    <2>3. status'[o.target] = "inactive"
      BY <2>0, <2>1, SaveGrows, SessionConstants
    <2>4. ASSUME NEW e \in es
          PROVE  Backed(e)'
      <3>1. e.type = "logged_out" /\ e.sid = o.target
        OBVIOUS
      <3> QED
        BY <2>0, <2>3, <3>1 DEF Backed
    <2>5. ToPublish(o, es) \in Operation /\ OpInv(ToPublish(o, es))'
      BY <1>0, <2>2, <2>4, ToPublishType, ToPublishInv
    <2> HIDE DEF es
    <2> QED
      BY <2>0, <2>1, <2>5, SaveInv, SessionConstants
  <1>5. CASE Rotate(o)
    <2> DEFINE es(n) == {[type |-> "refreshed", sid |-> n]}
    <2>0. o.target \in Sid /\ o.snap[o.target] = "active"
      BY <1>5 DEF Rotate, LiveIn
    <2>1. PICK n \in Sid : status[n] = "absent"
                           /\ SaveAggregate(o, {o.target}, n, o.target, ToPublish(o, es(n)))
      BY Zenon, <1>5 DEF Rotate
    <2>2. es(n) \in SUBSET Event
      BY DEF Event
    <2>3. status'[n] = "active" /\ parent'[n] = o.target
      BY <2>0, <2>1, SaveGrows, SessionConstants
    <2>4. ASSUME NEW e \in es(n)
          PROVE  Backed(e)'
      <3>1. e.type = "refreshed" /\ e.sid = n
        OBVIOUS
      <3> QED
        BY <2>0, <2>3, <3>1 DEF Backed
    <2>5. ToPublish(o, es(n)) \in Operation /\ OpInv(ToPublish(o, es(n)))'
      BY <1>0, <2>2, <2>4, ToPublishType, ToPublishInv
    <2> HIDE DEF es
    <2> QED
      BY <2>0, <2>1, <2>5, SaveInv, SessionConstants
  <1>6. CASE ReuseDetected(o)
    <2> DEFINE all == {s \in Sid : o.snap[s] = "active"}
               a == Answered(o, "reused", Saved(o, all, None))
    <2>1. SaveAggregate(o, all, None, None, a)
      BY <1>6 DEF ReuseDetected
    <2>2. a \in Operation
      BY <1>0, AnsweredType, SavedType DEF Replies, SInv
    <2>3. a.snap = status' /\ a.isnew = FALSE /\ a.events = {}
      BY <1>0, <2>1 DEF Answered, Operation, SaveAggregate
    <2>4. PICK x \in Operation : x = a
      BY <2>2
    <2> HIDE DEF a
    <2>6. OpInv(x)'
      BY <2>3, <2>4 DEF OpInv
    <2>7. SaveAggregate(o, all, None, None, x)
      BY <2>1, <2>4
    <2>5. all \in SUBSET Sid /\ \A s \in all : o.snap[s] = "active"
      OBVIOUS
    <2> HIDE DEF all
    <2> QED
      BY <2>5, <2>6, <2>7, SaveInv, SessionConstants
  <1>7. CASE Refuse(o) \/ DatabaseError(o) \/ Leave(o)
    <2>1. Grows /\ UNCHANGED <<status, parent, published>>
      BY <1>7 DEF Refuse, DatabaseError, Leave, Grows, rows
    <2>2. \A x \in ops' \ ops : OpInv(x)'
      BY <1>7, <1>b DEF Refuse, Refused, DatabaseError, Leave, Become, Reply, Replies
    <2> QED
      BY <1>0, <1>a, <2>1, <2>2, Preserves
  <1>8. CASE Publish(o)
    <2>1. Grows /\ UNCHANGED <<status, parent, user>>
      BY <1>8 DEF Publish, Grows, rows
    <2>2. \A x \in ops' \ ops : OpInv(x)'
      BY <1>8, <1>b DEF Publish, Become, Reply, Replies
    <2>3. \A e \in published' \ published : Backed(e)'
      BY <1>0, <1>8, <2>1, BackedGrows DEF Publish, OpInv, Operation
    <2> QED
      BY <1>0, <1>a, <2>1, <2>2, <2>3, Preserves
  <1> QED
    BY <1>1, <1>2, <1>3, <1>4, <1>5, <1>6, <1>7, <1>8 DEF Step, Save, OtherStep

(* Every step preserves the invariant and undoes nothing. *)
LEMMA InvNext ==
    ASSUME SInv, [Next]_vars
    PROVE  SInv' /\ Grows
  <1>0. TypeOK'
    BY TypeNext DEF SInv
  <1>a. ASSUME UNCHANGED <<user, status, parent>>
        PROVE  Grows /\ PredecessorClosed'
    BY <1>a DEF Grows, SInv, PredecessorClosed
  <1>b. ASSUME NEW x, NEW id, NEW k, NEW t, NEW pc, x = NewOp(id, k, t, pc),
               UNCHANGED <<user, status>>
        PROVE  OpInv(x)'
    <2>1. x.snap = status /\ x.isnew = FALSE /\ x.events = {}
      BY <1>b DEF NewOp
    <2> QED
      BY <1>b, <2>1 DEF OpInv
  <1>1. ASSUME NEW id \in Op, NEW k \in {"password", "google", "logout", "refresh"},
               NEW t \in Sid \union {None}, Load(id, k, t)
        PROVE  SInv' /\ Grows
    <2>1. UNCHANGED <<user, status, parent, published>>
      BY <1>1 DEF Load, rows
    <2>2. \A x \in ops' \ ops : x = NewOp(id, k, t, "decide")
      BY <1>1 DEF Load
    <2>3. ASSUME NEW x \in ops' \ ops
          PROVE  OpInv(x)'
      BY <1>b, <2>1, <2>2
    <2> QED
      BY <1>0, <1>a, <2>1, <2>3, Preserves
  <1>2. ASSUME NEW id \in Op, LoadNobody(id)
        PROVE  SInv' /\ Grows
    <2>1. UNCHANGED <<user, status, parent, published>>
      BY <1>2 DEF LoadNobody, rows
    <2>2. \A x \in ops' \ ops : x = NewOp(id, "google", None, "create")
      BY <1>2 DEF LoadNobody
    <2>3. ASSUME NEW x \in ops' \ ops
          PROVE  OpInv(x)'
      BY <1>b, <2>1, <2>2
    <2> QED
      BY <1>0, <1>a, <2>1, <2>3, Preserves
  <1>3. CASE Tick \/ UNCHANGED vars
    <2>1. UNCHANGED <<user, status, parent, published, ops>>
      BY <1>3 DEF Tick, vars, rows
    <2> QED
      BY <1>0, <1>a, <2>1, Preserves
  <1> QED
    BY <1>1, <1>2, <1>3, InvStep DEF Next, Arrive

(* It holds at the start. *)
LEMMA InvInit == Init => SInv
  BY TypeInit DEF Init, SInv, PublishedIsBacked, PredecessorClosed

(* The invariant holds throughout. *)
THEOREM SessionsInvariant == Spec => []SInv
  <1>1. SInv /\ [Next]_vars => SInv'
    BY InvNext
  <1> QED
    BY <1>1, InvInit, PTL DEF Spec

(* Whatever was rotated is closed, in every state, for any number of       *)
(* concurrent refreshes, logouts and logins (rotate_session, save_aggregate). *)
THEOREM RotationIsAtomic == Spec => []PredecessorClosed
  <1>1. SInv => PredecessorClosed
    BY DEF SInv
  <1> QED
    BY <1>1, SessionsInvariant, PTL

(* Every published event describes committed rows (the handlers publish    *)
(* after save_aggregate returned Ok).                                      *)
THEOREM EventsTellTheTruth == Spec => []PublishedIsBacked
  <1>1. SInv => PublishedIsBacked
    BY DEF SInv
  <1> QED
    BY <1>1, SessionsInvariant, PTL

(* A closed session stays closed, although every save writes from an       *)
(* aggregate that may be stale (save_aggregate only ever writes FALSE).    *)
THEOREM ClosedForGood == Spec => NeverReactivated
  <1>1. SInv /\ [Next]_vars
            => [\A s \in Sid : status[s] = "inactive" => status'[s] = "inactive"]_vars
    BY InvNext DEF Grows
  <1> QED
    BY <1>1, SessionsInvariant, PTL DEF Spec, NeverReactivated

-----------------------------------------------------------------------------
(* The creation of the user. *)

(* A step that replaces a request by one that announces no more than it. *)
LEMMA OnceReplaced ==
    ASSUME UserCreatedOnce, NEW o \in ops, NEW o2, Become(o, o2),
           Announces(o2) => Announces(o), published' = published
    PROVE  UserCreatedOnce'
  BY DEF UserCreatedOnce, Become

(* An answered request announces nothing. *)
LEMMA AnsweredSilent ==
    ASSUME NEW o \in Operation, NEW r, NEW table
    PROVE  ~Announces(Answered(o, r, table))
  <1>1. Answered(o, r, table).isnew = FALSE /\ Answered(o, r, table).events = {}
    BY DEF Answered, Operation
  <1> QED
    BY <1>1 DEF Announces

(* What a request is about to publish is all it announces. *)
LEMMA ToPublishSilent ==
    ASSUME NEW o \in Operation, NEW es \in SUBSET Event, Created \in es => Announces(o)
    PROVE  Announces(ToPublish(o, es)) => Announces(o)
  <1> DEFINE a == Answered(o, "ok", NoRows)
             b == [a EXCEPT !.pc = "publish", !.events = es]
  <1>0. a \in Operation
    BY AnsweredType, NoRowsType DEF Replies
  <1>1. a.isnew = FALSE
    BY DEF Answered, Operation
  <1> HIDE DEF a
  <1>2. b.isnew = FALSE /\ b.events = es
    BY <1>0, <1>1 DEF Operation
  <1> HIDE DEF b
  <1>3. Announces(b) => Announces(o)
    BY <1>2 DEF Announces
  <1> QED
    BY <1>3 DEF ToPublish, a, b

(* A save announces nothing new. *)
LEMMA OnceSaved ==
    ASSUME SInv, UserCreatedOnce, NEW o \in ops, NEW closed, NEW new, NEW from, NEW o2,
           SaveAggregate(o, closed, new, from, o2), Announces(o2) => Announces(o)
    PROVE  UserCreatedOnce'
  <1>1. published' = published /\ (Become(o, o2) \/ Become(o, Answered(o, "error", NoRows)))
    BY DEF SaveAggregate, Reply
  <1>2. ~Announces(Answered(o, "error", NoRows))
    BY AnsweredSilent DEF SInv, TypeOK
  <1> QED
    BY <1>1, <1>2, OnceReplaced

(* Every step of a request keeps the announcement unique. *)
LEMMA OnceStep ==
    ASSUME SInv, UserCreatedOnce, NEW o \in ops, Step(o)
    PROVE  UserCreatedOnce'
  <1>0. o \in Operation
    BY DEF SInv, TypeOK
  <1>a. \A r, table : ~Announces(Answered(o, r, table))
    BY <1>0, AnsweredSilent
  <1>1. CASE Create(o)
    <2>1. CASE user = "absent" /\ Become(o, [o EXCEPT !.pc = "reload", !.isnew = TRUE])
      <3>1. \A x \in ops : ~Announces(x)
        BY Zenon, <2>1 DEF SInv, OpInv, Announces, Backed, Created
      <3>2. Created \notin published
        BY Zenon, <2>1 DEF SInv, PublishedIsBacked, Backed, Created
      <3>3. published' = published
        BY <1>1 DEF Create
      <3> QED
        BY <2>1, <3>1, <3>2, <3>3 DEF Become, UserCreatedOnce
    <2>2. CASE Reply(o, "error")
      BY <1>1, <1>a, <2>2, OnceReplaced DEF Create, Reply
    <2> QED
      BY <1>1, <2>1, <2>2 DEF Create
  <1>2. CASE Reload(o)
    <2> DEFINE o2 == [o EXCEPT !.pc = "decide", !.snap = status]
    <2>1. o2.isnew = o.isnew /\ o2.events = o.events
      BY <1>0 DEF Operation
    <2>2. PICK x : x = o2
      OBVIOUS
    <2>3. Become(o, x) /\ published' = published
      BY <1>2, <2>2 DEF Reload
    <2>4. Announces(x) => Announces(o)
      BY <2>1, <2>2 DEF Announces
    <2> QED
      BY <2>3, <2>4, OnceReplaced
  <1>3. CASE Login(o)
    <2> DEFINE es(n) == {[type |-> "logged_in", sid |-> n]} \union IF o.isnew THEN {Created} ELSE {}
    <2>1. PICK n \in Sid : SaveAggregate(o, {}, n, None, ToPublish(o, es(n)))
      BY <1>3 DEF Login
    <2>2. es(n) \in SUBSET Event
      BY DEF Event, Created
    <2>3. Created \in es(n) => o.isnew
      BY DEF Created
    <2>4. Announces(ToPublish(o, es(n))) => Announces(o)
      BY <1>0, <2>2, <2>3, ToPublishSilent DEF Announces
    <2> HIDE DEF es
    <2> QED
      BY <2>1, <2>4, OnceSaved
  <1>4. CASE Logout(o)
    <2> DEFINE es == {[type |-> "logged_out", sid |-> o.target]}
    <2>1. SaveAggregate(o, {o.target}, None, None, ToPublish(o, es))
      BY <1>4 DEF Logout
    <2>2. es \in SUBSET Event /\ Created \notin es
      BY <1>0 DEF Event, Created, Operation
    <2> HIDE DEF es
    <2> QED
      BY <1>0, <2>1, <2>2, ToPublishSilent, OnceSaved
  <1>5. CASE Rotate(o)
    <2> DEFINE es(n) == {[type |-> "refreshed", sid |-> n]}
    <2>1. PICK n \in Sid : SaveAggregate(o, {o.target}, n, o.target, ToPublish(o, es(n)))
      BY Zenon, <1>5 DEF Rotate
    <2>2. es(n) \in SUBSET Event /\ Created \notin es(n)
      BY DEF Event, Created
    <2> HIDE DEF es
    <2> QED
      BY <1>0, <2>1, <2>2, ToPublishSilent, OnceSaved
  <1>6. CASE ReuseDetected(o)
    <2> DEFINE all == {s \in Sid : o.snap[s] = "active"}
    <2>1. PICK x : x = Answered(o, "reused", Saved(o, all, None))
      OBVIOUS
    <2>2. SaveAggregate(o, all, None, None, x)
      BY <1>6, <2>1 DEF ReuseDetected
    <2>3. ~Announces(x)
      BY <1>a, <2>1
    <2> HIDE DEF all
    <2> QED
      BY <2>2, <2>3, OnceSaved
  <1>7. CASE Refuse(o) \/ DatabaseError(o)
    <2>1. published' = published /\ \E r \in Replies : Become(o, Answered(o, r, NoRows))
      BY <1>7 DEF Refuse, Refused, DatabaseError, Reply, Replies
    <2> QED
      BY <1>a, <2>1, OnceReplaced
  <1>8. CASE Leave(o)
    BY <1>8 DEF Leave, UserCreatedOnce
  <1>9. CASE Publish(o)
    <2>1. ops' = (ops \ {o}) \union {Answered(o, "ok", NoRows)}
          /\ published' = published \union o.events
      BY <1>9 DEF Publish, Reply, Become
    <2>2. Created \in o.events => \A x \in ops \ {o} : ~Announces(x)
      BY DEF UserCreatedOnce, Announces
    <2>3. Created \in published' => \A x \in ops' : ~Announces(x)
      BY <1>a, <2>1, <2>2 DEF UserCreatedOnce
    <2>4. \A x, y \in ops' : Announces(x) /\ Announces(y) => x = y
      BY <1>a, <2>1 DEF UserCreatedOnce
    <2> QED
      BY <2>3, <2>4 DEF UserCreatedOnce
  <1> QED
    BY <1>1, <1>2, <1>3, <1>4, <1>5, <1>6, <1>7, <1>8, <1>9 DEF Step, Save, OtherStep

(* Every step keeps the announcement unique. *)
LEMMA OnceNext == SInv /\ UserCreatedOnce /\ [Next]_vars => UserCreatedOnce'
  <1> SUFFICES ASSUME SInv, UserCreatedOnce, [Next]_vars
               PROVE  UserCreatedOnce'
    OBVIOUS
  <1>a. ASSUME NEW id, NEW k, NEW t, NEW pc
        PROVE  ~Announces(NewOp(id, k, t, pc))
    BY DEF Announces, NewOp
  <1>1. ASSUME NEW id \in Op, NEW k \in {"password", "google", "logout", "refresh"},
               NEW t \in Sid \union {None}, Load(id, k, t)
        PROVE  UserCreatedOnce'
    BY <1>1, <1>a DEF Load, UserCreatedOnce
  <1>2. ASSUME NEW id \in Op, LoadNobody(id)
        PROVE  UserCreatedOnce'
    BY <1>2, <1>a DEF LoadNobody, UserCreatedOnce
  <1>3. CASE Tick \/ UNCHANGED vars
    BY <1>3 DEF Tick, vars, UserCreatedOnce
  <1> QED
    BY <1>1, <1>2, <1>3, OnceStep DEF Next, Arrive

(* However many first logins race, at most one announces that it created   *)
(* the user (login_with_google over the UNIQUE email).                     *)
THEOREM OneCreator == Spec => []UserCreatedOnce
  <1>1. Init => UserCreatedOnce
    BY DEF Init, UserCreatedOnce
  <1> QED
    BY <1>1, SessionsInvariant, OnceNext, PTL DEF Spec

-----------------------------------------------------------------------------
(* Saves that nobody overtakes. *)

(* A session whose logout has been decided has no successor. *)
Ended(e) == e.type = "logged_out" => \A s \in Sid : parent[s] # e.sid

(* What a request is about to announce is as final as what was announced.  *)
FreshInv ==
    /\ \A o \in ops : o.reply = "reused" => o.pc = "done"
    /\ \A o \in ops : \A e \in o.events : Ended(e)
    /\ ReuseClosesEverySession
    /\ SingleSuccessor
    /\ LogoutEndsSession

(* An announced logout closed its session, so no fresh save rotates it.    *)
LEMMA EndedStays ==
    ASSUME SInv, NEW e, Backed(e), Ended(e),
           NEW new \in Sid \union {None}, NEW from \in Sid \union {None},
           from \in Sid => status[from] = "active",
           \A s \in Sid : parent'[s] = IF s = new THEN from ELSE parent[s]
    PROVE  Ended(e)'
  <1> SUFFICES ASSUME e.type = "logged_out", NEW s \in Sid
               PROVE  parent'[s] # e.sid
    BY DEF Ended
  <1>1. e.sid \in Sid /\ status[e.sid] = "inactive"
    BY DEF Backed
  <1>2. parent[s] # e.sid
    BY DEF Ended
  <1>3. from # e.sid
    BY <1>1, SessionConstants
  <1> QED
    BY <1>2, <1>3

(* The rows after a fresh save: no second successor, and nothing rotated   *)
(* from a session whose logout is decided.                                 *)
LEMMA FreshSave ==
    ASSUME SInv, FreshInv, NEW o \in ops, o.snap = status,
           NEW closed \in SUBSET Sid, NEW new \in Sid \union {None},
           NEW from \in closed \union {None}, NEW o2,
           \A s \in closed : o.snap[s] = "active",
           new \in Sid => status[new] = "absent",
           new = None => from = None,
           SaveAggregate(o, closed, new, from, o2)
    PROVE  /\ SingleSuccessor'
           /\ LogoutEndsSession'
           /\ \A p \in ops : \A e \in p.events : Ended(e)'
           /\ \A s \in closed, t \in Sid : from = None => parent'[t] # s
  <1>1. \A s \in Sid : parent'[s] = IF s = new THEN from ELSE parent[s]
    <2>1. parent' = IF new = None THEN parent ELSE [parent EXCEPT ![new] = from]
      BY DEF SaveAggregate
    <2>2. parent \in [Sid -> Sid \union {None}]
      BY DEF SInv, TypeOK
    <2> QED
      BY <2>1, <2>2, SessionConstants
  <1>2. \A s \in closed, t \in Sid : parent[t] # s
    <2> SUFFICES ASSUME NEW s \in closed, NEW t \in Sid, parent[t] = s
                 PROVE  FALSE
      OBVIOUS
    <2>1. s \in Sid /\ s # None /\ status[s] = "active"
      BY SessionConstants
    <2>2. status[parent[t]] = "inactive"
      BY <2>1 DEF SInv, PredecessorClosed
    <2> QED
      BY <2>1, <2>2
  <1>3. from \in Sid \union {None} /\ (from \in Sid => status[from] = "active")
    BY SessionConstants
  <1>4. ASSUME NEW s \in Sid, NEW t \in Sid, parent'[s] # None, parent'[s] = parent'[t]
        PROVE  s = t
    <2>1. CASE s # new /\ t # new
      BY <1>1, <1>4, <2>1 DEF FreshInv, SingleSuccessor
    <2>2. CASE s = new /\ t # new
      BY <1>1, <1>2, <1>4, <2>2
    <2>3. CASE s # new /\ t = new
      BY <1>1, <1>2, <1>4, <2>3
    <2> QED
      BY <2>1, <2>2, <2>3
  <1>5. SingleSuccessor'
    BY <1>4 DEF SingleSuccessor
  <1>6. ASSUME NEW e \in published
        PROVE  Ended(e)'
    <2>1. Backed(e) /\ Ended(e)
      BY DEF SInv, PublishedIsBacked, FreshInv, LogoutEndsSession, Ended
    <2> QED
      BY <1>1, <1>3, <2>1, EndedStays
  <1>7. LogoutEndsSession'
    <2>1. published' = published
      BY DEF SaveAggregate
    <2> QED
      BY <1>6, <2>1 DEF LogoutEndsSession, Ended
  <1>8. ASSUME NEW p \in ops, NEW e \in p.events
        PROVE  Ended(e)'
    <2>1. Backed(e) /\ Ended(e)
      BY DEF SInv, OpInv, FreshInv
    <2> QED
      BY <1>1, <1>3, <2>1, EndedStays
  <1>9. \A s \in closed, t \in Sid : from = None => parent'[t] # s
    BY <1>1, <1>2, SessionConstants
  <1> QED
    BY <1>5, <1>7, <1>8, <1>9

(* A step that puts one request in the place of another, in order. *)
LEMMA FreshBecomes ==
    ASSUME FreshInv, NEW o \in ops, NEW o2, ops' = (ops \ {o}) \union {o2},
           \A p \in ops : \A e \in p.events : Ended(e)',
           \A e \in o2.events : Ended(e)',
           o2.reply = "reused" => o2.pc = "done" /\ \A s \in Sid : o2.snap[s] # "active",
           SingleSuccessor', LogoutEndsSession'
    PROVE  FreshInv'
  <1>1. \A p \in ops' : p.reply = "reused" => p.pc = "done"
    BY DEF FreshInv
  <1>2. \A p \in ops' : \A e \in p.events : Ended(e)'
    OBVIOUS
  <1>3. ReuseClosesEverySession'
    BY DEF FreshInv, ReuseClosesEverySession
  <1> QED
    BY <1>1, <1>2, <1>3 DEF FreshInv

(* An answer leaves the request in order. *)
LEMMA FreshReplies ==
    ASSUME SInv, FreshInv, NEW o \in ops, NEW r \in Replies, Become(o, Answered(o, r, NoRows)),
           \A p \in ops : \A e \in p.events : Ended(e)',
           SingleSuccessor', LogoutEndsSession'
    PROVE  FreshInv'
  <1> DEFINE a == Answered(o, r, NoRows)
  <1>1. a.pc = "done" /\ a.snap = NoRows /\ a.events = {}
    BY DEF Answered, SInv, TypeOK, Operation
  <1>2. ops' = (ops \ {o}) \union {a}
    BY DEF Become
  <1> HIDE DEF a
  <1>3. \A s \in Sid : a.snap[s] # "active"
    BY <1>1 DEF NoRows
  <1>4. \A e \in a.events : Ended(e)'
    BY <1>1
  <1> QED
    BY <1>1, <1>2, <1>3, <1>4, FreshBecomes

(* Saving and going on to publish, or reporting an error. *)
LEMMA FreshPublishes ==
    ASSUME SInv, FreshInv, NEW o \in ops, o.snap = status,
           NEW closed \in SUBSET Sid, NEW new \in Sid \union {None},
           NEW from \in closed \union {None}, NEW es \in SUBSET Event,
           \A s \in closed : o.snap[s] = "active",
           new \in Sid => status[new] = "absent",
           new = None => from = None,
           SaveAggregate(o, closed, new, from, ToPublish(o, es)),
           \A e \in es : Ended(e)'
    PROVE  FreshInv'
  <1>1. /\ SingleSuccessor' /\ LogoutEndsSession'
        /\ \A p \in ops : \A e \in p.events : Ended(e)'
    BY Zenon, FreshSave
  <1>2. CASE Become(o, Answered(o, "error", NoRows))
    BY <1>1, <1>2, FreshReplies DEF Replies
  <1>3. CASE Become(o, ToPublish(o, es))
    <2> DEFINE b == ToPublish(o, es)
    <2>0. o \in Operation
      BY DEF SInv, TypeOK
    <2>1. b.pc = "publish" /\ b.reply = "ok" /\ b.events = es
      <3> DEFINE a == Answered(o, "ok", NoRows)
      <3>1. a \in Operation /\ a.reply = "ok"
        <4>1. a \in Operation
          BY <2>0, AnsweredType, NoRowsType DEF Replies
        <4>2. a.reply = "ok"
          BY <2>0 DEF Answered, Operation
        <4> QED
          BY <4>1, <4>2
      <3> HIDE DEF a
      <3> DEFINE c == [a EXCEPT !.pc = "publish", !.events = es]
      <3>2. c.pc = "publish" /\ c.reply = "ok" /\ c.events = es
        BY <3>1 DEF Operation
      <3> HIDE DEF c
      <3>3. b = c
        BY DEF ToPublish, a, c
      <3> QED
        BY <3>2, <3>3
    <2>2. ops' = (ops \ {o}) \union {b}
      BY <1>3 DEF Become
    <2> HIDE DEF b
    <2>3. \A e \in b.events : Ended(e)'
      BY <2>1
    <2> QED
      BY <1>1, <2>1, <2>2, <2>3, FreshBecomes
  <1> QED
    BY <1>2, <1>3 DEF SaveAggregate, Reply

(* A fresh save keeps the invariant, whatever else is in flight. *)
LEMMA FreshSaves ==
    ASSUME SInv, FreshInv, NEW o \in ops, o.snap = status, Save(o)
    PROVE  FreshInv'
  <1>0. o \in Operation
    BY DEF SInv, TypeOK
  <1>1. CASE Login(o)
    <2> DEFINE es(n) == {[type |-> "logged_in", sid |-> n]} \union IF o.isnew THEN {Created} ELSE {}
    <2>1. PICK n \in Sid : status[n] = "absent" /\ SaveAggregate(o, {}, n, None, ToPublish(o, es(n)))
      BY <1>1 DEF Login
    <2>2. es(n) \in SUBSET Event
      BY DEF Event, Created
    <2>3. ASSUME NEW e \in es(n)
          PROVE  Ended(e)'
      BY DEF Ended, Created
    <2> HIDE DEF es
    <2> QED
      BY <2>1, <2>2, <2>3, FreshPublishes
  <1>2. CASE Logout(o)
    <2> DEFINE es == {[type |-> "logged_out", sid |-> o.target]}
    <2>0. o.target \in Sid /\ o.snap[o.target] = "active"
      BY <1>2 DEF Logout, LiveIn
    <2>1. SaveAggregate(o, {o.target}, None, None, ToPublish(o, es))
      BY <1>2 DEF Logout
    <2>2. es \in SUBSET Event
      BY <2>0 DEF Event
    <2>3. \A t \in Sid : parent'[t] # o.target
      BY <2>0, <2>1, FreshSave, SessionConstants
    <2>4. ASSUME NEW e \in es
          PROVE  Ended(e)'
      BY <2>3 DEF Ended
    <2> HIDE DEF es
    <2> QED
      BY <2>0, <2>1, <2>2, <2>4, FreshPublishes, SessionConstants
  <1>3. CASE Rotate(o)
    <2> DEFINE es(n) == {[type |-> "refreshed", sid |-> n]}
    <2>0. o.target \in Sid /\ o.snap[o.target] = "active"
      BY <1>3 DEF Rotate, LiveIn
    <2>1. PICK n \in Sid : status[n] = "absent"
                           /\ SaveAggregate(o, {o.target}, n, o.target, ToPublish(o, es(n)))
      BY Zenon, <1>3 DEF Rotate
    <2>2. es(n) \in SUBSET Event
      BY DEF Event
    <2>3. ASSUME NEW e \in es(n)
          PROVE  Ended(e)'
      BY DEF Ended
    <2>4. n # None
      BY SessionConstants
    <2> HIDE DEF es
    <2> QED
      BY <2>0, <2>1, <2>2, <2>3, <2>4, FreshPublishes
  <1>4. CASE ReuseDetected(o)
    <2> DEFINE all == {s \in Sid : o.snap[s] = "active"}
    <2>1. PICK x : x = Answered(o, "reused", Saved(o, all, None))
      OBVIOUS
    <2>2. SaveAggregate(o, all, None, None, x)
      BY <1>4, <2>1 DEF ReuseDetected
    <2>3. all \in SUBSET Sid /\ \A s \in all : o.snap[s] = "active"
      OBVIOUS
    <2>4. x.pc = "done" /\ x.events = {} /\ x.snap = Saved(o, all, None)
      BY <1>0, <2>1 DEF Answered, Operation
    <2>5. \A s \in Sid : x.snap[s] # "active"
      BY <2>4, SessionConstants DEF Saved, Invalidated
    <2> HIDE DEF all
    <2>6. /\ SingleSuccessor' /\ LogoutEndsSession'
          /\ \A p \in ops : \A e \in p.events : Ended(e)'
      BY <2>2, <2>3, FreshSave, SessionConstants
    <2>7. CASE Become(o, x)
      <3>1. ops' = (ops \ {o}) \union {x}
        BY <2>7 DEF Become
      <3>2. \A e \in x.events : Ended(e)'
        BY <2>4
      <3> QED
        BY <2>4, <2>5, <2>6, <3>1, <3>2, FreshBecomes
    <2>8. CASE Become(o, Answered(o, "error", NoRows))
      BY <2>6, <2>8, FreshReplies DEF Replies
    <2> QED
      BY <2>2, <2>7, <2>8 DEF SaveAggregate, Reply
  <1> QED
    BY <1>1, <1>2, <1>3, <1>4 DEF Save

(* Where no row changes, what was decided stays decided. *)
LEMMA FreshSame ==
    ASSUME FreshInv, UNCHANGED <<parent, published>>
    PROVE  /\ SingleSuccessor' /\ LogoutEndsSession'
           /\ \A p \in ops : \A e \in p.events : Ended(e)'
  <1>1. \A e : Ended(e)' <=> Ended(e)
    BY DEF Ended
  <1> QED
    BY <1>1 DEF FreshInv, SingleSuccessor, LogoutEndsSession

(* The steps of a request that save nothing. *)
LEMMA FreshOthers ==
    ASSUME SInv, FreshInv, NEW o \in ops, OtherStep(o)
    PROVE  FreshInv'
  <1>0. o \in Operation
    BY DEF SInv, TypeOK
  <1>a. ASSUME NEW r \in Replies, UNCHANGED <<parent, published>>,
               Become(o, Answered(o, r, NoRows))
        PROVE  FreshInv'
    BY <1>a, FreshSame, FreshReplies
  <1>b. ASSUME NEW x, UNCHANGED <<parent, published>>, Become(o, x), x.events = o.events,
               x.reply = o.reply, o.pc # "done"
        PROVE  FreshInv'
    <2>1. \A e \in x.events : Ended(e)'
      BY <1>b, FreshSame
    <2>2. x.reply # "reused"
      BY <1>b DEF FreshInv
    <2>3. ops' = (ops \ {o}) \union {x}
      BY <1>b DEF Become
    <2> QED
      BY <1>b, <2>1, <2>2, <2>3, FreshSame, FreshBecomes
  <1>1. CASE Create(o)
    <2>1. PICK x : x = [o EXCEPT !.pc = "reload", !.isnew = TRUE]
      OBVIOUS
    <2>2. x.events = o.events /\ x.reply = o.reply
      BY <1>0, <2>1 DEF Operation
    <2>3. UNCHANGED <<parent, published>> /\ o.pc # "done"
          /\ (Become(o, x) \/ Become(o, Answered(o, "error", NoRows)))
      BY <1>1, <2>1 DEF Create, Reply, rows
    <2> QED
      BY <1>a, <1>b, <2>2, <2>3 DEF Replies
  <1>2. CASE Reload(o)
    <2>1. PICK x : x = [o EXCEPT !.pc = "decide", !.snap = status]
      OBVIOUS
    <2>2. x.events = o.events /\ x.reply = o.reply
      BY <1>0, <2>1 DEF Operation
    <2>3. UNCHANGED <<parent, published>> /\ Become(o, x) /\ o.pc # "done"
      BY <1>2, <2>1 DEF Reload, rows
    <2> QED
      BY <1>b, <2>2, <2>3
  <1>3. CASE Refuse(o) \/ DatabaseError(o)
    <2>1. UNCHANGED <<parent, published>>
      BY <1>3 DEF Refuse, DatabaseError, rows
    <2>2. \E r \in Replies : Become(o, Answered(o, r, NoRows))
      BY <1>3 DEF Refuse, Refused, DatabaseError, Reply, Replies
    <2> QED
      BY <1>a, <2>1, <2>2
  <1>4. CASE Publish(o)
    <2>1. UNCHANGED parent /\ published' = published \union o.events
          /\ Become(o, Answered(o, "ok", NoRows))
      BY <1>4 DEF Publish, Reply, rows
    <2>2. \A e : Ended(e)' <=> Ended(e)
      BY <2>1 DEF Ended
    <2>3. \A p \in ops : \A e \in p.events : Ended(e)'
      BY <2>2 DEF FreshInv
    <2>4. LogoutEndsSession'
      BY <2>1 DEF FreshInv, LogoutEndsSession, Ended
    <2>5. SingleSuccessor'
      BY <2>1 DEF FreshInv, SingleSuccessor
    <2> QED
      BY <2>1, <2>3, <2>4, <2>5, FreshReplies DEF Replies
  <1>5. CASE Leave(o)
    <2>1. ops' \subseteq ops /\ UNCHANGED <<parent, published>>
      BY <1>5 DEF Leave, rows
    <2> QED
      BY <2>1, FreshSame DEF FreshInv, ReuseClosesEverySession
  <1> QED
    BY <1>1, <1>2, <1>3, <1>4, <1>5 DEF OtherStep

(* A request that arrives has nothing to announce. *)
LEMMA FreshArrives ==
    ASSUME SInv, FreshInv, Arrive
    PROVE  FreshInv'
  <1>a. ASSUME NEW x, ops' = ops \union {x}, x.events = {}, x.reply = "none",
               UNCHANGED <<parent, published>>
        PROVE  FreshInv'
    <2>1. \A p \in ops' : p.reply = "reused" => p \in ops
      BY <1>a
    <2>2. \A p \in ops' : p.events = {} \/ p \in ops
      BY <1>a
    <2>3. \A p \in ops' : \A e \in p.events : Ended(e)'
      BY <1>a, <2>2, FreshSame
    <2>4. ReuseClosesEverySession'
      BY <2>1 DEF FreshInv, ReuseClosesEverySession
    <2> QED
      BY <1>a, <2>1, <2>3, <2>4, FreshSame DEF FreshInv
  <1>b. ASSUME NEW id, NEW k, NEW t, NEW pc, ops' = ops \union {NewOp(id, k, t, pc)},
               UNCHANGED <<parent, published>>
        PROVE  FreshInv'
    <2>1. PICK x : x = NewOp(id, k, t, pc)
      OBVIOUS
    <2>2. x.events = {} /\ x.reply = "none"
      BY <2>1 DEF NewOp
    <2> QED
      BY <1>a, <1>b, <2>1, <2>2
  <1>1. ASSUME NEW id \in Op, NEW k \in {"password", "google", "logout", "refresh"},
               NEW t \in Sid \union {None}, Load(id, k, t)
        PROVE  FreshInv'
    BY <1>1, <1>b DEF Load, rows
  <1>2. ASSUME NEW id \in Op, LoadNobody(id)
        PROVE  FreshInv'
    BY <1>2, <1>b DEF LoadNobody, rows
  <1> QED
    BY <1>1, <1>2 DEF Arrive

(* Every step keeps the invariant. *)
LEMMA FreshNextInv ==
    ASSUME SInv, FreshInv, [FreshNext]_vars
    PROVE  FreshInv'
  <1>1. CASE Tick \/ UNCHANGED vars
    <2>1. UNCHANGED <<parent, published, ops>>
      BY <1>1 DEF Tick, vars, rows
    <2> QED
      BY <2>1, FreshSame DEF FreshInv, ReuseClosesEverySession
  <1> QED
    BY <1>1, FreshSaves, FreshOthers, FreshArrives DEF FreshNext

(* These are behaviours of the whole specification. *)
LEMMA FreshIsNext == [FreshNext]_vars => [Next]_vars
  BY DEF FreshNext, Next, Step

(* The invariant holds throughout. *)
THEOREM FreshInvariant == FreshSpec => [](SInv /\ FreshInv)
  <1>1. Init => FreshInv
    BY SessionConstants
       DEF Init, FreshInv, ReuseClosesEverySession, SingleSuccessor, LogoutEndsSession
  <1>2. SInv /\ FreshInv /\ [FreshNext]_vars => FreshInv'
    BY FreshNextInv
  <1> QED
    BY <1>1, <1>2, InvInit, InvNext, FreshIsNext, PTL DEF FreshSpec

(* Any number of requests at once: as long as no save is overtaken, a      *)
(* detected reuse leaves no session active (refresh_token,                 *)
(* invalidate_all_active_sessions).                                        *)
THEOREM FreshReuse == FreshSpec => []ReuseClosesEverySession
  <1>1. FreshInv => ReuseClosesEverySession
    BY DEF FreshInv
  <1> QED
    BY <1>1, FreshInvariant, PTL

(* As long as no save is overtaken, a session is rotated at most once      *)
(* (rotate_session).                                                       *)
THEOREM FreshRotation == FreshSpec => []SingleSuccessor
  <1>1. FreshInv => SingleSuccessor
    BY DEF FreshInv
  <1> QED
    BY <1>1, FreshInvariant, PTL

(* As long as no save is overtaken, an announced logout leaves no          *)
(* successor (logout).                                                     *)
THEOREM FreshLogout == FreshSpec => []LogoutEndsSession
  <1>1. FreshInv => LogoutEndsSession
    BY DEF FreshInv
  <1> QED
    BY <1>1, FreshInvariant, PTL

-----------------------------------------------------------------------------
(* The cap. *)

CapInv == IsFiniteSet(LiveIn(status)) /\ SessionCap

(* Live sessions may expire or be closed. *)
LEMMA CapShrinks ==
    ASSUME CapInv, LiveIn(status)' \subseteq LiveIn(status)
    PROVE  CapInv'
  <1>1. IsFiniteSet(LiveIn(status)')
        /\ Cardinality(LiveIn(status)') <= Cardinality(LiveIn(status))
    BY FS_Subset DEF CapInv
  <1>2. Cardinality(LiveIn(status)') \in Nat /\ Cardinality(LiveIn(status)) \in Nat
    BY <1>1, FS_CardinalityType DEF CapInv
  <1> QED
    BY <1>1, <1>2, SessionConstants DEF CapInv, SessionCap

(* One live session may be added while there are fewer than MaxActive. *)
LEMMA CapGrows ==
    ASSUME CapInv, NEW n, LiveIn(status)' \subseteq LiveIn(status) \union {n},
           Cardinality(LiveIn(status)) < MaxActive
    PROVE  CapInv'
  <1> DEFINE L == LiveIn(status)
             M == LiveIn(status)'
  <1>1. IsFiniteSet(L \union {n}) /\ Cardinality(L) \in Nat
        /\ Cardinality(L \union {n}) <= Cardinality(L) + 1
    <2>1. IsFiniteSet(L)
      BY DEF CapInv
    <2> HIDE DEF L
    <2>2. Cardinality(L) \in Nat
      BY <2>1, FS_CardinalityType
    <2>3. /\ IsFiniteSet(L \union {n})
          /\ Cardinality(L \union {n})
               = IF n \in L THEN Cardinality(L) ELSE Cardinality(L) + 1
      BY <2>1, FS_AddElement
    <2> QED
      BY <2>2, <2>3
  <1>2. IsFiniteSet(M) /\ Cardinality(M) <= Cardinality(L \union {n})
    BY <1>1, FS_Subset
  <1>3. Cardinality(M) \in Nat /\ Cardinality(L \union {n}) \in Nat
    BY <1>1, <1>2, FS_CardinalityType
  <1>4. Cardinality(M) <= MaxActive
    BY <1>1, <1>2, <1>3, SessionConstants
  <1> QED
    BY <1>2, <1>4 DEF CapInv, SessionCap

(* One live session may be exchanged for another. *)
LEMMA CapExchanges ==
    ASSUME CapInv, NEW n, NEW t \in LiveIn(status),
           LiveIn(status)' \subseteq (LiveIn(status) \ {t}) \union {n}
    PROVE  CapInv'
  <1> DEFINE L == LiveIn(status)
             K == LiveIn(status) \ {t}
             M == LiveIn(status)'
  <1>1. IsFiniteSet(K) /\ Cardinality(K) = Cardinality(L) - 1 /\ Cardinality(L) \in Nat
    BY FS_RemoveElement, FS_CardinalityType DEF CapInv
  <1>2. IsFiniteSet(K \union {n}) /\ Cardinality(K) \in Nat
        /\ Cardinality(K \union {n}) <= Cardinality(K) + 1
    <2> HIDE DEF K
    <2>2. Cardinality(K) \in Nat
      BY <1>1, FS_CardinalityType
    <2>3. /\ IsFiniteSet(K \union {n})
          /\ Cardinality(K \union {n})
               = IF n \in K THEN Cardinality(K) ELSE Cardinality(K) + 1
      BY <1>1, FS_AddElement
    <2> QED
      BY <2>2, <2>3
  <1>3. IsFiniteSet(M) /\ Cardinality(M) <= Cardinality(K \union {n})
    BY <1>2, FS_Subset
  <1>4. Cardinality(M) \in Nat /\ Cardinality(K \union {n}) \in Nat
    BY <1>2, <1>3, FS_CardinalityType
  <1>5. Cardinality(L) <= MaxActive
    BY DEF CapInv, SessionCap
  <1>6. Cardinality(M) <= MaxActive
    BY <1>1, <1>2, <1>3, <1>4, <1>5, SessionConstants
  <1> QED
    BY <1>3, <1>6 DEF CapInv, SessionCap

(* The live sessions a save leaves. *)
LEMMA SavedLive ==
    ASSUME SInv, NEW o \in ops, NEW closed \in SUBSET Sid, NEW new \in Sid \union {None},
           NEW from, NEW o2, SaveAggregate(o, closed, new, from, o2),
           new \in Sid => status[new] = "absent",
           \A s \in closed : o.snap[s] = "active"
    PROVE  LiveIn(status)' \subseteq (LiveIn(status) \ closed) \union {new}
  <1>1. \A s \in Sid : s # new => expires'[s] = expires[s]
    BY SessionConstants DEF SaveAggregate, SInv, TypeOK
  <1>2. \A s \in Sid : s # new /\ status'[s] = "active" => status[s] = "active" /\ s \notin closed
    BY DEF SaveAggregate, Saved, Invalidated
  <1>3. now' = now
    BY DEF SaveAggregate
  <1> QED
    BY <1>1, <1>2, <1>3 DEF LiveIn, Unexpired

(* Every step keeps the cap, if saves are fresh. *)
LEMMA CapNext ==
    ASSUME SInv, CapInv, [FreshNext]_vars
    PROVE  CapInv'
  <1>a. ASSUME UNCHANGED <<status, expires, now>>
        PROVE  CapInv'
    BY <1>a DEF CapInv, SessionCap, LiveIn, Unexpired
  <1>1. ASSUME NEW o \in ops, o.snap = status, Login(o)
        PROVE  CapInv'
    <2>1. PICK n \in Sid : status[n] = "absent"
             /\ \E x : SaveAggregate(o, {}, n, None, x)
      BY <1>1 DEF Login
    <2>2. LiveIn(status)' \subseteq LiveIn(status) \union {n}
      BY <2>1, SavedLive
    <2>3. Cardinality(LiveIn(status)) < MaxActive
      BY <1>1 DEF Login
    <2> QED
      BY <2>2, <2>3, CapGrows
  <1>2. ASSUME NEW o \in ops, o.snap = status, Rotate(o)
        PROVE  CapInv'
    <2>0. o.target \in LiveIn(status) /\ o.target \in Sid /\ o.snap[o.target] = "active"
      BY <1>2 DEF Rotate, LiveIn
    <2>1. PICK n \in Sid : status[n] = "absent"
             /\ \E x : SaveAggregate(o, {o.target}, n, o.target, x)
      BY <1>2 DEF Rotate
    <2>2. LiveIn(status)' \subseteq (LiveIn(status) \ {o.target}) \union {n}
      BY <2>0, <2>1, SavedLive
    <2> QED
      BY <2>0, <2>2, CapExchanges
  <1>3. ASSUME NEW o \in ops, Logout(o) \/ ReuseDetected(o)
        PROVE  CapInv'
    <2>1. PICK closed \in SUBSET Sid :
             /\ \A s \in closed : o.snap[s] = "active"
             /\ \E x : SaveAggregate(o, closed, None, None, x)
      <3>1. CASE Logout(o)
        BY <3>1 DEF Logout, LiveIn
      <3>2. CASE ReuseDetected(o)
        BY <3>2 DEF ReuseDetected
      <3> QED
        BY <1>3, <3>1, <3>2
    <2>2. LiveIn(status)' \subseteq (LiveIn(status) \ closed) \union {None}
      BY <2>1, SavedLive, SessionConstants
    <2>3. None \notin LiveIn(status)'
      BY SessionConstants DEF LiveIn
    <2> QED
      BY <2>2, <2>3, CapShrinks
  <1>4. CASE Tick
    <2>1. LiveIn(status)' \subseteq LiveIn(status)
      BY <1>4 DEF Tick, LiveIn, Unexpired, rows, SInv, TypeOK
    <2> QED
      BY <2>1, CapShrinks
  <1>5. ASSUME NEW o \in ops,
               Create(o) \/ Reload(o) \/ Refuse(o) \/ DatabaseError(o) \/ Publish(o) \/ Leave(o)
        PROVE  CapInv'
    BY <1>5, <1>a DEF Create, Reload, Refuse, DatabaseError, Publish, Leave, rows
  <1>6. CASE UNCHANGED vars
    BY <1>6, <1>a DEF vars, rows
  <1>7. ASSUME NEW id \in Op, LoadNobody(id)
        PROVE  CapInv'
    BY <1>7, <1>a DEF LoadNobody, rows
  <1>8. ASSUME NEW id \in Op, NEW k \in {"password", "google", "logout", "refresh"},
               NEW t \in Sid \union {None}, Load(id, k, t)
        PROVE  CapInv'
    BY <1>8, <1>a DEF Load, rows
  <1> QED
    BY <1>1, <1>2, <1>3, <1>4, <1>5, <1>6, <1>7, <1>8 DEF FreshNext, Arrive, Save, OtherStep

(* As long as no save is overtaken, no more than MAX_ACTIVE_SESSIONS       *)
(* sessions are live at any time (add_session, rotate_session).            *)
THEOREM FreshCap == FreshSpec => []SessionCap
  <1>1. Init => CapInv
    <2> SUFFICES ASSUME Init PROVE CapInv
      OBVIOUS
    <2>1. LiveIn(status) = {}
      BY DEF Init, NoRows, LiveIn
    <2> QED
      BY <2>1, FS_EmptySet, SessionConstants DEF CapInv, SessionCap
  <1>2. SInv /\ CapInv /\ [FreshNext]_vars => CapInv'
    BY CapNext
  <1>3. CapInv => SessionCap
    BY DEF CapInv
  <1> QED
    BY <1>1, <1>2, <1>3, FreshInvariant, PTL DEF FreshSpec

-----------------------------------------------------------------------------
(* One request at a time. *)

(* At most one request is in flight. *)
OneAtATime == \A a, b \in Op : a = b

(* The request in flight decides on what the table holds. *)
SerialInv ==
    /\ \A o1, o2 \in ops : o1 = o2
    /\ \A o \in ops : o.pc = "decide" => o.snap = status

(* With nobody else there to save, a request sees the rows it loaded. *)
LEMMA SerialNext ==
    ASSUME OneAtATime, SInv, SerialInv, [Next]_vars
    PROVE  SerialInv'
  <1>a. ASSUME NEW o \in ops, NEW x, Become(o, x), x.pc = "decide" => x.snap = status'
        PROVE  SerialInv'
    <2>1. ops' = {x}
      BY <1>a DEF SerialInv, Become
    <2> QED
      BY <1>a, <2>1 DEF SerialInv
  <1>b. ASSUME NEW o \in ops, NEW r \in Replies, NEW table, Become(o, Answered(o, r, table))
        PROVE  SerialInv'
    <2>1. PICK x : x = Answered(o, r, table)
      OBVIOUS
    <2>2. x.pc = "done"
      BY <2>1 DEF Answered, SInv, TypeOK, Operation
    <2> QED
      BY <1>a, <1>b, <2>1, <2>2
  <1>c. ASSUME NEW id \in Op, NEW k, NEW t, NEW pc, Free(id),
               ops' = ops \union {NewOp(id, k, t, pc)}, status' = status
        PROVE  SerialInv'
    <2>1. ops = {}
      BY <1>c DEF Free, OneAtATime, SInv, TypeOK, Operation
    <2>2. PICK x : x = NewOp(id, k, t, pc)
      OBVIOUS
    <2>3. x.snap = status
      BY <2>2 DEF NewOp
    <2> QED
      BY <1>c, <2>1, <2>2, <2>3 DEF SerialInv
  <1>d. ASSUME NEW o \in ops, NEW es, Become(o, ToPublish(o, es))
        PROVE  SerialInv'
    <2>1. PICK a : a = Answered(o, "ok", NoRows)
      OBVIOUS
    <2>2. a \in Operation
      BY <2>1, AnsweredType, NoRowsType DEF Replies, SInv, TypeOK
    <2>3. PICK x : x = [a EXCEPT !.pc = "publish", !.events = es]
      OBVIOUS
    <2>4. x.pc = "publish"
      BY <2>2, <2>3 DEF Operation
    <2>5. x = ToPublish(o, es)
      BY <2>1, <2>3 DEF ToPublish
    <2> QED
      BY <1>a, <1>d, <2>4, <2>5
  <1>1. ASSUME NEW o \in ops, Save(o)
        PROVE  SerialInv'
    <2>1. CASE \E r \in Replies : \E table : Become(o, Answered(o, r, table))
      BY <1>b, <2>1
    <2>2. CASE \E es : Become(o, ToPublish(o, es))
      BY <1>d, <2>2
    <2> QED
      BY Zenon, <1>1, <2>1, <2>2
      DEF Save, Login, Logout, Rotate, ReuseDetected, SaveAggregate, Reply, Replies
  <1>2. ASSUME NEW o \in ops, OtherStep(o)
        PROVE  SerialInv'
    <2>1. CASE \E r \in Replies : \E table : Become(o, Answered(o, r, table))
      BY <1>b, <2>1
    <2>2. CASE Become(o, [o EXCEPT !.pc = "reload", !.isnew = TRUE])
      <3>1. PICK x : x = [o EXCEPT !.pc = "reload", !.isnew = TRUE]
        OBVIOUS
      <3>2. x.pc = "reload"
        BY <3>1 DEF SInv, TypeOK, Operation
      <3> QED
        BY Zenon, <1>a, <2>2, <3>1, <3>2
    <2>3. CASE Reload(o)
      <3>1. PICK x : x = [o EXCEPT !.pc = "decide", !.snap = status]
        OBVIOUS
      <3>2. x.snap = status
        BY <3>1 DEF SInv, TypeOK, Operation
      <3>3. Become(o, x) /\ status' = status
        BY <2>3, <3>1 DEF Reload, rows
      <3> QED
        BY <1>a, <3>2, <3>3
    <2>4. CASE Leave(o)
      BY <2>4 DEF Leave, SerialInv
    <2> QED
      BY <1>2, <2>1, <2>2, <2>3, <2>4
      DEF OtherStep, Create, Refuse, Refused, DatabaseError, Publish, Reply, Replies
  <1>3. ASSUME Arrive
        PROVE  SerialInv'
    BY <1>3, <1>c DEF Arrive, Load, LoadNobody, rows
  <1>4. CASE Tick \/ UNCHANGED vars
    BY <1>4 DEF Tick, vars, rows, SerialInv
  <1> QED
    BY <1>1, <1>2, <1>3, <1>4 DEF Next, Step

(* Requests that come one at a time overtake nobody. *)
THEOREM OneAtATimeIsFresh == ASSUME OneAtATime PROVE Spec => FreshSpec
  <1>1. Init => SerialInv
    BY DEF Init, SerialInv
  <1>2. SInv /\ SerialInv /\ [Next]_vars => SerialInv'
    BY SerialNext
  <1>3. ASSUME SerialInv, [Next]_vars
        PROVE  [FreshNext]_vars
    <2>1. ASSUME NEW o \in ops, Save(o)
          PROVE  o.snap = status
      BY <1>3, <2>1 DEF SerialInv, Save, Login, Logout, Rotate, ReuseDetected
    <2> QED
      BY <1>3, <2>1 DEF Next, FreshNext, Step
  <1>4. SerialInv /\ [Next]_vars => [FreshNext]_vars
    BY <1>3
  <1> QED
    BY <1>1, <1>2, <1>4, SessionsInvariant, PTL DEF Spec, FreshSpec
=============================================================================
