-------------------------- MODULE AdminRolesProofs --------------------------
(***************************************************************************)
(* Roles and answers of the admin endpoints, for any number of users and   *)
(* of requests in flight.                                                  *)
(***************************************************************************)
EXTENDS AdminRoles, TLAPS

(* The handler has found its caller to be an admin. *)
Checked == {"get_user", "role_for", "upsert"}

(* What holds of a request between any two of its statements. *)
Sound(q) ==
    /\ q.actor \in users
    /\ is_admin(q.actor) => q.was_admin
    /\ q.pc \in Checked => q.was_admin
    /\ q.pc \in Checked /\ q.op = "update" => q.actor # q.target /\ q.role \in Role
    /\ q.pc \in {"role_for", "upsert"} => q.target \in users
    /\ q.pc = "upsert" => q.op = "update" /\ ~q.written
    /\ q.written => role_for(q.target) \in q.had

AllSound == \A r \in Request : reqs[r] # Idle => Sound(reqs[r])

IInv ==
    /\ TypeOK
    /\ AllSound
    /\ RolesOfUsers
    /\ OnlyAdminsServed
    /\ AnswerIsLater

-----------------------------------------------------------------------------
(* A request that is at a statement is a request. *)
LEMMA AtStatement ==
    ASSUME TypeOK, NEW r \in Request, NEW pc, pc # "idle", reqs[r].pc = pc
    PROVE  reqs[r] \in Pending /\ reqs[r] # Idle
  BY DEF TypeOK, Idle

(* Everybody has a role. *)
LEMMA RoleType ==
    ASSUME TypeOK, NEW u \in User
    PROVE  role_for(u) \in Role
  BY DEF TypeOK, role_for, Role

(* A step that only moves one request on. *)
LEMMA MoveInv ==
    ASSUME IInv, NEW r \in Request, NEW q, q = Idle \/ (q \in Pending /\ Sound(q)),
           reqs' = [reqs EXCEPT ![r] = q], UNCHANGED <<users, roles>>,
           replied' \in Response \union {None}, OnlyAdminsServed', AnswerIsLater'
    PROVE  IInv'
  <1> USE DEF IInv
  <1>1. TypeOK'
    BY DEF TypeOK
  <1>2. \A p : Sound(p)' <=> Sound(p)
    BY DEF Sound, is_admin, role_for
  <1>3. AllSound'
    BY <1>2 DEF AllSound, TypeOK
  <1>4. RolesOfUsers'
    BY DEF RolesOfUsers
  <1> QED
    BY <1>1, <1>3, <1>4

(* The request goes on to its next statement. *)
LEMMA GotoInv ==
    ASSUME IInv, NEW r \in Request, reqs[r] # Idle,
           NEW pc \in {"actor_role", "get_user", "role_for", "upsert"}, Goto(r, pc),
           UNCHANGED <<users, roles>>,
           Sound([reqs[r] EXCEPT !.pc = pc])
    PROVE  IInv'
  <1> DEFINE q == [reqs[r] EXCEPT !.pc = pc]
  <1>1. reqs[r] \in Pending
    BY DEF IInv, TypeOK
  <1>2. q \in Pending
    BY <1>1 DEF Pending
  <1>3. reqs' = [reqs EXCEPT ![r] = q] /\ replied' = None
    BY DEF Goto
  <1> HIDE DEF q
  <1>4. OnlyAdminsServed' /\ AnswerIsLater'
    BY <1>3 DEF OnlyAdminsServed, AnswerIsLater
  <1>5. Sound(q)
    BY DEF q
  <1> QED
    BY Zenon, <1>2, <1>3, <1>4, <1>5, MoveInv

(* The request is answered. *)
LEMMA ReplyInv ==
    ASSUME IInv, NEW r \in Request, reqs[r] # Idle,
           NEW status \in {200, 400, 403, 404, 500}, NEW role \in Role \union {"none"},
           Reply(r, status, role), UNCHANGED <<users, roles>>,
           status \in {200, 400, 404} => reqs[r].was_admin,
           status = 200 /\ reqs[r].op = "update" => role \in reqs[r].had
    PROVE  IInv'
  <1> DEFINE a == [status |-> status, of |-> reqs[r], role |-> role]
  <1>1. reqs[r] \in Pending
    BY DEF IInv, TypeOK
  <1>2. a \in Response
    BY <1>1 DEF Response
  <1>3. reqs' = [reqs EXCEPT ![r] = Idle] /\ replied' = a
    BY DEF Reply
  <1>4. a.status = status /\ a.of = reqs[r] /\ a.role = role
    OBVIOUS
  <1> HIDE DEF a
  <1>5. OnlyAdminsServed' /\ AnswerIsLater'
    BY <1>3, <1>4 DEF OnlyAdminsServed, AnswerIsLater
  <1>6. replied' \in Response \union {None}
    BY <1>2, <1>3
  <1>7. PICK q : q = Idle
    OBVIOUS
  <1>8. reqs' = [reqs EXCEPT ![r] = q]
    BY <1>3, <1>7
  <1>9. q = Idle \/ (q \in Pending /\ Sound(q))
    BY <1>7
  <1>10. UNCHANGED <<users, roles>>
    OBVIOUS
  <1>11. IInv /\ r \in Request
    OBVIOUS
  <1> QED
    BY ONLY Zenon, <1>5, <1>6, <1>8, <1>9, <1>10, <1>11, MoveInv

-----------------------------------------------------------------------------
(* At the start there are no requests. *)
LEMMA InitInv == Init => IInv
  BY DEF Init, IInv, TypeOK, AllSound, RolesOfUsers, OnlyAdminsServed, AnswerIsLater, Role

(* A request arrives. *)
LEMMA BeginInv ==
    ASSUME IInv, NEW r \in Request, Begin(r)
    PROVE  IInv'
  <1>1. PICK op \in {"get", "update"}, actor \in users, target \in User, role \in Role \union {"other"} :
            reqs' = [reqs EXCEPT ![r] =
                [pc |-> "is_admin", op |-> op, actor |-> actor, target |-> target, role |-> role,
                 written |-> FALSE, was_admin |-> is_admin(actor), had |-> {}]]
    BY Zenon DEF Begin
  <1> DEFINE q == [pc |-> "is_admin", op |-> op, actor |-> actor, target |-> target, role |-> role,
                   written |-> FALSE, was_admin |-> is_admin(actor), had |-> {}]
  <1>2. actor \in User /\ is_admin(actor) \in BOOLEAN
    BY DEF IInv, TypeOK, is_admin
  <1>3. q \in Pending
    BY <1>2 DEF Pending
  <1>4. Sound(q)
    BY DEF Sound, Checked
  <1>5. reqs' = [reqs EXCEPT ![r] = q]
    BY <1>1
  <1> HIDE DEF q
  <1>6. replied' = None /\ UNCHANGED <<users, roles>>
    BY DEF Begin
  <1>7. OnlyAdminsServed' /\ AnswerIsLater'
    BY <1>6 DEF OnlyAdminsServed, AnswerIsLater
  <1> QED
    BY Zenon, <1>3, <1>4, <1>5, <1>6, <1>7, MoveInv

(* is_admin, its first statement. *)
LEMMA ActorSummaryInv ==
    ASSUME IInv, NEW r \in Request, ActorSummary(r)
    PROVE  IInv'
  <1>1. reqs[r].pc = "is_admin" /\ UNCHANGED <<users, roles>>
    BY DEF ActorSummary, Read
  <1>2. reqs[r] # Idle /\ reqs[r] \in Pending /\ Sound(reqs[r])
    BY <1>1, AtStatement DEF IInv, AllSound
  <1>3. CASE Goto(r, "actor_role")
    <2>1. Sound([reqs[r] EXCEPT !.pc = "actor_role"])
      BY <1>2 DEF Sound, Checked, Pending
    <2> QED
      BY Zenon, <1>1, <1>2, <1>3, <2>1, GotoInv
  <1>4. CASE Reply(r, 500, "none")
    BY <1>1, <1>2, <1>4, ReplyInv
  <1> QED
    BY <1>3, <1>4 DEF ActorSummary

(* is_admin, its second statement, and the checks of a change. *)
LEMMA ActorRoleInv ==
    ASSUME IInv, NEW r \in Request, ActorRole(r)
    PROVE  IInv'
  <1> DEFINE q == reqs[r]
  <1>1. q.pc = "actor_role" /\ UNCHANGED <<users, roles>>
    BY DEF ActorRole, Read
  <1>2. q # Idle /\ q \in Pending /\ Sound(q)
    BY <1>1, AtStatement DEF IInv, AllSound
  <1>3. CASE Reply(r, 403, "none") \/ Reply(r, 500, "none")
    BY <1>1, <1>2, <1>3, ReplyInv
  <1>4. CASE is_admin(q.actor)
    <2>1. q.was_admin
      BY <1>2, <1>4 DEF Sound
    <2>2. CASE Reply(r, 400, "none")
      BY <1>1, <1>2, <2>1, <2>2, ReplyInv
    <2>3. CASE Refused(q) = 200 /\ Goto(r, "get_user")
      <3>1. q.op = "update" => q.actor # q.target /\ q.role \in Role
        BY <2>3 DEF Refused
      <3>2. Sound([q EXCEPT !.pc = "get_user"])
        BY <1>2, <2>1, <3>1 DEF Sound, Pending
      <3> QED
        BY Zenon, <1>1, <1>2, <2>3, <3>2, GotoInv
    <2>4. Refused(q) \in {200, 400, 403}
      BY DEF Refused
    <2> QED
      BY <1>3, <1>4, <2>2, <2>3, <2>4 DEF ActorRole
  <1> QED
    BY <1>3, <1>4 DEF ActorRole

(* get_user, its first statement. *)
LEMMA TargetSummaryInv ==
    ASSUME IInv, NEW r \in Request, TargetSummary(r)
    PROVE  IInv'
  <1> DEFINE q == reqs[r]
  <1>1. q.pc = "get_user" /\ UNCHANGED <<users, roles>>
    BY DEF TargetSummary, Read
  <1>2. q # Idle /\ q \in Pending /\ Sound(q) /\ q.was_admin
    BY <1>1, AtStatement DEF IInv, AllSound, Sound, Checked
  <1>3. CASE q.target \in users /\ Goto(r, "role_for")
    <2>1. Sound([q EXCEPT !.pc = "role_for"])
      BY <1>1, <1>2, <1>3 DEF Sound, Checked, Pending
    <2> QED
      BY Zenon, <1>1, <1>2, <1>3, <2>1, GotoInv
  <1>4. CASE Reply(r, 404, "none") \/ Reply(r, 500, "none")
    BY <1>1, <1>2, <1>4, ReplyInv
  <1> QED
    BY <1>3, <1>4 DEF TargetSummary

(* get_user, its second statement. *)
LEMMA TargetRoleInv ==
    ASSUME IInv, NEW r \in Request, TargetRole(r)
    PROVE  IInv'
  <1> DEFINE q == reqs[r]
  <1>1. q.pc = "role_for" /\ UNCHANGED <<users, roles>>
    BY DEF TargetRole, Read
  <1>2. q # Idle /\ q \in Pending /\ Sound(q) /\ q.was_admin
    BY <1>1, AtStatement DEF IInv, AllSound, Sound, Checked
  <1>3. q.target \in User /\ role_for(q.target) \in Role
    BY <1>2, RoleType DEF IInv, Pending
  <1>4. CASE q.op = "update" /\ ~q.written /\ Goto(r, "upsert")
    <2>1. Sound([q EXCEPT !.pc = "upsert"])
      BY <1>1, <1>2, <1>4 DEF Sound, Checked, Pending
    <2> QED
      BY Zenon, <1>1, <1>2, <1>4, <2>1, GotoInv
  <1>5. CASE q.op = "get" /\ Reply(r, 200, role_for(q.target))
    BY <1>1, <1>2, <1>3, <1>5, ReplyInv
  <1>6. CASE q.op = "update" /\ q.written /\ Reply(r, 200, role_for(q.target))
    <2>1. role_for(q.target) \in q.had
      BY <1>2, <1>6 DEF Sound
    <2> QED
      BY <1>1, <1>2, <1>3, <1>6, <2>1, ReplyInv
  <1>7. CASE Reply(r, 500, "none")
    BY <1>1, <1>2, <1>7, ReplyInv
  <1> QED
    BY <1>4, <1>5, <1>6, <1>7 DEF TargetRole

(* The other requests, when the role of u becomes role. *)
LEMMA WitnessSound ==
    ASSUME TypeOK, NEW q \in Pending, Sound(q), NEW u \in User, NEW role \in Role,
           roles' = [roles EXCEPT ![u] = role], users' = users
    PROVE  Witness(q, u, role) \in Pending /\ Sound(Witness(q, u, role))'
  <1> DEFINE p == Witness(q, u, role)
  <1>1. q # Idle
    BY DEF Pending, Idle
  <1> DEFINE w == q.was_admin \/ (q.actor = u /\ role = "admin")
             h == IF q.target = u /\ q.written THEN q.had \union {role} ELSE q.had
  <1>2. w \in BOOLEAN /\ h \in SUBSET Role
    BY DEF Pending
  <1>3. p = [q EXCEPT !.was_admin = w, !.had = h]
    BY <1>1 DEF Witness
  <1> HIDE DEF p, w, h
  <1>4. /\ p \in Pending
        /\ p.pc = q.pc /\ p.op = q.op /\ p.actor = q.actor /\ p.target = q.target /\ p.role = q.role
        /\ p.written = q.written /\ p.was_admin = w /\ p.had = h
    BY Zenon, <1>2, <1>3 DEF Pending
  <1>5. \A v \in User : role_for(v)' = IF v = u THEN role ELSE role_for(v)
    BY DEF role_for, TypeOK, Role
  <1>6. q.actor \in User /\ q.target \in User
    BY DEF Pending
  <1>7. \A v \in User : is_admin(v)' <=> IF v = u THEN role = "admin" ELSE is_admin(v)
    BY <1>5 DEF is_admin
  <1>8. is_admin(p.actor)' => p.was_admin
    BY Zenon, <1>4, <1>6, <1>7 DEF Sound, w
  <1>9. p.written => role_for(p.target)' \in p.had
    BY <1>4, <1>5, <1>6 DEF Sound, h
  <1>10. p.pc \in Checked => p.was_admin
    BY Zenon, <1>4 DEF Sound, w
  <1>11. Sound(p)'
    BY <1>4, <1>8, <1>9, <1>10 DEF Sound
  <1> QED
    BY <1>4, <1>11 DEF p

(* Requests as they are after a step. *)
LEMMA AllSoundAfter ==
    ASSUME NEW f, reqs' = f, \A s \in Request : f[s] # Idle => Sound(f[s])'
    PROVE  AllSound'
  BY DEF AllSound, Sound

(* The upsert: done, done and reported lost, or lost. *)
LEMMA UpsertInv ==
    ASSUME IInv, NEW r \in Request, Upsert(r)
    PROVE  IInv'
  <1>1. PICK f : f = reqs
    OBVIOUS
  <1> DEFINE q == f[r]
             seen == [s \in Request |-> Witness(f[s], q.target, q.role)]
             done == [q EXCEPT !.pc = "get_user", !.written = TRUE, !.had = {q.role}]
             lost == [status |-> 500, of |-> q, role |-> "none"]
  <1>2. q.pc = "upsert" /\ UNCHANGED users
    BY <1>1 DEF Upsert
  <1>3. q # Idle /\ q \in Pending /\ Sound(q)
    BY <1>1, <1>2, AtStatement DEF IInv, AllSound
  <1>4. /\ q.was_admin /\ q.op = "update" /\ q.actor # q.target /\ q.role \in Role
        /\ q.target \in users /\ q.actor \in users /\ q.target \in User /\ q.actor \in User
    BY <1>2, <1>3 DEF Sound, Checked, Pending
  <1>5. CASE Reply(r, 500, "none") /\ UNCHANGED roles
    BY <1>1, <1>2, <1>3, <1>5, ReplyInv
  <1>6. CASE /\ roles' = [roles EXCEPT ![q.target] = q.role]
             /\ \/ reqs' = [seen EXCEPT ![r] = done] /\ replied' = None
                \/ reqs' = [seen EXCEPT ![r] = Idle] /\ replied' = lost
    <2>1. \A s \in Request : seen[s] # Idle => seen[s] \in Pending /\ Sound(seen[s])'
      <3> SUFFICES ASSUME NEW s \in Request, seen[s] # Idle
                   PROVE  seen[s] \in Pending /\ Sound(seen[s])'
        OBVIOUS
      <3>1. f[s] # Idle
        BY DEF Witness
      <3>2. f[s] \in Pending /\ Sound(f[s])
        BY <1>1, <3>1 DEF IInv, TypeOK, AllSound
      <3>3. /\ Witness(f[s], q.target, q.role) \in Pending
            /\ Sound(Witness(f[s], q.target, q.role))'
        BY Zenon, <1>2, <1>4, <1>6, <3>2, WitnessSound DEF IInv
      <3> QED
        BY <3>3
    <2>2. done \in Pending /\ lost \in Response
      <3>1. {q.role} \in SUBSET Role
        BY <1>4
      <3>2. done \in Pending
        BY Zenon, <1>3, <3>1 DEF Pending
      <3>3. lost \in Response
        BY <1>3 DEF Response
      <3> QED
        BY <3>2, <3>3
    <2>3. /\ done.pc = "get_user" /\ done.actor = q.actor /\ done.target = q.target
          /\ done.role = q.role /\ done.was_admin = q.was_admin /\ done.had = {q.role}
      BY <1>3 DEF Pending
    <2>4. lost.status = 500
      OBVIOUS
    <2>5. /\ role_for(q.target)' = q.role
          /\ is_admin(q.actor)' <=> is_admin(q.actor)
      BY <1>4, <1>6 DEF IInv, TypeOK, role_for, is_admin, Role
    <2> HIDE DEF q, seen, done, lost
    <2>6. Sound(done)'
      BY <1>2, <1>3, <1>4, <2>3, <2>5 DEF Sound, Checked
    <2>7. PICK g : g = reqs'
      OBVIOUS
    <2>8. \A s \in Request : s # r => g[s] = seen[s]
      BY Zenon, <1>6, <2>7 DEF seen
    <2>9. g[r] = done \/ g[r] = Idle
      BY <1>6, <2>7 DEF seen
    <2>10. AllSound'
      BY <2>1, <2>6, <2>7, <2>8, <2>9, AllSoundAfter
    <2>11. reqs' \in [Request -> Pending \union {Idle}]
      BY Zenon, <1>6, <2>1, <2>2 DEF seen
    <2>12. roles' \in [User -> Role \union {"none"}]
      BY <1>4, <1>6 DEF IInv, TypeOK
    <2>13. TypeOK'
      BY <1>2, <1>6, <2>2, <2>11, <2>12 DEF IInv, TypeOK
    <2>14. RolesOfUsers'
      BY <1>2, <1>4, <1>6 DEF IInv, RolesOfUsers, TypeOK
    <2>15. OnlyAdminsServed' /\ AnswerIsLater'
      BY <1>6, <2>4 DEF OnlyAdminsServed, AnswerIsLater
    <2> QED
      BY <2>10, <2>13, <2>14, <2>15 DEF IInv
  <1> QED
    BY <1>1, <1>5, <1>6 DEF Upsert

(* A user appears. *)
LEMMA CreateUserInv ==
    ASSUME IInv, CreateUser
    PROVE  IInv'
  <1> USE DEF IInv
  <1>1. /\ users' \subseteq User /\ users \subseteq users'
        /\ replied' = None /\ UNCHANGED <<roles, reqs>>
    BY DEF CreateUser, TypeOK
  <1>2. TypeOK'
    BY <1>1 DEF TypeOK
  <1>3. \A q : Sound(q) => Sound(q)'
    BY <1>1 DEF Sound, is_admin, role_for
  <1>4. PICK f : f = reqs'
    OBVIOUS
  <1>5. \A s \in Request : f[s] # Idle => Sound(f[s])'
    BY <1>1, <1>3, <1>4 DEF AllSound
  <1>6. AllSound'
    BY <1>4, <1>5, AllSoundAfter
  <1>7. RolesOfUsers'
    BY <1>1 DEF RolesOfUsers
  <1> QED
    BY <1>1, <1>2, <1>6, <1>7 DEF OnlyAdminsServed, AnswerIsLater

(* A client goes away. *)
LEMMA LeaveInv ==
    ASSUME IInv, NEW r \in Request, Leave(r)
    PROVE  IInv'
  <1>1. /\ reqs' = [reqs EXCEPT ![r] = Idle] /\ replied' = None
        /\ UNCHANGED <<users, roles>>
    BY DEF Leave
  <1>2. OnlyAdminsServed' /\ AnswerIsLater'
    BY <1>1 DEF OnlyAdminsServed, AnswerIsLater
  <1>3. PICK q : q = Idle
    OBVIOUS
  <1> QED
    BY Zenon, <1>1, <1>2, <1>3, MoveInv

(* The invariant is inductive. *)
LEMMA NextInv == IInv /\ [Next]_vars => IInv'
  <1> SUFFICES ASSUME IInv, [Next]_vars PROVE IInv'
    OBVIOUS
  <1>1. ASSUME NEW r \in Request, Begin(r) \/ Handle(r) \/ Leave(r) PROVE IInv'
    BY <1>1, BeginInv, ActorSummaryInv, ActorRoleInv, TargetSummaryInv, TargetRoleInv, UpsertInv,
       LeaveInv DEF Handle
  <1>2. CASE CreateUser
    BY <1>2, CreateUserInv
  <1>3. CASE UNCHANGED vars
    BY <1>3 DEF IInv, TypeOK, AllSound, Sound, is_admin, role_for, RolesOfUsers,
                OnlyAdminsServed, AnswerIsLater, vars
  <1> QED
    BY <1>1, <1>2, <1>3 DEF Next

(* Whoever is served was an admin during the request, whatever happens to   *)
(* that role between the check and the answer.                              *)
THEOREM ServedWereAdmins == Spec => []OnlyAdminsServed
  <1>1. IInv => OnlyAdminsServed
    BY DEF IInv
  <1> QED
    BY InitInv, NextInv, <1>1, PTL DEF Spec

(* The role in the answer to a change is one the target had after it.       *)
THEOREM AnswersAreLater == Spec => []AnswerIsLater
  <1>1. IInv => AnswerIsLater
    BY DEF IInv
  <1> QED
    BY InitInv, NextInv, <1>1, PTL DEF Spec

(* A role is only ever written for a user that exists, although the user is *)
(* looked up in an earlier statement.                                       *)
THEOREM RolesAreOfUsers == Spec => []RolesOfUsers
  <1>1. IInv => RolesOfUsers
    BY DEF IInv
  <1> QED
    BY InitInv, NextInv, <1>1, PTL DEF Spec

-----------------------------------------------------------------------------
(* Changes that are not overtaken. *)

(* The caller is not the target, so is still an admin after the change. *)
LEMMA CallerStays ==
    ASSUME IInv, NEW r \in Request, Upsert(r), is_admin(reqs[r].actor)
    PROVE  SomeAdmin'
  <1> DEFINE q == reqs[r]
  <1>1. q.pc = "upsert" /\ UNCHANGED users
    BY DEF Upsert
  <1>2. q # Idle /\ q \in Pending /\ Sound(q)
    BY <1>1, AtStatement DEF IInv, AllSound
  <1>3. q.actor # q.target /\ q.actor \in users /\ q.actor \in User /\ q.target \in User
    BY <1>1, <1>2 DEF Sound, Checked, Pending
  <1>4. roles' = [roles EXCEPT ![q.target] = q.role] \/ UNCHANGED roles
    BY DEF Upsert
  <1>5. roles'[q.actor] = roles[q.actor]
    BY <1>3, <1>4 DEF IInv, TypeOK
  <1>6. role_for(q.actor) = "admin"
    BY DEF is_admin
  <1>7. PICK a : a = q.actor
    OBVIOUS
  <1>8. role_for(a)' = "admin"
    BY <1>5, <1>6, <1>7 DEF role_for
  <1>9. a \in Admins'
    BY <1>1, <1>3, <1>7, <1>8 DEF Admins, is_admin
  <1> QED
    BY <1>9 DEF SomeAdmin

(* Where no role changes and nobody is deleted, the admins stay. *)
LEMMA AdminsStay ==
    ASSUME SomeAdmin, UNCHANGED roles, users \subseteq users'
    PROVE  SomeAdmin'
  <1>1. \A u : is_admin(u)' <=> is_admin(u)
    BY DEF is_admin, role_for
  <1> QED
    BY <1>1 DEF SomeAdmin, Admins

(* Every step leaves an admin. *)
LEMMA FreshNextInv == IInv /\ SomeAdmin /\ [FreshNext]_vars => SomeAdmin'
  <1> SUFFICES ASSUME IInv, SomeAdmin, [FreshNext]_vars PROVE SomeAdmin'
    OBVIOUS
  <1>1. ASSUME NEW r \in Request, Begin(r) \/ Leave(r)
        PROVE  SomeAdmin'
    BY <1>1, AdminsStay DEF Begin, Leave
  <1>2. ASSUME NEW r \in Request, Handle(r), roles' # roles => is_admin(reqs[r].actor)
        PROVE  SomeAdmin'
    <2>1. CASE Upsert(r) /\ roles' # roles
      BY <1>2, <2>1, CallerStays
    <2>2. CASE UNCHANGED <<users, roles>>
      BY <2>2, AdminsStay
    <2>3. Upsert(r) \/ UNCHANGED <<users, roles>>
      BY <1>2 DEF Handle, ActorSummary, ActorRole, TargetSummary, TargetRole, Read
    <2>4. Upsert(r) => UNCHANGED users
      BY DEF Upsert
    <2> QED
      BY <2>1, <2>2, <2>3, <2>4
  <1>3. CASE CreateUser
    BY <1>3, AdminsStay DEF CreateUser
  <1>4. CASE UNCHANGED vars
    BY <1>4, AdminsStay DEF vars
  <1> QED
    BY <1>1, <1>2, <1>3, <1>4 DEF FreshNext

(* These are behaviours of the whole specification. *)
LEMMA FreshIsNext == [FreshNext]_vars => [Next]_vars
  BY DEF FreshNext, Next

(* At the start there is an admin. *)
LEMMA FreshInitInv == Init => SomeAdmin
  BY DEF Init, SomeAdmin

(* Any number of role changes at once leave an admin, as long as each is   *)
(* written while its caller still is one (update_user_role, the check      *)
(* against changing one's own role).                                       *)
THEOREM FreshChangesLeaveAnAdmin == FreshSpec => []SomeAdmin
  BY FreshInitInv, FreshNextInv, FreshIsNext, InitInv, NextInv, PTL DEF FreshSpec

-----------------------------------------------------------------------------
(* With changes one at a time: a change that is about to be written is that *)
(* of somebody who still is an admin.                                       *)
Backed(q) ==
    q.op = "update" /\ q.pc \in Checked /\ ~q.written => is_admin(q.actor)

AllBacked == \A r \in Request : reqs[r] # Idle => Backed(reqs[r])

SerialInv == IInv /\ OneUpdate /\ AllBacked

(* A step that only moves one request on. *)
LEMMA MoveBacked ==
    ASSUME SerialInv, NEW r \in Request, NEW q, q = Idle \/ Backed(q),
           reqs' = [reqs EXCEPT ![r] = q], UNCHANGED <<users, roles>>
    PROVE  AllBacked'
  <1>1. reqs \in [Request -> Pending \union {Idle}]
    BY DEF SerialInv, IInv, TypeOK
  <1>2. \A u : is_admin(u)' <=> is_admin(u)
    BY DEF is_admin, role_for
  <1>3. PICK f : f = reqs'
    OBVIOUS
  <1>4. \A s \in Request : f[s] # Idle => Backed(f[s])
    BY <1>1, <1>3 DEF SerialInv, AllBacked
  <1>5. \A p : Backed(p)' <=> Backed(p)
    BY <1>2 DEF Backed
  <1> QED
    BY <1>3, <1>4, <1>5 DEF AllBacked, Backed, is_admin, role_for

(* The request goes on. *)
LEMMA GotoBacked ==
    ASSUME SerialInv, NEW r \in Request, reqs[r] # Idle, NEW pc, Goto(r, pc),
           UNCHANGED <<users, roles>>, pc \in Checked => Backed([reqs[r] EXCEPT !.pc = pc])
    PROVE  AllBacked'
  <1> DEFINE q == [reqs[r] EXCEPT !.pc = pc]
  <1>1. reqs[r] \in Pending
    BY DEF SerialInv, IInv, TypeOK
  <1>2. q.pc = pc
    BY <1>1 DEF Pending
  <1>3. reqs' = [reqs EXCEPT ![r] = q]
    BY DEF Goto
  <1>4. pc \in Checked => Backed(q)
    OBVIOUS
  <1> HIDE DEF q
  <1>5. Backed(q)
    BY <1>2, <1>4 DEF Backed
  <1>6. SerialInv /\ r \in Request /\ UNCHANGED <<users, roles>>
    OBVIOUS
  <1> QED
    BY ONLY Zenon, <1>3, <1>5, <1>6, MoveBacked

(* The request ends. *)
LEMMA EndBacked ==
    ASSUME SerialInv, NEW r \in Request, reqs' = [reqs EXCEPT ![r] = Idle],
           UNCHANGED <<users, roles>>
    PROVE  AllBacked'
  <1>1. PICK q : q = Idle
    OBVIOUS
  <1> QED
    BY Zenon, <1>1, MoveBacked

(* The statements before and after the upsert. *)
LEMMA ReadsBacked ==
    ASSUME SerialInv, NEW r \in Request,
           Begin(r) \/ ActorSummary(r) \/ ActorRole(r) \/ TargetSummary(r) \/ TargetRole(r) \/ Leave(r)
    PROVE  AllBacked'
  <1> DEFINE q == reqs[r]
  <1>1. UNCHANGED <<users, roles>>
    BY DEF Begin, ActorSummary, ActorRole, TargetSummary, TargetRole, Leave, Read
  <1>2. CASE Begin(r)
    <2>1. PICK op, actor, target, role :
              reqs' = [reqs EXCEPT ![r] =
                [pc |-> "is_admin", op |-> op, actor |-> actor, target |-> target, role |-> role,
                 written |-> FALSE, was_admin |-> is_admin(actor), had |-> {}]]
      BY Zenon, <1>2 DEF Begin
    <2> DEFINE p == [pc |-> "is_admin", op |-> op, actor |-> actor, target |-> target, role |-> role,
                     written |-> FALSE, was_admin |-> is_admin(actor), had |-> {}]
    <2>2. reqs' = [reqs EXCEPT ![r] = p] /\ p.pc = "is_admin"
      BY <2>1
    <2> HIDE DEF p
    <2>3. Backed(p)
      BY <2>2 DEF Backed, Checked
    <2> QED
      BY Zenon, <1>1, <2>2, <2>3, MoveBacked
  <1>3. CASE reqs' = [reqs EXCEPT ![r] = Idle]
    BY Zenon, <1>1, <1>3, EndBacked
  <1>4. CASE q.pc = "is_admin" /\ Goto(r, "actor_role")
    <2>1. q # Idle
      BY <1>4 DEF Idle
    <2> QED
      BY Zenon, <1>1, <1>4, <2>1, GotoBacked DEF Checked
  <1>5. CASE q.pc = "actor_role" /\ is_admin(q.actor) /\ Goto(r, "get_user")
    <2>1. q # Idle /\ q \in Pending
      BY <1>5, AtStatement DEF SerialInv, IInv
    <2>2. Backed([q EXCEPT !.pc = "get_user"])
      BY <1>5, <2>1 DEF Backed, Pending
    <2> QED
      BY <1>1, <1>5, <2>1, <2>2, GotoBacked
  <1>6. ASSUME q.pc \in Checked, NEW pc \in Checked, Goto(r, pc)
        PROVE  AllBacked'
    <2>1. q # Idle /\ q \in Pending
      BY <1>6, AtStatement DEF SerialInv, IInv, Checked
    <2>2. Backed(q)
      BY <2>1 DEF SerialInv, AllBacked
    <2>3. Backed([q EXCEPT !.pc = pc])
      BY <1>6, <2>1, <2>2 DEF Backed, Pending
    <2> QED
      BY <1>1, <1>6, <2>1, <2>3, GotoBacked
  <1> QED
    BY <1>2, <1>3, <1>4, <1>5, <1>6
    DEF ActorSummary, ActorRole, TargetSummary, TargetRole, Leave, Read, Reply, Checked

(* The upsert: nobody else has a change under way that it could overtake. *)
LEMMA UpsertBacked ==
    ASSUME SerialInv, NEW r \in Request, Upsert(r)
    PROVE  AllBacked'
  <1>1. PICK f : f = reqs
    OBVIOUS
  <1> DEFINE q == f[r]
             seen == [s \in Request |-> Witness(f[s], q.target, q.role)]
             done == [q EXCEPT !.pc = "get_user", !.written = TRUE, !.had = {q.role}]
  <1>2. q.pc = "upsert" /\ UNCHANGED users
    BY <1>1 DEF Upsert
  <1>3. q # Idle /\ q \in Pending /\ Sound(q) /\ Backed(q)
    BY <1>1, <1>2, AtStatement DEF SerialInv, IInv, AllSound, AllBacked
  <1>4. q.op = "update"
    BY <1>2, <1>3 DEF Sound
  <1>5. CASE Reply(r, 500, "none") /\ UNCHANGED roles
    BY Zenon, <1>2, <1>5, EndBacked DEF Reply
  <1>6. CASE \/ reqs' = [seen EXCEPT ![r] = done]
             \/ reqs' = [seen EXCEPT ![r] = Idle]
    <2>1. ASSUME NEW s \in Request, s # r, seen[s] # Idle
          PROVE  seen[s].op # "update"
      <3>1. f[s] # Idle
        BY <2>1 DEF Witness
      <3>2. f[s] \in Pending
        BY <1>1, <3>1 DEF SerialInv, IInv, TypeOK
      <3>3. seen[s].op = f[s].op
        BY Zenon, <3>1, <3>2 DEF Witness, Pending
      <3>4. f[s].op # "update"
        BY <1>1, <1>3, <1>4, <2>1, <3>1 DEF SerialInv, OneUpdate, Updating
      <3> QED
        BY <3>3, <3>4
    <2>2. done.written
      BY <1>3 DEF Pending
    <2> HIDE DEF q, seen, done
    <2>3. PICK g : g = reqs'
      OBVIOUS
    <2>4. \A s \in Request : s # r => g[s] = seen[s]
      BY Zenon, <1>6, <2>3 DEF seen
    <2>5. g[r] = done \/ g[r] = Idle
      BY <1>6, <2>3 DEF seen
    <2>6. \A s \in Request : g[s] # Idle => g[s].op # "update" \/ g[s].written
      BY <2>1, <2>2, <2>4, <2>5
    <2> QED
      BY <2>3, <2>6 DEF AllBacked, Backed
  <1> QED
    BY <1>1, <1>5, <1>6 DEF Upsert

(* The invariant of changes one at a time is inductive. *)
LEMMA SerialNextInv == SerialInv /\ [Next /\ OneUpdate']_vars => SerialInv'
  <1> SUFFICES ASSUME SerialInv, [Next /\ OneUpdate']_vars PROVE SerialInv'
    OBVIOUS
  <1>1. IInv'
    BY NextInv DEF SerialInv
  <1>2. CASE Next /\ OneUpdate'
    <2>1. ASSUME NEW r \in Request, Begin(r) \/ Handle(r) \/ Leave(r)
          PROVE  AllBacked'
      BY <2>1, ReadsBacked, UpsertBacked DEF Handle
    <2>2. ASSUME CreateUser
          PROVE  AllBacked'
      <3>1. UNCHANGED <<roles, reqs>> /\ users \subseteq users'
        BY <2>2 DEF CreateUser
      <3> QED
        BY <3>1 DEF SerialInv, AllBacked, Backed, is_admin, role_for
    <2>3. Next
      BY <1>2
    <2>4. AllBacked'
      BY <2>1, <2>2, <2>3 DEF Next
    <2> QED
      BY <1>1, <1>2, <2>4 DEF SerialInv
  <1>3. CASE UNCHANGED vars
    BY <1>1, <1>3 DEF SerialInv, OneUpdate, Updating, AllBacked, Backed,
                      is_admin, role_for, vars
  <1> QED
    BY <1>2, <1>3

(* At the start no change is under way. *)
LEMMA SerialInitInv == Init => SerialInv
  BY InitInv DEF Init, SerialInv, OneUpdate, Updating, AllBacked

(* A change that is made alone is not overtaken. *)
LEMMA SerialIsFresh == SerialInv /\ [Next /\ OneUpdate']_vars => [FreshNext]_vars
  <1> SUFFICES ASSUME SerialInv, Next PROVE FreshNext
    OBVIOUS
  <1>1. ASSUME NEW r \in Request, Handle(r), roles' # roles
        PROVE  is_admin(reqs[r].actor)
    <2>1. Upsert(r)
      BY <1>1 DEF Handle, ActorSummary, ActorRole, TargetSummary, TargetRole, Read
    <2>2. reqs[r].pc = "upsert"
      BY <2>1 DEF Upsert
    <2>3. reqs[r] # Idle /\ reqs[r] \in Pending /\ Sound(reqs[r]) /\ Backed(reqs[r])
      BY <2>2, AtStatement DEF SerialInv, IInv, AllSound, AllBacked
    <2> QED
      BY <2>2, <2>3 DEF Sound, Backed, Checked
  <1> QED
    BY <1>1 DEF Next, FreshNext

(* Role changes made one at a time, by any number of admins and with any    *)
(* number of reads in between, are not overtaken: so they leave an admin.   *)
THEOREM OneUpdateIsFresh == SerialSpec => FreshSpec /\ []SomeAdmin
  BY SerialInitInv, SerialNextInv, SerialIsFresh, FreshChangesLeaveAnAdmin, PTL
  DEF SerialSpec, FreshSpec
=============================================================================
