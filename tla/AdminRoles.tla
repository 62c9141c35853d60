----------------------------- MODULE AdminRoles -----------------------------
(***************************************************************************)
(* The admin endpoints that read one user and change a user's role.  Each  *)
(* request is a chain of separate statements: two to find out whether the  *)
(* caller is an admin, two to read the target, and for a change the upsert *)
(* and two more to read the result back, with other requests in between.   *)
(***************************************************************************)
EXTENDS Integers, FiniteSets

CONSTANTS
    User,       \* ids of users, of whom some exist
    Request     \* requests in flight

VARIABLES
    users,      \* the rows of users
    roles,      \* the rows of user_roles, "none" where there is no row
    reqs,       \* the request in each slot
    replied     \* what the last step answered, if it answered

vars == <<users, roles, reqs, replied>>

Role == {"user", "admin"}
None == [none |-> TRUE]
Idle == [pc |-> "idle"]

(* A request, and two facts about its past: whether its caller was an admin *)
(* at some moment of it, and which roles its target had since its upsert.   *)
Pending ==
    [pc : {"is_admin", "actor_role", "get_user", "role_for", "upsert"},
     op : {"get", "update"}, actor : User, target : User, role : Role \union {"other"},
     written : BOOLEAN, was_admin : BOOLEAN, had : SUBSET Role]
Response ==
    [status : {200, 400, 403, 404, 500}, of : Pending, role : Role \union {"none"}]

TypeOK ==
    /\ users \subseteq User
    /\ roles \in [User -> Role \union {"none"}]
    /\ reqs \in [Request -> Pending \union {Idle}]
    /\ replied \in Response \union {None}

(* role_for: no row is the role user. *)
role_for(u) == IF roles[u] = "none" THEN "user" ELSE roles[u]
is_admin(u) == role_for(u) = "admin"
Admins == {u \in users : is_admin(u)}

(* The roles are whatever the operator put there: an admin is made by hand. *)
Init ==
    /\ users \in SUBSET User
    /\ roles \in [User -> {"none", "admin"}]
    /\ \A u \in User \ users : roles[u] = "none"
    /\ Admins # {}
    /\ reqs = [r \in Request |-> Idle]
    /\ replied = None

Goto(r, pc) == reqs' = [reqs EXCEPT ![r].pc = pc] /\ replied' = None

Reply(r, status, role) ==
    /\ reqs' = [reqs EXCEPT ![r] = Idle]
    /\ replied' = [status |-> status, of |-> reqs[r], role |-> role]

Read(r, pc) == reqs[r].pc = pc /\ UNCHANGED <<users, roles>>

-----------------------------------------------------------------------------
(* A request arrives with a valid access token and, for a change, a body    *)
(* whose role may be anything.                                              *)
Begin(r) ==
    /\ reqs[r] = Idle
    /\ \E op \in {"get", "update"}, actor \in users, target \in User, role \in Role \union {"other"} :
        /\ op = "get" => role = "other"
        /\ reqs' = [reqs EXCEPT ![r] =
                [pc |-> "is_admin", op |-> op, actor |-> actor, target |-> target, role |-> role,
                 written |-> FALSE, was_admin |-> is_admin(actor), had |-> {}]]
    /\ replied' = None
    /\ UNCHANGED <<users, roles>>

(* is_admin: does the caller exist? *)
ActorSummary(r) ==
    /\ Read(r, "is_admin")
    /\ \/ reqs[r].actor \in users /\ Goto(r, "actor_role")
       \/ reqs[r].actor \notin users /\ Reply(r, 500, "none")
       \/ Reply(r, 500, "none")

(* Mutant of the next definition: one's own role is like any other. *)
Refused_Own(q) == IF q.op = "update" /\ q.role \notin Role THEN 400 ELSE 200

(* update_user_role: the checks that come before any statement about the    *)
(* target.                                                                  *)
Refused(q) ==
    IF q.op = "get" THEN 200
    ELSE IF q.actor = q.target THEN 403
    ELSE IF q.role \notin Role THEN 400 ELSE 200

(* Mutant of the next definition: the role is not looked at. *)
ActorRole_Anybody(r) ==
    /\ Read(r, "actor_role")
    /\ \/ Refused(reqs[r]) # 200 /\ Reply(r, Refused(reqs[r]), "none")
       \/ Refused(reqs[r]) = 200 /\ Goto(r, "get_user")
       \/ Reply(r, 500, "none")

(* is_admin: the caller's role, then what the handler makes of it. *)
ActorRole(r) ==
    /\ Read(r, "actor_role")
    /\ \/ ~is_admin(reqs[r].actor) /\ Reply(r, 403, "none")
       \/ /\ is_admin(reqs[r].actor)
          /\ IF Refused(reqs[r]) # 200 THEN Reply(r, Refused(reqs[r]), "none")
             ELSE Goto(r, "get_user")
       \/ Reply(r, 500, "none")

(* get_user: does the target exist? *)
TargetSummary(r) ==
    /\ Read(r, "get_user")
    /\ \/ reqs[r].target \in users /\ Goto(r, "role_for")
       \/ reqs[r].target \notin users /\ Reply(r, 404, "none")
       \/ Reply(r, 500, "none")

(* get_user: the target's role.  It ends a read, and a change whose upsert  *)
(* is done; before the upsert the role itself is not used.                  *)
TargetRole(r) ==
    /\ Read(r, "role_for")
    /\ \/ reqs[r].op = "get" /\ Reply(r, 200, role_for(reqs[r].target))
       \/ reqs[r].op = "update" /\ ~reqs[r].written /\ Goto(r, "upsert")
       \/ reqs[r].op = "update" /\ reqs[r].written /\ Reply(r, 200, role_for(reqs[r].target))
       \/ Reply(r, 500, "none")

(* What a change of u's role to role is to the requests in flight. *)
Witness(q, u, role) ==
    IF q = Idle THEN q
    ELSE [q EXCEPT !.was_admin = @ \/ (q.actor = u /\ role = "admin"),
                   !.had = IF q.target = u /\ q.written THEN @ \union {role} ELSE @]

(* Mutant of the next definition: an upsert that fails goes unnoticed. *)
Upsert_Unnoticed(r) ==
    LET q == reqs[r]
        seen == [s \in Request |-> Witness(reqs[s], q.target, q.role)] IN
    /\ q.pc = "upsert"
    /\ roles' = [roles EXCEPT ![q.target] = q.role] \/ UNCHANGED roles
    /\ reqs' = [seen EXCEPT ![r] = [q EXCEPT !.pc = "get_user", !.written = TRUE,
                                             !.had = {q.role}]]
    /\ replied' = None
    /\ UNCHANGED users

(* update_role: the upsert, which may be lost, or done and reported lost. *)
Upsert(r) ==
    LET q == reqs[r]
        seen == [s \in Request |-> Witness(reqs[s], q.target, q.role)] IN
    /\ q.pc = "upsert"
    /\ \/ /\ roles' = [roles EXCEPT ![q.target] = q.role]
          /\ \/ /\ reqs' = [seen EXCEPT ![r] = [q EXCEPT !.pc = "get_user", !.written = TRUE,
                                                         !.had = {q.role}]]
                /\ replied' = None
             \/ /\ reqs' = [seen EXCEPT ![r] = Idle]
                /\ replied' = [status |-> 500, of |-> q, role |-> "none"]
       \/ Reply(r, 500, "none") /\ UNCHANGED roles
    /\ UNCHANGED users

(* A first login creates a user; no operation deletes one. *)
CreateUser ==
    /\ \E u \in User \ users : users' = users \union {u}
    /\ replied' = None
    /\ UNCHANGED <<roles, reqs>>

(* The client goes away between two statements. *)
Leave(r) ==
    /\ reqs[r] # Idle
    /\ reqs' = [reqs EXCEPT ![r] = Idle]
    /\ replied' = None
    /\ UNCHANGED <<users, roles>>

Handle(r) ==
    ActorSummary(r) \/ ActorRole(r) \/ TargetSummary(r) \/ TargetRole(r) \/ Upsert(r)

Next ==
    \/ \E r \in Request : Begin(r) \/ Handle(r) \/ Leave(r)
    \/ CreateUser

Spec == Init /\ [][Next]_vars

(* Changes of roles one at a time, with any number of reads. *)
Updating == {r \in Request : reqs[r] # Idle /\ reqs[r].op = "update"}
OneUpdate == \A r, s \in Updating : r = s

SerialSpec == Init /\ [][Next /\ OneUpdate']_vars

(* The behaviours in which no change is overtaken: requests overlap, but    *)
(* whoever changes a role still is an admin when the change is written.     *)
FreshNext ==
    \/ \E r \in Request :
        \/ Begin(r) \/ Leave(r)
        \/ Handle(r) /\ (roles' # roles => is_admin(reqs[r].actor))
    \/ CreateUser

FreshSpec == Init /\ [][FreshNext]_vars

-----------------------------------------------------------------------------
(* Nobody is answered who was not an admin at some moment of the request,   *)
(* also when the caller is demoted between the check and the answer.        *)
OnlyAdminsServed ==
    replied # None /\ replied.status \in {200, 400, 404} => replied.of.was_admin

(* The role in the answer to a change is one the target really had after    *)
(* that change: the one asked for, or that of a change that came later.     *)
AnswerIsLater ==
    replied # None /\ replied.status = 200 /\ replied.of.op = "update" =>
        replied.role \in replied.of.had

(* Users that were never there get no role. *)
RolesOfUsers == \A u \in User : roles[u] # "none" => u \in users

(* Somebody is left who can change roles, because nobody can change the own *)
(* role ("An admin cannot change their own role (returns 403)"), as long as *)
(* no change is overtaken by one that demotes its caller.                   *)
SomeAdmin == Admins # {}
=============================================================================
