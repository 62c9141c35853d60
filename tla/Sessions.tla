------------------------------ MODULE Sessions ------------------------------
(***************************************************************************)
(* The sessions of one user.  Password login, Google login, logout and     *)
(* token refresh each load the user's aggregate with a plain SELECT, let   *)
(* the aggregate decide on that snapshot, and save it in one transaction;  *)
(* the events the aggregate collected are published after the commit.      *)
(* Nothing locks the user between the load and the save.                   *)
(***************************************************************************)
EXTENDS Integers, FiniteSets

CONSTANTS
    Sid,            \* session ids; a bound, as each login or refresh uses one up
    None,           \* no session
    Op,             \* slots for requests in flight, over all instances
    MaxActive,      \* MAX_ACTIVE_SESSIONS
    Lifetime,       \* refresh_token_expiry_days, in ticks
    MaxTime         \* bound: the clock stops here

ASSUME SessionConstants ==
    /\ None \notin Sid
    /\ MaxActive \in Nat
    /\ Lifetime \in Nat \ {0}
    /\ MaxTime \in Nat

VARIABLES
    now,            \* the clock
    user,           \* the row of users: absent, or by its auth_provider
    status,         \* status[s]: is_active of row s of sessions, or absent
    expires,        \* expires[s]: expires_at of row s
    parent,         \* history: parent[s], the session s was rotated from
    ops,            \* requests in flight
    published       \* history: events put on the event bus

rows == <<status, expires, parent>>
vars == <<now, user, rows, ops, published>>

Status == {"absent", "active", "inactive"}
Event == [type : {"logged_in", "refreshed", "logged_out", "user_created"}, sid : Sid \union {None}]
Created == [type |-> "user_created", sid |-> None]
Operation ==
    [id : Op,
     kind : {"password", "google", "logout", "refresh"},
     target : Sid \union {None},    \* the session a logout or a refresh names
     pc : {"create", "reload", "decide", "publish", "done"},
     snap : [Sid -> Status],        \* the aggregate's sessions; what a reuse left, once detected
     isnew : BOOLEAN,               \* is_new_user
     events : SUBSET Event,         \* take_events()
     reply : {"none", "ok", "invalid", "reused", "error"}]

NoRows == [s \in Sid |-> "absent"]

TypeOK ==
    /\ now \in Nat
    /\ user \in {"absent", "local", "google"}
    /\ status \in [Sid -> Status]
    /\ expires \in [Sid -> Nat]
    /\ parent \in [Sid -> Sid \union {None}]
    /\ ops \subseteq Operation
    /\ published \subseteq Event

(* The default user is seeded at startup; a Google user signs up later. *)
Init ==
    /\ now = 0
    /\ user \in {"absent", "local"}
    /\ status = NoRows
    /\ expires = [s \in Sid |-> 0]
    /\ parent = [s \in Sid |-> None]
    /\ ops = {}
    /\ published = {}

-----------------------------------------------------------------------------
Become(o, o2) == ops' = (ops \ {o}) \union {o2}

(* The aggregate is dropped with the answer. *)
Answered(o, r, table) ==
    [o EXCEPT !.pc = "done", !.reply = r, !.snap = table, !.isnew = FALSE, !.events = {}]

Reply(o, r) == Become(o, Answered(o, r, NoRows))

(* Session::is_expired *)
Unexpired(s) == now < expires[s]

(* The aggregate's own sessions that count against the cap. *)
LiveIn(snap) == {s \in Sid : snap[s] = "active" /\ Unexpired(s)}

(* The transaction of save_aggregate: it inserts the new session, if there *)
(* is one, and sets is_active = FALSE for every session that is inactive   *)
(* in the aggregate, including those that already were when it was loaded. *)
(* The commit may succeed and still be reported as an error.               *)
Invalidated(o, closed) == {s \in Sid : o.snap[s] = "inactive"} \union closed

(* Mutant of the next definition: every row is written back as loaded. *)
Saved_WritesBack(o, closed, new) ==
    [s \in Sid |-> IF s = new THEN "active"
                   ELSE IF s \in Invalidated(o, closed) THEN "inactive"
                   ELSE IF o.snap[s] = "active" THEN "active" ELSE status[s]]

Saved(o, closed, new) ==
    [s \in Sid |-> IF s = new THEN "active"
                   ELSE IF s \in Invalidated(o, closed) THEN "inactive" ELSE status[s]]

SaveAggregate(o, closed, new, from, o2) ==
    /\ status' = Saved(o, closed, new)
    /\ expires' = IF new = None THEN expires ELSE [expires EXCEPT ![new] = now + Lifetime]
    /\ parent' = IF new = None THEN parent ELSE [parent EXCEPT ![new] = from]
    /\ Become(o, o2) \/ Reply(o, "error")
    /\ UNCHANGED <<now, user, published>>

(* The answer to a request whose events are still to be published. *)
ToPublish(o, events) == [Answered(o, "ok", NoRows) EXCEPT !.pc = "publish", !.events = events]

-----------------------------------------------------------------------------
(* Requests. *)

NewOp(id, kind, target, pc) ==
    [id |-> id, kind |-> kind, target |-> target, pc |-> pc, snap |-> status,
     isnew |-> FALSE, events |-> {}, reply |-> "none"]

Free(id) == \A o \in ops : o.id # id

(* A request finds the user and loads the aggregate. *)
Load(id, kind, target) ==
    /\ Free(id)
    /\ user # "absent"
    /\ kind \in {"logout", "refresh"} <=> target # None
    /\ ops' = ops \union {NewOp(id, kind, target, "decide")}
    /\ UNCHANGED <<now, user, rows, published>>

(* A Google login finds nobody with that email.  (A password login that    *)
(* finds nobody is refused without touching anything.)                     *)
LoadNobody(id) ==
    /\ Free(id)
    /\ user = "absent"
    /\ ops' = ops \union {NewOp(id, "google", None, "create")}
    /\ UNCHANGED <<now, user, rows, published>>

(* Mutant of Create: email is not UNIQUE. *)
Create_NotUnique(o) ==
    /\ o.pc = "create"
    /\ user' = "google"
    /\ Become(o, [o EXCEPT !.pc = "reload", !.isnew = TRUE])
    /\ UNCHANGED <<now, rows, published>>

(* INSERT INTO users; email is UNIQUE, so the loser of a race gets a 500.  *)
Create(o) ==
    /\ o.pc = "create"
    /\ \/ /\ user = "absent"
          /\ user' = "google"
          /\ Become(o, [o EXCEPT !.pc = "reload", !.isnew = TRUE]) \/ Reply(o, "error")
       \/ user # "absent" /\ Reply(o, "error") /\ UNCHANGED user
    /\ UNCHANGED <<now, rows, published>>

Reload(o) ==
    /\ o.pc = "reload"
    /\ Become(o, [o EXCEPT !.pc = "decide", !.snap = status])
    /\ UNCHANGED <<now, user, rows, published>>

(* Mutant of Login: the cap is off by one. *)
Login_OffByOne(o) ==
    /\ o.pc = "decide"
    /\ o.kind = "google" \/ (o.kind = "password" /\ user = "local")
    /\ Cardinality(LiveIn(o.snap)) <= MaxActive
    /\ \E n \in Sid :
         /\ status[n] = "absent"
         /\ SaveAggregate(o, {}, n, None,
              ToPublish(o, {[type |-> "logged_in", sid |-> n]}
                           \union IF o.isnew THEN {Created} ELSE {}))

(* add_session and save, for both kinds of login. *)
Login(o) ==
    /\ o.pc = "decide"
    /\ o.kind = "google" \/ (o.kind = "password" /\ user = "local")
    /\ Cardinality(LiveIn(o.snap)) < MaxActive
    /\ \E n \in Sid :
         /\ status[n] = "absent"
         /\ SaveAggregate(o, {}, n, None,
              ToPublish(o, {[type |-> "logged_in", sid |-> n]}
                           \union IF o.isnew THEN {Created} ELSE {}))

(* Mutant of Logout: the aggregate is not saved. *)
Logout_Unsaved(o) ==
    /\ o.pc = "decide"
    /\ o.kind = "logout"
    /\ o.target \in LiveIn(o.snap)
    /\ Become(o, ToPublish(o, {[type |-> "logged_out", sid |-> o.target]}))
    /\ UNCHANGED <<now, user, rows, published>>

(* invalidate_session and save. *)
Logout(o) ==
    /\ o.pc = "decide"
    /\ o.kind = "logout"
    /\ o.target \in LiveIn(o.snap)
    /\ SaveAggregate(o, {o.target}, None, None,
         ToPublish(o, {[type |-> "logged_out", sid |-> o.target]}))

(* Mutant of Rotate: the old session is not invalidated. *)
Rotate_KeepsOld(o) ==
    /\ o.pc = "decide"
    /\ o.kind = "refresh"
    /\ o.target \in LiveIn(o.snap)
    /\ \E n \in Sid :
         /\ status[n] = "absent"
         /\ SaveAggregate(o, {}, n, o.target,
              ToPublish(o, {[type |-> "refreshed", sid |-> n]}))

(* rotate_session and save, when the presented token matches. *)
Rotate(o) ==
    /\ o.pc = "decide"
    /\ o.kind = "refresh"
    /\ o.target \in LiveIn(o.snap)
    /\ \E n \in Sid :
         /\ status[n] = "absent"
         /\ SaveAggregate(o, {o.target}, n, o.target,
              ToPublish(o, {[type |-> "refreshed", sid |-> n]}))

(* Mutant of ReuseDetected: the sessions are invalidated but not saved. *)
ReuseDetected_Unsaved(o) ==
    /\ o.pc = "decide"
    /\ o.kind = "refresh"
    /\ o.target \in Sid /\ o.snap[o.target] = "inactive"
    /\ Become(o, Answered(o, "reused", status))
    /\ UNCHANGED <<now, user, rows, published>>

(* The named session is inactive: invalidate_all_active_sessions and save. *)
(* The events of the invalidations are dropped with the aggregate.         *)
ReuseDetected(o) ==
    /\ o.pc = "decide"
    /\ o.kind = "refresh"
    /\ o.target \in Sid /\ o.snap[o.target] = "inactive"
    /\ LET all == {s \in Sid : o.snap[s] = "active"}
       IN SaveAggregate(o, all, None, None,
                        Answered(o, "reused", Saved(o, all, None)))

(* The early returns: the wrong password or refresh token, too many        *)
(* sessions, a session that is unknown, closed or expired.                 *)
Refused(o) ==
    \/ o.kind = "password" /\ Reply(o, "invalid")
    \/ /\ o.kind \in {"password", "google"}
       /\ Cardinality(LiveIn(o.snap)) >= MaxActive
       /\ Reply(o, "error")
    \/ o.kind = "logout" /\ o.target \notin LiveIn(o.snap) /\ Reply(o, "invalid")
    \/ o.kind = "refresh" /\ o.snap[o.target] # "inactive" /\ Reply(o, "invalid")

Refuse(o) ==
    /\ o.pc = "decide"
    /\ Refused(o)
    /\ UNCHANGED <<now, user, rows, published>>

(* A statement fails, with nothing committed. *)
DatabaseError(o) ==
    /\ o.pc \in {"create", "reload", "decide"}
    /\ Reply(o, "error")
    /\ UNCHANGED <<now, user, rows, published>>

(* The handler publishes the events and answers. *)
Publish(o) ==
    /\ o.pc = "publish"
    /\ published' = published \union o.events
    /\ Reply(o, "ok")
    /\ UNCHANGED <<now, user, rows>>

(* The response is out; or the client goes away, or the instance crashes,  *)
(* and the handler is dropped where it stands.                             *)
Leave(o) ==
    /\ ops' = ops \ {o}
    /\ UNCHANGED <<now, user, rows, published>>

Tick ==
    /\ now < MaxTime
    /\ now' = now + 1
    /\ UNCHANGED <<user, rows, ops, published>>

(* What a request commits of the aggregate, and everything else it does. *)
Save(o) == Login(o) \/ Logout(o) \/ Rotate(o) \/ ReuseDetected(o)

OtherStep(o) ==
    Create(o) \/ Reload(o) \/ Refuse(o) \/ DatabaseError(o) \/ Publish(o) \/ Leave(o)

Step(o) == Save(o) \/ OtherStep(o)

Arrive ==
    \/ \E id \in Op, k \in {"password", "google", "logout", "refresh"}, t \in Sid \union {None} :
         Load(id, k, t)
    \/ \E id \in Op : LoadNobody(id)

Next ==
    \/ Arrive
    \/ \E o \in ops : Step(o)
    \/ Tick

Spec == Init /\ [][Next]_vars

(* The behaviours in which no save is overtaken: requests overlap as they   *)
(* like, but whenever one saves, the rows still are what it loaded.         *)
FreshNext ==
    \/ Arrive
    \/ \E o \in ops : (o.snap = status /\ Save(o)) \/ OtherStep(o)
    \/ Tick

FreshSpec == Init /\ [][FreshNext]_vars

-----------------------------------------------------------------------------
(* Properties. *)

(* "is_active transitions: true -> false (one-way, irreversible)": no save *)
(* of an aggregate loaded earlier brings back a session that a concurrent  *)
(* logout, rotation or reuse detection has closed (save_aggregate).        *)
NeverReactivated ==
    [][\A s \in Sid : status[s] = "inactive" => status'[s] = "inactive"]_vars

(* A rotation is atomic: whoever holds a rotated session, its predecessor  *)
(* is closed, at every moment and across every failure of the save.        *)
PredecessorClosed ==
    \A s \in Sid : parent[s] # None => status[s] # "absent" /\ status[parent[s]] = "inactive"

(* The event bus never carries what the database does not: an event is     *)
(* published only for a session that was committed, opened by a login or a *)
(* rotation as the event says, or closed for good.                         *)
Backed(e) ==
    CASE e.type = "logged_in"    -> e.sid \in Sid /\ status[e.sid] # "absent" /\ parent[e.sid] = None
      [] e.type = "refreshed"    -> e.sid \in Sid /\ status[e.sid] # "absent" /\ parent[e.sid] \in Sid
      [] e.type = "logged_out"   -> e.sid \in Sid /\ status[e.sid] = "inactive"
      [] e.type = "user_created" -> user = "google"

PublishedIsBacked == \A e \in published : Backed(e)

(* However many first Google logins race, one of them at most says that it *)
(* created the user (the UNIQUE email behind login_with_google).           *)
Announces(o) == o.isnew \/ Created \in o.events
UserCreatedOnce ==
    /\ \A o1, o2 \in ops : Announces(o1) /\ Announces(o2) => o1 = o2
    /\ Created \in published => \A o \in ops : ~Announces(o)

(* "Enforces MAX_ACTIVE_SESSIONS" (docs/modules/auth.md, add_session). *)
SessionCap == Cardinality(LiveIn(status)) <= MaxActive

(* "all sessions for the user should be revoked after reuse is detected"   *)
(* (refresh_token_reuse_test.rs): no session is active in what the saving  *)
(* transaction of refresh_token left behind.                               *)
ReuseClosesEverySession ==
    \A o \in ops : o.reply = "reused" => \A s \in Sid : o.snap[s] # "active"

(* "If the refresh token is valid but the corresponding session has        *)
(* is_active = false, the refresh is rejected" (contracts/refresh.md): so  *)
(* a session is rotated at most once.                                      *)
SingleSuccessor ==
    \A s, t \in Sid : parent[s] # None /\ parent[s] = parent[t] => s = t

(* "the refresh token is immediately revoked" (contracts/logout.md): a     *)
(* session whose logout was announced has no session rotated from it.      *)
LogoutEndsSession ==
    \A e \in published : e.type = "logged_out" => \A s \in Sid : parent[s] # e.sid
=============================================================================
