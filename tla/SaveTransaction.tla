-------------------------- MODULE SaveTransaction ---------------------------
(***************************************************************************)
(* save_aggregate as the database sees it: a connection from the pool, a   *)
(* transaction that inserts the new session and then invalidates sessions  *)
(* one by one in the order of the snapshot, newest first, each UPDATE      *)
(* holding its row until the end.  Saves of one user run concurrently,     *)
(* from snapshots taken before; other statements compete for the same      *)
(* connections.  Sessions are numbered in the order of created_at.         *)
(***************************************************************************)
EXTENDS Integers, Sequences, FiniteSets, FiniteSetsExt

CONSTANTS
    Task,           \* tasks that use the database
    MaxConnections, \* db_max_connections
    MaxSession      \* bound: sessions ever created

(* The values the constants may have. *)
SaveConstants ==
    /\ MaxConnections \in Nat \ {0}
    /\ MaxSession \in Nat

VARIABLES
    there,      \* the committed rows of the user's sessions
    active,     \* those that are active
    next,       \* the next session's number
    free,       \* connections nobody holds
    queue,      \* tasks that wait for one, first come first
    tasks       \* what each task does

vars == <<there, active, next, free, queue, tasks>>

Session == 1 .. MaxSession
Idle == [pc |-> "idle", opens |-> FALSE, new |-> {}, todo |-> {}, locked |-> {}]

TypeOK ==
    /\ active \subseteq there /\ there \subseteq Session
    /\ next \in 1 .. MaxSession + 1
    /\ free \in 0 .. MaxConnections
    /\ queue \in Seq(Task)
    /\ tasks \in [Task -> [pc : {"idle", "acquire", "insert", "update", "commit"},
                           opens : BOOLEAN, new : SUBSET Session, todo : SUBSET Session, locked : SUBSET Session]]

(* Some sessions are there. *)
Init ==
    /\ next \in 1 .. MaxSession + 1
    /\ there = 1 .. next - 1
    /\ active \in SUBSET there
    /\ free = MaxConnections
    /\ queue = <<>>
    /\ tasks = [t \in Task |-> Idle]

Become(t, r) == tasks' = [tasks EXCEPT ![t] = r]
Holders(s) == {t \in Task : s \in tasks[t].locked}
Connected == {t \in Task : tasks[t].pc \in {"insert", "update", "commit"}}

-----------------------------------------------------------------------------
(* The ids save_aggregate updates: every session that is inactive in the    *)
(* aggregate, which holds all the user's sessions, old ones included.       *)
invalidated_ids(evicted) == (there \ active) \union evicted

(* A use case loads the aggregate, invalidates some sessions of it, perhaps *)
(* opens one, and saves it; by the time it does, another may have done so.  *)
Begin(t) ==
    /\ tasks[t] = Idle
    /\ \E evicted \in SUBSET active, opens \in BOOLEAN :
        /\ opens => next <= MaxSession
        /\ Become(t, [Idle EXCEPT !.pc = "acquire", !.todo = invalidated_ids(evicted), !.opens = opens])
    /\ queue' = Append(queue, t)
    /\ UNCHANGED <<there, active, next, free>>

(* A task issues a single statement. *)
BeginRead(t) ==
    /\ tasks[t] = Idle
    /\ Become(t, [Idle EXCEPT !.pc = "acquire"])
    /\ queue' = Append(queue, t)
    /\ UNCHANGED <<there, active, next, free>>

(* The pool hands a connection to the task that has waited longest. *)
Acquire ==
    /\ queue # <<>> /\ free > 0
    /\ LET t == Head(queue) IN Become(t, [tasks[t] EXCEPT !.pc = "insert"])
    /\ queue' = Tail(queue)
    /\ free' = free - 1
    /\ UNCHANGED <<there, active, next>>

(* insert_session: nobody else sees the row before the commit. *)
Insert(t) ==
    LET opens == tasks[t].opens /\ next <= MaxSession IN
    /\ tasks[t].pc = "insert"
    /\ Become(t, [tasks[t] EXCEPT !.pc = "update", !.new = IF opens THEN {next} ELSE {}])
    /\ next' = IF opens THEN next + 1 ELSE next
    /\ UNCHANGED <<there, active, free, queue>>

(* Mutants of the next definition: the sessions in any order; each UPDATE   *)
(* its own transaction.                                                     *)
Update_AnyOrder(t) ==
    /\ tasks[t].pc = "update"
    /\ \/ /\ tasks[t].todo = {}
          /\ Become(t, [tasks[t] EXCEPT !.pc = "commit"])
       \/ \E s \in tasks[t].todo :
            /\ Holders(s) = {}
            /\ Become(t, [tasks[t] EXCEPT !.todo = @ \ {s}, !.locked = @ \union {s}])
    /\ UNCHANGED <<there, active, next, free, queue>>
Update_Autocommit(t) ==
    /\ tasks[t].pc = "update"
    /\ \/ /\ tasks[t].todo = {}
          /\ Become(t, [tasks[t] EXCEPT !.pc = "commit"])
          /\ UNCHANGED active
       \/ /\ tasks[t].todo # {}
          /\ active' = active \ {Max(tasks[t].todo)}
          /\ Become(t, [tasks[t] EXCEPT !.todo = @ \ {Max(@)}])
    /\ UNCHANGED <<there, next, free, queue>>

(* UPDATE ... WHERE id: waits while another transaction holds the row. *)
Update(t) ==
    /\ tasks[t].pc = "update"
    /\ \/ /\ tasks[t].todo = {}
          /\ Become(t, [tasks[t] EXCEPT !.pc = "commit"])
       \/ /\ tasks[t].todo # {}
          /\ Holders(Max(tasks[t].todo)) = {}
          /\ Become(t, [tasks[t] EXCEPT !.todo = @ \ {Max(@)}, !.locked = @ \union {Max(tasks[t].todo)}])
    /\ UNCHANGED <<there, active, next, free, queue>>

Commit(t) ==
    /\ tasks[t].pc = "commit"
    /\ there' = there \union tasks[t].new
    /\ active' = (active \union tasks[t].new) \ tasks[t].locked
    /\ free' = free + 1
    /\ Become(t, Idle)
    /\ UNCHANGED <<next, queue>>

(* A task that waits is in the queue once; the others close the gap. *)
Unqueue(t) ==
    \/ tasks[t].pc # "acquire" /\ UNCHANGED queue
    \/ \E k \in DOMAIN queue :
        /\ queue[k] = t
        /\ queue' = [j \in 1 .. Len(queue) - 1 |-> queue[IF j < k THEN j ELSE j + 1]]

(* A statement fails, the wait for a connection times out, or the task is   *)
(* dropped with its client: the transaction is rolled back and the          *)
(* connection given back.                                                   *)
Rollback(t) ==
    /\ tasks[t] # Idle
    /\ free' = IF t \in Connected THEN free + 1 ELSE free
    /\ Unqueue(t)
    /\ Become(t, Idle)
    /\ UNCHANGED <<there, active, next>>

Next ==
    \/ \E t \in Task : Begin(t) \/ BeginRead(t) \/ Insert(t) \/ Update(t) \/ Commit(t) \/ Rollback(t)
    \/ Acquire

Spec == Init /\ [][Next]_vars

(* The pool serves its queue, statements end, and Postgres queues those who *)
(* wait for a row.  Nothing relies on a timeout or an error.                *)
Fairness ==
    /\ WF_vars(Acquire)
    /\ \A t \in Task : WF_vars(Insert(t)) /\ SF_vars(Update(t)) /\ WF_vars(Commit(t))

FairSpec == Spec /\ Fairness

-----------------------------------------------------------------------------
(* What a save changes becomes visible at once: the session it opens and    *)
(* those it invalidates, or nothing.                                        *)
ShowsAllAtOnce ==
    active' # active =>
        \E t \in Task :
            /\ tasks[t].pc = "commit" /\ tasks[t].todo = {}
            /\ active' = (active \union tasks[t].new) \ tasks[t].locked

AllOrNothing == [][ShowsAllAtOnce]_vars

(* Saves never wait for each other in a circle, because each takes its rows *)
(* newest first, and never for a connection that nobody will give back: as  *)
(* long as a task is under way, one of them can go on, without a timeout or *)
(* an error (find_sessions_by_user_id's ORDER BY, save_aggregate's loop).   *)
Blocked(t) ==
    /\ tasks[t].pc = "update" /\ tasks[t].todo # {}
    /\ Holders(Max(tasks[t].todo)) # {}

SomebodyGoesOn ==
    (\E t \in Task : tasks[t] # Idle) =>
        \/ queue # <<>> /\ free > 0
        \/ \E t \in Connected : ~Blocked(t)

(* Every task gets its connection and its rows and ends, with as few as one *)
(* connection for all of them.                                              *)
EverySaveEnds == \A t \in Task : tasks[t] # Idle ~> tasks[t] = Idle
=============================================================================
