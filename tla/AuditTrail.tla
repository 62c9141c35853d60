----------------------------- MODULE AuditTrail -----------------------------
(***************************************************************************)
(* From a committed use case to a row of user_actions.  A handler          *)
(* publishes the events of its use case on a broadcast channel once the    *)
(* transaction has committed; one task per process receives them and       *)
(* inserts one row each.  The channel keeps the last Capacity events: a    *)
(* receiver that falls further behind is told so and goes on with the      *)
(* oldest event that is left.  Events are known by their place in          *)
(* published.                                                              *)
(***************************************************************************)
EXTENDS Integers, Sequences

CONSTANTS
    Slot,           \* requests between their commit and their answer
    Capacity,       \* capacity of the channel, 256 in main
    MaxEvents       \* bound: events published

ASSUME AuditConstants == Capacity \in Nat \ {0} /\ MaxEvents \in Nat

Kind == {"login", "logout", "refresh", "user_created"}

VARIABLES
    up,             \* whether the process runs
    waiting,        \* requests that have committed and not published yet
    published,      \* every event published so far, by its kind
    next,           \* the place the receiver reads next
    holding,        \* the place of the event that is being inserted; 0 for none
    user_actions,   \* the table: the places of the events recorded, in the order of the rows
    failed,         \* history: places whose INSERT was reported to have failed
    died            \* history: places that were unread or held when a process died

vars == <<up, waiting, published, next, holding, user_actions, failed, died>>

(* What the use cases return: a first Google login creates its user too. *)
Batch == {<<"login">>, <<"user_created", "login">>, <<"refresh">>, <<"logout">>}

Places == 1 .. Len(published)

TypeOK ==
    /\ up \in BOOLEAN
    /\ waiting \subseteq [slot : Slot, events : Batch]
    /\ published \in Seq(Kind)
    /\ next \in 1 .. Len(published) + 1
    /\ holding \in 0 .. next - 1
    /\ user_actions \in Seq(Places)
    /\ failed \subseteq Places
    /\ died \subseteq Places

Init ==
    /\ up = TRUE
    /\ waiting = {}
    /\ published = <<>>
    /\ next = 1
    /\ holding = 0
    /\ user_actions = <<>>
    /\ failed = {}
    /\ died = {}

-----------------------------------------------------------------------------
(* The handlers. *)

(* A use case commits and returns its events; the handler resets the rate   *)
(* limiter next, and publishes after that.                                  *)
Commit(s, batch) ==
    /\ up
    /\ \A w \in waiting : w.slot # s
    /\ waiting' = waiting \union {[slot |-> s, events |-> batch]}
    /\ UNCHANGED <<up, published, next, holding, user_actions, failed, died>>

(* The loop over the events has no await in it.  send never fails or waits. *)
Publish(w) ==
    /\ up
    /\ Len(published) + Len(w.events) <= MaxEvents
    /\ published' = published \o w.events
    /\ waiting' = waiting \ {w}
    /\ UNCHANGED <<up, next, holding, user_actions, failed, died>>

(* The client goes away while the rate limiter is being reset. *)
Leave(w) ==
    /\ waiting' = waiting \ {w}
    /\ UNCHANGED <<up, published, next, holding, user_actions, failed, died>>

-----------------------------------------------------------------------------
(* The audit task. *)

Oldest == Len(published) - Capacity + 1

(* Mutants of the next definition: the task ends; it goes on with the       *)
(* newest event.                                                            *)
Lagged_Breaks == FALSE
Lagged_Newest ==
    /\ up /\ holding = 0
    /\ next < Oldest
    /\ next' = Len(published)
    /\ UNCHANGED <<up, waiting, published, holding, user_actions, failed, died>>

(* recv: the event has been overwritten.  Lagged(n) is logged. *)
Lagged ==
    /\ up /\ holding = 0
    /\ next < Oldest
    /\ next' = Oldest
    /\ UNCHANGED <<up, waiting, published, holding, user_actions, failed, died>>

(* recv: the next event.  UserCreated needs no row. *)
Receive ==
    /\ up /\ holding = 0
    /\ next >= Oldest /\ next \in Places
    /\ next' = next + 1
    /\ holding' = IF published[next] = "user_created" THEN 0 ELSE next
    /\ UNCHANGED <<up, waiting, published, user_actions, failed, died>>

(* insert_action, and the error branch of handle, which logs.  A failure    *)
(* may be reported for a row that was written.                              *)
Insert ==
    /\ up /\ holding # 0
    /\ \/ user_actions' = Append(user_actions, holding) /\ UNCHANGED failed
       \/ /\ user_actions' \in {user_actions, Append(user_actions, holding)}
          /\ failed' = failed \union {holding}
    /\ holding' = 0
    /\ UNCHANGED <<up, waiting, published, next, died>>

AuditTask == Lagged \/ Receive \/ Insert

-----------------------------------------------------------------------------
(* The process dies, with the channel and every request in it, perhaps      *)
(* after Postgres has written the row it was waiting for; a new one starts  *)
(* with an empty channel.                                                   *)
Crash ==
    /\ up
    /\ up' = FALSE
    /\ waiting' = {}
    /\ died' = died \union (next .. Len(published)) \union ({holding} \ {0})
    /\ next' = Len(published) + 1
    /\ holding' = 0
    /\ \/ UNCHANGED user_actions
       \/ holding # 0 /\ user_actions' = Append(user_actions, holding)
    /\ UNCHANGED <<published, failed>>

Start ==
    /\ ~up
    /\ up' = TRUE
    /\ UNCHANGED <<waiting, published, next, holding, user_actions, failed, died>>

Next ==
    \/ \E s \in Slot, batch \in Batch : Commit(s, batch)
    \/ \E w \in waiting : Publish(w) \/ Leave(w)
    \/ AuditTask
    \/ Crash
    \/ Start

Spec == Init /\ [][Next]_vars

(* The audit task is a task of its own that loops while the process lives. *)
Fairness == WF_vars(AuditTask)

FairSpec == Spec /\ Fairness

-----------------------------------------------------------------------------
(* The rows are the events that were published, in that order and none      *)
(* twice, less those that are missing for a cause: an event that the task   *)
(* is done with has no row only if it needs none, its INSERT failed, its    *)
(* process died, or Capacity newer events were published before it was      *)
(* received.                                                                *)
InOrder ==
    /\ \A m, n \in DOMAIN user_actions : m < n => user_actions[m] < user_actions[n]
    /\ \A m \in DOMAIN user_actions : published[user_actions[m]] # "user_created"

MissingForCause(p) ==
    \/ published[p] = "user_created"
    \/ p \in failed \union died
    \/ p + Capacity <= Len(published)

RowsAccountedFor ==
    /\ InOrder
    /\ \A p \in 1 .. next - 1 :
        \/ \E m \in DOMAIN user_actions : user_actions[m] = p
        \/ p = holding
        \/ MissingForCause(p)

(* Every event published is dealt with in the end: the task neither stops   *)
(* on an error nor on a lag.                                                *)
DealtWith == \A p \in 1 .. MaxEvents : (p \in Places) ~> (p < next /\ p # holding)
=============================================================================
