------------------------- MODULE RevocationRegistry -------------------------
(***************************************************************************)
(* What the access token revocation list promises, with no Redis, outbox,  *)
(* instance or worker in it: a revocation, once recorded, stays on record  *)
(* until its deadline, the token's exp plus the leeway, and revoke()       *)
(* answers Ok only for a revocation that is on record or past its          *)
(* deadline.                                                               *)
(***************************************************************************)
EXTENDS Integers

CONSTANTS
    Jti,            \* access tokens, by the "jti" claim
    Deadline        \* Deadline[j]: the second up to which j's revocation is kept

VARIABLES
    now,            \* the clock, in seconds
    recorded,       \* tokens whose revocation is on record somewhere durable
    acked           \* tokens for which some revoke() answered Ok

vars == <<now, recorded, acked>>

(* past the deadline *)
Dead(j, t) == Deadline[j] <= t

Init ==
    /\ now = 0
    /\ recorded = {}
    /\ acked = {}

(* Revocations come on record in any number, in any order. *)
Record ==
    /\ recorded \subseteq recorded'
    /\ recorded' \subseteq Jti
    /\ UNCHANGED <<now, acked>>

(* revoke() answers Ok: the revocation is on record, or past its deadline. *)
Acknowledge(j) ==
    /\ recorded' = recorded \/ recorded' = recorded \union {j}
    /\ j \in recorded' \/ Dead(j, now)
    /\ acked' = acked \union {j}
    /\ UNCHANGED now

(* Time passes, and records past their deadline by then are dropped. *)
Expire ==
    /\ now' \in {now, now + 1}
    /\ recorded' \subseteq recorded
    /\ \A j \in recorded \ recorded' : Dead(j, now')
    /\ UNCHANGED acked

Next ==
    \/ Record
    \/ \E j \in Jti : Acknowledge(j)
    \/ Expire

Spec == Init /\ [][Next]_vars

(* The promise as an invariant: an acknowledged revocation is on record    *)
(* until its deadline.                                                     *)
Kept == \A j \in acked : j \in recorded \/ Dead(j, now)
=============================================================================
