--------------------------- MODULE BcryptLimiter ----------------------------
(***************************************************************************)
(* run_bounded: bcrypt work runs on blocking threads, at most so many at a *)
(* time in the process.  The permit is acquired by the calling task and    *)
(* moved into the blocking closure, so it is given back when the work      *)
(* ends, not when the caller does: a caller may be dropped (its client     *)
(* disconnects) while it waits, while a permit is assigned to it, or while *)
(* its work runs, and bcrypt cannot be interrupted.                        *)
(***************************************************************************)
EXTENDS Integers, Sequences, FiniteSets

CONSTANTS
    Caller,         \* tasks that call run_bounded, one call at a time each
    MaxConcurrent,  \* max_concurrent, as configured
    MaxCalls        \* bound: calls of one task

ASSUME BcryptConstants == MaxConcurrent \in Nat /\ MaxCalls \in Nat

VARIABLES
    pc,             \* pc[c]: where task c stands in run_bounded
    calls,          \* calls[c]: how many calls it has made
    queue,          \* the tasks that wait for the semaphore, first come first
    free,           \* permits of the semaphore that nobody holds
    threads         \* work on blocking threads, each with its permit

vars == <<pc, calls, queue, free, threads>>

(* Mutant of Permits: no clamp. *)
Permits_NoClamp == MaxConcurrent

(* BcryptLimiter::new *)
Permits == IF MaxConcurrent > 1 THEN MaxConcurrent ELSE 1

Granted == {c \in Caller : pc[c] = "granted"}

Work(c) == [caller |-> c, call |-> calls[c]]

TypeOK ==
    /\ pc \in [Caller -> {"idle", "queued", "granted", "awaiting", "ok", "err"}]
    /\ calls \in [Caller -> Nat]
    /\ queue \in Seq(Caller)
    /\ free \in Nat
    /\ threads \subseteq [caller : Caller, call : Nat]

Init ==
    /\ pc = [c \in Caller |-> "idle"]
    /\ calls = [c \in Caller |-> 0]
    /\ queue = <<>>
    /\ free = Permits
    /\ threads = {}

-----------------------------------------------------------------------------
(* A task calls run_bounded.  A use case calls it once or twice in a row    *)
(* (verify a password, then hash a refresh token) and never holds a permit  *)
(* while it waits for another.                                              *)
Call(c) ==
    /\ pc[c] \in {"idle", "ok", "err"}
    /\ calls[c] < MaxCalls
    /\ pc' = [pc EXCEPT ![c] = "queued"]
    /\ calls' = [calls EXCEPT ![c] = @ + 1]
    /\ queue' = Append(queue, c)
    /\ UNCHANGED <<free, threads>>

(* The semaphore assigns a permit to the task that has waited longest. *)
Grant ==
    /\ queue # <<>>
    /\ free > 0
    /\ free' = free - 1
    /\ pc' = [pc EXCEPT ![Head(queue)] = "granted"]
    /\ queue' = Tail(queue)
    /\ UNCHANGED <<calls, threads>>

(* The task is polled: it takes the permit and spawns its work at once. *)
Spawn(c) ==
    /\ pc[c] = "granted"
    /\ pc' = [pc EXCEPT ![c] = "awaiting"]
    /\ threads' = threads \union {Work(c)}
    /\ UNCHANGED <<calls, queue, free>>

(* Who still waits for work w is told how it ended. *)
Tell(w, result) ==
    pc' = IF pc[w.caller] = "awaiting" /\ w = Work(w.caller)
          THEN [pc EXCEPT ![w.caller] = result] ELSE pc

(* The work returns, or panics; either way its permit is dropped with it. *)
Finish(w) ==
    /\ threads' = threads \ {w}
    /\ Tell(w, "ok") \/ Tell(w, "err")
    /\ free' = free + 1
    /\ UNCHANGED <<calls, queue>>

(* A task that waits is in the queue once; the others close the gap. *)
LeaveQueue(c) ==
    \/ pc[c] # "queued" /\ UNCHANGED queue
    \/ \E k \in DOMAIN queue :
        /\ queue[k] = c
        /\ queue' = [j \in 1 .. Len(queue) - 1 |-> queue[IF j < k THEN j ELSE j + 1]]

(* Mutant of the next definition: the permit of running work is given back  *)
(* with its caller.                                                         *)
Drop_Releases(c) ==
    /\ pc[c] \in {"queued", "granted", "awaiting"}
    /\ pc' = [pc EXCEPT ![c] = "idle"]
    /\ LeaveQueue(c)
    /\ free' = IF pc[c] = "queued" THEN free ELSE free + 1
    /\ UNCHANGED <<calls, threads>>

(* The task is dropped: it leaves the queue, or gives an assigned permit    *)
(* back, or leaves its work running.                                        *)
Drop(c) ==
    /\ pc[c] \in {"queued", "granted", "awaiting"}
    /\ pc' = [pc EXCEPT ![c] = "idle"]
    /\ LeaveQueue(c)
    /\ free' = IF pc[c] = "granted" THEN free + 1 ELSE free
    /\ UNCHANGED <<calls, threads>>

Next ==
    \/ \E c \in Caller : Call(c) \/ Spawn(c) \/ Drop(c)
    \/ Grant
    \/ \E w \in threads : Finish(w)

Spec == Init /\ [][Next]_vars

(* Tokio assigns permits, polls tasks that can go on and runs blocking      *)
(* threads; bcrypt ends.                                                    *)
Fairness ==
    /\ WF_vars(Grant)
    /\ \A c \in Caller : WF_vars(Spawn(c))
    /\ \A w \in [caller : Caller, call : 1 .. MaxCalls] :
        WF_vars(w \in threads /\ Finish(w))

FairSpec == Spec /\ Fairness

-----------------------------------------------------------------------------
(* No more work runs than the limit allows, also when callers have been     *)
(* dropped ("observed {observed_peak} concurrent executions, expected at    *)
(* most {MAX_CONCURRENT}").                                                 *)
AtMostPermits == Cardinality(threads) <= Permits

(* Every permit is free, assigned, or with running work: none is lost to a  *)
(* panic or to a caller that went away, and none is invented.               *)
PermitsConserved == free + Cardinality(Granted) + Cardinality(threads) = Permits

(* A task that waits is served, whatever the others do and whatever limit   *)
(* was configured ("Would hang forever (never acquiring a permit) if the    *)
(* clamp didn't apply"), unless it is dropped first.                        *)
Served == \A c \in Caller : (pc[c] = "queued") ~> (pc[c] \in {"awaiting", "idle"})
=============================================================================
