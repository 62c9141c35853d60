---------------------------- MODULE MCThrottling ----------------------------
(***************************************************************************)
(* What decides whether a request is let through: the address it is        *)
(* counted under and the two rate limiters.  The components are checked    *)
(* side by side: a behaviour is one of the component, and the instance of  *)
(* it, that part names, and the variables of the others keep their initial *)
(* values.  The state space is the sum of theirs, not the product.         *)
(***************************************************************************)
EXTENDS Throttling, RedisThrottling, TLC

CONSTANTS client, other, proxy1, proxy2, local

Everybody == {client, other, proxy1, proxy2, local}
Proxies == {proxy1, proxy2}
Local == {local}
Listed == {other}

CONSTANTS
    EarlyTime,                  \* bound: time, with more addresses than the table holds
    ClusterTime,                \* bound: time, with more than one instance
    BriefTime                   \* bound: time, with more than one scope, or with calls of the port

VARIABLE part                   \* what this behaviour is of

address == <<sent, path, forwarded, real, resolved, scraped>>
memory == vars
redis == <<time, redisUp, counter, expires, late, shadow, errors, metric, reqs, replied, counted>>
all == <<part, address, memory, redis>>

Symmetric == Permutations(Ip) \union Permutations(Instance) \union Permutations(Request)
    \union Permutations(Scope)

-----------------------------------------------------------------------------
Parts == {"address", "flood", "straddle", "cluster", "scopes", "late", "port"}

(* More addresses than the table holds; or one at a time, and three windows. *)
Early == now <= EarlyTime
Single == Cardinality(DOMAIN entries) <= 1

(* The instances and scopes that are used, and the requests in flight, are  *)
(* no more than i, s and n.                                                 *)
Within(i, s, n) ==
    /\ Cardinality({x \in Instance : \/ \E z \in Scope : DOMAIN shadow[x][z] # {}
                                     \/ \E q \in reqs : q.at = x}) <= i
    /\ Cardinality({z \in Scope : \/ \E x \in Instance : DOMAIN shadow[x][z] # {}
                                  \/ \E c \in Caller : counter[<<z, c>>] > 0
                                  \/ \E q \in reqs : q.scope = z}) <= s
    /\ Cardinality(reqs) <= n

(* Two instances over one Redis; logins and refreshes of one address; the   *)
(* operations that no handler calls, with requests for a while.  In the     *)
(* part that is left, timed-out commands of one instance land late.         *)
InCluster == late = {} /\ time <= ClusterTime /\ Within(2, 1, 2)
InScopes == late = {} /\ time <= BriefTime /\ Within(1, 2, 1)
InPort == late = {} /\ Within(1, 1, IF time <= BriefTime THEN 1 ELSE 0)

(* The request of a client that writes no headers of its own. *)
Quiet == sent = <<>> /\ real = Junk /\ path = <<client>>

ThrottlingInit ==
    /\ part \in Parts
    /\ IF part = "address" THEN Addresses!Init ELSE Quiet /\ Addresses!Init
    /\ Init
    /\ Redis!Init

(* A request has been handled. *)
Handled == resolved # Junk /\ UNCHANGED address

ThrottlingNext ==
    /\ UNCHANGED part
    /\ \/ part = "address" /\ (Addresses!Next \/ Handled) /\ UNCHANGED <<memory, redis>>
       \/ part = "flood" /\ Next /\ Early' /\ UNCHANGED <<address, redis>>
       \/ part = "straddle" /\ Next /\ Single' /\ UNCHANGED <<address, redis>>
       \/ part = "cluster" /\ Redis!Serve /\ InCluster' /\ UNCHANGED <<address, memory>>
       \/ part = "scopes" /\ Redis!Serve /\ InScopes' /\ UNCHANGED <<address, memory>>
       \/ part = "late" /\ Redis!Serve /\ Within(1, 1, 1)' /\ UNCHANGED <<address, memory>>
       \/ part = "port" /\ Redis!Next /\ InPort' /\ UNCHANGED <<address, memory>>

ThrottlingSpec == ThrottlingInit /\ [][ThrottlingNext]_all
=============================================================================
