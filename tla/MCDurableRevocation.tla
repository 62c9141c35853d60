------------------------ MODULE MCDurableRevocation ------------------------
EXTENDS DurableRevocation, TLC

(* Every token has the same exp, so tokens are interchangeable. *)
MCExp == [j \in Jti |-> 1]

Symmetric == Permutations(Instance) \union Permutations(Jti) \union Permutations(Req)

(* A bound: two requests at once only while every instance but one is as    *)
(* it was when it started.                                                  *)
Fresh(i) == up[i] /\ flush[i] = Idle /\ seen[i] = {} /\ \A j \in Jti : pending[i][j] = 0
Narrow ==
    \/ Cardinality(reqs) <= 1
    \/ \E i \in Instance :
        /\ \A q \in reqs : q.inst = i
        /\ \A k \in Instance \ {i} : Fresh(k)

NarrowSpec == Init /\ [][Next /\ Narrow']_vars
=============================================================================
