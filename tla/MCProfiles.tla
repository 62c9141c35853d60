----------------------------- MODULE MCProfiles -----------------------------
EXTENDS Profiles, TLC

Symmetric == Permutations(Request)

(* Empty, blank, short, spaced, as long as a URL may be, longer. *)
Texts ==
    {Empty, [Empty EXCEPT !.spaced = TRUE]}
    \union [chars : {1, 2, 3}, width : {1}, spaced : BOOLEAN]
    \union {[chars |-> 2, width |-> 2, spaced |-> FALSE]}
=============================================================================
