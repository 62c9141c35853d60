------------------------------ MODULE MCProcess -----------------------------
(***************************************************************************)
(* What one process of the service does apart from the requests' data: it  *)
(* starts, connects and serves, and it bounds, caches and remembers.  The  *)
(* components are checked side by side: a behaviour is one of the          *)
(* component that part stands for, and the variables of the others keep    *)
(* their initial values.                                                   *)
(***************************************************************************)
EXTENDS BcryptWork, Boot, Caches, TLC

CONSTANTS Steady, FewFaults     \* environments and faults of some parts

VARIABLE part                   \* what this behaviour is of

bcrypt == vars
passwords == <<dummies, verifying>>
all == <<part, bcrypt, startup, settings, passwords, jwks, blacklist>>

-----------------------------------------------------------------------------
(* Environments of an instance: Unset is AuthSettings' -1, Malformed -2. *)
Good == [cost |-> -1, permits |-> -1, expiry |-> -1,
         secret |-> [len |-> 32, unique |-> 8],
         password |-> [len |-> 12, weak |-> FALSE, classes |-> 3],
         redis |-> "set", tls |-> "unset"]

(* one value of one variable away from a good environment *)
Misconfigured ==
    {[Good EXCEPT !.cost = c] : c \in {-2, 11, 31, 32}}
    \cup {[Good EXCEPT !.permits = p] : p \in {-2, 0, 1, 512, 513, 4096}}
    \cup {[Good EXCEPT !.expiry = -2],
          [Good EXCEPT !.secret.len = -1],
          [Good EXCEPT !.secret.len = 31],
          [Good EXCEPT !.secret.unique = 7],
          [Good EXCEPT !.password.len = -1],
          [Good EXCEPT !.password.len = 11],
          [Good EXCEPT !.password.classes = 2],
          [Good EXCEPT !.redis = "unparsable"],
          [Good EXCEPT !.tls = "unreadable"]}

Loadable == {Good, [Good EXCEPT !.redis = "unset"]}
Edited == {[Good EXCEPT !.redis = r] : r \in {"set", "unset", "blank"}} \cup Misconfigured

(* Every value a mode can have, an upper-case one and one sqlx rejects; and *)
(* parameters that name a host.                                             *)
Pairs ==
    [key : {"sslmode", "ssl-mode"},
     value : {"disable", "DISABLE", "allow", "prefer", "require", "verify-full", "bogus"}]
    \cup {[key |-> "application_name", value |-> "a"]}
    \cup [key : {"host", "hostaddr"}, value : Host]

Queries == UNION {[1 .. n -> Pairs] : n \in 0 .. 2}

(* No max-age; one after a max-age that is no number; one after another. *)
CacheControl ==
    {<<[name |-> "public", value |-> -1]>>,
     <<[name |-> "max-age", value |-> -1], [name |-> "max-age", value |-> 1]>>,
     <<[name |-> "max-age", value |-> 1], [name |-> "max-age", value |-> 3]>>}

ASSUME Steady \subseteq Env

Symmetric ==
    UNION {Permutations(S) : S \in {Instance, Thread, Login, Jti, Reader}}

-----------------------------------------------------------------------------
Parts == {"bcrypt", "restarts", "edits", "urls", "passwords", "rotation", "fetches", "blacklist"}

(* Instances that are killed and started again with what they had; or whose *)
(* environment is edited between two starts, with fewer faults.             *)
Restarted == env \in [Instance -> Steady]
Undisturbed == faults <= FewFaults

(* One login after the other, with tokens of every kind; or several whose   *)
(* fetches race.                                                            *)
OneLogin ==
    \A l, m \in Login : logins[l] # Jwks!Idle /\ logins[m] # Jwks!Idle => l = m
Flawless ==
    /\ \A l \in Login : logins[l] # Jwks!Idle => logins[l].token.defect = "none"
    /\ replied # Jwks!None => replied.token.defect = "none"

Quiet == setup = [flag |-> "unset", cert |-> "unset", key |-> "unset",
                  url |-> CHOOSE u \in Urls!Url : TRUE,
                  broken |-> "nothing", serverTls |-> FALSE]

ProcessInit ==
    /\ part \in Parts
    /\ Init
    /\ CASE part = "edits" -> Boots!Init
         [] part = "restarts" -> Restarted /\ Boots!Init
         [] OTHER -> env = [i \in Instance |-> Good] /\ Boots!Init
    /\ IF part = "urls" THEN Urls!Init ELSE Quiet /\ Urls!Init
    /\ Passwords!Init
    /\ Jwks!Init
    /\ Blacklist!Init

ProcessNext ==
    /\ UNCHANGED part
    /\ \/ /\ part = "bcrypt" /\ Next
          /\ UNCHANGED <<startup, settings, passwords, jwks, blacklist>>
       \/ /\ part = "restarts" /\ Boots!Next /\ Restarted'
          /\ UNCHANGED <<bcrypt, settings, passwords, jwks, blacklist>>
       \/ /\ part = "edits" /\ Boots!Next /\ Undisturbed'
          /\ UNCHANGED <<bcrypt, settings, passwords, jwks, blacklist>>
       \/ /\ part = "urls" /\ Urls!Next
          /\ UNCHANGED <<bcrypt, startup, passwords, jwks, blacklist>>
       \/ /\ part = "passwords" /\ Passwords!Next
          /\ UNCHANGED <<bcrypt, startup, settings, jwks, blacklist>>
       \/ /\ part = "rotation" /\ Jwks!Next /\ OneLogin'
          /\ UNCHANGED <<bcrypt, startup, settings, passwords, blacklist>>
       \/ /\ part = "fetches" /\ Jwks!Next /\ Flawless'
          /\ UNCHANGED <<bcrypt, startup, settings, passwords, blacklist>>
       \/ /\ part = "blacklist" /\ Blacklist!Next
          /\ UNCHANGED <<bcrypt, startup, settings, passwords, jwks>>

ProcessSpec == ProcessInit /\ [][ProcessNext]_all
=============================================================================
