----------------------------- MODULE JwksCache ------------------------------
(***************************************************************************)
(* GoogleAuthProvider: Google's signing keys, cached for as long as Google *)
(* says and fetched again by whichever logins find them expired, several   *)
(* at a time if they arrive together.  A fetch that fails falls back on    *)
(* keys of any age.  The cache is written after the fetch returns, so an   *)
(* answer that Google gave earlier may overwrite one it gave later.        *)
(*                                                                         *)
(* Google is external: it publishes the next key Lead before it signs with *)
(* it and keeps a key for Linger after its last signature.  Key k is the   *)
(* k-th key; a key set is the interval it publishes.                       *)
(***************************************************************************)
EXTENDS Integers, Sequences

CONSTANTS
    Login,              \* requests that verify an ID token
    Flawed,             \* what is wrong with the tokens they bring
    Headers,            \* Cache-Control values: sequences of directives
    DefaultTtl,         \* DEFAULT_JWKS_TTL
    LongestTtl,         \* the longest lifetime Google gives its keys
    Timeout,            \* JWKS_FETCH_TIMEOUT
    Lead, Linger,       \* Google's promises about its keys
    Life,               \* how long an ID token is valid
    MaxKey, MaxTime     \* bounds: keys and time

(* What can be wrong with an ID token, in the order verify_id_token looks:  *)
(* its header cannot be read or names no key; its signature or a registered *)
(* claim does not hold; its address is missing; its address is unverified.  *)
Defect == {"none", "header", "claims", "email", "unverified"}

Unparsable == -1        \* a value that is no number

(* The directives that give an age. *)
Ages(header) ==
    {i \in DOMAIN header : header[i].name = "max-age" /\ header[i].value # Unparsable}

(* The values the constants may have.  Headers are lists of directives; the *)
(* first max-age of each that is a number is what Google means.             *)
JwksConstants ==
    /\ {DefaultTtl, LongestTtl, Timeout, Lead, Linger, Life, MaxKey, MaxTime} \subseteq Nat
    /\ Flawed \subseteq Defect /\ 0 < DefaultTtl /\ DefaultTtl <= LongestTtl
    /\ Lead >= LongestTtl + Timeout
    /\ Linger > Life
    /\ Headers # {} /\ Headers \subseteq Seq([name : STRING, value : Nat \union {Unparsable}])
    /\ \A header \in Headers : Ages(header) # {} =>
        \E i \in Ages(header) : (\A j \in Ages(header) : i <= j) /\ header[i].value <= LongestTtl

VARIABLES
    now,
    google,     \* the keys Google publishes, the one it signs with, since when
    cache,      \* inner: the cached keys and when they expire
    logins,     \* the verifications in flight
    replied,    \* what the last step answered, if it answered
    stored,     \* some fetch has filled the cache
    failed      \* some fetch has failed

vars == <<now, google, cache, logins, replied, stored, failed>>

None == [none |-> TRUE]

(* Mutant of the next definition: the last max-age counts. *)
parse_max_age_Last(header) ==
    IF Ages(header) = {} THEN DefaultTtl
    ELSE header[CHOOSE i \in Ages(header) : \A j \in Ages(header) : j <= i].value

(* parse_max_age, or the default: the first max-age that is a number. *)
parse_max_age(header) ==
    IF Ages(header) = {} THEN DefaultTtl
    ELSE header[CHOOSE i \in Ages(header) : \A j \in Ages(header) : i <= j].value

Keys == SUBSET (1 .. MaxKey)
Token == [key : 1 .. MaxKey, issued : Nat, defect : Defect]
KeySet == [jwks : Keys, asof : Nat, ttl : Nat]
Cached == [jwks : Keys, asof : Nat, expires_at : Nat]

TypeOK ==
    /\ now \in Nat
    /\ google \in [oldest : 1 .. MaxKey, signing : 1 .. MaxKey, newest : 1 .. MaxKey, since : Int]
    /\ cache \in Cached \union {None}
    /\ logins \in [Login ->
            [pc : {"idle"}]
            \union [pc : {"fetching"}, token : Token, until : Nat, got : KeySet \union {None}]
            \union [pc : {"storing"}, token : Token, entry : Cached]]
    /\ replied \in [answer : {"user", "refused", "error"}, token : Token,
                    age : Nat, stale : BOOLEAN] \union {None}
    /\ {stored, failed} \subseteq BOOLEAN

Idle == [pc |-> "idle"]
Published == google.oldest .. google.newest

Init ==
    /\ now = 0
    /\ google = [oldest |-> 1, signing |-> 1, newest |-> 1, since |-> -Lead]
    /\ cache = None
    /\ logins = [l \in Login |-> Idle]
    /\ replied = None
    /\ stored = FALSE
    /\ failed = FALSE

Become(l, r) == logins' = [logins EXCEPT ![l] = r]

-----------------------------------------------------------------------------
(* validate_google_claims: an address, and one Google has verified. *)
validate_google_claims(defect) == defect \notin {"email", "unverified"}

(* The rest of verify_id_token once the keys are there. *)
Valid(token, jwks) ==
    /\ token.defect # "header"
    /\ token.key \in jwks
    /\ token.defect # "claims"
    /\ now <= token.issued + Life
    /\ validate_google_claims(token.defect)

Reply(token, keys, stale) ==
    replied' = [answer |-> IF Valid(token, keys.jwks) THEN "user" ELSE "refused",
                token |-> token, age |-> now - keys.asof, stale |-> stale]

(* A token Google has just signed, or one with a defect. *)
Issued(defect) == [key |-> google.signing, issued |-> now, defect |-> defect]

(* Mutant of the next definition: an expired cache is used. *)
Ask_Expired(l, token) ==
    /\ logins[l] = Idle
    /\ IF cache # None
       THEN Reply(token, cache, FALSE) /\ UNCHANGED logins
       ELSE /\ Become(l, [pc |-> "fetching", token |-> token, until |-> now + Timeout, got |-> None])
            /\ replied' = None
    /\ UNCHANGED <<now, google, cache, stored, failed>>

(* get_or_fetch: the cached keys while they are fresh, otherwise a request  *)
(* to Google that waits for no other.                                       *)
Ask(l, token) ==
    /\ logins[l] = Idle
    /\ IF cache # None /\ cache.expires_at > now
       THEN Reply(token, cache, FALSE) /\ UNCHANGED logins
       ELSE /\ Become(l, [pc |-> "fetching", token |-> token, until |-> now + Timeout, got |-> None])
            /\ replied' = None
    /\ UNCHANGED <<now, google, cache, stored, failed>>

(* Google answers the request with the keys it publishes now. *)
Answer(l) ==
    \E header \in Headers :
        /\ logins[l].pc = "fetching" /\ logins[l].got = None
        /\ Become(l, [logins[l] EXCEPT !.got =
                [jwks |-> Published, asof |-> now, ttl |-> parse_max_age(header)]])
        /\ replied' = None
        /\ UNCHANGED <<now, google, cache, stored, failed>>

(* fetch_jwks_from_google returns; the lifetime counts from here. *)
Arrive(l) ==
    LET got == logins[l].got IN
    /\ logins[l].pc = "fetching" /\ got # None
    /\ Become(l, [pc |-> "storing", token |-> logins[l].token,
                  entry |-> [jwks |-> got.jwks, asof |-> got.asof, expires_at |-> now + got.ttl]])
    /\ replied' = None
    /\ UNCHANGED <<now, google, cache, stored, failed>>

(* The write lock is acquired: the entry goes in, over whatever is there. *)
Store(l) ==
    /\ logins[l].pc = "storing"
    /\ cache' = logins[l].entry
    /\ Reply(logins[l].token, logins[l].entry, FALSE)
    /\ Become(l, Idle)
    /\ stored' = TRUE
    /\ UNCHANGED <<now, google, failed>>

(* The fetch fails or times out: keys of any age, or the error. *)
Fail(l) ==
    /\ logins[l].pc = "fetching"
    /\ IF cache # None
       THEN Reply(logins[l].token, cache, TRUE)
       ELSE replied' = [answer |-> "error", token |-> logins[l].token, age |-> 0, stale |-> FALSE]
    /\ Become(l, Idle)
    /\ failed' = TRUE
    /\ UNCHANGED <<now, google, cache, stored>>

(* The client goes away and the request with it. *)
Leave(l) ==
    /\ logins[l] # Idle
    /\ Become(l, Idle)
    /\ replied' = None
    /\ UNCHANGED <<now, google, cache, stored, failed>>

(* Google rotates: publishes a key, signs with it later, drops the old one. *)
Rotate ==
    /\ \/ /\ google.oldest = google.newest /\ google.newest < MaxKey
          /\ google' = [google EXCEPT !.newest = @ + 1, !.since = now]
       \/ /\ google.signing < google.newest /\ now - google.since >= Lead
          /\ google' = [google EXCEPT !.signing = google.newest, !.since = now]
       \/ /\ google.oldest < google.signing /\ now - google.since >= Linger
          /\ google' = [google EXCEPT !.oldest = google.signing]
    /\ replied' = None
    /\ UNCHANGED <<now, cache, logins, stored, failed>>

(* The timeout ends a request in time, and the write lock is never held     *)
(* across an await.                                                         *)
Tick ==
    /\ now < MaxTime
    /\ \A l \in Login :
        /\ logins[l].pc # "storing"
        /\ logins[l].pc = "fetching" => now < logins[l].until
    /\ now' = now + 1
    /\ replied' = None
    /\ UNCHANGED <<google, cache, logins, stored, failed>>

Next ==
    \/ \E l \in Login, defect \in Flawed : Ask(l, Issued(defect))
    \/ \E l \in Login : Answer(l) \/ Arrive(l) \/ Store(l) \/ Fail(l) \/ Leave(l)
    \/ Rotate
    \/ Tick

Spec == Init /\ [][Next]_vars

-----------------------------------------------------------------------------
(* While no fetch fails, a login is accepted exactly when its token is in   *)
(* order: however the fetches of racing logins are answered and stored, no  *)
(* token is refused because its key is not among the cached ones.           *)
TokensJudged ==
    replied # None /\ ~failed =>
        /\ replied.answer # "error"
        /\ replied.answer = "user" <=>
            replied.token.defect = "none" /\ now <= replied.token.issued + Life

(* The fallback to keys past their lifetime is for failures, and there when *)
(* it is needed: keys are never served as late as their lifetime and one    *)
(* fetch after Google published them, except to a login whose own fetch     *)
(* failed ("serves that stale value instead of propagating the error"), and *)
(* once a fetch has succeeded no login is turned away for a failed one      *)
(* ("The error only propagates when there's nothing cached to fall back     *)
(* on").                                                                    *)
StaleOnlyOnFailure ==
    replied # None =>
        /\ ~replied.stale => replied.age < LongestTtl + Timeout
        /\ replied.answer = "error" => ~stored
=============================================================================
