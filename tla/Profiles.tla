------------------------------ MODULE Profiles ------------------------------
(***************************************************************************)
(* A user's profile: reading it, and changing one field or both.  A change *)
(* reads the row, fills the omitted fields from it, and writes every field *)
(* back, as two statements of no transaction.  Texts keep what the value   *)
(* objects look at: characters, bytes per character, white space around.   *)
(***************************************************************************)
EXTENDS Integers

CONSTANTS
    Request,            \* requests of the user in flight
    MaxUrlLen,          \* MAX_URL_LEN, in bytes
    MaxBioLen,          \* MAX_BIO_LEN, in bytes
    Text                \* texts that clients send

(* The values the constants may have. *)
ProfileConstants ==
    /\ MaxUrlLen \in Nat /\ MaxBioLen \in Nat
    /\ Text \subseteq [chars : Nat, width : 1 .. 4, spaced : BOOLEAN]

VARIABLES
    row,        \* the user's row of user_profiles, or None
    reqs        \* the request in each slot

vars == <<row, reqs>>

None == [none |-> TRUE]
Idle == [pc |-> "idle"]
Empty == [chars |-> 0, width |-> 1, spaced |-> FALSE]
Trimmed(t) == [t EXCEPT !.spaced = FALSE]
Stored == {Trimmed(t) : t \in Text} \union {None}
Profile == [avatar_url : Stored, bio : Stored]

TypeOK ==
    /\ row \in Profile \union {None}
    /\ reqs \in [Request ->
            {Idle, [pc |-> "get"]}
            \union [pc : {"find"}, avatar_url : Text \union {None}, bio : Text \union {None}]
            \union [pc : {"upsert"}, avatar_url : Text \union {None}, bio : Text \union {None},
                    profile : Profile, read : Profile \union {None}]
            \union [pc : {"done"}, status : {200, 400, 404, 500}, profile : Profile \union {None}]]

Init == row = None /\ reqs = [r \in Request |-> Idle]

Become(r, s) == reqs' = [reqs EXCEPT ![r] = s]
Done(status, profile) == [pc |-> "done", status |-> status, profile |-> profile]

-----------------------------------------------------------------------------
(* AvatarUrl::new and Bio::new: after trimming, some text, and not more     *)
(* bytes than allowed.                                                      *)
Accepts(t, max) == t.chars > 0 /\ t.chars * t.width <= max

(* find_by_user_id: a stored value that the value object refuses is dropped. *)
FieldRead(t, max) == IF t # None /\ t # Empty /\ Accepts(t, max) THEN Trimmed(t) ELSE None
find_by_user_id ==
    IF row = None THEN None
    ELSE [avatar_url |-> FieldRead(row.avatar_url, MaxUrlLen), bio |-> FieldRead(row.bio, MaxBioLen)]

(* get_profile_handler: one statement. *)
BeginGet(r) ==
    /\ reqs[r] = Idle
    /\ Become(r, [pc |-> "get"])
    /\ UNCHANGED row

Get(r) ==
    /\ reqs[r].pc = "get"
    /\ \/ Become(r, IF row = None THEN Done(404, None) ELSE Done(200, find_by_user_id))
       \/ Become(r, Done(500, None))
    /\ UNCHANGED row

(* update_profile_handler, up to its first statement. *)
BeginUpdate(r) ==
    /\ reqs[r] = Idle
    /\ \E a \in Text \union {None}, b \in Text \union {None} :
        Become(r, IF a = None /\ b = None THEN Done(400, None)
                  ELSE [pc |-> "find", avatar_url |-> a, bio |-> b])
    /\ UNCHANGED row

(* Mutant of the next definition: an omitted field is cleared. *)
Field_Cleared(sent, existing) == IF sent = None \/ sent = Empty THEN None ELSE Trimmed(sent)

(* The value of a field: empty clears it, omitted keeps what was read. *)
Field(sent, existing) ==
    IF sent = None THEN existing ELSE IF sent = Empty THEN None ELSE Trimmed(sent)

Bad(sent, max) == sent \notin {None, Empty} /\ ~Accepts(sent, max)

(* update_profile: the row is read, the fields are validated and filled in. *)
(* read is history: the row as it was then.                                 *)
Find(r) ==
    LET q == reqs[r]
        existing == IF row = None THEN [avatar_url |-> None, bio |-> None] ELSE find_by_user_id IN
    /\ q.pc = "find"
    /\ \/ Become(r, IF Bad(q.avatar_url, MaxUrlLen) \/ Bad(q.bio, MaxBioLen) THEN Done(400, None)
                    ELSE [pc |-> "upsert", avatar_url |-> q.avatar_url, bio |-> q.bio,
                          profile |-> [avatar_url |-> Field(q.avatar_url, existing.avatar_url),
                                       bio |-> Field(q.bio, existing.bio)],
                          read |-> row])
       \/ Become(r, Done(500, None))
    /\ UNCHANGED row

(* upsert: every field is written.  It may fail, or be done and reported    *)
(* failed.                                                                  *)
Upsert(r) ==
    /\ reqs[r].pc = "upsert"
    /\ \/ row' = reqs[r].profile /\ Become(r, Done(200, reqs[r].profile))
       \/ row' \in {row, reqs[r].profile} /\ Become(r, Done(500, None))

(* The response is sent; or the client leaves between two statements. *)
Leave(r) ==
    /\ reqs[r] # Idle
    /\ Become(r, Idle)
    /\ UNCHANGED row

Next == \E r \in Request :
    BeginGet(r) \/ Get(r) \/ BeginUpdate(r) \/ Find(r) \/ Upsert(r) \/ Leave(r)

Spec == Init /\ [][Next]_vars

(* The behaviours in which no change is overtaken: requests overlap, but    *)
(* whenever one changes the row, it still is what that request has read.    *)
FreshNext == \E r \in Request :
    \/ BeginGet(r) \/ Get(r) \/ BeginUpdate(r) \/ Find(r) \/ Leave(r)
    \/ Upsert(r) /\ (row' # row => row = reqs[r].read)

FreshSpec == Init /\ [][FreshNext]_vars

-----------------------------------------------------------------------------
Fields == {"avatar_url", "bio"}
Old(f) == IF row = None THEN None ELSE row[f]

(* "Only provided fields are updated; omitted or null fields remain         *)
(* unchanged": a change leaves alone the fields that its request left out,  *)
(* and gives the others the trimmed text, or none for an empty one.         *)
ChangesProvided ==
    \A r \in Request : reqs[r].pc = "upsert" /\ reqs'[r] # reqs[r] /\ row' # row =>
        \A f \in Fields :
            /\ reqs[r][f] = None => row'[f] = Old(f)
            /\ reqs[r][f] = Empty => row'[f] = None
            /\ reqs[r][f] \notin {None, Empty} => row'[f] = Trimmed(reqs[r][f])

OnlyProvidedFields == [][ChangesProvided]_vars

=============================================================================
