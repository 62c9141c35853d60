------------------------------ MODULE MCRecords -----------------------------
(***************************************************************************)
(* What requests leave in the database, apart from sessions: audit rows,   *)
(* roles, profiles, and how a save gets there; and the list of users.  The *)
(* components are checked side by side: a behaviour is one of the          *)
(* component, and the instance of it, that part names, and the variables   *)
(* of the others keep their initial values.                                *)
(***************************************************************************)
EXTENDS AuditTrail, TLC

CONSTANTS
    Trio,                                   \* users, or tasks that save; Slot are also requests
    Ids, Latest,                            \* users in a list, the last time of creation
    PageSize, LongestPage, PageSizes,       \* DEFAULT_PAGE_SIZE, MAX_PAGE_SIZE, what clients send
    UrlLen, BioLen, Texts,                  \* MAX_URL_LEN, MAX_BIO_LEN, what clients send
    Connections, SessionsEver               \* db_max_connections, sessions ever created

VARIABLES
    part,                                               \* what this behaviour is of
    users, roles, reqs, replied,                        \* AdminRoles
    created, walk,                                      \* UserListing
    row, changes,                                       \* Profiles
    there, active, number, free, queue, tasks           \* SaveTransaction

audit == vars
admin == <<users, roles, reqs, replied>>
listing == <<created, walk>>
profile == <<row, changes>>
saves == <<there, active, number, free, queue, tasks>>
all == <<part, audit, admin, listing, profile, saves>>

Admin == INSTANCE AdminRoles WITH User <- Trio, Request <- Slot

Listing == INSTANCE UserListing WITH
    Id <- Ids, MaxCreated <- Latest, DefaultSize <- PageSize, MaxSize <- LongestPage,
    Sizes <- PageSizes

UserProfile == INSTANCE Profiles WITH
    Request <- Slot, MaxUrlLen <- UrlLen, MaxBioLen <- BioLen, Text <- Texts, reqs <- changes

Saves == INSTANCE SaveTransaction WITH
    Task <- Trio, MaxConnections <- Connections, MaxSession <- SessionsEver, next <- number

ASSUME RecordsConstants ==
    /\ Listing!ListingConstants /\ Listing!SizeConstants /\ PageSizes # {}
    /\ UserProfile!ProfileConstants
    /\ Saves!SaveConstants

(* Values for a run: no page size, none at all, one, too many; and texts    *)
(* that are empty, blank, spaced, as long as a URL or a bio may be, longer. *)
SomeSizes == {-1, 0, 1, 9}
SomeTexts ==
    [chars : {0, 2}, width : {1}, spaced : BOOLEAN]
    \union {[chars |-> 3, width |-> 1, spaced |-> FALSE],
            [chars |-> 2, width |-> 2, spaced |-> FALSE]}

Symmetric == Permutations(Slot) \union Permutations(Trio)

-----------------------------------------------------------------------------
Parts == {"audit", "admin", "fresh admin", "listing", "profile", "saves"}

RecordsInit ==
    /\ part \in Parts
    /\ Init
    /\ IF part \in {"admin", "fresh admin"} THEN Admin!Init
       ELSE users = Trio /\ roles = [u \in Trio |-> "admin"] /\ Admin!Init
    /\ IF part = "listing" THEN Listing!Init
       ELSE /\ created = [u \in Ids |-> 0] /\ Listing!Init
            /\ walk.raw = (CHOOSE n \in PageSizes : TRUE) /\ walk.page = 1
    /\ UserProfile!Init
    /\ IF part = "saves" THEN Saves!Init ELSE number = 1 /\ active = {} /\ Saves!Init

(* A walk through the list has ended and everybody is there. *)
Walked ==
    /\ walk.pc \in {"done", "refused"} /\ \A u \in Ids : created[u] > 0
    /\ UNCHANGED listing

RecordsNext ==
    /\ UNCHANGED part
    /\ \/ part = "audit" /\ Next /\ UNCHANGED <<admin, listing, profile, saves>>
       \/ part = "admin" /\ Admin!Next /\ UNCHANGED <<audit, listing, profile, saves>>
       \/ /\ part = "fresh admin" /\ Admin!FreshNext
          /\ UNCHANGED <<audit, listing, profile, saves>>
       \/ /\ part = "listing" /\ (Listing!Next \/ Walked)
          /\ UNCHANGED <<audit, admin, profile, saves>>
       \/ /\ part = "profile" /\ UserProfile!FreshNext
          /\ UNCHANGED <<audit, admin, listing, saves>>
       \/ part = "saves" /\ Saves!Next /\ UNCHANGED <<audit, admin, listing, profile>>

RecordsSpec == RecordsInit /\ [][RecordsNext]_all

-----------------------------------------------------------------------------
(* AdminRoles!OnlyAdminsServed: nobody is answered who was not an admin at *)
(* some moment of the request.                                             *)
OnlyAdminsServed == part \in {"admin", "fresh admin"} => Admin!OnlyAdminsServed

(* AdminRoles!AnswerIsLater: the role in the answer to a change is one the *)
(* target had after that change.                                           *)
AnswerIsLater == part \in {"admin", "fresh admin"} => Admin!AnswerIsLater

(* AdminRoles!SomeAdmin: changes that are not overtaken leave an admin. *)
SomeAdmin == part = "fresh admin" => Admin!SomeAdmin

(* UserListing!NobodySkipped: a walk through the pages meets every user    *)
(* that was there when it began.                                           *)
NobodySkipped == part = "listing" => Listing!NobodySkipped

(* Profiles!OnlyProvidedFields, of changes that are not overtaken: only    *)
(* the fields that a request provides change.                              *)
OnlyProvidedFields == [][part = "profile" => UserProfile!ChangesProvided]_all

(* SaveTransaction!SomebodyGoesOn: saves never wait for each other in a    *)
(* circle, nor for connections that nobody gives back.                     *)
SomebodyGoesOn == part = "saves" => Saves!SomebodyGoesOn

(* SaveTransaction!AllOrNothing: what a save changes becomes visible at    *)
(* once.                                                                   *)
AllOrNothing == [][part = "saves" => Saves!ShowsAllAtOnce]_all
=============================================================================
