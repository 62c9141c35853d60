---------------------------- MODULE UserListing -----------------------------
(***************************************************************************)
(* The list of users, page by page.  A page is an OFFSET into the users in *)
(* the order of their creation, newest first; nothing ties two requests    *)
(* together, so users created while somebody walks through the pages move  *)
(* everybody after them.                                                   *)
(***************************************************************************)
EXTENDS Integers, FiniteSets

CONSTANTS
    Id,                 \* the ids of users, as numbers
    MaxCreated,         \* creation times are 1 .. MaxCreated
    DefaultSize,        \* DEFAULT_PAGE_SIZE
    MaxSize,            \* MAX_PAGE_SIZE
    Sizes               \* the per_page values clients send

(* The values the constants may have. *)
ListingConstants ==
    /\ Id \subseteq Nat /\ IsFiniteSet(Id)
    /\ {MaxCreated, DefaultSize, MaxSize} \subseteq Nat
    /\ 1 <= DefaultSize /\ DefaultSize <= MaxSize

Omitted == -1           \* a query parameter that is not there
SizeConstants == Sizes \subseteq Nat \union {Omitted}

VARIABLES
    created,    \* created[u]: when u was created, 0 while there is no such user
    walk        \* a client that reads page after page

vars == <<created, walk>>

Users == {u \in Id : created[u] > 0}

Walk ==
    [pc : {"ask", "is_admin", "select", "roles", "done", "refused"},
     page : Nat \union {Omitted}, raw : Sizes,
     rows : SUBSET Id, counted : BOOLEAN, selected : BOOLEAN,
     there : SUBSET Id, seen : SUBSET Id]

TypeOK ==
    /\ created \in [Id -> 0 .. MaxCreated]
    /\ walk \in Walk

Init ==
    /\ created \in [Id -> 0 .. MaxCreated]
    /\ \E raw \in Sizes, page \in {Omitted, 0, 1} :
        walk = [pc |-> "ask", page |-> page, raw |-> raw, rows |-> {}, counted |-> FALSE,
                selected |-> FALSE, there |-> Users, seen |-> {}]

Set(f) == walk' = f /\ UNCHANGED created
Fail == Set([walk EXCEPT !.pc = "ask", !.counted = FALSE, !.selected = FALSE])

-----------------------------------------------------------------------------
(* normalize_per_page *)
normalize_per_page(raw) ==
    IF raw = Omitted THEN DefaultSize
    ELSE IF raw < 1 THEN 1 ELSE IF raw > MaxSize THEN MaxSize ELSE raw

(* normalize_page, whose result 0 is the error. *)
normalize_page(raw) == IF raw = Omitted THEN 1 ELSE raw

(* Mutant of the next definition: pages counted from zero. *)
Offset_Zero(page, size) == page * size

Offset(page, size) == (IF page > 1 THEN page - 1 ELSE 0) * size

(* ORDER BY created_at DESC, id DESC *)
Before(u, v) == created[u] > created[v] \/ (created[u] = created[v] /\ u > v)
Rank(u) == Cardinality({v \in Users : Before(v, u)})

list_user_summaries(limit, offset) == {u \in Users : Rank(u) \in offset .. offset + limit - 1}

(* The client asks for its page. *)
Ask ==
    /\ walk.pc = "ask"
    /\ Set([walk EXCEPT !.pc = "is_admin"])

(* list_users_handler: is_admin, which may answer no or fail; then page     *)
(* zero is refused.                                                         *)
IsAdmin ==
    /\ walk.pc = "is_admin"
    /\ \/ Set([walk EXCEPT !.pc = "refused"])
       \/ Fail
       \/ LET page == normalize_page(walk.page) IN
          Set([walk EXCEPT !.page = page, !.pc = IF page = 0 THEN "refused" ELSE "select"])

(* list_users: the page and the count are read concurrently. *)
Select ==
    /\ walk.pc = "select" /\ ~walk.selected
    /\ \/ LET size == normalize_per_page(walk.raw) IN
          Set([walk EXCEPT !.selected = TRUE, !.pc = IF walk.counted THEN "roles" ELSE @,
                           !.rows = list_user_summaries(size, Offset(walk.page, size))])
       \/ Fail

Count ==
    /\ walk.pc = "select" /\ ~walk.counted
    /\ \/ Set([walk EXCEPT !.counted = TRUE, !.pc = IF walk.selected THEN "roles" ELSE @])
       \/ Fail

(* assigned_roles_for, which issues no statement for an empty page; then    *)
(* the answer, after which the client stops at a short page.                *)
Roles ==
    /\ walk.pc = "roles"
    /\ \/ Set([walk EXCEPT !.seen = @ \union walk.rows, !.page = @ + 1,
                           !.counted = FALSE, !.selected = FALSE, !.rows = {},
                           !.pc = IF Cardinality(walk.rows) < normalize_per_page(walk.raw)
                                     \/ walk.rows = {} THEN "done" ELSE "ask"])
       \/ walk.rows # {} /\ Fail

(* A user appears, created earlier or later than others: the time is that   *)
(* of the login, the row is there when the transaction commits.             *)
Create ==
    /\ \E u \in Id \ Users, t \in 1 .. MaxCreated : created' = [created EXCEPT ![u] = t]
    /\ UNCHANGED walk

Next == Ask \/ IsAdmin \/ Select \/ Count \/ Roles \/ Create

Spec == Init /\ [][Next]_vars

-----------------------------------------------------------------------------
(* A walk through the pages meets every user that was there when it began,  *)
(* whoever is created meanwhile and whatever page size the client asks for. *)
NobodySkipped == walk.pc = "done" => walk.there \subseteq walk.seen

=============================================================================
