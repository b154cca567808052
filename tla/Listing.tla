------------------------------ MODULE Listing ------------------------------
(***************************************************************************)
(* Service.List and Repository.List: pages of the entries of one scope, in *)
(* key order, read by two queries (a count, then a page) while other       *)
(* requests insert entries.  Entries are never deleted.                    *)
(*                                                                         *)
(* The client that walks through the pages is not part of the repository:  *)
(* it asks for page 1, 2, ... with one page size until a page is not full. *)
(* (A client that stops when its pages cover the total can miss an entry:  *)
(* one inserted between the two queries moves the last one counted to a    *)
(* page beyond the total.)                                                 *)
(***************************************************************************)
EXTENDS TenantAccess, Integers, Sequences, FiniteSets, FiniteSetsExt

CONSTANTS
    Readers,      \* who lists: [type, tenant]
    Scope,        \* the scope that is listed: [tenant, application]
    Keys,         \* config keys, as naturals in the order of the database
    PageSizes     \* the page_size clients send

ASSUME KeysAssumption == Keys \subseteq Nat /\ IsFiniteSet(Keys)
ASSUME PageSizesAssumption == PageSizes \subseteq Int

DefaultPageSize == 20
MaxPageSize == 100

VARIABLES
    stored,       \* the keys in config_entries
    request,      \* the List call in progress, or none
    page,         \* the last answer
    walk          \* the walking client

listVars == <<stored, request, page, walk>>

Idle == [stage |-> "idle"]

NoPage == [code |-> "none", number |-> 0, size |-> 0, total |-> 0, keys |-> << >>]

\* before: the keys stored when the walk began; seen: the keys it was given.
NoWalk == [size |-> 0, next |-> 1, before |-> {}, seen |-> {}, done |-> FALSE]

ListInit ==
    /\ stored = {} /\ request = Idle /\ page = NoPage /\ walk = NoWalk

\* PutDraft of another request inserts an entry, anywhere in the key order.
Insert(k) ==
    /\ k \notin stored
    /\ stored' = stored \cup {k}
    /\ UNCHANGED <<request, page, walk>>

-----------------------------------------------------------------------------

\* ORDER BY config_key.
Sorted(keys) ==
    CHOOSE seq \in [1 .. Cardinality(keys) -> keys] :
        \A i, j \in DOMAIN seq : i < j => seq[i] < seq[j]

Offset(number, size) == (number - 1) * size

FaultyRows(keys, size, offset) ==
    SubSeq(Sorted(keys), offset + 1, Min({offset + size - 1, Cardinality(keys)}))

\* LIMIT size OFFSET offset
Rows(keys, size, offset) ==
    SubSeq(Sorted(keys), offset + 1, Min({offset + size, Cardinality(keys)}))

RefuseList(code) ==
    /\ page' = [NoPage EXCEPT !.code = code]
    /\ request' = Idle
    /\ UNCHANGED <<stored, walk>>

TooLarge(limit) == limit > MaxPageSize

\* The checks of Service.List and its defaults; page_size 0 and below is 20.
Begin(c, number, size, walking) ==
    LET n == IF number <= 0 THEN 1 ELSE number
        limit == IF size <= 0 THEN DefaultPageSize ELSE size
    IN  /\ request = Idle
        /\ \/ \E code \in Access(c, Scope) \ {"ok"} : RefuseList(code)
           \/ /\ "ok" \in Access(c, Scope) /\ TooLarge(limit)
              /\ RefuseList("invalid")
           \/ /\ "ok" \in Access(c, Scope) /\ ~TooLarge(limit)
              /\ request' = [stage |-> "count", number |-> n, size |-> limit,
                             total |-> 0, walking |-> walking]
              /\ UNCHANGED <<stored, page, walk>>

\* Any client, any page.
List ==
    \E c \in Readers, number \in {0, 1, 2}, size \in PageSizes :
        Begin(c, number, size, FALSE)

\* SELECT count(*)
Count ==
    /\ request.stage = "count"
    /\ \/ RefuseList("internal")
       \/ /\ request' = [request EXCEPT !.stage = "select", !.total = Cardinality(stored)]
          /\ UNCHANGED <<stored, page, walk>>

\* The page, answered together with the total counted before.  The walking
\* client takes the answers to its own requests.
Select ==
    /\ request.stage = "select"
    /\ LET keys == Rows(stored, request.size, Offset(request.number, request.size))
       IN  \/ RefuseList("internal")
           \/ /\ page' = [code |-> "ok", number |-> request.number, size |-> request.size,
                          total |-> request.total, keys |-> keys]
              /\ request' = Idle
              /\ walk' = IF request.walking
                         THEN [walk EXCEPT
                                 !.next = @ + 1,
                                 !.seen = @ \cup {keys[i] : i \in DOMAIN keys},
                                 !.done = Len(keys) < request.size]
                         ELSE walk
              /\ UNCHANGED stored

\* The client begins a walk, or asks for its next page.
StartWalk(size) ==
    /\ walk = NoWalk
    /\ walk' = [NoWalk EXCEPT !.size = size, !.before = stored]
    /\ UNCHANGED <<stored, request, page>>

WalkOn ==
    /\ walk.size > 0 /\ ~walk.done
    /\ \E c \in Readers : Begin(c, walk.next, walk.size, TRUE)

ListNext ==
    \/ \E k \in Keys : Insert(k)
    \/ List \/ Count \/ Select
    \/ \E size \in PageSizes : 0 < size /\ size <= MaxPageSize /\ StartWalk(size)
    \/ WalkOn

ListSpec == ListInit /\ [][ListNext]_listVars

-----------------------------------------------------------------------------
(* Properties *)

ListRequest ==
    [stage : {"count", "select"}, number : Nat \ {0}, size : 1 .. MaxPageSize, total : Nat,
     walking : BOOLEAN]

\* The stored keys and the answers keep their types; a page has at most the
\* size asked for.
ListTypeOK ==
    /\ stored \subseteq Keys
    /\ request = Idle \/ request \in ListRequest
    /\ page.keys \in Seq(Keys) /\ Len(page.keys) <= page.size

\* A client that walks through all pages has been given every entry that was
\* stored when it began, however many are inserted before, between or behind the
\* pages meanwhile: inserts shift entries to later pages only.
WalkMissesNothing == walk.done => walk.before \subseteq walk.seen

-----------------------------------------------------------------------------
(* The inductive invariant behind the property *)

\* The place of a key among the keys.
Place(keys, k) == Cardinality({j \in keys : j <= k})

Walk ==
    [size : 0 .. MaxPageSize, next : Nat \ {0}, before : SUBSET Keys, seen : SUBSET Keys,
     done : BOOLEAN]

\* The request in progress is the walk's next one.
Walking ==
    request # Idle /\ request.walking =>
        walk.size > 0 /\ ~walk.done /\ request.number = walk.next /\ request.size = walk.size

\* The keys of the pages the walk has behind it, as they are placed now, have been
\* seen: a key that was there from the beginning can only move to a later page.
PassedIsSeen ==
    \A k \in walk.before :
        Place(stored, k) <= Offset(walk.next, walk.size) => k \in walk.seen

ListingInv ==
    /\ stored \subseteq Keys
    /\ request = Idle \/ request \in ListRequest
    /\ walk \in Walk /\ walk.before \subseteq stored
    /\ Walking /\ PassedIsSeen /\ WalkMissesNothing
=============================================================================
