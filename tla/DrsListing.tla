---------------------------- MODULE DrsListing ----------------------------
(***************************************************************************)
(* The listings of DRS objects under a collection, page by page, as drsls  *)
(* and its user call them: the exact listing, which queries everything     *)
(* before it cuts out a page, and the fast one, which stops querying when  *)
(* it holds one entry more than the page needs.                            *)
(*                                                                         *)
(* A path is its rank in the order of absolute paths.  The query of iRODS  *)
(* returns the entries of one kind that carry any DRS metadata, some at a  *)
(* time, in an order of its own; the code drops those outside of the       *)
(* collection and those without an id, and after the last query the        *)
(* collections that are no compound.                                       *)
(***************************************************************************)
EXTENDS Lists, FiniteSets, FiniteSetsExt, Functions

CONSTANTS
    PathCount,      \* the paths are 1..PathCount
    Collections,    \* those that are collections
    Outside,        \* those that the query matches, but outside the collection
    Orders,         \* the orders in which the query may return them
    Limits,         \* page sizes a user asks for
    QueryLimit      \* drsListingEntryQueryLimit

Paths == 1..PathCount

ASSUME ListingNumbers ==
    /\ PathCount \in Nat /\ Collections \subseteq Paths /\ Outside \subseteq Paths
    /\ Orders \subseteq Bijection(Paths, Paths)
    /\ Limits \subseteq Nat \ {0} /\ QueryLimit \in Nat \ {0}

VARIABLES
    carries,    \* carries[p]: what path p carries of {"id", "marker"}; on a data
                \* object "marker" stands for what else of DRS it carries
    order,      \* the order of the query
    request,    \* what the user lists: scope, exact or fast, page size
    offset,     \* the offset of the current page
    stage,      \* "query", "page", "listed" or "failed"
    kinds,      \* the kinds still to be queried, the current one first
    cursor,     \* how many entries of the current kind the query has returned
    found,      \* entriesByPath
    queryMore,  \* whether a query was left with more to return
    page        \* the page returned last: its objects and HasMore

listing == <<offset, stage, kinds, cursor, found, queryMore, page>>
vars    == <<carries, order, request, listing>>

Scopes == {"all", "objects", "compound"}

drsListingEntryKinds(scope) ==
    CASE scope = "objects"  -> <<"dataObject">>
      [] scope = "compound" -> <<"collection">>
      [] OTHER              -> <<"collection", "dataObject">>

KindOf(p) == IF p \in Collections THEN "collection" ELSE "dataObject"

NoPage == [objects |-> <<>>, hasMore |-> TRUE]

Init ==
    /\ carries \in [Paths -> SUBSET {"id", "marker"}]
    /\ order \in Orders
    /\ request \in [scope : Scopes, exact : BOOLEAN, limit : Limits]
    /\ offset = 0 /\ stage = "query"
    /\ kinds = drsListingEntryKinds(request.scope)
    /\ cursor = 0 /\ found = {} /\ queryMore = FALSE
    /\ page = NoPage

\* What is in s behind the first from places, up to place to.
Part(s, from, to) == SubSeq(s, from + 1, Min({to, Len(s)}))

----------------------------------------------------------------------------
(* The queries.                                                            *)

\* The entries of the catalog that a query for one kind matches.
Matches(kind) == Without(order, {p \in Paths : KindOf(p) # kind \/ carries[p] = {}})

\* Faulty: the bound does not grow with the offset.
PageAndOne == request.limit + 1

\* The exact listing has no bound; the fast one wants the page and one more.
Bounded    == ~request.exact
maxEntries == offset + request.limit + 1

drsListingQueryLimit ==
    IF Bounded /\ maxEntries <= QueryLimit THEN maxEntries ELSE QueryLimit

\* Faulty: the cursor is that of the first page, whatever was read.
SeenAgain == drsListingQueryLimit

SeenUntil == cursor + drsListingQueryLimit

\* Faulty: one cursor for the queries of both kinds.
OldCursor == cursor

FirstCursor == 0

\* Faulty: also what lies next to the collection, or has lost its id.
KeptAnyway(p) == TRUE

Kept(p) == p \notin Outside /\ "id" \in carries[p]

\* One QueryMetadataEntries, and whether another one of this kind follows.
Query ==
    /\ stage = "query" /\ kinds # <<>>
    /\ LET matches == Matches(Head(kinds))
           rows    == Range(Part(matches, cursor, SeenUntil))
           all     == found \cup {p \in rows : Kept(p)}
           more    == SeenUntil < Len(matches)
           enough  == /\ Bounded
                      /\ \/ Cardinality(all) > maxEntries
                         \/ more /\ Cardinality(all) >= maxEntries
           again   == more /\ ~enough
       IN  /\ found' = all
           /\ queryMore' = (queryMore \/ enough)
           /\ cursor' = IF again THEN SeenUntil ELSE FirstCursor
           /\ kinds' = IF again THEN kinds ELSE Tail(kinds)
    /\ UNCHANGED <<carries, order, request, offset, stage, page>>

\* A query returns an error, and so does the listing.
QueryFails ==
    /\ stage = "query" /\ kinds # <<>>
    /\ stage' = "failed"
    /\ UNCHANGED <<carries, order, request, offset, kinds, cursor, found,
                   queryMore, page>>

----------------------------------------------------------------------------
(* The page.                                                               *)

drsListingScopeIncludesObject(p) ==
    IF p \in Collections
    THEN request.scope # "objects" /\ "marker" \in carries[p]
    ELSE request.scope # "compound"

SortedByPath(paths) == Without([p \in Paths |-> p], Paths \ paths)

\* Faulty: the end of the slice is the limit, not the offset and the limit.
SliceToLimit(objects) == Part(objects, offset, request.limit)

\* The slice of objects that the page shows.
Slice(objects) == Part(objects, offset, offset + request.limit)

Page ==
    /\ stage = "query" /\ kinds = <<>>
    /\ LET objects == SortedByPath({p \in found : drsListingScopeIncludesObject(p)})
       IN  page' = [objects |-> Slice(objects),
                    hasMore |-> queryMore \/ offset + request.limit < Len(objects)]
    /\ stage' = "page"
    /\ UNCHANGED <<carries, order, request, offset, kinds, cursor, found,
                   queryMore>>

\* The user asks for the next page as long as there is one.
NextPage ==
    /\ stage = "page" /\ page.hasMore
    /\ offset' = offset + request.limit
    /\ stage' = "query"
    /\ kinds' = drsListingEntryKinds(request.scope)
    /\ cursor' = 0 /\ found' = {} /\ queryMore' = FALSE
    /\ UNCHANGED <<carries, order, request, page>>

LastPage ==
    /\ stage = "page" /\ ~page.hasMore
    /\ stage' = "listed"
    /\ UNCHANGED <<carries, order, request, offset, kinds, cursor, found,
                   queryMore, page>>

Next == Query \/ QueryFails \/ Page \/ NextPage \/ LastPage

Spec == Init /\ [][Next]_vars

\* Queries return, and the user turns pages as long as there are more.
FairSpec == Spec /\ WF_vars(Query \/ Page \/ NextPage \/ LastPage)

----------------------------------------------------------------------------
(* Properties.                                                             *)

\* The variables have their types; a cursor stands before an entry of the
\* kind that is queried, and no listing, exact or fast, turns to a page that
\* begins behind the last path: HasMore would have sent its user there.
TypeOK ==
    /\ carries \in [Paths -> SUBSET {"id", "marker"}]
    /\ order \in Orders
    /\ request \in [scope : Scopes, exact : BOOLEAN, limit : Limits]
    /\ offset \in Nat /\ (offset > 0 => offset < PathCount)
    /\ stage \in {"query", "page", "listed", "failed"}
    /\ Range(kinds) \subseteq {"collection", "dataObject"}
    /\ cursor > 0 => kinds # <<>> /\ cursor < Len(Matches(Head(kinds)))
    /\ found \subseteq Paths /\ queryMore \in BOOLEAN
    /\ page.objects \in Seq(Paths) /\ page.hasMore \in BOOLEAN

\* What a user means by the listing: the objects of the collection that the
\* scope takes in, whatever queries, cursors and kinds they come from.
Listing ==
    SortedByPath({p \in Paths : /\ p \notin Outside /\ "id" \in carries[p]
                                /\ drsListingScopeIncludesObject(p)})

PageOfListing ==
    [objects |-> Part(Listing, offset, offset + request.limit),
     hasMore |-> offset + request.limit < Len(Listing)]

\* A page of the exact listing is the window of the listing that offset and
\* limit describe, with the truth about what follows, in whatever portions
\* and in whatever order the queries return the entries.
ExactPages == (stage = "page" /\ request.exact) => page = PageOfListing

\* So is a page of the fast listing, provided that the queries return paths in
\* their order, that every entry they match is an object of the collection,
\* and that the page and one entry more fit into one query: the queries of the
\* two kinds may stop at different points, and what is cut out of their union
\* is still the window.
FastPages ==
    (/\ stage = "page" /\ ~request.exact
     /\ order = [i \in 1..PathCount |-> i]
     /\ \A p \in Paths : carries[p] # {} =>
            /\ p \notin Outside /\ "id" \in carries[p]
            /\ p \in Collections => "marker" \in carries[p]
     /\ maxEntries <= QueryLimit)
    => page = PageOfListing

\* Whatever a page shows, exact or fast, is an object of the listing, in the
\* order of paths, once, and at no smaller place than the offset.
PagesSound ==
    stage = "page" =>
        \A i \in 1..Len(page.objects) :
            /\ \E j \in offset + i..Len(Listing) : Listing[j] = page.objects[i]
            /\ i > 1 => page.objects[i - 1] < page.objects[i]

\* A user who turns the pages while HasMore tells so reaches an end: each
\* query either gets on or is the last of its kind, and pages run out.
ListingEnds == <>(stage \in {"listed", "failed"})

\* "Offset and Limit reflect the requested page window", says the comment of
\* DrsObjectPage: what a page does not show of its window no other page shows.
WindowShown == stage = "page" => page.objects = PageOfListing.objects
=============================================================================
