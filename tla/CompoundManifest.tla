------------------------- MODULE CompoundManifest -------------------------
(***************************************************************************)
(* BuildCompoundRuntimeManifest: the tree of a compound object as the HTTP *)
(* server and drsmanifest show it, built by viewers next to the clients    *)
(* and coordinators that register and strip what it shows.                 *)
(*                                                                         *)
(* A viewer lists the metadata of the root, queries page by page for the   *)
(* collections and then the data objects below it that carry an id, and    *)
(* goes through these entries in path order: it draws the collections that *)
(* lead to an entry and then the entry, listing the metadata of each once  *)
(* more.  Nothing keeps the catalog still from one call to the next.       *)
(***************************************************************************)
EXTENDS CompoundCreate, FiniteSetsExt, Functions

CONSTANTS
    Viewers,
    ViewsOf,        \* ViewsOf[v]: the collections v may be asked to show
    TreeOrder,      \* the paths, sorted
    PageSize        \* drsListingEntryQueryLimit

ASSUME ViewersSeeATree ==
    /\ ViewsOf \in [Viewers -> SUBSET Collections]
    /\ TreeOrder \in Seq(Paths) /\ Range(TreeOrder) = Paths
    /\ \A i, j \in DOMAIN TreeOrder :
          TreeOrder[j] \in Below[TreeOrder[i]] => i < j
    /\ \A p, q, s \in Paths :
          p \in Below[q] \cap Below[s] => q \in Subtree(s) \/ s \in Subtree(q)
    /\ PageSize \in Nat \ {0}

VARIABLES
    viewing,        \* viewing[v]: what viewer v does next, or did last
    top,            \* top[v]: the root of the manifest
    cursor,         \* cursor[v]: the rows of the current query read so far
    drsEntries,     \* drsEntries[v]: the paths the queries found with an id
    paths,          \* paths[v]: those still to be drawn, sorted
    nodesByPath,    \* nodesByPath[v]: the nodes drawn, and the id of each
    \* History of the build, read by the properties only.
    carried,        \* carried[v]: the <<path, id>> in the catalog at some time
    steady,         \* steady[v]: the paths that had an id all the time
    shifted         \* shifted[v]: a path has left the rows of the queries

memory == <<carried, steady, shifted>>
mvars  == <<cvars, viewing, top, cursor, drsEntries, paths, nodesByPath, memory>>

Building == {"collections", "objects", "nodes"}
AtRest   == {"off", "shown", "failed", "orphaned"}

\* Faulty: the unit of the AVU is not looked at.
drsIDAnyUnit(metas) ==
    LET ids == {meta.value : meta \in {m \in metas : m.name = DrsIdAvuAttrib}}
    IN  IF ids = {} THEN {None} ELSE ids

\* What drsIDFromMetadata may find in the list of metas.
drsIDFromMetadata(metas) == IF IdsIn(metas) = {} THEN {None} ELSE IdsIn(metas)

WithId == {p \in Paths : IdsIn(avus[p]) # {}}
Carried == {pair \in Paths \X Ids : pair[2] \in IdsIn(avus[pair[1]])}

MInit ==
    /\ CInit
    /\ viewing = [v \in Viewers |-> "off"]
    /\ top = [v \in Viewers |-> None]
    /\ cursor = [v \in Viewers |-> 0]
    /\ drsEntries = [v \in Viewers |-> {}]
    /\ paths = [v \in Viewers |-> <<>>]
    /\ nodesByPath = [v \in Viewers |-> <<>>]
    /\ carried = [v \in Viewers |-> {}]
    /\ steady = [v \in Viewers |-> {}]
    /\ shifted = [v \in Viewers |-> FALSE]

\* One more node, or the one on this path once more.
Put(nodes, path, id) ==
    [p \in DOMAIN nodes \cup {path} |-> IF p = path THEN id ELSE nodes[p]]

TurnTo(v, what) == viewing' = [viewing EXCEPT ![v] = what]

\* The stat and the ListMetadata of the root.
BeginManifest(v) ==
    /\ viewing[v] \in AtRest
    /\ TurnTo(v, "collections")
    /\ \E r \in ViewsOf[v] : \E id \in drsIDFromMetadata(avus[r]) :
          /\ top' = [top EXCEPT ![v] = r]
          /\ nodesByPath' = [nodesByPath EXCEPT ![v] = Put(<<>>, r, id)]
    /\ cursor' = [cursor EXCEPT ![v] = 0]
    /\ drsEntries' = [drsEntries EXCEPT ![v] = {}]
    /\ carried' = [carried EXCEPT ![v] = Carried]
    /\ steady' = [steady EXCEPT ![v] = WithId]
    /\ shifted' = [shifted EXCEPT ![v] = FALSE]
    /\ UNCHANGED <<cvars, paths>>

----------------------------------------------------------------------------
(* The queries.                                                            *)

\* The query matches the name of the attribute, in any unit.
Matches(p) == \E meta \in avus[p] : meta.name \in DrsAttribs

SortedPaths(found) == Without(TreeOrder, Paths \ found)

\* The paths that the current query is about.
Queried(v) == {p \in Below[top[v]] : p \in Collections <=> viewing[v] = "collections"}

Rows(v) == SortedPaths({p \in Queried(v) : Matches(p)})

\* Faulty: the cursor of a page is that of the page before.
SamePage(v) == IF cursor[v] = 0 THEN PageSize ELSE cursor[v]

NextPage(v) == cursor[v] + PageSize

\* Faulty: the data objects are queried with the cursor of the collections.
KeptCursor(v) == NextPage(v)

FirstPage(v) == 0

\* queryDrsListingEntries: one page, of which the paths with an id are kept.
QueryPage(v) ==
    /\ viewing[v] \in {"collections", "objects"}
    /\ LET rows    == Rows(v)
           page    == SubSeq(rows, cursor[v] + 1, Min({NextPage(v), Len(rows)}))
           hasMore == NextPage(v) < Len(rows)
           found   == drsEntries[v] \cup (Range(page) \cap WithId)
       IN  /\ drsEntries' = [drsEntries EXCEPT ![v] = found]
           /\ cursor' = [cursor EXCEPT ![v] = IF hasMore THEN NextPage(v)
                                                         ELSE FirstPage(v)]
           /\ \/ hasMore /\ UNCHANGED <<viewing, paths>>
              \/ /\ ~hasMore /\ viewing[v] = "collections"
                 /\ TurnTo(v, "objects")
                 /\ UNCHANGED paths
              \/ /\ ~hasMore /\ viewing[v] = "objects"
                 /\ TurnTo(v, "nodes")
                 /\ paths' = [paths EXCEPT ![v] = SortedPaths(found)]
    /\ UNCHANGED <<cvars, top, nodesByPath, memory>>

----------------------------------------------------------------------------
(* The tree.                                                               *)

\* Faulty: only the collection that holds the path.
ParentOnly(r, p) ==
    {q \in Below[r] : p \in Below[q] /\ \A s \in Below[q] : p \notin Below[s]}

\* The collections between the root and the path.
ancestorCollectionPaths(r, p) == {q \in Below[r] : p \in Below[q]}

parentRuntimeNodePath(p) ==
    CHOOSE q \in Paths : p \in Below[q] /\ \A s \in Below[q] : p \notin Below[s]

Undrawn(v, p) == ancestorCollectionPaths(top[v], p) \ DOMAIN nodesByPath[v]

\* The next node on the way to p: the outermost collection that is not there
\* yet, or p itself.
NextNode(v, p) ==
    IF Undrawn(v, p) = {} THEN p
    ELSE CHOOSE q \in Undrawn(v, p) : Undrawn(v, p) \subseteq Subtree(q)

HasParent(v, p) == parentRuntimeNodePath(p) \in DOMAIN nodesByPath[v]

\* One more node: it is listed and put into nodesByPath, and then there must be
\* a parent to hang it from.
DrawNode(v) ==
    /\ viewing[v] = "nodes" /\ paths[v] # <<>>
    /\ LET node == NextNode(v, Head(paths[v]))
       IN  /\ \E id \in drsIDFromMetadata(avus[node]) :
                 nodesByPath' = [nodesByPath EXCEPT ![v] = Put(@, node, id)]
           /\ paths' = IF node = Head(paths[v])
                       THEN [paths EXCEPT ![v] = Tail(@)] ELSE paths
           /\ TurnTo(v, IF HasParent(v, node) THEN "nodes" ELSE "orphaned")
    /\ UNCHANGED <<cvars, top, cursor, drsEntries, memory>>

Show(v) ==
    /\ viewing[v] = "nodes" /\ paths[v] = <<>>
    /\ TurnTo(v, "shown")
    /\ UNCHANGED <<cvars, top, cursor, drsEntries, paths, nodesByPath, memory>>

\* Any of the calls fails, and with it the manifest.
ViewFails(v) ==
    /\ viewing[v] \in Building
    /\ TurnTo(v, "failed")
    /\ cursor' = [cursor EXCEPT ![v] = 0]
    /\ drsEntries' = [drsEntries EXCEPT ![v] = {}]
    /\ paths' = [paths EXCEPT ![v] = <<>>]
    /\ nodesByPath' = [nodesByPath EXCEPT ![v] = <<>>]
    /\ UNCHANGED <<cvars, top, memory>>

\* Faulty: .drsignore is shown as well.
AllNodes(v) == DOMAIN nodesByPath[v]

\* What buildPreflightNode leaves of the nodes.
ManifestNodes(v) == DOMAIN nodesByPath[v] \ DefaultExcluded(top[v])

----------------------------------------------------------------------------
\* What the viewers that are building remember of a step of the catalog.
Remember ==
    LET building == {v \in Viewers : viewing[v] \in Building}
        left     == {p \in Paths : Matches(p) /\ ~Matches(p)'}
    IN  /\ carried' = [v \in Viewers |->
                          IF v \in building THEN carried[v] \cup Carried'
                          ELSE carried[v]]
        /\ steady' = [v \in Viewers |->
                         IF v \in building THEN steady[v] \cap WithId'
                         ELSE steady[v]]
        /\ shifted' = [v \in Viewers |->
                          shifted[v] \/ (v \in building /\ left # {})]

View(v) == QueryPage(v) \/ DrawNode(v) \/ Show(v)

MNext ==
    \/ \E v \in Viewers : BeginManifest(v) \/ View(v) \/ ViewFails(v)
    \/ /\ CNext /\ Remember
       /\ UNCHANGED <<viewing, top, cursor, drsEntries, paths, nodesByPath>>

MSpec == MInit /\ [][MNext]_mvars

\* A viewer makes its next call.
MFairSpec == MSpec /\ \A v \in Viewers : WF_mvars(View(v))

----------------------------------------------------------------------------
(* Properties.                                                             *)

\* The types of the variables; the id of a node is a DRS id, never the value of
\* somebody else's attribute.
ManifestTypeOK ==
    /\ viewing \in [Viewers -> Building \cup AtRest]
    /\ top \in [Viewers -> Collections \cup {None}]
    /\ cursor \in [Viewers -> 0..Len(TreeOrder)]
    /\ drsEntries \in [Viewers -> SUBSET Paths]
    /\ paths \in [Viewers -> Seq(Paths)]
    /\ \A v \in Viewers : /\ DOMAIN nodesByPath[v] \subseteq Paths
                          /\ Range(nodesByPath[v]) \subseteq Ids \cup {None}
    /\ carried \in [Viewers -> SUBSET (Paths \X Ids)]
    /\ steady \in [Viewers -> SUBSET Paths]
    /\ shifted \in [Viewers -> BOOLEAN]

\* Whatever is registered and stripped while the manifest is built, no node is
\* without its parent: the error for it never occurs, and every collection that
\* leads to a node that is shown is shown.
ManifestIsTree ==
    \A v \in Viewers :
        /\ viewing[v] # "orphaned"
        /\ viewing[v] = "shown" => \A p \in ManifestNodes(v) \ {top[v]} :
              parentRuntimeNodePath(p) \in ManifestNodes(v)

\* A manifest shows an id only on a path that carried it while the manifest was
\* built, and no path that leads to none; it shows every path that kept an id
\* all the while, except .drsignore, unless another path dropped out of the
\* catalog's rows in between.
ManifestSound ==
    \A v \in Viewers : viewing[v] = "shown" =>
        /\ \A p \in ManifestNodes(v) :
              nodesByPath[v][p] # None => <<p, nodesByPath[v][p]>> \in carried[v]
        /\ \A p \in ManifestNodes(v) \ {top[v]} :
              \E pair \in carried[v] : pair[1] \in Subtree(p)
        /\ ManifestNodes(v) \cap DefaultExcluded(top[v]) = {}
        /\ ~shifted[v] =>
              \A p \in (steady[v] \cap Below[top[v]]) \ DefaultExcluded(top[v]) :
                  p \in ManifestNodes(v) /\ nodesByPath[v][p] # None

\* Every manifest is shown or fails.
ManifestEnds == \A v \in Viewers : viewing[v] \in Building ~> viewing[v] \in AtRest
=============================================================================
