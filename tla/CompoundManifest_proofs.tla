---------------------- MODULE CompoundManifest_proofs ----------------------
(***************************************************************************)
(* Theorems about CompoundManifest, for every tree, every set of viewers,  *)
(* every page size, and any clients and coordinators next to them.         *)
(***************************************************************************)
EXTENDS CompoundManifest, CompoundCreate_proofs

----------------------------------------------------------------------------
(* The inductive invariant.                                                *)

Querying == {"collections", "objects"}

\* The viewer holds nodes: it builds a manifest or has shown it.
HoldsNodes(v) == viewing[v] \in Building \cup {"shown"}

ViewTypes ==
    /\ ManifestTypeOK
    /\ nodesByPath = [v \in Viewers |-> nodesByPath[v]]

\* Paths are drawn only below the root, and none before the collections that
\* lead to it.
TreeFits(v) ==
    /\ viewing[v] # "orphaned"
    /\ viewing[v] # "nodes" => paths[v] = <<>>
    /\ Listed(paths[v]) \subseteq drsEntries[v]
    /\ HoldsNodes(v) =>
          /\ top[v] \in Collections
          /\ top[v] \in DOMAIN nodesByPath[v]
          /\ DOMAIN nodesByPath[v] \subseteq Subtree(top[v])
          /\ drsEntries[v] \subseteq Below[top[v]]
          /\ \A p \in DOMAIN nodesByPath[v] :
                ancestorCollectionPaths(top[v], p) \subseteq DOMAIN nodesByPath[v]

\* The path led to an id at some time of the build.
Led(v, p) == \E pair \in carried[v] : pair[1] \in Subtree(p)

\* What is drawn and what is to be drawn has been in the catalog.
IdsFit(v) ==
    /\ viewing[v] \in Building => Carried \subseteq carried[v] /\ steady[v] \subseteq WithId
    /\ HoldsNodes(v) =>
          /\ \A p \in DOMAIN nodesByPath[v] :
                nodesByPath[v][p] # None => <<p, nodesByPath[v][p]>> \in carried[v]
          /\ \A p \in DOMAIN nodesByPath[v] : p \in steady[v] => nodesByPath[v][p] # None
          /\ \A p \in DOMAIN nodesByPath[v] \ {top[v]} : Led(v, p)
          /\ \A p \in drsEntries[v] : Led(v, p)

\* The row of the path has not been read yet.
Ahead(v, p) == \E i \in DOMAIN Rows(v) : cursor[v] < i /\ Rows(v)[i] = p

\* Unless a path has left the rows, what had an id all the time is found, or its
\* row is still ahead; and what is found is drawn in the end.
RowsFit(v) ==
    ~shifted[v] =>
        /\ viewing[v] \in Querying =>
              \A p \in steady[v] \cap Queried(v) : p \in drsEntries[v] \/ Ahead(v, p)
        /\ viewing[v] \in {"objects", "nodes"} =>
              steady[v] \cap Below[top[v]] \cap Collections \subseteq drsEntries[v]
        /\ viewing[v] = "nodes" =>
              /\ steady[v] \cap Below[top[v]] \subseteq drsEntries[v]
              /\ drsEntries[v] \subseteq DOMAIN nodesByPath[v] \cup Listed(paths[v])
        /\ viewing[v] = "shown" =>
              steady[v] \cap Below[top[v]] \subseteq DOMAIN nodesByPath[v]

ViewFits(v) == TreeFits(v) /\ IdsFit(v) /\ RowsFit(v)

MInv == CInv /\ ViewTypes /\ \A v \in Viewers : ViewFits(v)

----------------------------------------------------------------------------
(* The tree.                                                               *)

\* Every path has its place in the order of the tree, before what is below it.
LEMMA Ordered ==
    /\ \A p \in Paths : \E i \in DOMAIN TreeOrder : TreeOrder[i] = p
    /\ DOMAIN TreeOrder \subseteq Nat
    /\ Len(TreeOrder) \in Nat /\ DOMAIN TreeOrder = 1..Len(TreeOrder)
    /\ Listed(TreeOrder) = Paths
<1>1. TreeOrder \in Seq(Paths) /\ Range(TreeOrder) = Paths
  BY ViewersSeeATree
<1>2. Listed(TreeOrder) = Paths
  BY <1>1 DEF Range, Listed
<1>3. \A p \in Paths : \E i \in DOMAIN TreeOrder : TreeOrder[i] = p
  BY <1>1 DEF Range
<1>4. Len(TreeOrder) \in Nat /\ DOMAIN TreeOrder = 1..Len(TreeOrder)
  BY <1>1
<1> QED BY <1>2, <1>3, <1>4

\* Of collections that all lead to one path, one holds all the others.
LEMMA Outermost ==
    ASSUME NEW S \in SUBSET Paths, S # {}, NEW p \in Paths, \A q \in S : p \in Below[q]
    PROVE  \E q \in S : S \subseteq Subtree(q)
<1> DEFINE T == {i \in DOMAIN TreeOrder : TreeOrder[i] \in S}
<1>1. T \subseteq Nat /\ T # {}
  BY Ordered
<1>2. PICK i \in T : \A j \in T : ~(j < i)
  BY <1>1, LeastNat
<1>3. ASSUME NEW s \in S PROVE s \in Subtree(TreeOrder[i])
  <2>1. PICK j \in DOMAIN TreeOrder : TreeOrder[j] = s
    BY Ordered
  <2>2. TreeOrder[i] \in S /\ i \in DOMAIN TreeOrder /\ ~(j < i)
    BY <1>2, <2>1
  <2>3. TreeOrder[i] \notin Below[s]
    BY <2>1, <2>2, ViewersSeeATree
  <2>4. p \in Below[s] \cap Below[TreeOrder[i]]
    BY <2>2
  <2>5. s \in Subtree(TreeOrder[i]) \/ TreeOrder[i] \in Subtree(s)
    BY <2>2, <2>4, ViewersSeeATree
  <2> QED BY <2>3, <2>5 DEF Subtree
<1> QED BY <1>2, <1>3

\* Of the collections that lead to a path, one holds none of the others.
LEMMA Innermost ==
    ASSUME NEW r \in Paths, NEW p \in Below[r]
    PROVE  \E q \in Paths : p \in Below[q] /\ \A s \in Below[q] : p \notin Below[s]
<1> DEFINE N == Len(TreeOrder)
           Leads(i) == i \in DOMAIN TreeOrder /\ p \in Below[TreeOrder[i]]
           T == {n \in Nat : Leads(N - n)}
<1>1. N \in Nat /\ DOMAIN TreeOrder = 1..N
  BY Ordered
<1>2. T # {}
  <2>1. PICK i \in DOMAIN TreeOrder : TreeOrder[i] = r
    BY Ordered
  <2>2. N - i \in Nat /\ N - (N - i) = i
    BY <1>1, <2>1
  <2> QED BY <2>1, <2>2
<1>3. PICK n \in T : \A m \in T : ~(m < n)
  BY <1>2, LeastNat
<1> DEFINE q == TreeOrder[N - n]
<1>4. N - n \in DOMAIN TreeOrder /\ p \in Below[q]
  BY <1>3
<1>5. q \in Paths
  BY <1>4, Ordered, ViewersSeeATree
<1>6. ASSUME NEW s \in Below[q], p \in Below[s] PROVE FALSE
  <2>1. s \in Paths
    BY <1>5, TreeIsTree
  <2>2. PICK j \in DOMAIN TreeOrder : TreeOrder[j] = s
    BY <2>1, Ordered
  <2>3. N - n < j
    BY <1>4, <2>2, ViewersSeeATree
  <2>4. N - j \in Nat /\ N - (N - j) = j /\ N - j < n
    BY <1>1, <2>2, <2>3
  <2>5. N - j \in T
    BY <1>6, <2>2, <2>4
  <2> QED BY <1>3, <2>4, <2>5
<1> QED BY <1>4, <1>5, <1>6

\* The parent of a path below r: it is r or a collection between r and the path.
LEMMA ParentLeads ==
    ASSUME NEW r \in Paths, NEW p \in Below[r]
    PROVE  LET q == parentRuntimeNodePath(p)
           IN  /\ q \in Paths /\ p \in Below[q] /\ p # q
               /\ q = r \/ q \in ancestorCollectionPaths(r, p)
<1> DEFINE q == parentRuntimeNodePath(p)
<1>1. q \in Paths /\ p \in Below[q] /\ \A s \in Below[q] : p \notin Below[s]
  BY Innermost DEF parentRuntimeNodePath
<1>2. p \in Paths /\ p # q
  BY <1>1, TreeIsTree
<1> HIDE DEF q
<1>3. q \in Subtree(r) \/ r \in Subtree(q)
  BY <1>1, <1>2, ViewersSeeATree
<1>4. q \in Subtree(r)
  BY <1>1, <1>3 DEF Subtree
<1> QED BY <1>1, <1>2, <1>4 DEF Subtree, ancestorCollectionPaths, q

\* What leads to something below a path, or to the path itself, leads to it.
LEMMA Deeper ==
    ASSUME NEW r \in Paths, NEW q \in Below[r], NEW p \in Paths, p \in Subtree(q)
    PROVE  /\ p \in Below[r]
           /\ ancestorCollectionPaths(r, q) \subseteq ancestorCollectionPaths(r, p)
BY TreeIsTree DEF Subtree, ancestorCollectionPaths

----------------------------------------------------------------------------
(* What a viewer reads.                                                    *)

\* The paths of a set, as the tree orders them.
LEMMA Sorted ==
    ASSUME NEW found
    PROVE  /\ SortedPaths(found) \in Seq(Paths)
           /\ Listed(SortedPaths(found)) = Paths \cap found
           /\ Len(SortedPaths(found)) \in Nat
           /\ Len(SortedPaths(found)) <= Len(TreeOrder)
<1>1. TreeOrder \in Seq(Paths)
  BY ViewersSeeATree
<1>2. SortedPaths(found) \in Seq(Paths \ (Paths \ found))
  BY <1>1, KeptEntries DEF SortedPaths
<1>3. Listed(SortedPaths(found)) = Paths \ (Paths \ found)
  <2>1. Listed(Without(TreeOrder, Paths \ found)) = Listed(TreeOrder) \ (Paths \ found)
    BY <1>1, KeptEntries
  <2> QED BY <2>1, Ordered DEF SortedPaths
<1>4. Len(SortedPaths(found)) <= Len(TreeOrder)
  BY <1>1, KeptLater DEF SortedPaths
<1>5. Seq(Paths \ (Paths \ found)) \subseteq Seq(Paths)
  OBVIOUS
<1> QED BY <1>2, <1>3, <1>4, <1>5

\* When more is found, no path comes earlier.
LEMMA SortedLater ==
    ASSUME NEW found, NEW more, found \subseteq more
    PROVE  NoEarlier(SortedPaths(found), SortedPaths(more))
<1>1. Paths \ more \subseteq Paths \ found
  OBVIOUS
<1>2. TreeOrder \in Seq(Paths)
  BY ViewersSeeATree
<1> QED BY <1>1, <1>2, KeptLater DEF SortedPaths

\* The id that is read of a path is one in the catalog, or there is none.
LEMMA IdRead ==
    ASSUME CInv, NEW p \in Paths, NEW id \in drsIDFromMetadata(avus[p])
    PROVE  /\ id \in Ids \cup {None}
           /\ id # None => <<p, id>> \in Carried
           /\ p \in WithId => id # None
<1>1. IdsIn(avus[p]) \subseteq Ids
  BY DEF CInv, WorkInv, IdsInv
<1>2. None \notin Ids
  BY NoneIsNothing
<1>3. CASE IdsIn(avus[p]) = {}
  BY <1>1, <1>2, <1>3 DEF drsIDFromMetadata, WithId
<1>4. CASE IdsIn(avus[p]) # {}
  <2>1. id \in IdsIn(avus[p])
    BY <1>4 DEF drsIDFromMetadata
  <2>2. <<p, id>> \in Carried
    BY <1>1, <2>1 DEF Carried
  <2> QED BY <1>1, <1>2, <2>1, <2>2
<1> QED BY <1>3, <1>4

\* A path with an id has one that is carried, and it is in the rows.
LEMMA Registered ==
    ASSUME CInv, NEW p \in WithId
    PROVE  /\ p \in Paths /\ Matches(p)
           /\ \E pair \in Carried : pair[1] = p
<1>1. p \in Paths /\ IdsIn(avus[p]) # {}
  BY DEF WithId
<1>2. PICK id : id \in IdsIn(avus[p])
  BY <1>1
<1>3. id \in Ids
  BY <1>1, <1>2 DEF CInv, WorkInv, IdsInv
<1>4. <<p, id>> \in Carried
  BY <1>1, <1>2, <1>3 DEF Carried
<1>5. Matches(p)
  BY <1>2 DEF Matches, IdsIn, ValuesOf, MetasOf, DrsMetas, isDrsMetadata
<1> QED BY <1>1, <1>4, <1>5

\* What is queried is below the root.
LEMMA RowsBelow ==
    ASSUME NEW v \in Viewers, top[v] \in Collections
    PROVE  /\ Rows(v) \in Seq(Paths) /\ Len(Rows(v)) \in Nat
           /\ Len(Rows(v)) <= Len(TreeOrder)
           /\ DOMAIN Rows(v) = 1..Len(Rows(v))
           /\ Listed(Rows(v)) = {p \in Queried(v) : Matches(p)}
           /\ Queried(v) \subseteq Below[top[v]]
           /\ Below[top[v]] \subseteq Paths
<1>1. Below[top[v]] \subseteq Paths
  BY TreeIsTree
<1>2. Queried(v) \subseteq Below[top[v]]
  BY DEF Queried
<1>3. {p \in Queried(v) : Matches(p)} = Paths \cap {p \in Queried(v) : Matches(p)}
  BY <1>1, <1>2
<1>4. Rows(v) \in Seq(Paths)
  BY Sorted DEF Rows
<1>5. DOMAIN Rows(v) = 1..Len(Rows(v))
  BY <1>4
<1>6. Listed(Rows(v)) = {p \in Queried(v) : Matches(p)}
  BY <1>3, Sorted DEF Rows
<1>7. Len(Rows(v)) \in Nat /\ Len(Rows(v)) <= Len(TreeOrder)
  BY Sorted DEF Rows
<1> QED BY <1>1, <1>2, <1>4, <1>5, <1>6, <1>7

----------------------------------------------------------------------------
(* Viewers that a step leaves alone.                                       *)

SameView(v) ==
    /\ viewing'[v] = viewing[v] /\ top'[v] = top[v] /\ cursor'[v] = cursor[v]
    /\ drsEntries'[v] = drsEntries[v] /\ paths'[v] = paths[v]
    /\ nodesByPath'[v] = nodesByPath[v]

SameMemory(v) ==
    carried'[v] = carried[v] /\ steady'[v] = steady[v] /\ shifted'[v] = shifted[v]

\* The catalog looks the same: the rows, and the ids.
LEMMA SameCatalog ==
    ASSUME avus' = avus
    PROVE  /\ Carried' = Carried /\ WithId' = WithId
           /\ \A p : Matches(p)' = Matches(p)
<1>1. Carried' = Carried
  BY DEF Carried
<1>2. WithId' = WithId
  BY DEF WithId
<1>3. \A p : Matches(p)' = Matches(p)
  BY DEF Matches
<1> QED BY <1>1, <1>2, <1>3

LEMMA SameViewFits ==
    ASSUME NEW v \in Viewers, ViewFits(v), SameView(v), SameMemory(v), avus' = avus
    PROVE  ViewFits(v)'
<1>1. TreeFits(v)'
  <2>1. TreeFits(v)
    BY DEF ViewFits
  <2> QED BY <2>1 DEF TreeFits, SameView, HoldsNodes
<1>2. IdsFit(v)'
  <2>1. IdsFit(v)
    BY DEF ViewFits
  <2>2. \A p : Led(v, p)' = Led(v, p)
    BY DEF Led, SameMemory
  <2> QED BY <2>1, <2>2, SameCatalog DEF IdsFit, SameView, SameMemory, HoldsNodes
<1>3. RowsFit(v)'
  <2>1. RowsFit(v)
    BY DEF ViewFits
  <2>2. Queried(v)' = Queried(v)
    BY DEF Queried, SameView
  <2>3. Rows(v)' = Rows(v)
    BY <2>2, SameCatalog DEF Rows
  <2>4. \A p : Ahead(v, p)' = Ahead(v, p)
    BY <2>3 DEF Ahead, SameView
  <2> QED BY <2>1, <2>2, <2>4 DEF RowsFit, SameView, SameMemory
<1> QED BY <1>1, <1>2, <1>3 DEF ViewFits

\* A step of one viewer.
LooksOnly(v) ==
    /\ UNCHANGED cvars
    /\ \A w \in Viewers \ {v} : SameView(w) /\ SameMemory(w)

\* At the start of a query every path with an id is ahead.
LEMMA AllAhead ==
    ASSUME CInv, NEW v \in Viewers, avus' = avus,
           top'[v] \in Collections, cursor'[v] = 0,
           NEW p \in WithId \cap Queried(v)'
    PROVE  Ahead(v, p)'
<1>1. Matches(p)' /\ p \in Queried(v)'
  BY Registered, SameCatalog
<1>2. Below[top'[v]] \subseteq Paths
  BY TreeIsTree
<1>3. Queried(v)' \subseteq Paths
  BY <1>2 DEF Queried
<1>4. Listed(Rows(v))' = Paths \cap {q \in Queried(v) : Matches(q)}'
  BY Sorted DEF Rows
<1>5. p \in Listed(Rows(v))'
  BY <1>1, <1>3, <1>4
<1>6. PICK i \in DOMAIN Rows(v)' : Rows(v)'[i] = p
  BY <1>5 DEF Listed
<1>7. Rows(v)' \in Seq(Paths)
  BY Sorted DEF Rows
<1>8. 0 < i
  BY <1>6, <1>7
<1> QED BY <1>6, <1>8 DEF Ahead

LEMMA BeginFits ==
    ASSUME MInv, NEW v \in Viewers, BeginManifest(v)
    PROVE  LooksOnly(v) /\ ViewTypes' /\ ViewFits(v)'
<1>1. CInv /\ ViewTypes /\ ManifestTypeOK /\ TreeFits(v)
  BY DEF MInv, ViewTypes, ViewFits
<1>0. PICK r \in ViewsOf[v] : \E id \in drsIDFromMetadata(avus[r]) :
         /\ top' = [top EXCEPT ![v] = r]
         /\ nodesByPath' = [nodesByPath EXCEPT ![v] = Put(<<>>, r, id)]
  BY DEF BeginManifest
<1>2. PICK id \in drsIDFromMetadata(avus[r]) :
         /\ top' = [top EXCEPT ![v] = r]
         /\ nodesByPath' = [nodesByPath EXCEPT ![v] = Put(<<>>, r, id)]
  BY <1>0
<1>3. /\ viewing[v] \in AtRest
      /\ viewing' = [viewing EXCEPT ![v] = "collections"]
      /\ cursor' = [cursor EXCEPT ![v] = 0]
      /\ drsEntries' = [drsEntries EXCEPT ![v] = {}]
      /\ carried' = [carried EXCEPT ![v] = Carried]
      /\ steady' = [steady EXCEPT ![v] = WithId]
      /\ shifted' = [shifted EXCEPT ![v] = FALSE]
      /\ UNCHANGED cvars /\ UNCHANGED paths
  BY DEF BeginManifest, TurnTo
<1>4. r \in Collections /\ r \in Paths
  BY ViewersSeeATree, TreeIsTree
<1>5. /\ id \in Ids \cup {None}
      /\ id # None => <<r, id>> \in Carried
      /\ r \in WithId => id # None
  BY <1>1, <1>4, IdRead
<1>6. DOMAIN Put(<<>>, r, id) = {r} /\ Put(<<>>, r, id)[r] = id
  BY DEF Put
<1>7. Carried \subseteq Paths \X Ids /\ WithId \subseteq Paths
  BY DEF Carried, WithId
<1>8. avus' = avus
  BY <1>3 DEF cvars, vars, catalog
<1>9. Len(TreeOrder) \in Nat
  BY Ordered
<1> DEFINE nodes == Put(<<>>, r, id)
<1> HIDE DEF nodes
<1>10. DOMAIN nodes = {r} /\ nodes[r] = id
  BY <1>6 DEF nodes
<1>11. nodesByPath' = [nodesByPath EXCEPT ![v] = nodes]
  BY <1>2 DEF nodes
<1>12. /\ viewing'[v] = "collections" /\ top'[v] = r /\ nodesByPath'[v] = nodes
       /\ cursor'[v] = 0 /\ drsEntries'[v] = {} /\ carried'[v] = Carried
       /\ steady'[v] = WithId /\ shifted'[v] = FALSE /\ paths'[v] = <<>>
  BY <1>1, <1>2, <1>3, <1>11 DEF ManifestTypeOK, ViewTypes, TreeFits, AtRest
<1>13. LooksOnly(v)
  BY <1>1, <1>2, <1>3, <1>11 DEF LooksOnly, SameView, SameMemory, ManifestTypeOK, ViewTypes
<1>14. ViewTypes'
  <2>1. Range(nodes) \subseteq Ids \cup {None} /\ DOMAIN nodes \subseteq Paths
    <3>1. \A x \in DOMAIN nodes : nodes[x] = id
      BY <1>10
    <3>2. \A y \in Range(nodes) : y = id
      BY <3>1 DEF Range
    <3> QED BY <1>4, <1>5, <1>10, <3>2
  <2>2. \A w \in Viewers : /\ DOMAIN nodesByPath'[w] \subseteq Paths
                           /\ Range(nodesByPath'[w]) \subseteq Ids \cup {None}
    <3> SUFFICES ASSUME NEW w \in Viewers
                 PROVE  /\ DOMAIN nodesByPath'[w] \subseteq Paths
                        /\ Range(nodesByPath'[w]) \subseteq Ids \cup {None}
      OBVIOUS
    <3>1. CASE w = v
      BY <1>12, <2>1, <3>1
    <3>2. CASE w # v
      BY <1>1, <1>13, <3>2 DEF LooksOnly, SameView, ManifestTypeOK
    <3> QED BY <3>1, <3>2
  <2>3. nodesByPath' = [w \in Viewers |-> nodesByPath'[w]]
    BY <1>1, <1>11 DEF ViewTypes
  <2>4. /\ viewing' \in [Viewers -> Building \cup AtRest]
        /\ top' \in [Viewers -> Collections \cup {None}]
    BY <1>1, <1>2, <1>3, <1>4 DEF ManifestTypeOK, Building
  <2>5. /\ cursor' \in [Viewers -> 0..Len(TreeOrder)]
        /\ drsEntries' \in [Viewers -> SUBSET Paths]
        /\ paths' \in [Viewers -> Seq(Paths)]
    BY <1>1, <1>3, <1>9 DEF ManifestTypeOK
  <2>6. /\ carried' \in [Viewers -> SUBSET (Paths \X Ids)]
        /\ steady' \in [Viewers -> SUBSET Paths]
        /\ shifted' \in [Viewers -> BOOLEAN]
    BY <1>1, <1>3, <1>7 DEF ManifestTypeOK
  <2> QED BY <2>2, <2>3, <2>4, <2>5, <2>6 DEF ViewTypes, ManifestTypeOK
<1>15. TreeFits(v)'
  <2>1. ancestorCollectionPaths(r, r) = {}
    BY <1>4, TreeIsTree DEF ancestorCollectionPaths
  <2>2. Listed(<<>>) = {}
    BY DEF Listed
  <2> QED BY <1>4, <1>10, <1>12, <2>1, <2>2 DEF TreeFits, Subtree
<1>16. IdsFit(v)'
  <2>1. Carried' = Carried /\ WithId' = WithId
    BY <1>8, SameCatalog
  <2>2. Carried' \subseteq carried'[v] /\ steady'[v] \subseteq WithId'
    BY <1>12, <2>1
  <2>3. ASSUME NEW p \in DOMAIN nodesByPath'[v]
        PROVE  /\ nodesByPath'[v][p] # None => <<p, nodesByPath'[v][p]>> \in carried'[v]
               /\ p \in steady'[v] => nodesByPath'[v][p] # None
               /\ p = top'[v]
    BY <1>5, <1>10, <1>12
  <2> QED BY <1>12, <2>2, <2>3 DEF IdsFit
<1>17. RowsFit(v)'
  <2>1. top'[v] \in Collections
    BY <1>4, <1>12
  <2>2. \A p \in WithId \cap Queried(v)' : Ahead(v, p)'
    BY <1>1, <1>8, <1>12, <2>1, AllAhead
  <2> QED BY <1>12, <2>2 DEF RowsFit
<1> QED BY <1>13, <1>14, <1>15, <1>16, <1>17 DEF ViewFits

LEMMA MinOfTwo ==
    ASSUME NEW n \in Nat, NEW k \in Nat
    PROVE  Min({n, k}) = IF n <= k THEN n ELSE k
BY DEF Min

\* A page holds the rows after the cursor, as many as it has room for.
LEMMA PageHolds ==
    ASSUME NEW rows \in Seq(Paths), NEW m \in Nat, NEW n \in Nat
    PROVE  LET page == SubSeq(rows, m + 1, Min({n, Len(rows)}))
           IN  /\ Range(page) \subseteq Listed(rows)
               /\ \A i \in DOMAIN rows : m < i /\ i <= n => rows[i] \in Range(page)
<1>1. Len(rows) \in Nat /\ DOMAIN rows = 1..Len(rows)
  OBVIOUS
<1> DEFINE last == IF n <= Len(rows) THEN n ELSE Len(rows)
<1>2. /\ last \in Nat /\ last = Min({n, Len(rows)})
      /\ last = n \/ last = Len(rows)
      /\ last <= n /\ last <= Len(rows)
  BY <1>1, MinOfTwo
<1> HIDE DEF last
<1> DEFINE page == SubSeq(rows, m + 1, last)
<1>3. /\ DOMAIN page = 1..(last - m)
      /\ \A i \in 1..(last - m) : page[i] = rows[m + i]
  <2>1. \A i \in (m + 1)..last : rows[i] \in Paths
    BY <1>1, <1>2
  <2>2. /\ page \in Seq(Paths)
        /\ Len(page) = IF m + 1 <= last THEN last - (m + 1) + 1 ELSE 0
        /\ \A i \in 1..(last - (m + 1) + 1) : page[i] = rows[(m + 1) + i - 1]
    <3>1. m + 1 \in Int /\ last \in Int
      BY <1>2
    <3> QED BY <2>1, <3>1, SubSeqProperties
  <2>3. DOMAIN page = 1..Len(page) /\ last - (m + 1) + 1 = last - m
    BY <1>2, <2>2
  <2> HIDE DEF page
  <2>4. DOMAIN page = 1..(last - m)
    BY <1>2, <2>2, <2>3
  <2>5. ASSUME NEW i \in 1..(last - m) PROVE page[i] = rows[m + i]
    <3>1. (m + 1) + i - 1 = m + i
      BY <1>2
    <3> QED BY <2>2, <2>3, <3>1
  <2> QED BY <2>4, <2>5
<1> HIDE DEF page
<1>4. ASSUME NEW x \in Range(page) PROVE x \in Listed(rows)
  <2>1. PICK i \in DOMAIN page : x = page[i]
    BY DEF Range
  <2>2. m + i \in DOMAIN rows
    BY <1>1, <1>2, <1>3, <2>1
  <2> QED BY <1>3, <2>1, <2>2 DEF Listed
<1>5. ASSUME NEW i \in DOMAIN rows, m < i, i <= n PROVE rows[i] \in Range(page)
  <2>1. i - m \in 1..(last - m) /\ m + (i - m) = i
    BY <1>1, <1>2, <1>5
  <2>2. i - m \in DOMAIN page /\ page[i - m] = rows[i]
    BY <1>3, <2>1
  <2> QED BY <2>2 DEF Range
<1> QED BY <1>2, <1>4, <1>5 DEF page

LEMMA QueryFits ==
    ASSUME MInv, NEW v \in Viewers, QueryPage(v)
    PROVE  LooksOnly(v) /\ ViewTypes' /\ ViewFits(v)'
<1> DEFINE rows    == Rows(v)
           page    == SubSeq(rows, cursor[v] + 1, Min({NextPage(v), Len(rows)}))
           hasMore == NextPage(v) < Len(rows)
           found   == drsEntries[v] \cup (Range(page) \cap WithId)
<1>1. CInv /\ ViewTypes /\ ManifestTypeOK /\ TreeFits(v) /\ IdsFit(v) /\ RowsFit(v)
  BY DEF MInv, ViewTypes, ViewFits
<1>2. /\ viewing[v] \in Querying
      /\ drsEntries' = [drsEntries EXCEPT ![v] = found]
      /\ cursor' = [cursor EXCEPT ![v] = IF hasMore THEN NextPage(v) ELSE 0]
      /\ UNCHANGED <<cvars, top, nodesByPath, carried, steady, shifted>>
  BY DEF QueryPage, Querying, FirstPage, memory
<1>3. \/ hasMore /\ viewing' = viewing /\ paths' = paths
      \/ /\ ~hasMore /\ viewing[v] = "collections" /\ paths' = paths
         /\ viewing' = [viewing EXCEPT ![v] = "objects"]
      \/ /\ ~hasMore /\ viewing[v] = "objects"
         /\ viewing' = [viewing EXCEPT ![v] = "nodes"]
         /\ paths' = [paths EXCEPT ![v] = SortedPaths(found)]
  BY DEF QueryPage, TurnTo
<1>4. viewing[v] \in Building /\ HoldsNodes(v)
  BY <1>2 DEF Querying, Building, HoldsNodes
<1>5. /\ top[v] \in Collections /\ top[v] \in DOMAIN nodesByPath[v]
      /\ DOMAIN nodesByPath[v] \subseteq Subtree(top[v])
      /\ drsEntries[v] \subseteq Below[top[v]]
      /\ \A p \in DOMAIN nodesByPath[v] :
            ancestorCollectionPaths(top[v], p) \subseteq DOMAIN nodesByPath[v]
      /\ paths[v] = <<>>
  BY <1>1, <1>2, <1>4 DEF TreeFits, Querying
<1>6. /\ rows \in Seq(Paths) /\ Len(rows) \in Nat /\ Len(rows) <= Len(TreeOrder)
      /\ DOMAIN rows = 1..Len(rows)
      /\ Listed(rows) = {p \in Queried(v) : Matches(p)}
      /\ Queried(v) \subseteq Below[top[v]] /\ Below[top[v]] \subseteq Paths
  BY <1>5, RowsBelow
<1>7. /\ cursor[v] \in Nat /\ NextPage(v) \in Nat /\ Len(TreeOrder) \in Nat
  BY <1>1, Ordered, ViewersSeeATree DEF ManifestTypeOK, NextPage
<1>8. avus' = avus
  BY <1>2 DEF cvars, vars, catalog
<1> HIDE DEF rows
<1>9. /\ Range(page) \subseteq Listed(rows)
      /\ \A i \in DOMAIN rows : cursor[v] < i /\ i <= NextPage(v) => rows[i] \in Range(page)
  BY <1>6, <1>7, PageHolds
<1> HIDE DEF page
<1>10. drsEntries[v] \subseteq found /\ found \subseteq Below[top[v]] /\ found \subseteq Paths
  BY <1>5, <1>6, <1>9
<1>11. Listed(SortedPaths(found)) = found /\ SortedPaths(found) \in Seq(Paths)
  BY <1>10, Sorted
<1>12. \A p \in found : p \in drsEntries[v] \/ p \in WithId
  OBVIOUS
<1>13. ASSUME ~shifted[v], NEW p \in steady[v] \cap Queried(v)
       PROVE  p \in found \/ (hasMore /\ \E i \in DOMAIN rows : NextPage(v) < i /\ rows[i] = p)
  <2>1. p \in drsEntries[v] \/ Ahead(v, p)
    BY <1>1, <1>2, <1>13 DEF RowsFit
  <2>2. CASE Ahead(v, p)
    <3>1. PICK i \in DOMAIN rows : cursor[v] < i /\ rows[i] = p
      BY <2>2 DEF Ahead, rows
    <3>2. p \in WithId
      BY <1>1, <1>4, <1>13 DEF IdsFit
    <3>3. CASE i <= NextPage(v)
      BY <1>9, <3>1, <3>2, <3>3
    <3>4. CASE NextPage(v) < i
      BY <1>6, <1>7, <3>1, <3>4
    <3> QED BY <1>6, <1>7, <3>1, <3>3, <3>4
  <2> QED BY <2>1, <2>2
<1> HIDE DEF found, hasMore
<1>14. /\ top'[v] = top[v] /\ nodesByPath'[v] = nodesByPath[v]
       /\ drsEntries'[v] = found
       /\ carried'[v] = carried[v] /\ steady'[v] = steady[v] /\ shifted'[v] = shifted[v]
       /\ cursor'[v] = IF hasMore THEN NextPage(v) ELSE 0
  BY <1>1, <1>2 DEF ManifestTypeOK
<1>15. LooksOnly(v)
  BY <1>1, <1>2, <1>3 DEF LooksOnly, SameView, SameMemory, ManifestTypeOK
<1>16. ViewTypes'
  <2>1. viewing' \in [Viewers -> Building \cup AtRest] /\ paths' \in [Viewers -> Seq(Paths)]
    BY <1>1, <1>3, <1>11 DEF ManifestTypeOK, Building
  <2>2. (IF hasMore THEN NextPage(v) ELSE 0) \in 0..Len(TreeOrder)
    BY <1>6, <1>7 DEF hasMore
  <2>3. cursor' \in [Viewers -> 0..Len(TreeOrder)] /\ drsEntries' \in [Viewers -> SUBSET Paths]
    BY <1>1, <1>2, <1>10, <2>2 DEF ManifestTypeOK
  <2> QED BY <1>1, <1>2, <2>1, <2>3 DEF ManifestTypeOK, ViewTypes
<1>17. \/ hasMore /\ viewing'[v] = viewing[v] /\ paths'[v] = <<>>
       \/ ~hasMore /\ viewing[v] = "collections" /\ viewing'[v] = "objects" /\ paths'[v] = <<>>
       \/ /\ ~hasMore /\ viewing[v] = "objects" /\ viewing'[v] = "nodes"
          /\ paths'[v] = SortedPaths(found)
  BY <1>1, <1>3, <1>5 DEF ManifestTypeOK
<1>18. TreeFits(v)'
  <2>1. Listed(<<>>) = {}
    BY DEF Listed
  <2>2. viewing'[v] # "orphaned" /\ (viewing'[v] # "nodes" => paths'[v] = <<>>)
    BY <1>2, <1>17 DEF Querying
  <2>3. Listed(paths'[v]) \subseteq found
    BY <1>11, <1>17, <2>1
  <2> QED BY <1>5, <1>10, <1>14, <2>2, <2>3 DEF TreeFits
<1>19. IdsFit(v)'
  <2>1. Carried' = Carried /\ WithId' = WithId
    BY <1>8, SameCatalog
  <2>2. \A p : Led(v, p)' <=> Led(v, p)
    BY <1>14 DEF Led
  <2>3. ASSUME NEW p \in found PROVE Led(v, p)
    <3>1. CASE p \in drsEntries[v]
      BY <1>1, <1>4, <3>1 DEF IdsFit
    <3>2. CASE p \in WithId
      <4>1. PICK pair \in Carried : pair[1] = p
        BY <1>1, <3>2, Registered
      <4>2. pair \in carried[v]
        BY <1>1, <1>4, <4>1 DEF IdsFit
      <4> QED BY <4>1, <4>2 DEF Led, Subtree
    <3> QED BY <1>12, <3>1, <3>2
  <2>4. \A p \in drsEntries'[v] : Led(v, p)'
    BY <1>14, <2>2, <2>3
  <2>5. \A p \in DOMAIN nodesByPath'[v] \ {top'[v]} : Led(v, p)'
    BY <1>1, <1>4, <1>14, <2>2 DEF IdsFit
  <2>6. \A p \in DOMAIN nodesByPath'[v] :
           /\ nodesByPath'[v][p] # None => <<p, nodesByPath'[v][p]>> \in carried'[v]
           /\ p \in steady'[v] => nodesByPath'[v][p] # None
    BY <1>1, <1>4, <1>14 DEF IdsFit
  <2>7. Carried' \subseteq carried'[v] /\ steady'[v] \subseteq WithId'
    BY <1>1, <1>4, <1>14, <2>1 DEF IdsFit
  <2> QED BY <2>4, <2>5, <2>6, <2>7 DEF IdsFit
<1>20. RowsFit(v)'
  <2> SUFFICES ASSUME ~shifted[v] PROVE RowsFit(v)'
    BY <1>14 DEF RowsFit
  <2>1. CASE hasMore
    <3>1. viewing'[v] = viewing[v]
      BY <1>17, <2>1
    <3>2. Queried(v)' = Queried(v)
      BY <1>14, <3>1 DEF Queried
    <3>3. Rows(v)' = rows
      BY <1>8, <3>2, SameCatalog DEF Rows, rows
    <3>4. \A p \in steady'[v] \cap Queried(v)' : p \in drsEntries'[v] \/ Ahead(v, p)'
      BY <1>13, <1>14, <2>1, <3>2, <3>3 DEF Ahead
    <3>5. viewing'[v] \in {"objects", "nodes"} =>
             steady'[v] \cap Below[top'[v]] \cap Collections \subseteq drsEntries'[v]
      BY <1>1, <1>10, <1>14, <3>1 DEF RowsFit
    <3> QED BY <1>2, <3>1, <3>4, <3>5 DEF RowsFit, Querying
  <2>2. CASE ~hasMore /\ viewing[v] = "collections"
    <3>1. viewing'[v] = "objects"
      BY <1>17, <2>2
    <3>2. steady[v] \cap Below[top[v]] \cap Collections \subseteq found
      BY <1>13, <2>2 DEF Queried
    <3>3. steady[v] \subseteq WithId
      BY <1>1, <1>4 DEF IdsFit
    <3>4. \A p \in steady'[v] \cap Queried(v)' : Ahead(v, p)'
      BY <1>1, <1>5, <1>8, <1>14, <2>2, <3>3, AllAhead
    <3> QED BY <1>14, <3>1, <3>2, <3>4 DEF RowsFit
  <2>3. CASE ~hasMore /\ viewing[v] = "objects"
    <3>1. viewing'[v] = "nodes" /\ paths'[v] = SortedPaths(found)
      BY <1>17, <2>3
    <3>2. steady[v] \cap Below[top[v]] \cap Collections \subseteq found
      BY <1>1, <1>10, <2>3 DEF RowsFit
    <3>3. steady[v] \cap (Below[top[v]] \ Collections) \subseteq found
      BY <1>13, <2>3 DEF Queried
    <3>4. steady[v] \cap Below[top[v]] \subseteq found
      BY <3>2, <3>3
    <3> QED BY <1>11, <1>14, <3>1, <3>2, <3>4 DEF RowsFit, Querying
  <2> QED BY <1>17, <2>1, <2>2, <2>3
<1> QED BY <1>15, <1>16, <1>18, <1>19, <1>20 DEF ViewFits

\* The next node leads to the path, and all that leads to it is drawn.
LEMMA NodeLeads ==
    ASSUME NEW v \in Viewers, top[v] \in Paths, NEW p \in Below[top[v]]
    PROVE  LET node == NextNode(v, p)
           IN  /\ node \in Below[top[v]] /\ node \in Paths /\ p \in Subtree(node)
               /\ ancestorCollectionPaths(top[v], node) \subseteq DOMAIN nodesByPath[v]
<1> DEFINE r == top[v]
           U == Undrawn(v, p)
<1>1. p \in Paths /\ U \in SUBSET Paths /\ U \subseteq ancestorCollectionPaths(r, p)
  BY TreeIsTree DEF Undrawn, ancestorCollectionPaths
<1>2. CASE U = {}
  <2>1. NextNode(v, p) = p
    BY <1>2 DEF NextNode
  <2> QED BY <1>1, <1>2, <2>1 DEF Undrawn, Subtree
<1>3. CASE U # {}
  <2>1. \A q \in U : p \in Below[q] /\ q \in Below[r]
    BY <1>1 DEF ancestorCollectionPaths
  <2> DEFINE node == NextNode(v, p)
  <2>2. node \in U /\ U \subseteq Subtree(node)
    <3>1. \E q \in U : U \subseteq Subtree(q)
      BY <1>1, <1>3, <2>1, Outermost
    <3> QED BY <1>3, <3>1 DEF NextNode
  <2> HIDE DEF node
  <2>3. node \in Below[r] /\ node \in Paths /\ p \in Subtree(node)
    BY <1>1, <2>1, <2>2 DEF Subtree
  <2>4. ASSUME NEW q \in ancestorCollectionPaths(r, node), q \notin DOMAIN nodesByPath[v]
        PROVE  FALSE
    <3>1. q \in Below[r] /\ node \in Below[q]
      BY <2>4 DEF ancestorCollectionPaths
    <3>2. q \in Paths /\ p \in Below[q]
      BY <2>1, <2>2, <3>1, TreeIsTree
    <3>3. q \in U
      BY <2>4, <3>1, <3>2 DEF Undrawn, ancestorCollectionPaths
    <3>4. q = node \/ q \in Below[node]
      BY <2>2, <3>3 DEF Subtree
    <3> QED BY <2>3, <3>1, <3>2, <3>4, TreeIsTree
  <2> QED BY <2>3, <2>4 DEF node
<1> QED BY <1>2, <1>3

\* What leads to an id, so does all that leads to it.
LEMMA LedUp ==
    ASSUME NEW v, NEW p, NEW q \in Paths, p \in Subtree(q), Led(v, p)
    PROVE  Led(v, q)
<1>1. PICK pair \in carried[v] : pair[1] \in Subtree(p)
  BY DEF Led
<1>2. pair[1] \in Subtree(q)
  BY <1>1, TreeIsTree DEF Subtree
<1> QED BY <1>1, <1>2 DEF Led

LEMMA DrawFits ==
    ASSUME MInv, NEW v \in Viewers, DrawNode(v)
    PROVE  LooksOnly(v) /\ ViewTypes' /\ ViewFits(v)'
<1> DEFINE p    == Head(paths[v])
           node == NextNode(v, p)
<1>1. CInv /\ ViewTypes /\ ManifestTypeOK /\ TreeFits(v) /\ IdsFit(v) /\ RowsFit(v)
  BY DEF MInv, ViewTypes, ViewFits
<1>2. PICK id \in drsIDFromMetadata(avus[node]) :
         nodesByPath' = [nodesByPath EXCEPT ![v] = Put(nodesByPath[v], node, id)]
  BY DEF DrawNode
<1>3. /\ viewing[v] = "nodes" /\ paths[v] # <<>>
      /\ paths' = IF node = p THEN [paths EXCEPT ![v] = Tail(paths[v])] ELSE paths
      /\ viewing' = [viewing EXCEPT ![v] = IF HasParent(v, node) THEN "nodes" ELSE "orphaned"]
      /\ UNCHANGED <<cvars, top, cursor, drsEntries, carried, steady, shifted>>
  BY DEF DrawNode, TurnTo, memory
<1>4. viewing[v] \in Building /\ HoldsNodes(v)
  BY <1>3 DEF Building, HoldsNodes
<1>5. /\ top[v] \in Collections /\ top[v] \in DOMAIN nodesByPath[v]
      /\ DOMAIN nodesByPath[v] \subseteq Subtree(top[v])
      /\ drsEntries[v] \subseteq Below[top[v]]
      /\ \A q \in DOMAIN nodesByPath[v] :
            ancestorCollectionPaths(top[v], q) \subseteq DOMAIN nodesByPath[v]
      /\ Listed(paths[v]) \subseteq drsEntries[v]
  BY <1>1, <1>4 DEF TreeFits
<1>6. /\ paths[v] \in Seq(Paths) /\ Tail(paths[v]) \in Seq(Paths)
      /\ Listed(paths[v]) = {p} \cup Listed(Tail(paths[v]))
  BY <1>1, <1>3, ListedTail DEF ManifestTypeOK
<1>7. top[v] \in Paths /\ p \in drsEntries[v] /\ p \in Below[top[v]]
  BY <1>5, <1>6, TreeIsTree
<1> HIDE DEF p
<1>8. /\ node \in Below[top[v]] /\ node \in Paths /\ p \in Subtree(node)
      /\ ancestorCollectionPaths(top[v], node) \subseteq DOMAIN nodesByPath[v]
  BY <1>7, NodeLeads
<1> HIDE DEF node
<1>9. HasParent(v, node)
  <2>1. \/ parentRuntimeNodePath(node) = top[v]
        \/ parentRuntimeNodePath(node) \in ancestorCollectionPaths(top[v], node)
    BY <1>7, <1>8, ParentLeads
  <2> QED BY <1>5, <1>8, <2>1 DEF HasParent
<1>10. viewing' = [viewing EXCEPT ![v] = "nodes"]
  BY <1>3, <1>9
<1>11. /\ id \in Ids \cup {None}
       /\ id # None => <<node, id>> \in Carried
       /\ node \in WithId => id # None
  BY <1>1, <1>8, IdRead
<1> DEFINE nodes == Put(nodesByPath[v], node, id)
<1>12. /\ DOMAIN nodes = DOMAIN nodesByPath[v] \cup {node}
       /\ \A q \in DOMAIN nodes : nodes[q] = IF q = node THEN id ELSE nodesByPath[v][q]
  BY DEF Put
<1>13. nodesByPath' = [nodesByPath EXCEPT ![v] = nodes]
  BY <1>2
<1> HIDE DEF nodes
<1>14. avus' = avus
  BY <1>3 DEF cvars, vars, catalog
<1>15. /\ viewing'[v] = "nodes" /\ nodesByPath'[v] = nodes
       /\ top'[v] = top[v] /\ drsEntries'[v] = drsEntries[v]
       /\ carried'[v] = carried[v] /\ steady'[v] = steady[v] /\ shifted'[v] = shifted[v]
       /\ paths'[v] = IF node = p THEN Tail(paths[v]) ELSE paths[v]
  BY <1>1, <1>3, <1>10, <1>13 DEF ManifestTypeOK, ViewTypes
<1>16. LooksOnly(v)
  <2>1. /\ \A w \in Viewers \ {v} : viewing'[w] = viewing[w] /\ nodesByPath'[w] = nodesByPath[w]
        /\ \A w \in Viewers \ {v} : paths'[w] = paths[w]
    BY <1>1, <1>3, <1>10, <1>13 DEF ManifestTypeOK, ViewTypes
  <2> QED BY <1>3, <2>1 DEF LooksOnly, SameView, SameMemory
<1>17. ViewTypes'
  <2>1. /\ DOMAIN nodes \subseteq Paths
        /\ Range(nodes) \subseteq Ids \cup {None}
    <3>1. /\ DOMAIN nodesByPath[v] \subseteq Paths
          /\ \A q \in DOMAIN nodesByPath[v] : nodesByPath[v][q] \in Ids \cup {None}
      BY <1>1 DEF ManifestTypeOK, Range
    <3>2. \A q \in DOMAIN nodes : nodes[q] \in Ids \cup {None}
      BY <1>11, <1>12, <3>1
    <3>3. \A y \in Range(nodes) : \E q \in DOMAIN nodes : y = nodes[q]
      BY DEF Range
    <3> QED BY <1>8, <1>12, <3>1, <3>2, <3>3
  <2>2. \A w \in Viewers : /\ DOMAIN nodesByPath'[w] \subseteq Paths
                           /\ Range(nodesByPath'[w]) \subseteq Ids \cup {None}
    <3> SUFFICES ASSUME NEW w \in Viewers
                 PROVE  /\ DOMAIN nodesByPath'[w] \subseteq Paths
                        /\ Range(nodesByPath'[w]) \subseteq Ids \cup {None}
      OBVIOUS
    <3>1. CASE w = v
      BY <1>15, <2>1, <3>1
    <3>2. CASE w # v
      BY <1>1, <1>16, <3>2 DEF LooksOnly, SameView, ManifestTypeOK
    <3> QED BY <3>1, <3>2
  <2>3. nodesByPath' = [w \in Viewers |-> nodesByPath'[w]]
    BY <1>1, <1>13 DEF ViewTypes
  <2>4. viewing' \in [Viewers -> Building \cup AtRest] /\ paths' \in [Viewers -> Seq(Paths)]
    BY <1>1, <1>3, <1>6, <1>10 DEF ManifestTypeOK, Building
  <2> QED BY <1>1, <1>3, <2>2, <2>3, <2>4 DEF ViewTypes, ManifestTypeOK
<1>18. Listed(paths'[v]) \subseteq drsEntries[v] /\ Listed(paths[v]) \subseteq Listed(paths'[v]) \cup DOMAIN nodes
  BY <1>5, <1>6, <1>12, <1>15
<1>19. TreeFits(v)'
  <2>1. \A q \in DOMAIN nodes : ancestorCollectionPaths(top[v], q) \subseteq DOMAIN nodes
    BY <1>5, <1>8, <1>12
  <2>2. top[v] \in DOMAIN nodes /\ DOMAIN nodes \subseteq Subtree(top[v])
    BY <1>5, <1>8, <1>12 DEF Subtree
  <2> QED BY <1>5, <1>15, <1>18, <2>1, <2>2 DEF TreeFits
<1>20. IdsFit(v)'
  <2>1. Carried' = Carried /\ WithId' = WithId
    BY <1>14, SameCatalog
  <2>2. \A q : Led(v, q)' <=> Led(v, q)
    BY <1>15 DEF Led
  <2>3. Carried \subseteq carried[v] /\ steady[v] \subseteq WithId
    BY <1>1, <1>4 DEF IdsFit
  <2>4. Led(v, node)
    <3>1. Led(v, p)
      BY <1>1, <1>4, <1>7 DEF IdsFit
    <3> QED BY <1>8, <3>1, LedUp
  <2>5. ASSUME NEW q \in DOMAIN nodes
        PROVE  /\ nodes[q] # None => <<q, nodes[q]>> \in carried[v]
               /\ q \in steady[v] => nodes[q] # None
               /\ q # top[v] => Led(v, q)
    <3>1. CASE q = node
      BY <1>11, <1>12, <2>3, <2>4, <3>1
    <3>2. CASE q # node
      <4>1. q \in DOMAIN nodesByPath[v] /\ nodes[q] = nodesByPath[v][q]
        BY <1>12, <3>2
      <4> QED BY <1>1, <1>4, <4>1 DEF IdsFit
    <3> QED BY <3>1, <3>2
  <2>6. \A q \in drsEntries[v] : Led(v, q)
    BY <1>1, <1>4 DEF IdsFit
  <2> QED BY <1>15, <2>1, <2>2, <2>3, <2>5, <2>6 DEF IdsFit
<1>21. RowsFit(v)'
  <2> SUFFICES ASSUME ~shifted[v] PROVE RowsFit(v)'
    BY <1>15 DEF RowsFit
  <2>1. /\ steady[v] \cap Below[top[v]] \subseteq drsEntries[v]
        /\ drsEntries[v] \subseteq DOMAIN nodesByPath[v] \cup Listed(paths[v])
    BY <1>1, <1>3 DEF RowsFit
  <2>2. drsEntries[v] \subseteq DOMAIN nodes \cup Listed(paths'[v])
    BY <1>12, <1>18, <2>1
  <2> QED BY <1>15, <2>1, <2>2 DEF RowsFit, Querying
<1> QED BY <1>16, <1>17, <1>19, <1>20, <1>21 DEF ViewFits

LEMMA ShowFits ==
    ASSUME MInv, NEW v \in Viewers, Show(v)
    PROVE  LooksOnly(v) /\ ViewTypes' /\ ViewFits(v)'
<1>1. CInv /\ ViewTypes /\ ManifestTypeOK /\ TreeFits(v) /\ IdsFit(v) /\ RowsFit(v)
  BY DEF MInv, ViewTypes, ViewFits
<1>2. /\ viewing[v] = "nodes" /\ paths[v] = <<>>
      /\ viewing' = [viewing EXCEPT ![v] = "shown"]
      /\ UNCHANGED <<cvars, top, cursor, drsEntries, paths, nodesByPath,
                     carried, steady, shifted>>
  BY DEF Show, TurnTo, memory
<1>3. viewing[v] \in Building /\ HoldsNodes(v)
  BY <1>2 DEF Building, HoldsNodes
<1>4. viewing'[v] = "shown"
  BY <1>1, <1>2 DEF ManifestTypeOK
<1>5. LooksOnly(v)
  BY <1>1, <1>2 DEF LooksOnly, SameView, SameMemory, ManifestTypeOK
<1>6. ViewTypes'
  BY <1>1, <1>2 DEF ViewTypes, ManifestTypeOK, AtRest
<1>7. TreeFits(v)'
  BY <1>1, <1>2, <1>3, <1>4 DEF TreeFits
<1>8. IdsFit(v)'
  <2>1. \A q : Led(v, q)' <=> Led(v, q)
    BY <1>2 DEF Led
  <2> QED BY <1>1, <1>2, <1>3, <1>4, <2>1 DEF IdsFit, Building
<1>9. RowsFit(v)'
  <2>1. Listed(<<>>) = {}
    BY DEF Listed
  <2> QED BY <1>1, <1>2, <1>4, <2>1 DEF RowsFit, Querying
<1> QED BY <1>5, <1>6, <1>7, <1>8, <1>9 DEF ViewFits

LEMMA FailFits ==
    ASSUME MInv, NEW v \in Viewers, ViewFails(v)
    PROVE  LooksOnly(v) /\ ViewTypes' /\ ViewFits(v)'
<1>1. ViewTypes /\ ManifestTypeOK
  BY DEF MInv, ViewTypes
<1>2. /\ viewing' = [viewing EXCEPT ![v] = "failed"]
      /\ cursor' = [cursor EXCEPT ![v] = 0]
      /\ drsEntries' = [drsEntries EXCEPT ![v] = {}]
      /\ paths' = [paths EXCEPT ![v] = <<>>]
      /\ nodesByPath' = [nodesByPath EXCEPT ![v] = <<>>]
      /\ UNCHANGED <<cvars, top, carried, steady, shifted>>
  BY DEF ViewFails, TurnTo, memory
<1>3. viewing'[v] = "failed" /\ paths'[v] = <<>>
  BY <1>1, <1>2 DEF ManifestTypeOK
<1>4. LooksOnly(v)
  BY <1>1, <1>2 DEF LooksOnly, SameView, SameMemory, ManifestTypeOK, ViewTypes
<1>5. ViewTypes'
  <2>1. \A w \in Viewers : /\ DOMAIN nodesByPath'[w] \subseteq Paths
                           /\ Range(nodesByPath'[w]) \subseteq Ids \cup {None}
    <3> SUFFICES ASSUME NEW w \in Viewers
                 PROVE  /\ DOMAIN nodesByPath'[w] \subseteq Paths
                        /\ Range(nodesByPath'[w]) \subseteq Ids \cup {None}
      OBVIOUS
    <3>1. CASE w = v
      <4>1. nodesByPath'[w] = <<>>
        BY <1>1, <1>2, <3>1 DEF ViewTypes
      <4>2. DOMAIN <<>> = {} /\ Range(<<>>) = {}
        BY DEF Range
      <4> QED BY <4>1, <4>2
    <3>2. CASE w # v
      BY <1>1, <1>4, <3>2 DEF LooksOnly, SameView, ManifestTypeOK
    <3> QED BY <3>1, <3>2
  <2>2. nodesByPath' = [w \in Viewers |-> nodesByPath'[w]]
    BY <1>1, <1>2 DEF ViewTypes
  <2>3. Len(TreeOrder) \in Nat
    BY Ordered
  <2>4. viewing' \in [Viewers -> Building \cup AtRest] /\ cursor' \in [Viewers -> 0..Len(TreeOrder)]
    BY <1>1, <1>2, <2>3 DEF ManifestTypeOK, AtRest
  <2>5. drsEntries' \in [Viewers -> SUBSET Paths] /\ paths' \in [Viewers -> Seq(Paths)]
    BY <1>1, <1>2 DEF ManifestTypeOK
  <2> QED BY <1>1, <1>2, <2>1, <2>2, <2>4, <2>5 DEF ViewTypes, ManifestTypeOK
<1>6. TreeFits(v)'
  <2>1. Listed(<<>>) = {}
    BY DEF Listed
  <2> QED BY <1>3, <2>1 DEF TreeFits, HoldsNodes, Building
<1>7. IdsFit(v)'
  BY <1>3 DEF IdsFit, HoldsNodes, Building
<1>8. RowsFit(v)'
  BY <1>3 DEF RowsFit, Querying
<1> QED BY <1>4, <1>5, <1>6, <1>7, <1>8 DEF ViewFits

----------------------------------------------------------------------------
(* The steps of the catalog.                                               *)

LEMMA CatalogFits ==
    ASSUME MInv, Remember, \A w \in Viewers : SameView(w), NEW v \in Viewers
    PROVE  ViewFits(v)'
<1>1. ManifestTypeOK /\ TreeFits(v) /\ IdsFit(v) /\ RowsFit(v)
  BY DEF MInv, ViewTypes, ViewFits
<1>2. /\ viewing'[v] = viewing[v] /\ top'[v] = top[v] /\ cursor'[v] = cursor[v]
      /\ drsEntries'[v] = drsEntries[v] /\ paths'[v] = paths[v]
      /\ nodesByPath'[v] = nodesByPath[v]
  BY DEF SameView
<1>3. CASE viewing[v] \in Building
  <2>1. /\ carried'[v] = carried[v] \cup Carried'
        /\ steady'[v] = steady[v] \cap WithId'
        /\ shifted'[v] = (shifted[v] \/ \E p \in Paths : Matches(p) /\ ~Matches(p)')
    <3>1. carried'[v] = carried[v] \cup Carried' /\ steady'[v] = steady[v] \cap WithId'
      BY <1>3 DEF Remember
    <3>2. shifted'[v] = (shifted[v] \/ {p \in Paths : Matches(p) /\ ~Matches(p)'} # {})
      BY <1>3, Zenon DEF Remember
    <3> QED BY <3>1, <3>2, Zenon
  <2>2. TreeFits(v)'
    BY <1>1, <1>2 DEF TreeFits, HoldsNodes
  <2>3. IdsFit(v)'
    <3>1. \A p : Led(v, p) => Led(v, p)'
      BY <2>1 DEF Led
    <3> QED BY <1>1, <1>2, <2>1, <3>1 DEF IdsFit, HoldsNodes
  <2>4. ASSUME ~shifted'[v] PROVE RowsFit(v)'
    <3>1. ~shifted[v] /\ \A p \in Paths : Matches(p) => Matches(p)'
      BY <2>1, <2>4, Zenon
    <3>2. HoldsNodes(v) /\ Below[top[v]] \subseteq Paths
      <4>1. HoldsNodes(v)
        BY <1>3 DEF HoldsNodes
      <4> QED BY <1>1, <4>1, TreeIsTree DEF TreeFits
    <3>3. Queried(v)' = Queried(v) /\ Queried(v) \subseteq Paths
      BY <1>2, <3>2 DEF Queried
    <3>4. ASSUME NEW p, Ahead(v, p) PROVE Ahead(v, p)'
      <4>1. {q \in Queried(v) : Matches(q)} \subseteq {q \in Queried(v) : Matches(q)}'
        BY <3>1, <3>3
      <4>2. NoEarlier(Rows(v), Rows(v)')
        BY <4>1, SortedLater DEF Rows
      <4>3. PICK i \in DOMAIN Rows(v) : cursor[v] < i /\ Rows(v)[i] = p
        BY <3>4 DEF Ahead
      <4>4. PICK k \in DOMAIN Rows(v)' : i <= k /\ Rows(v)'[k] = p
        BY <4>2, <4>3 DEF NoEarlier
      <4>5. Rows(v) \in Seq(Paths) /\ Rows(v)' \in Seq(Paths)
        BY Sorted DEF Rows
      <4>6. i \in Nat /\ k \in Nat /\ cursor[v] \in Nat
        <5>1. Len(TreeOrder) \in Nat
          BY Ordered
        <5>2. cursor[v] \in 0..Len(TreeOrder)
          BY <1>1 DEF ManifestTypeOK
        <5> QED BY <4>3, <4>4, <4>5, <5>1, <5>2
      <4>7. cursor'[v] < k
        BY <1>2, <4>3, <4>4, <4>6
      <4> QED BY <4>4, <4>7 DEF Ahead
    <3>5. steady'[v] \subseteq steady[v]
      BY <2>1
    <3>6. viewing[v] \in Querying =>
             \A p \in steady'[v] \cap Queried(v)' : p \in drsEntries'[v] \/ Ahead(v, p)'
      BY <1>1, <1>2, <3>1, <3>3, <3>4, <3>5 DEF RowsFit
    <3> QED BY <1>1, <1>2, <3>1, <3>5, <3>6 DEF RowsFit
  <2> QED BY <2>2, <2>3, <2>4 DEF ViewFits, RowsFit
<1>4. CASE viewing[v] \notin Building
  <2>1. carried'[v] = carried[v] /\ steady'[v] = steady[v] /\ shifted'[v] = shifted[v]
    <3>1. carried'[v] = carried[v] /\ steady'[v] = steady[v]
      BY <1>4 DEF Remember
    <3>2. shifted'[v] = (shifted[v] \/ FALSE)
      BY <1>4, Zenon DEF Remember
    <3>3. shifted[v] \in BOOLEAN
      BY <1>1 DEF ManifestTypeOK
    <3> QED BY <3>1, <3>2, <3>3
  <2>2. TreeFits(v)'
    BY <1>1, <1>2 DEF TreeFits, HoldsNodes
  <2>3. IdsFit(v)'
    <3>1. \A p : Led(v, p)' <=> Led(v, p)
      BY <2>1 DEF Led
    <3> QED BY <1>1, <1>2, <1>4, <2>1, <3>1 DEF IdsFit, HoldsNodes
  <2>4. RowsFit(v)'
    BY <1>1, <1>2, <1>4, <2>1 DEF RowsFit, Querying, Building
  <2> QED BY <2>2, <2>3, <2>4 DEF ViewFits
<1> QED BY <1>3, <1>4

LEMMA CatalogTypes ==
    ASSUME ViewTypes, Remember,
           UNCHANGED <<viewing, top, cursor, drsEntries, paths, nodesByPath>>
    PROVE  ViewTypes'
<1>1. ManifestTypeOK
  BY DEF ViewTypes
<1>2. Carried' \subseteq Paths \X Ids
  BY DEF Carried
<1>3. carried' \in [Viewers -> SUBSET (Paths \X Ids)]
  BY <1>1, <1>2 DEF Remember, ManifestTypeOK
<1>4. steady' \in [Viewers -> SUBSET Paths]
  BY <1>1 DEF Remember, ManifestTypeOK
<1>5. shifted' \in [Viewers -> BOOLEAN]
  BY <1>1 DEF Remember, ManifestTypeOK
<1> QED BY <1>1, <1>3, <1>4, <1>5 DEF ViewTypes, ManifestTypeOK

----------------------------------------------------------------------------
(* The theorems.                                                           *)

LEMMA InitMInv == MInit => MInv
<1> SUFFICES ASSUME MInit PROVE MInv
  OBVIOUS
<1>1. CInv
  BY InitCInv DEF MInit
<1>2. /\ viewing = [v \in Viewers |-> "off"]
      /\ top = [v \in Viewers |-> None]
      /\ cursor = [v \in Viewers |-> 0]
      /\ drsEntries = [v \in Viewers |-> {}]
      /\ paths = [v \in Viewers |-> <<>>]
      /\ nodesByPath = [v \in Viewers |-> <<>>]
      /\ carried = [v \in Viewers |-> {}]
      /\ steady = [v \in Viewers |-> {}]
      /\ shifted = [v \in Viewers |-> FALSE]
  BY DEF MInit
<1>3. DOMAIN <<>> = {} /\ Range(<<>>) = {} /\ Listed(<<>>) = {} /\ Len(TreeOrder) \in Nat
  BY Ordered DEF Range, Listed
<1>4. \A v \in Viewers : /\ DOMAIN nodesByPath[v] \subseteq Paths
                         /\ Range(nodesByPath[v]) \subseteq Ids \cup {None}
  BY <1>2, <1>3
<1>5. ViewTypes
  <2>1. viewing \in [Viewers -> Building \cup AtRest] /\ cursor \in [Viewers -> 0..Len(TreeOrder)]
    BY <1>2, <1>3 DEF AtRest
  <2> QED BY <1>2, <1>4, <2>1 DEF ViewTypes, ManifestTypeOK
<1>6. ASSUME NEW v \in Viewers PROVE ViewFits(v)
  <2>1. viewing[v] = "off" /\ paths[v] = <<>>
    BY <1>2
  <2> QED BY <1>3, <2>1
      DEF ViewFits, TreeFits, IdsFit, RowsFit, HoldsNodes, Building, Querying
<1> QED BY <1>1, <1>5, <1>6 DEF MInv

\* A step of one viewer leaves the others as they were.
LEMMA LookInv ==
    ASSUME MInv, NEW v \in Viewers, BeginManifest(v) \/ View(v) \/ ViewFails(v)
    PROVE  LooksOnly(v) /\ MInv'
<1>1. LooksOnly(v) /\ ViewTypes' /\ ViewFits(v)'
  BY BeginFits, QueryFits, DrawFits, ShowFits, FailFits DEF View
<1>2. avus' = avus /\ UNCHANGED cvars
  BY <1>1 DEF LooksOnly, cvars, vars, catalog
<1>3. ASSUME NEW w \in Viewers \ {v} PROVE ViewFits(w)'
  BY <1>1, <1>2, SameViewFits DEF MInv, LooksOnly
<1>4. CInv'
  BY <1>2, NextCInv DEF MInv
<1> QED BY <1>1, <1>3, <1>4 DEF MInv

LEMMA NextMInv == MInv /\ [MNext]_mvars => MInv'
<1> SUFFICES ASSUME MInv, [MNext]_mvars PROVE MInv'
  OBVIOUS
<1>1. CASE \E v \in Viewers : BeginManifest(v) \/ View(v) \/ ViewFails(v)
  BY <1>1, LookInv
<1>2. CASE /\ CNext /\ Remember
           /\ UNCHANGED <<viewing, top, cursor, drsEntries, paths, nodesByPath>>
  <2>1. CInv'
    BY <1>2, NextCInv DEF MInv
  <2>2. ViewTypes'
    BY <1>2, CatalogTypes DEF MInv
  <2>3. \A w \in Viewers : SameView(w)
    BY <1>2 DEF SameView
  <2>4. \A v \in Viewers : ViewFits(v)'
    BY <1>2, <2>3, CatalogFits
  <2> QED BY <2>1, <2>2, <2>4 DEF MInv
<1>3. CASE UNCHANGED mvars
  <2>1. /\ UNCHANGED cvars /\ avus' = avus
        /\ UNCHANGED <<viewing, top, cursor, drsEntries, paths, nodesByPath>>
        /\ UNCHANGED <<carried, steady, shifted>>
    BY <1>3 DEF mvars, memory, cvars, vars, catalog
  <2>2. CInv'
    BY <2>1, NextCInv DEF MInv
  <2>3. ViewTypes'
    BY <2>1 DEF MInv, ViewTypes, ManifestTypeOK
  <2>4. ASSUME NEW v \in Viewers PROVE ViewFits(v)'
    BY <2>1, SameViewFits DEF MInv, SameView, SameMemory
  <2> QED BY <2>2, <2>3, <2>4 DEF MInv
<1> QED BY <1>1, <1>2, <1>3 DEF MNext

\* The invariant that the theorems below rest on: what a viewer has drawn is
\* closed under the collections that lead to it, what it is to draw was found in
\* the catalog, and what kept its id and has not been found is still ahead of
\* the cursor of BuildCompoundRuntimeManifest's query.
THEOREM ManifestInvariance == MSpec => []MInv
<1>1. MInit => MInv
  BY InitMInv
<1>2. MInv /\ [MNext]_mvars => MInv'
  BY NextMInv
<1> QED BY <1>1, <1>2, PTL DEF MSpec

\* Building manifests only reads: next to viewers the clients and coordinators
\* run as they do without them, so every theorem about CompoundCreate holds with
\* viewers as well.
THEOREM ViewersOnlyLook == MSpec => CSpec
<1>1. MInit => CInit
  BY DEF MInit
<1>2. MInv /\ [MNext]_mvars => [CNext]_cvars
  <2> SUFFICES ASSUME MInv, [MNext]_mvars PROVE [CNext]_cvars
    OBVIOUS
  <2>1. ASSUME NEW v \in Viewers, BeginManifest(v) \/ View(v) \/ ViewFails(v)
        PROVE  UNCHANGED cvars
    BY <2>1, LookInv DEF LooksOnly
  <2> QED BY <2>1 DEF MNext, mvars
<1> QED BY <1>1, <1>2, ManifestInvariance, PTL DEF MSpec, CSpec

\* The variables of a viewer keep their types: the cursor stays within the
\* rows, and the id of a node is a DRS id or none.
THEOREM ManifestTypes == MSpec => []ManifestTypeOK
<1>1. MInv => ManifestTypeOK
  BY DEF MInv, ViewTypes
<1> QED BY <1>1, ManifestInvariance, PTL

LEMMA ShownIsTree == MInv => ManifestIsTree
<1> SUFFICES ASSUME MInv, NEW v \in Viewers
             PROVE  /\ viewing[v] # "orphaned"
                    /\ viewing[v] = "shown" => \A p \in ManifestNodes(v) \ {top[v]} :
                          parentRuntimeNodePath(p) \in ManifestNodes(v)
  BY DEF ManifestIsTree
<1>1. TreeFits(v)
  BY DEF MInv, ViewFits
<1>2. ASSUME viewing[v] = "shown", NEW p \in ManifestNodes(v), p # top[v]
      PROVE  parentRuntimeNodePath(p) \in ManifestNodes(v)
  <2> DEFINE q == parentRuntimeNodePath(p)
             r == top[v]
  <2>1. HoldsNodes(v)
    BY <1>2 DEF HoldsNodes
  <2>2. /\ r \in Collections /\ r \in Paths /\ r \in DOMAIN nodesByPath[v]
        /\ p \in DOMAIN nodesByPath[v] /\ p \notin DefaultExcluded(r)
        /\ p \in Below[r]
        /\ ancestorCollectionPaths(r, p) \subseteq DOMAIN nodesByPath[v]
    BY <1>1, <1>2, <2>1, TreeIsTree DEF TreeFits, ManifestNodes, Subtree
  <2>3. q \in Paths /\ p \in Below[q] /\ (q = r \/ q \in ancestorCollectionPaths(r, p))
    BY <2>2, ParentLeads
  <2> HIDE DEF q, r
  <2>4. q \in DOMAIN nodesByPath[v]
    BY <2>2, <2>3
  <2>5. ASSUME q \in DefaultExcluded(r) PROVE FALSE
    <3>1. PICK f \in IgnoreFiles \cap Subtree(r) : q \in Subtree(f)
      BY <2>5 DEF DefaultExcluded
    <3>2. p \in Subtree(f)
      BY <2>3, <3>1, TreeIsTree DEF Subtree
    <3> QED BY <2>2, <3>1, <3>2 DEF DefaultExcluded
  <2> QED BY <2>4, <2>5 DEF ManifestNodes, q, r
<1> QED BY <1>1, <1>2 DEF TreeFits

\* Whatever is registered and stripped while buildCompoundRuntimeTree goes from
\* entry to entry, it never reports a missing parent, and every collection that
\* leads to a node of the manifest is in the manifest.
THEOREM ManifestsAreTrees == MSpec => []ManifestIsTree
BY ManifestInvariance, ShownIsTree, PTL

LEMMA ShownIsSound == MInv => ManifestSound
<1> SUFFICES ASSUME MInv, NEW v \in Viewers, viewing[v] = "shown"
             PROVE  /\ \A p \in ManifestNodes(v) :
                          nodesByPath[v][p] # None => <<p, nodesByPath[v][p]>> \in carried[v]
                    /\ \A p \in ManifestNodes(v) \ {top[v]} :
                          \E pair \in carried[v] : pair[1] \in Subtree(p)
                    /\ ManifestNodes(v) \cap DefaultExcluded(top[v]) = {}
                    /\ ~shifted[v] =>
                          \A p \in (steady[v] \cap Below[top[v]]) \ DefaultExcluded(top[v]) :
                              p \in ManifestNodes(v) /\ nodesByPath[v][p] # None
  BY DEF ManifestSound
<1>1. IdsFit(v) /\ RowsFit(v) /\ HoldsNodes(v)
  BY DEF MInv, ViewFits, HoldsNodes
<1>2. ManifestNodes(v) = DOMAIN nodesByPath[v] \ DefaultExcluded(top[v])
  BY DEF ManifestNodes
<1>3. \A p \in ManifestNodes(v) :
         nodesByPath[v][p] # None => <<p, nodesByPath[v][p]>> \in carried[v]
  BY <1>1, <1>2 DEF IdsFit
<1>4. \A p \in ManifestNodes(v) \ {top[v]} : \E pair \in carried[v] : pair[1] \in Subtree(p)
  BY <1>1, <1>2 DEF IdsFit, Led
<1>5. ~shifted[v] =>
         \A p \in (steady[v] \cap Below[top[v]]) \ DefaultExcluded(top[v]) :
             p \in ManifestNodes(v) /\ nodesByPath[v][p] # None
  <2> SUFFICES ASSUME ~shifted[v],
                      NEW p \in (steady[v] \cap Below[top[v]]) \ DefaultExcluded(top[v])
               PROVE  p \in ManifestNodes(v) /\ nodesByPath[v][p] # None
    OBVIOUS
  <2>1. p \in DOMAIN nodesByPath[v]
    BY <1>1 DEF RowsFit
  <2> QED BY <1>1, <1>2, <2>1 DEF IdsFit
<1> QED BY <1>2, <1>3, <1>4, <1>5

\* A manifest shows an id only on a path that carried it while the manifest was
\* built, and only paths that led to an id; and for every page size the paging
\* of queryDrsListingEntries leaves out no path that kept an id all the time,
\* unless another path dropped out of the rows meanwhile.
THEOREM ManifestsAreSound == MSpec => []ManifestSound
BY ManifestInvariance, ShownIsSound, PTL

=============================================================================
