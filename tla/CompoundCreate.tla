-------------------------- MODULE CompoundCreate --------------------------
(***************************************************************************)
(* Compound objects: CreateCompoundDrsObjectFromCollection and the strip   *)
(* of a whole collection, run by coordinators next to the clients of       *)
(* DrsRegistration, on a fixed tree of collections and data objects.       *)
(*                                                                         *)
(* A creation reads the tree into a snapshot, one ListMetadata per node,   *)
(* decides from the snapshot, then works through the included data objects *)
(* in path order: it creates the ones without an id in the snapshot (the   *)
(* same code, and here the same actions, as for a single object) and       *)
(* completes every one; only if no object failed does it write the id and  *)
(* the marker of the root.  A creation is thus a walk over the tree that   *)
(* calls one operation on one path at a time; each operation returns       *)
(* ("done") or fails ("failed") before the walk goes on.                   *)
(***************************************************************************)
EXTENDS DrsRegistration

CONSTANTS
    Coordinators,   \* the clients that create or strip compound objects
    Collections,    \* the paths that are collections
    Below,          \* Below[p]: the paths under p, at any depth
    PathOrder,      \* the data objects, sorted by path
    Ignored,        \* Ignored[r]: the paths that .drsignore in r excludes
    IgnoreFiles,    \* the paths that are named .drsignore
    RootsOf,        \* RootsOf[c]: the collections c may be asked to make compound
    StripsOf        \* StripsOf[c]: the paths c may be asked to strip

DataObjects == Paths \ Collections

Subtree(r) == {r} \cup Below[r]

ASSUME TreeIsTree ==
    /\ Coordinators \subseteq Clients /\ Collections \subseteq Paths
    /\ Below \in [Paths -> SUBSET Paths]
    /\ \A p \in Paths : p \notin Below[p]
    /\ \A p, q \in Paths : q \in Below[p] =>
          p \in Collections /\ Below[q] \subseteq Below[p]
    /\ PathOrder \in Seq(DataObjects)
    /\ \A p \in DataObjects : \E i \in DOMAIN PathOrder : PathOrder[i] = p
    /\ Ignored \in [Collections -> SUBSET Paths]
    /\ IgnoreFiles \subseteq Paths
    /\ RootsOf \in [Coordinators -> SUBSET Collections]
    /\ StripsOf \in [Coordinators -> SUBSET Paths]
\* StatFile, the first call of a creation, answers for data objects only.
ASSUME CreatesNameDataObjects ==
    \A c \in Clients : \A j \in JobsOf[c] : j.op = "create" => j.path \in DataObjects
\* There is a text to write as the value of the marker.
ASSUME MarkerHasValue == Texts # {}

VARIABLES
    phase,      \* phase[c]: where coordinator c is in its walk
    root,       \* root[c]: the path the walk started from
    unread,     \* unread[c]: the nodes still to be read, or stripped
    tree,       \* tree[c]: the snapshot of what creation looks at
    todo,       \* todo[c]: the data objects still to be worked on, in order
    errors,     \* errors[c]: the paths of the node errors
    rootId,     \* rootId[c]: the id of the root in the result
    granted     \* history: the roots and ids that creations returned as
                \* successful

walk == <<phase, root, unread, tree, todo, errors, rootId, granted>>
cvars == <<vars, walk>>

Resting == {"off", "ended", "failed"}
Phases  == Resting \cup {"read", "nodes", "create", "complete", "rootId",
                         "marker", "strip"}

NoNode == [ids |-> {}, marked |-> FALSE]
NoTree == [p \in Paths |-> NoNode]

CInit ==
    /\ Init
    /\ phase = [c \in Coordinators |-> "off"]
    /\ root = [c \in Coordinators |-> None]
    /\ unread = [c \in Coordinators |-> {}]
    /\ tree = [c \in Coordinators |-> NoTree]
    /\ todo = [c \in Coordinators |-> <<>>]
    /\ errors = [c \in Coordinators |-> {}]
    /\ rootId = [c \in Coordinators |-> None]
    /\ granted = {}

GoTo(c, ph) == phase' = [phase EXCEPT ![c] = ph]

\* The walk of c calls op on path.
Call(c, op, path, attr, value) ==
    Begin(c, [op |-> op, path |-> path, attr |-> attr, value |-> value,
              mime |-> Blank, aliases |-> <<>>, id |-> None])

CallOn(c, op, path) == Call(c, op, path, DrsIdAvuAttrib, Blank)

----------------------------------------------------------------------------
(* The snapshot and what is decided from it.                               *)

BeginCompound(c) ==
    /\ phase[c] \in Resting
    /\ GoTo(c, "read")
    /\ \E r \in RootsOf[c] :
          /\ root' = [root EXCEPT ![c] = r]
          /\ unread' = [unread EXCEPT ![c] = Subtree(r)]
    /\ tree' = [tree EXCEPT ![c] = NoTree]
    /\ errors' = [errors EXCEPT ![c] = {}]
    /\ rootId' = [rootId EXCEPT ![c] = None]
    /\ UNCHANGED <<vars, todo, granted>>

\* The nodes whose collection has been visited, in the order of an unordered
\* listing.
Reachable(c) == {p \in unread[c] : \A q \in unread[c] : p \notin Below[q]}

\* buildCompoundTree reads one more node.
ReadNode(c) ==
    /\ phase[c] = "read"
    /\ \E p \in Reachable(c) :
          /\ tree' = [tree EXCEPT ![c][p] = [ids |-> IdsIn(avus[p]),
                                             marked |-> IsManifest(avus[p])]]
          /\ unread' = [unread EXCEPT ![c] = @ \ {p}]
    /\ UNCHANGED <<vars, phase, root, todo, errors, rootId, granted>>

\* An entry named .drsignore is left out, with whatever is below it.
DefaultExcluded(r) == UNION {Subtree(p) : p \in IgnoreFiles \cap Subtree(r)}

\* Faulty: .drsignore is a data object like the others.
collectNotIgnored(r, ignores) == {p \in Subtree(r) : p = r \/ p \notin ignores}

\* A node that is ignored is left out, and what is below it goes by itself.
collectIncludedNodes(r, ignores) ==
    {p \in Subtree(r) : p = r \/ p \notin ignores} \ DefaultExcluded(r)

Included(r) == collectIncludedNodes(r, Ignored[r]) \cap DataObjects
creationDataNodes(r) == Without(PathOrder, DataObjects \ Included(r))

NoStrips == NoRemovers /\ \A c \in Coordinators : StripsOf[c] = {}

\* Where nobody strips, the collections that carry the marker at the start are
\* compound objects with registered members.
ASSUME InitialCompounds ==
    NoStrips => \A cat \in InitialAvus : \A r \in Collections : IsManifest(cat[r]) =>
        \A p \in Included(r) : IdsIn(cat[p]) # {}

\* Faulty: the root itself is not checked.
ConflictBelow(c) == \E p \in Below[root[c]] \cap Collections : tree[c][p].marked

\* collectionHasCompoundMarker of the root, or failIfDescendantCompound.
Conflict(c) == \E p \in Subtree(root[c]) \cap Collections : tree[c][p].marked

\* Faulty: the error of newGUID is not looked at.
CheckTreeAnyway(c) ==
    /\ phase[c] = "read" /\ unread[c] = {}
    /\ ~Conflict(c)
    /\ LET ids == tree[c][root[c]].ids
       IN  \/ /\ \E id \in ids : rootId' = [rootId EXCEPT ![c] = id]
              /\ UNCHANGED owner
           \/ /\ ids = {}
              /\ \E id \in FreshIds : /\ rootId' = [rootId EXCEPT ![c] = id]
                                      /\ owner' = [owner EXCEPT ![id] = root[c]]
           \/ /\ ids = {} /\ FreshIds = {}
              /\ UNCHANGED <<rootId, owner>>
    /\ todo' = [todo EXCEPT ![c] = creationDataNodes(root[c])]
    /\ GoTo(c, "nodes")
    /\ UNCHANGED <<catalog, client, minted, published, before, alone,
                   root, unread, tree, errors, granted>>

\* The root's id is the one in the snapshot or a new one; then .drsignore is
\* read and the included data objects are collected.
CheckTree(c) ==
    /\ phase[c] = "read" /\ unread[c] = {}
    /\ ~Conflict(c)
    /\ LET ids == tree[c][root[c]].ids
       IN  \/ /\ \E id \in ids : rootId' = [rootId EXCEPT ![c] = id]
              /\ UNCHANGED owner
           \/ /\ ids = {}
              /\ \E id \in FreshIds : /\ rootId' = [rootId EXCEPT ![c] = id]
                                      /\ owner' = [owner EXCEPT ![id] = root[c]]
    /\ todo' = [todo EXCEPT ![c] = creationDataNodes(root[c])]
    /\ GoTo(c, "nodes")
    /\ UNCHANGED <<catalog, client, minted, published, before, alone,
                   root, unread, tree, errors, granted>>

RefuseTree(c) ==
    /\ phase[c] = "read" /\ unread[c] = {}
    /\ Conflict(c) \/ (tree[c][root[c]].ids = {} /\ FreshIds = {})
    /\ GoTo(c, "failed")
    /\ UNCHANGED <<vars, root, unread, tree, todo, errors, rootId, granted>>

----------------------------------------------------------------------------
(* The data objects.                                                       *)

WorkOnNode(c) ==
    /\ phase[c] = "nodes" /\ todo[c] # <<>>
    /\ LET p == Head(todo[c])
       IN  \/ /\ tree[c][p].ids = {}
              /\ CallOn(c, "create", p)
              /\ GoTo(c, "create")
           \/ /\ tree[c][p].ids # {}
              /\ CallOn(c, "complete", p)
              /\ GoTo(c, "complete")
    /\ UNCHANGED <<root, unread, tree, todo, errors, rootId, granted>>

NodeCreated(c) ==
    /\ phase[c] = "create" /\ stage[c] = "done"
    /\ CallOn(c, "complete", Head(todo[c]))
    /\ GoTo(c, "complete")
    /\ UNCHANGED <<root, unread, tree, todo, errors, rootId, granted>>

\* Faulty: the error of a node is not recorded.
NodeForgotten(c) ==
    /\ \/ phase[c] \in {"create", "complete"} /\ stage[c] = "failed"
       \/ phase[c] = "complete" /\ stage[c] = "done"
    /\ todo' = [todo EXCEPT ![c] = Tail(@)]
    /\ GoTo(c, "nodes")
    /\ UNCHANGED <<vars, root, unread, tree, errors, rootId, granted>>

\* Faulty: a node that failed is tried again.
NodeRetried(c) ==
    /\ \/ /\ phase[c] \in {"create", "complete"} /\ stage[c] = "failed"
          /\ UNCHANGED todo
       \/ /\ phase[c] = "complete" /\ stage[c] = "done"
          /\ todo' = [todo EXCEPT ![c] = Tail(@)]
    /\ GoTo(c, "nodes")
    /\ UNCHANGED <<vars, root, unread, tree, errors, rootId, granted>>

\* A node is done with: it is complete, or its error is recorded and the walk
\* goes on to the next one.
NodeDone(c) ==
    /\ \/ /\ phase[c] \in {"create", "complete"} /\ stage[c] = "failed"
          /\ errors' = [errors EXCEPT ![c] = @ \cup {Head(todo[c])}]
       \/ /\ phase[c] = "complete" /\ stage[c] = "done"
          /\ UNCHANGED errors
    /\ todo' = [todo EXCEPT ![c] = Tail(@)]
    /\ GoTo(c, "nodes")
    /\ UNCHANGED <<vars, root, unread, tree, rootId, granted>>

Missing(metas, attr, value) ==
    IF ValuesOf(metas, attr) = {} THEN Optional(attr, value) ELSE <<>>

\* Faulty: the version is looked after only when the mime type is missing.
PlanCompleteEither(c) ==
    LET p     == job[c].path
        metas == avus[p]
    IN  /\ stage[c] = "plan" /\ job[c].op = "complete"
        /\ Plan(c, {}, IF ValuesOf(metas, DrsAvuMimeTypeAttrib) = {}
                       THEN Optional(DrsAvuMimeTypeAttrib, MimeOf[p])
                       ELSE <<>>)
        /\ UNCHANGED <<owner, minted>>

\* ensureDataObjectDrsCompleteness: add what the object lacks of a mime type and
\* a version.
PlanComplete(c) ==
    LET p == job[c].path
    IN  /\ stage[c] = "plan" /\ job[c].op = "complete"
        /\ Plan(c, {}, Missing(avus[p], DrsAvuMimeTypeAttrib, MimeOf[p])
                          \o Missing(avus[p], DrsAvuVersionAttrib, ChecksumOf[p]))
        /\ UNCHANGED <<owner, minted>>

----------------------------------------------------------------------------
(* The preflight: the manifest that drsmakecompound --preflight shows of   *)
(* the same snapshot without writing anything.                             *)

\* Here what is below an ignored collection is left out with it.
preflightNodes(r, ignores) ==
    Subtree(r) \ (DefaultExcluded(r) \cup UNION {Subtree(p) : p \in ignores \cap Below[r]})

\* The nodes with WillAssignDrsID.
WillAssign(snapshot, r, ignores) ==
    {p \in preflightNodes(r, ignores) \cap DataObjects : snapshot[p].ids = {}}

----------------------------------------------------------------------------
(* The root.                                                               *)

MarkerValue == CHOOSE text \in Texts : TRUE     \* "true"

EndWithErrors(c) ==
    /\ phase[c] = "nodes" /\ todo[c] = <<>> /\ errors[c] # {}
    /\ GoTo(c, "ended")
    /\ UNCHANGED <<vars, root, unread, tree, todo, errors, rootId, granted>>

WriteRootId(c) ==
    /\ phase[c] = "nodes" /\ todo[c] = <<>> /\ errors[c] = {}
    /\ Call(c, "upsert", root[c], DrsIdAvuAttrib, rootId[c])
    /\ GoTo(c, "rootId")
    /\ UNCHANGED <<root, unread, tree, todo, errors, rootId, granted>>

\* The error of an upsert is recorded, and the walk goes on all the same.
UpsertErrors(c) ==
    IF stage[c] = "failed" THEN errors[c] \cup {root[c]} ELSE errors[c]

WriteMarker(c) ==
    /\ phase[c] = "rootId" /\ stage[c] \in {"done", "failed"}
    /\ errors' = [errors EXCEPT ![c] = UpsertErrors(c)]
    /\ Call(c, "upsert", root[c], DrsAvuCompoundManifestAttrib, MarkerValue)
    /\ GoTo(c, "marker")
    /\ UNCHANGED <<root, unread, tree, todo, rootId, granted>>

EndCompound(c) ==
    /\ phase[c] = "marker" /\ stage[c] \in {"done", "failed"}
    /\ errors' = [errors EXCEPT ![c] = UpsertErrors(c)]
    /\ granted' = IF UpsertErrors(c) = {}
                  THEN granted \cup {<<root[c], rootId[c]>>} ELSE granted
    /\ GoTo(c, "ended")
    /\ UNCHANGED <<vars, root, unread, tree, todo, rootId>>

\* upsertDrsMetadata: delete the values there are, the same one included, and
\* add the new one.
PlanUpsert(c) ==
    /\ stage[c] = "plan" /\ job[c].op = "upsert"
    /\ Plan(c, MetasOf(avus[job[c].path], job[c].attr),
               <<DrsAvu(job[c].attr, job[c].value)>>)
    /\ UNCHANGED <<owner, minted>>

----------------------------------------------------------------------------
(* Stripping a tree: drsrm resolves the root and strips it, then strips    *)
(* what is under it.  It stops at the first error.                         *)

BeginStrip(c) ==
    /\ phase[c] \in Resting
    /\ GoTo(c, "strip")
    /\ \E r \in StripsOf[c] :
          /\ root' = [root EXCEPT ![c] = r]
          /\ unread' = [unread EXCEPT ![c] = Subtree(r) \ {r}]
          /\ CallOn(c, "drsrm", r)
    /\ errors' = [errors EXCEPT ![c] = {}]
    /\ rootId' = [rootId EXCEPT ![c] = None]
    /\ UNCHANGED <<tree, todo, granted>>

\* Faulty: the strip visits the children of the root only.
StripChildren(c) ==
    /\ phase[c] = "strip" /\ stage[c] = "done"
    /\ \E p \in Reachable(c) :
          /\ CallOn(c, "strip", p)
          /\ unread' = [unread EXCEPT ![c] = @ \ Subtree(p)]
    /\ UNCHANGED <<phase, root, tree, todo, errors, rootId, granted>>

StripNext(c) ==
    /\ phase[c] = "strip" /\ stage[c] = "done"
    /\ \E p \in Reachable(c) :
          /\ CallOn(c, "strip", p)
          /\ unread' = [unread EXCEPT ![c] = @ \ {p}]
    /\ UNCHANGED <<phase, root, tree, todo, errors, rootId, granted>>

EndStrip(c) ==
    /\ phase[c] = "strip"
    /\ \/ stage[c] = "failed" /\ GoTo(c, "failed")
       \/ stage[c] = "done" /\ unread[c] = {} /\ GoTo(c, "ended")
    /\ UNCHANGED <<vars, root, unread, tree, todo, errors, rootId, granted>>

----------------------------------------------------------------------------
\* A call of the walk itself fails, or its process dies.
Die(c) ==
    /\ phase[c] \notin Resting
    /\ GoTo(c, "failed")
    /\ IF stage[c] \in Active THEN Refuse(c) ELSE UNCHANGED vars
    /\ UNCHANGED <<root, unread, tree, todo, errors, rootId, granted>>

Walk(c) ==
    \/ ReadNode(c) \/ CheckTree(c) \/ RefuseTree(c)
    \/ WorkOnNode(c) \/ NodeCreated(c) \/ NodeDone(c)
    \/ EndWithErrors(c) \/ WriteRootId(c) \/ WriteMarker(c) \/ EndCompound(c)
    \/ StripNext(c) \/ EndStrip(c)

\* A step of the operation a client, or the walk of a coordinator, has called.
CallStep(c) ==
    /\ Step(c) \/ PlanComplete(c) \/ PlanUpsert(c)
    /\ UNCHANGED walk

CNext ==
    \/ \E c \in Coordinators : BeginCompound(c) \/ BeginStrip(c) \/ Walk(c) \/ Die(c)
    \/ \E c \in Clients :
          \/ CallStep(c)
          \/ (Fail(c) \/ FailAfterWrite(c)) /\ UNCHANGED walk
    \/ \E c \in Clients \ Coordinators : Start(c) /\ UNCHANGED walk

CSpec == CInit /\ [][CNext]_cvars

\* As for DrsRegistration: a coordinator that runs goes on, and the operation
\* it called returns or fails.
CFairSpec ==
    CSpec /\ \A c \in Coordinators : WF_cvars(Walk(c) \/ CallStep(c))

----------------------------------------------------------------------------
(* Properties.                                                             *)

\* The types of the variables; what a creation puts into the catalog is never
\* blank.
CompoundTypeOK ==
    /\ avus \in [Paths -> SUBSET AVU]
    /\ stage \in [Clients -> Stages]
    /\ owner \in [Ids -> Paths \cup {None}]
    /\ phase \in [Coordinators -> Phases]
    /\ root \in [Coordinators -> Paths \cup {None}]
    /\ unread \in [Coordinators -> SUBSET Paths]
    /\ tree \in [Coordinators -> [Paths -> [ids : SUBSET Ids, marked : BOOLEAN]]]
    /\ todo \in [Coordinators -> Seq(DataObjects)]
    /\ errors \in [Coordinators -> SUBSET Paths]
    /\ rootId \in [Coordinators -> Ids \cup {None}]
    /\ granted \subseteq Collections \X Ids

\* While nobody removes registrations: once a collection carries the compound
\* marker, every data object it includes has an id, whichever creations and
\* single registrations failed, were interrupted or ran at the same time.
MembersRegistered ==
    NoStrips => \A r \in Collections : IsManifest(avus[r]) =>
        \A p \in Included(r) : IdsIn(avus[p]) # {}

\* Only one coordinator is asked to make r compound.
OneCoordinator(r) ==
    \A c, d \in Coordinators : r \in RootsOf[c] /\ r \in RootsOf[d] => c = d

\* The id that a successful creation returned stays on its collection, and is
\* its only one, however often creation is tried again, as long as one
\* coordinator at a time creates and nobody removes.
GrantedIdStays ==
    NoStrips => \A g \in granted :
        OneCoordinator(g[1]) => IdsIn(avus[g[1]]) = {g[2]} /\ IsManifest(avus[g[1]])

\* A creation that reported no error and that nobody disturbed has registered
\* and completed every included data object, whatever earlier attempts had left.
CompoundEffect ==
    \A c \in Coordinators :
        Clients = {c} /\ phase[c] = "ended" /\ rootId[c] # None /\ errors[c] = {} =>
            /\ IdsIn(avus[root[c]]) = {rootId[c]}
            /\ IsManifest(avus[root[c]])
            /\ \A p \in Included(root[c]) :
                  /\ IdsIn(avus[p]) # {}
                  /\ MimeOf[p] # Blank => ValuesOf(avus[p], DrsAvuMimeTypeAttrib) # {}
                  /\ ChecksumOf[p] # Blank => ValuesOf(avus[p], DrsAvuVersionAttrib) # {}

\* A strip that nobody disturbed and that returned without error has left no
\* DRS metadata in the tree.
StripEffect ==
    \A c \in Coordinators :
        Clients = {c} /\ phase[c] = "ended" /\ rootId[c] = None =>
            \A p \in Subtree(root[c]) : DrsMetas(avus[p]) = {}

\* Whatever .drsignore says, the preflight announces no id that a creation from
\* the same snapshot would not assign; and it announces every one of them when
\* the rules exclude with a collection all that is below it.
PreflightTells ==
    \A c \in Coordinators : phase[c] = "nodes" =>
        \A ignores \in SUBSET Below[root[c]] :
            LET announced == WillAssign(tree[c], root[c], ignores)
                included  == collectIncludedNodes(root[c], ignores)
                assigned  == {p \in included \cap DataObjects : tree[c][p].ids = {}}
            IN  /\ announced \subseteq assigned
                /\ (\A p \in ignores : Below[p] \subseteq ignores) =>
                      announced = assigned

\* Every creation and every strip comes to an end.
WalkEnds == \A c \in Coordinators : phase[c] \notin Resting ~> phase[c] \in Resting

----------------------------------------------------------------------------
(* What the documents say and the code does not do.                        *)

\* "Root collection has a DRS ID": no collection carries the marker without.
MarkedHasId == \A r \in Collections : IsManifest(avus[r]) => IdsIn(avus[r]) # {}
=============================================================================
