-------------------------- MODULE DrsRegistration --------------------------
(***************************************************************************)
(* The operations of drs-support that register, change, resolve and remove *)
(* the DRS metadata of one iRODS path, run by clients (drscmd processes    *)
(* and requests of the HTTP server) that share nothing but the iRODS       *)
(* catalog.                                                                *)
(*                                                                         *)
(* Every call to iRODS is one atomic step; there is no transaction and no  *)
(* lock, so the calls of different clients interleave freely.  A call may  *)
(* fail, with or without having taken effect, and a client may die between *)
(* two calls; the code returns at the first error and undoes nothing.      *)
(*                                                                         *)
(* A client works through the stages of one operation:                     *)
(*   getById:                query -> load -> done                         *)
(*   updates and drsrm:      resolve -> plan -> write -> done              *)
(*   create, remove, strip:  plan -> write -> done                         *)
(* "plan" is the ListMetadata that decides what the operation deletes      *)
(* (dels) and then adds (adds); "write" issues those calls one by one.     *)
(***************************************************************************)
EXTENDS DrsMetadata

CONSTANTS
    Clients,
    Paths,          \* the data objects (and collections) of the zone
    None,           \* no path, no id
    JobsOf,         \* JobsOf[c]: the operations client c may be asked for
    MimeOf,         \* MimeOf[p]: the mime type derived from the name of p
    ChecksumOf,     \* ChecksumOf[p]: the checksum iRODS has for p, or Blank
    InitialAvus     \* the catalogs the system may start from

Creators  == {"create"}
Updaters  == {"updateField", "updateAliases"}
Removers  == {"removeSingle", "strip", "drsrm"}
Readers   == {"getById"}
Resolvers == Updaters \cup {"drsrm"}

FieldAttribs ==
    {DrsAvuVersionAttrib, DrsAvuMimeTypeAttrib, DrsAvuDescriptionAttrib}

JobType ==
    [op : Creators \cup Updaters \cup Removers \cup Readers,
     path : Paths,
     attr : DrsAttribs \cup {UserAttrib},
     value : Texts \cup {Blank},
     mime : Texts \cup {Blank},
     aliases : Seq(Texts \cup {Blank}),
     id : Ids]

ASSUME ClientsHaveJobs ==
    /\ Clients # {}
    /\ JobsOf \in [Clients -> SUBSET JobType]
    /\ \A c \in Clients : JobsOf[c] # {}
ASSUME NoneIsNothing == None \notin Paths /\ None \notin Ids
ASSUME DerivedValues ==
    /\ MimeOf \in [Paths -> Texts \cup {Blank}]
    /\ ChecksumOf \in [Paths -> Texts \cup {Blank}]
\* Before the clients start, every id is on one path, every path has at most
\* one id and no DRS metadata without an id.
ASSUME InitialCatalogs ==
    \A cat \in InitialAvus :
        /\ cat \in [Paths -> SUBSET AVU]
        /\ \A p \in Paths : IdsIn(cat[p]) \subseteq Ids
        /\ \A p \in Paths : DrsMetas(cat[p]) # {} => IdsIn(cat[p]) # {}
        /\ \A p \in Paths : \A x, y \in IdsIn(cat[p]) : x = y
        /\ \A p, q \in Paths : IdsIn(cat[p]) \cap IdsIn(cat[q]) # {} => p = q

VARIABLES
    avus,       \* avus[p]: the AVUs the catalog holds for p
    stage,      \* stage[c]: where client c is in its operation
    job,        \* job[c]: the operation of c and its arguments
    dels,       \* dels[c]: the AVUs c has still to delete
    adds,       \* adds[c]: the AVUs c has still to add, in order
    seen,       \* seen[c]: the id of the object c's last getById returned
    \* History of the run, read by the properties only.
    owner,      \* owner[id]: the path id was generated for, or None
    minted,     \* minted[c]: the id c's last create generated
    published,  \* the ids that creates returned to their callers
    before,     \* before[c]: the AVUs that c's plan was made from
    alone       \* alone[c]: no other client has written c's path since

catalog == avus
client  == <<stage, job, dels, adds, seen>>
history == <<owner, minted, published, before, alone>>
vars    == <<catalog, client, history>>

Stages == {"idle", "query", "load", "resolve", "plan", "write", "done", "nil",
           "failed"}
Active == {"query", "load", "resolve", "plan", "write"}

\* What job[c] holds while c runs no operation.
NoJob(c) == CHOOSE j \in JobsOf[c] : TRUE

Init ==
    /\ avus \in InitialAvus
    /\ stage = [c \in Clients |-> "idle"]
    /\ job = [c \in Clients |-> NoJob(c)]
    /\ dels = [c \in Clients |-> {}]
    /\ adds = [c \in Clients |-> <<>>]
    /\ seen = [c \in Clients |-> None]
    /\ owner = [id \in Ids |->
                   IF \E p \in Paths : id \in IdsIn(avus[p])
                   THEN CHOOSE p \in Paths : id \in IdsIn(avus[p])
                   ELSE None]
    /\ minted = [c \in Clients |-> None]
    /\ published = {}
    /\ before = [c \in Clients |-> {}]
    /\ alone = [c \in Clients |-> FALSE]

FirstStage(op) ==
    IF op \in Readers THEN "query"
    ELSE IF op \in Resolvers THEN "resolve"
    ELSE "plan"

\* A client is asked for operation j.
Begin(c, j) ==
    /\ stage[c] \notin Active
    /\ stage' = [stage EXCEPT ![c] = FirstStage(j.op)]
    /\ job' = [job EXCEPT ![c] = j]
    /\ seen' = [seen EXCEPT ![c] = None]
    /\ minted' = [minted EXCEPT ![c] = None]
    /\ before' = [before EXCEPT ![c] = {}]
    /\ alone' = [alone EXCEPT ![c] = FALSE]
    /\ UNCHANGED <<avus, dels, adds, owner, published>>

Start(c) == \E j \in JobsOf[c] : Begin(c, j)

----------------------------------------------------------------------------
(* Failing: the operation returns its error, and undoes nothing.           *)

GiveUp(c) ==
    /\ stage' = [stage EXCEPT ![c] = "failed"]
    /\ job' = [job EXCEPT ![c] = NoJob(c)]
    /\ dels' = [dels EXCEPT ![c] = {}]
    /\ adds' = [adds EXCEPT ![c] = <<>>]
    /\ minted' = [minted EXCEPT ![c] = None]
    /\ before' = [before EXCEPT ![c] = {}]
    /\ UNCHANGED <<seen, owner, published>>

Refuse(c) ==
    /\ GiveUp(c)
    /\ alone' = [alone EXCEPT ![c] = FALSE]
    /\ UNCHANGED avus

\* A call fails, or the process dies before it: what was written stays and the
\* rest is never written.
Fail(c) == stage[c] \in Active /\ Refuse(c)

----------------------------------------------------------------------------
(* Reading.                                                                *)

\* Faulty: the unit of the id that matched is not looked at.
QueryAnyUnit(c) ==
    LET Carries(p) == \E meta \in avus[p] : /\ meta.name = DrsIdAvuAttrib
                                           /\ meta.value = job[c].id
        matches == {p \in Paths : Carries(p)}
    IN  /\ stage[c] = "query"
        /\ \/ Cardinality(matches) # 1 /\ Refuse(c)
           \/ /\ Cardinality(matches) = 1
              /\ \E p \in matches : job' = [job EXCEPT ![c].path = p]
              /\ stage' = [stage EXCEPT ![c] = "load"]
              /\ UNCHANGED <<avus, dels, adds, seen, history>>

\* GetDrsObjectByID searches the paths that carry the id; there must be one...
Query(c) ==
    LET matches == {p \in Paths : job[c].id \in IdsIn(avus[p])}
    IN  /\ stage[c] = "query"
        /\ \/ Cardinality(matches) # 1 /\ Refuse(c)
           \/ /\ Cardinality(matches) = 1
              /\ \E p \in matches : job' = [job EXCEPT ![c].path = p]
              /\ stage' = [stage EXCEPT ![c] = "load"]
              /\ UNCHANGED <<avus, dels, adds, seen, history>>

\* ... and then lists the metadata of the match and builds the object from
\* it, or no object at all when the path carries no id any more.
Load(c) ==
    LET ids == IdsIn(avus[job[c].path])
    IN  /\ stage[c] = "load"
        /\ \/ /\ ids = {}
              /\ stage' = [stage EXCEPT ![c] = "nil"]
              /\ UNCHANGED seen
           \/ /\ \E id \in ids : seen' = [seen EXCEPT ![c] = id]
              /\ stage' = [stage EXCEPT ![c] = "done"]
        /\ UNCHANGED <<avus, job, dels, adds, history>>

\* GetDrsObjectByIRODSPath, with which the updates and drsrm begin: the path
\* must carry an id.  An update also refuses an attribute that is not a field.
Resolve(c) ==
    LET accepted == /\ IdsIn(avus[job[c].path]) # {}
                    /\ job[c].op = "updateField" => job[c].attr \in FieldAttribs
    IN  /\ stage[c] = "resolve"
        /\ \/ ~accepted /\ Refuse(c)
           \/ /\ accepted
              /\ stage' = [stage EXCEPT ![c] = "plan"]
              /\ UNCHANGED <<avus, job, dels, adds, seen, history>>

----------------------------------------------------------------------------
(* Planning: the ListMetadata that an operation acts upon.                 *)

\* c goes on to delete the AVUs of ds and to add those of as.
Plan(c, ds, as) ==
    /\ stage' = [stage EXCEPT ![c] = "write"]
    /\ dels' = [dels EXCEPT ![c] = ds]
    /\ adds' = [adds EXCEPT ![c] = as]
    /\ before' = [before EXCEPT ![c] = avus[job[c].path]]
    /\ alone' = [alone EXCEPT ![c] = TRUE]
    /\ UNCHANGED <<avus, job, seen, published>>

normalizedMimeType(path, mime) == IF mime # Blank THEN mime ELSE MimeOf[path]

\* Faulty: the generator repeats itself, or gives out again what was removed.
RepeatedIds == Ids
RecycledIds == {id \in Ids : \A p \in Paths : id \notin IdsIn(avus[p])}

\* newGUID: an id nobody has seen before.
FreshIds == {id \in Ids : owner[id] = None}

internalObject(j, drsID) ==
    [id |-> drsID,
     version |-> ChecksumOf[j.path],
     mime |-> normalizedMimeType(j.path, j.mime),
     description |-> j.value,
     aliases |-> j.aliases]

\* Faulty: create does not look whether the path is registered.
PlanCreateUnchecked(c) ==
    /\ stage[c] = "plan" /\ job[c].op = "create"
    /\ \/ \E drsID \in FreshIds :
             /\ Plan(c, {}, metadataForObject(internalObject(job[c], drsID)))
             /\ owner' = [owner EXCEPT ![drsID] = job[c].path]
             /\ minted' = [minted EXCEPT ![c] = drsID]
       \/ FreshIds = {} /\ Refuse(c)

\* CreateDrsObjectFromDataObject up to its first AddMetadata.
PlanCreate(c) ==
    LET metas == avus[job[c].path]
    IN  /\ stage[c] = "plan" /\ job[c].op = "create"
        /\ \/ /\ IdsIn(metas) # {} \/ IsManifest(metas)
              /\ Refuse(c)
           \/ /\ IdsIn(metas) = {} /\ ~IsManifest(metas)
              /\ \E drsID \in FreshIds :
                    /\ Plan(c, {}, metadataForObject(internalObject(job[c], drsID)))
                    /\ owner' = [owner EXCEPT ![drsID] = job[c].path]
                    /\ minted' = [minted EXCEPT ![c] = drsID]
           \/ FreshIds = {} /\ Refuse(c)     \* newGUID returns an error

\* Faulty: the update replaces all the DRS metadata.
PlanUpdateWhole(c) ==
    /\ stage[c] = "plan" /\ job[c].op = "updateField"
    /\ Plan(c, DrsMetas(avus[job[c].path]), Optional(job[c].attr, job[c].value))
    /\ UNCHANGED <<owner, minted>>

\* UpdateDrsObjectMetadataField: replace every value of the field by one.
PlanUpdateField(c) ==
    /\ stage[c] = "plan" /\ job[c].op = "updateField"
    /\ Plan(c, MetasOf(avus[job[c].path], job[c].attr),
               Optional(job[c].attr, job[c].value))
    /\ UNCHANGED <<owner, minted>>

\* Faulty: the aliases are added to those there are.
PlanAppendAliases(c) ==
    /\ stage[c] = "plan" /\ job[c].op = "updateAliases"
    /\ Plan(c, {}, AliasAvus(normalizedAliases(job[c].aliases)))
    /\ UNCHANGED <<owner, minted>>

\* UpdateDrsObjectAliases: replace every alias by the ones given.
PlanUpdateAliases(c) ==
    /\ stage[c] = "plan" /\ job[c].op = "updateAliases"
    /\ Plan(c, MetasOf(avus[job[c].path], DrsAvuAliasAttrib),
               AliasAvus(normalizedAliases(job[c].aliases)))
    /\ UNCHANGED <<owner, minted>>

\* Faulty: a compound manifest is removed like any other object.
PlanRemoveAny(c) ==
    /\ stage[c] = "plan" /\ job[c].op = "removeSingle"
    /\ Plan(c, DrsMetas(avus[job[c].path]), <<>>)
    /\ UNCHANGED <<owner, minted>>

\* RemoveSingleDrsObjectFromDataObject: not for a compound manifest.
PlanRemoveSingle(c) ==
    LET metas == avus[job[c].path]
    IN  /\ stage[c] = "plan" /\ job[c].op = "removeSingle"
        /\ \/ IsManifest(metas) /\ Refuse(c)
           \/ /\ ~IsManifest(metas)
              /\ Plan(c, DrsMetas(metas), <<>>)
              /\ UNCHANGED <<owner, minted>>

\* Faulty: strip goes by the names of the attributes alone.
PlanStripAnyUnit(c) ==
    /\ stage[c] = "plan" /\ job[c].op \in {"strip", "drsrm"}
    /\ Plan(c, {meta \in avus[job[c].path] : meta.name \in DrsAttribs}, <<>>)
    /\ UNCHANGED <<owner, minted>>

\* StripDrsSemantics on one path, which drsrm calls after it resolved the path.
PlanStrip(c) ==
    /\ stage[c] = "plan" /\ job[c].op \in {"strip", "drsrm"}
    /\ Plan(c, DrsMetas(avus[job[c].path]), <<>>)
    /\ UNCHANGED <<owner, minted>>

----------------------------------------------------------------------------
(* Writing: the deletions in the order of an unordered list, then the      *)
(* additions in their order.                                               *)

\* metas become the AVUs of c's path.
Write(c, metas) == avus' = [avus EXCEPT ![job[c].path] = metas]

\* The clients that are still alone on their path after c has written its own.
AloneAfter(c) ==
    [d \in Clients |-> alone[d] /\ (d = c \/ job[d].path # job[c].path)]

\* Faulty: the loop over the list does not advance.
DeleteSame(c) ==
    /\ stage[c] = "write"
    /\ \E meta \in dels[c] : Write(c, avus[job[c].path] \ {meta})
    /\ alone' = AloneAfter(c)
    /\ UNCHANGED <<stage, job, dels, adds, seen, owner, minted, published, before>>

DeleteNext(c) ==
    /\ stage[c] = "write"
    /\ \E meta \in dels[c] :
          /\ Write(c, avus[job[c].path] \ {meta})
          /\ dels' = [dels EXCEPT ![c] = @ \ {meta}]
    /\ alone' = AloneAfter(c)
    /\ UNCHANGED <<stage, job, adds, seen, owner, minted, published, before>>

AddNext(c) ==
    /\ stage[c] = "write" /\ dels[c] = {} /\ adds[c] # <<>>
    /\ Write(c, avus[job[c].path] \cup {Head(adds[c])})
    /\ adds' = [adds EXCEPT ![c] = Tail(@)]
    /\ alone' = AloneAfter(c)
    /\ UNCHANGED <<stage, job, dels, seen, owner, minted, published, before>>

\* The operation returns; a create returns the new id.
Finish(c) ==
    /\ stage[c] = "write" /\ dels[c] = {} /\ adds[c] = <<>>
    /\ stage' = [stage EXCEPT ![c] = "done"]
    /\ published' = IF job[c].op = "create" THEN published \cup {minted[c]}
                                            ELSE published
    /\ UNCHANGED <<avus, job, dels, adds, seen, owner, minted, before, alone>>

\* A write takes effect, but the client sees an error or dies.
FailAfterWrite(c) ==
    /\ stage[c] = "write"
    /\ \/ \E meta \in dels[c] : Write(c, avus[job[c].path] \ {meta})
       \/ /\ dels[c] = {} /\ adds[c] # <<>>
          /\ Write(c, avus[job[c].path] \cup {Head(adds[c])})
    /\ GiveUp(c)
    /\ alone' = [AloneAfter(c) EXCEPT ![c] = FALSE]

----------------------------------------------------------------------------
Step(c) ==
    \/ Query(c) \/ Load(c) \/ Resolve(c)
    \/ PlanCreate(c) \/ PlanUpdateField(c) \/ PlanUpdateAliases(c)
    \/ PlanRemoveSingle(c) \/ PlanStrip(c)
    \/ DeleteNext(c) \/ AddNext(c) \/ Finish(c)

Next == \E c \in Clients : Start(c) \/ Step(c) \/ Fail(c) \/ FailAfterWrite(c)

Spec == Init /\ [][Next]_vars

\* A client that runs makes its next call, and a call returns or fails: the
\* iRODS client has request timeouts.
FairSpec == Spec /\ \A c \in Clients : WF_vars(Step(c))

----------------------------------------------------------------------------
(* Properties.                                                             *)

\* The types of the variables; the aliases, mime type and other values that an
\* operation puts into the catalog are never blank.
TypeOK ==
    /\ avus \in [Paths -> SUBSET AVU]
    /\ stage \in [Clients -> Stages]
    /\ job \in [Clients -> JobType]
    /\ dels \in [Clients -> SUBSET AVU]
    /\ adds \in [Clients -> Seq(AVU)]
    /\ seen \in [Clients -> Ids \cup {None}]
    /\ owner \in [Ids -> Paths \cup {None}]
    /\ minted \in [Clients -> Ids \cup {None}]
    /\ published \subseteq Ids \cup {None}
    /\ before \in [Clients -> SUBSET AVU]
    /\ alone \in [Clients -> BOOLEAN]

\* No operation, failed or not, adds or removes an AVU that is not DRS
\* metadata: neither a user's attribute nor a DRS attribute in another unit.
ForeignUntouched ==
    [][\A p \in Paths : ForeignMetas(avus'[p]) = ForeignMetas(avus[p])]_vars

\* The clients' jobs include no removal.
NoRemovers == \A c \in Clients : \A j \in JobsOf[c] : j.op \notin Removers

\* While nobody removes registrations, a path has DRS metadata only together
\* with an id: whatever create or update failed or was interrupted, the path
\* still resolves, so that drsrm can clean it up.
NoOrphans ==
    NoRemovers => \A p \in Paths : DrsMetas(avus[p]) # {} => IdsIn(avus[p]) # {}

\* An id is only ever on the path it was generated for, so that
\* GetDrsObjectByID never matches multiple objects.
IdOnOnePath == \A id \in Ids : \A p \in Paths :
                  id \in IdsIn(avus[p]) => owner[id] = p

\* While nobody removes registrations, an id that a create has returned stays
\* on the path it was created for, whatever the other clients do to it.
PublishedResolvable ==
    NoRemovers => \A id \in published :
        id \in Ids /\ owner[id] \in Paths /\ id \in IdsIn(avus[owner[id]])

\* The object getById returns is the one on the path the id was generated for,
\* under an id generated for that path, even if it was removed or registered
\* again between the search and the listing.
ResolvesOwnPath ==
    \A c \in Clients :
        stage[c] = "done" /\ job[c].op = "getById" =>
            /\ owner[job[c].id] = job[c].path
            /\ owner[seen[c]] = job[c].path

\* At most one client is asked to create p.
OneRegistrar(p) ==
    \A c, d \in Clients : \A j \in JobsOf[c], k \in JobsOf[d] :
        /\ j.op = "create" /\ j.path = p
        /\ k.op = "create" /\ k.path = p
        => c = d

\* A path that one client registers never has two ids, however often that
\* client fails and tries again, and whoever updates or removes meanwhile.
OneIdPerPath ==
    \A p \in Paths : OneRegistrar(p) =>
        \A x, y \in IdsIn(avus[p]) : x = y

NonBlank(values) == values \ {Blank}

\* What operation j promises of the AVUs of its path, from pre to post.
Promise(j, drsID, pre, post) ==
    /\ ForeignMetas(post) = ForeignMetas(pre)
    /\ j.op = "create" => IdsIn(post) = {drsID}
    /\ j.op = "create" /\ DrsMetas(pre) = {} =>
          /\ ValuesOf(post, DrsAvuVersionAttrib) = NonBlank({ChecksumOf[j.path]})
          /\ ValuesOf(post, DrsAvuMimeTypeAttrib)
                = NonBlank({normalizedMimeType(j.path, j.mime)})
          /\ ValuesOf(post, DrsAvuDescriptionAttrib) = NonBlank({j.value})
          /\ ValuesOf(post, DrsAvuAliasAttrib)
                = NonBlank({j.aliases[i] : i \in DOMAIN j.aliases})
          /\ ~IsManifest(post)
    /\ j.op = "updateField" =>
          /\ ValuesOf(post, j.attr) = NonBlank({j.value})
          /\ DrsMetas(post) \ MetasOf(post, j.attr)
                = DrsMetas(pre) \ MetasOf(pre, j.attr)
    /\ j.op = "updateAliases" =>
          /\ ValuesOf(post, DrsAvuAliasAttrib)
                = NonBlank({j.aliases[i] : i \in DOMAIN j.aliases})
          /\ DrsMetas(post) \ MetasOf(post, DrsAvuAliasAttrib)
                = DrsMetas(pre) \ MetasOf(pre, DrsAvuAliasAttrib)
    /\ j.op \in Removers => DrsMetas(post) = {}

\* An operation that returned without error, on a path no other client has
\* written since its plan, has exactly the effect it promises.
UndisturbedEffect ==
    \A c \in Clients :
        stage[c] = "done" /\ alone[c] =>
            Promise(job[c], minted[c], before[c], avus[job[c].path])

\* Only a strip takes the compound marker off a path.
ManifestProtected ==
    [][\A p \in Paths : IsManifest(avus[p]) /\ ~IsManifest(avus'[p]) =>
          \E c \in Clients : /\ stage[c] = "write" /\ job[c].path = p
                              /\ job[c].op \in {"strip", "drsrm"}]_vars

\* Every operation comes to an end.
EveryOperationEnds ==
    \A c \in Clients : stage[c] \in Active ~> stage[c] \notin Active

----------------------------------------------------------------------------
(* The inductive invariant from which the safety properties follow.        *)

\* The next call of c adds the id of a new object.
IdPending(c) == adds[c] # <<>> /\ Head(adds[c]).name = DrsIdAvuAttrib

\* What c still has to write is DRS metadata.  Only a removal deletes ids, and
\* only a create adds one, the one it generated for its path, before the rest.
PendingInv ==
    \A c \in Clients :
        /\ stage[c] # "write" => dels[c] = {} /\ adds[c] = <<>>
        /\ \A meta \in dels[c] :
              /\ isDrsMetadata(meta)
              /\ meta.name = DrsIdAvuAttrib => job[c].op \in Removers
        /\ \/ adds[c] \in Seq(Describing)
           \/ /\ adds[c] # <<>>
              /\ Head(adds[c]) = DrsAvu(DrsIdAvuAttrib, minted[c])
              /\ Tail(adds[c]) \in Seq(Describing)
              /\ job[c].op = "create"
        /\ stage[c] = "write" /\ job[c].op = "create" =>
              minted[c] \in Ids /\ owner[minted[c]] = job[c].path

\* An operation goes through its own stages, and an update that was accepted
\* names a field.
JobInv ==
    \A c \in Clients :
        /\ stage[c] \in {"query", "load"} => job[c].op \in Readers
        /\ stage[c] \in {"resolve", "plan", "write"} => job[c].op \notin Readers
        /\ stage[c] = "resolve" => job[c].op \in Resolvers
        /\ stage[c] = "plan" /\ job[c].op = "updateField" =>
              job[c].attr \in FieldAttribs

IdsInv == \A p \in Paths : IdsIn(avus[p]) \subseteq Ids

IInv == TypeOK /\ PendingInv /\ JobInv /\ IdsInv /\ IdOnOnePath

\* A client runs one of its jobs (a search fills in the path).
OwnJobs == \A c \in Clients : job[c].op \notin Readers => job[c] \in JobsOf[c]

\* While nobody removes: whoever writes without having the id still to write
\* has an id on its path, a create the one it generated.
KeptInv ==
    NoRemovers => \A c \in Clients :
        /\ \/ stage[c] = "plan" /\ job[c].op \in Updaters
           \/ stage[c] = "write" /\ ~IdPending(c)
           => IdsIn(avus[job[c].path]) # {}
        /\ stage[c] = "write" /\ ~IdPending(c) /\ job[c].op = "create" =>
              minted[c] \in IdsIn(avus[job[c].path])

\* A path with one registrar has no id while that client has one to write.
RegistrarInv ==
    \A c \in Clients :
        stage[c] = "write" /\ IdPending(c) /\ OneRegistrar(job[c].path) =>
            IdsIn(avus[job[c].path]) = {}

----------------------------------------------------------------------------
(* The ids of the catalog as PersistentIds describes them.                 *)

Pending(id) ==
    \E c \in Clients : \E i \in DOMAIN adds[c] :
        adds[c][i].name = DrsIdAvuAttrib /\ adds[c][i].value = id

Persistent == INSTANCE PersistentIds WITH
    home    <- owner,
    where   <- [id \in Ids |-> {p \in Paths : id \in IdsIn(avus[p])}],
    pending <- {id \in Ids : Pending(id)}

\* Registration implements persistent ids: an id is generated once, for one
\* path, attached there at most once, and never comes back after its removal.
IdsPersist == Persistent!Spec
=============================================================================
