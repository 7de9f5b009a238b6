----------------------- MODULE CompoundCreate_proofs -----------------------
(***************************************************************************)
(* Theorems about CompoundCreate, for every tree, every set of clients and *)
(* coordinators, all jobs, ignore rules and initial catalogs.              *)
(***************************************************************************)
EXTENDS CompoundCreate, DrsRegistration_proofs

----------------------------------------------------------------------------
(* The inductive invariant.                                                *)

WorkOps == Creators \cup Updaters \cup Removers \cup Readers \cup {"complete", "upsert"}

\* An operation of a client, or one that a walk calls.
WorkType ==
    [op : WorkOps,
     path : Paths,
     attr : DrsAttribs \cup {UserAttrib},
     value : Ids \cup Texts \cup {Blank},
     mime : Texts \cup {Blank},
     aliases : Seq(Texts \cup {Blank}),
     id : Ids \cup {None}]

\* The attributes by which paths are found, and AVUs of the others.
KeyAttribs == {DrsIdAvuAttrib, DrsAvuCompoundManifestAttrib}
Plain == {meta \in Describing : meta.name \notin KeyAttribs}

WorkTypes ==
    /\ avus \in [Paths -> SUBSET AVU]
    /\ stage \in [Clients -> Stages]
    /\ job \in [Clients -> WorkType]
    /\ dels \in [Clients -> SUBSET AVU]
    /\ adds \in [Clients -> Seq(DrsAvus)]
    /\ owner \in [Ids -> Paths \cup {None}]

\* Only data objects are created; only a coordinator upserts, on a root of its
\* own, an id that was generated for this root, or a marker.
Proper(c, j) ==
    /\ j.op # "upsert" => j.value \in Texts \cup {Blank}
    /\ j.op = "create" => j.path \in DataObjects
    /\ j.op = "upsert" =>
          /\ c \in Coordinators /\ j.path \in RootsOf[c]
          /\ \/ /\ j.attr = DrsIdAvuAttrib
                /\ j.value \in Ids /\ owner[j.value] = j.path
             \/ j.attr = DrsAvuCompoundManifestAttrib /\ j.value \in Texts

\* An operation goes through its own stages.
JobFits(c) ==
    /\ Proper(c, job[c])
    /\ stage[c] \in {"query", "load"} => job[c].op \in Readers
    /\ stage[c] \in {"resolve", "plan", "write"} => job[c].op \notin Readers
    /\ stage[c] = "plan" /\ job[c].op = "updateField" => job[c].attr \in FieldAttribs

\* What is left to add begins with the id of a create.
AddsId(c) ==
    /\ job[c].op = "create" /\ adds[c] # <<>>
    /\ \E id \in Ids : owner[id] = job[c].path /\ Head(adds[c]) = DrsAvu(DrsIdAvuAttrib, id)
    /\ Tail(adds[c]) \in Seq(Plain)

\* What is left to add is what an upsert writes.
AddsKey(c) == job[c].op = "upsert" /\ adds[c] = <<DrsAvu(job[c].attr, job[c].value)>>

\* An id or a marker is deleted by a removal or by the upsert that replaces it,
\* and added by a create, first of all, or by an upsert.
WritesFit(c) ==
    /\ stage[c] # "write" => dels[c] = {} /\ adds[c] = <<>>
    /\ \A meta \in dels[c] :
          /\ isDrsMetadata(meta)
          /\ meta.name \in KeyAttribs =>
                job[c].op \in Removers \/ (job[c].op = "upsert" /\ meta.name = job[c].attr)
    /\ adds[c] \in Seq(Plain) \/ AddsId(c) \/ AddsKey(c)

\* The part of the invariant about the operations.
WorkInv ==
    /\ WorkTypes
    /\ \A c \in Clients : JobFits(c) /\ WritesFit(c)
    /\ IdsInv /\ IdOnOnePath

----------------------------------------------------------------------------
(* The AVUs that the operations write.                                     *)

\* What an update of a field, a completion or an alias adds is plain.
LEMMA PlainAvu ==
    ASSUME NEW attrib \in DrsAttribs \ KeyAttribs, NEW value \in Texts
    PROVE  DrsAvu(attrib, value) \in Plain
BY DrsAvuIsDrs DEF Plain, Describing, DrsAvus, KeyAttribs

LEMMA FieldsArePlain ==
    /\ FieldAttribs \subseteq DrsAttribs \ KeyAttribs
    /\ DrsAvuAliasAttrib \in DrsAttribs \ KeyAttribs
    /\ DrsAvuVersionAttrib \in FieldAttribs
    /\ DrsAvuMimeTypeAttrib \in FieldAttribs
    /\ DrsAvuDescriptionAttrib \in FieldAttribs
BY DEF FieldAttribs, DrsAttribs, KeyAttribs, DrsIdAvuAttrib, DrsAvuVersionAttrib,
       DrsAvuMimeTypeAttrib, DrsAvuCompoundManifestAttrib, DrsAvuAliasAttrib,
       DrsAvuDescriptionAttrib

LEMMA OptionalPlain ==
    ASSUME NEW attrib \in FieldAttribs, NEW value \in Texts \cup {Blank}
    PROVE  Optional(attrib, value) \in Seq(Plain)
<1>1. CASE value = Blank
  BY <1>1 DEF Optional
<1>2. CASE value # Blank
  <2>1. DrsAvu(attrib, value) \in Plain
    BY <1>2, PlainAvu, FieldsArePlain
  <2> QED BY <1>2, <2>1 DEF Optional
<1> QED BY <1>1, <1>2

LEMMA AliasesPlain ==
    ASSUME NEW aliases \in Seq(Texts \cup {Blank})
    PROVE  AliasAvus(normalizedAliases(aliases)) \in Seq(Plain)
<1> DEFINE s == normalizedAliases(aliases)
<1>1. s \in Seq(Texts)
  BY NormalizedAliases
<1> HIDE DEF s
<1>2. \A i \in 1..Len(s) : DrsAvu(DrsAvuAliasAttrib, s[i]) \in Plain
  BY <1>1, PlainAvu, FieldsArePlain
<1> QED BY <1>1, <1>2 DEF AliasAvus, s

\* What a create adds is the id and then plain AVUs.
LEMMA CreateAdds ==
    ASSUME NEW j \in WorkType, j.value \in Texts \cup {Blank}, NEW id \in Ids
    PROVE  LET as == metadataForObject(internalObject(j, id))
           IN  /\ as \in Seq(DrsAvus) /\ as # <<>>
               /\ Head(as) = DrsAvu(DrsIdAvuAttrib, id)
               /\ Tail(as) \in Seq(Plain)
<1> DEFINE object == internalObject(j, id)
           v == Optional(DrsAvuVersionAttrib, object.version)
           m == Optional(DrsAvuMimeTypeAttrib, object.mime)
           d == Optional(DrsAvuDescriptionAttrib, object.description)
           a == AliasAvus(normalizedAliases(object.aliases))
           first == DrsAvu(DrsIdAvuAttrib, id)
           rest == describingMetadata(object)
<1>1. /\ object.id = id
      /\ object.version \in Texts \cup {Blank}
      /\ object.mime \in Texts \cup {Blank}
      /\ object.description \in Texts \cup {Blank}
      /\ object.aliases \in Seq(Texts \cup {Blank})
  BY DerivedValues DEF internalObject, normalizedMimeType, WorkType
<1> HIDE DEF object
<1>2. v \in Seq(Plain) /\ m \in Seq(Plain) /\ d \in Seq(Plain) /\ a \in Seq(Plain)
  BY <1>1, OptionalPlain, AliasesPlain, FieldsArePlain
<1> HIDE DEF v, m, d, a
<1>3. /\ v \o m \in Seq(Plain)
      /\ v \o m \o d \in Seq(Plain)
      /\ v \o m \o d \o a \in Seq(Plain)
  BY <1>2, ConcatProperties
<1>4. rest \in Seq(Plain)
  BY <1>3 DEF describingMetadata, v, m, d, a
<1> HIDE DEF rest
<1>5. metadataForObject(object) = <<first>> \o rest
  BY <1>1 DEF metadataForObject, rest
<1>6. first \in DrsAvus
  BY DrsAvuIsDrs DEF DrsAvus, DrsAttribs
<1> HIDE DEF first
<1>7. rest \in Seq(DrsAvus) /\ <<first>> \in Seq(DrsAvus)
  BY <1>4, <1>6 DEF Plain, Describing
<1>8. <<first>> \o rest \in Seq(DrsAvus)
  BY <1>7, ConcatProperties
<1>9. /\ <<first>> \o rest # <<>> /\ Head(<<first>> \o rest) = first
      /\ Tail(<<first>> \o rest) = rest
  BY <1>6, <1>7
<1> QED BY <1>4, <1>5, <1>8, <1>9 DEF first, object

\* What an operation adds next.
LEMMA NextWrite ==
    ASSUME WorkInv, NEW c \in Clients, adds[c] # <<>>
    PROVE  /\ stage[c] = "write" /\ job[c] \in WorkType
           /\ Head(adds[c]) \in DrsAvus
           /\ Tail(adds[c]) \in Seq(Plain)
           /\ \/ Head(adds[c]) \in Plain /\ adds[c] \in Seq(Plain)
              \/ AddsId(c)
              \/ AddsKey(c) /\ Tail(adds[c]) = <<>>
<1>1. /\ WritesFit(c) /\ adds[c] \in Seq(DrsAvus) /\ job[c] \in WorkType
      /\ stage[c] = "write"
  BY DEF WorkInv, WorkTypes, WritesFit
<1>2. Head(adds[c]) \in DrsAvus
  BY <1>1, HeadTailProperties
<1>3. CASE adds[c] \in Seq(Plain)
  BY <1>1, <1>2, <1>3, HeadTailProperties
<1>4. CASE AddsId(c)
  BY <1>1, <1>2, <1>4 DEF AddsId
<1>5. CASE AddsKey(c)
  <2>1. Tail(adds[c]) = <<>>
    BY <1>5 DEF AddsKey
  <2>2. <<>> \in Seq(Plain)
    OBVIOUS
  <2> QED BY <1>1, <1>2, <1>5, <2>1, <2>2
<1> QED BY <1>1, <1>3, <1>4, <1>5 DEF WritesFit

----------------------------------------------------------------------------
(* Every step of an operation preserves it.                                *)

\* The steps that are about c leave the other clients alone,
Apart(c) ==
    \A d \in Clients \ {c} :
        /\ stage'[d] = stage[d] /\ job'[d] = job[d]
        /\ dels'[d] = dels[d] /\ adds'[d] = adds[d]

\* and no step takes an id from its owner.
OwnersStay == \A id \in Ids : owner[id] # None => owner'[id] = owner[id]

\* What has to be shown of such a step.
Moves(c) ==
    /\ Apart(c) /\ OwnersStay /\ WorkTypes'
    /\ JobFits(c)' /\ WritesFit(c)'

LEMMA MoveOthers ==
    ASSUME WorkInv, OwnersStay, NEW d \in Clients,
           stage'[d] = stage[d], job'[d] = job[d],
           dels'[d] = dels[d], adds'[d] = adds[d]
    PROVE  JobFits(d)' /\ WritesFit(d)'
<1>1. job[d] \in WorkType /\ job[d].path \in Paths
  BY DEF WorkInv, WorkTypes, WorkType
<1>2. \A id \in Ids : owner[id] = job[d].path => owner'[id] = job[d].path
  BY <1>1, NoneIsNothing DEF OwnersStay
<1>3. Proper(d, job[d])'
  BY <1>2 DEF WorkInv, JobFits, Proper
<1>4. AddsId(d) => AddsId(d)'
  BY <1>2 DEF AddsId
<1>5. AddsKey(d) => AddsKey(d)'
  BY DEF AddsKey
<1>6. JobFits(d)'
  BY <1>3 DEF WorkInv, JobFits
<1>7. WritesFit(d)'
  BY <1>4, <1>5 DEF WorkInv, WritesFit
<1> QED BY <1>6, <1>7

LEMMA MoveInv ==
    ASSUME WorkInv, NEW c \in Clients, Moves(c), (IdsInv /\ IdOnOnePath)'
    PROVE  WorkInv'
<1>1. ASSUME NEW d \in Clients PROVE JobFits(d)' /\ WritesFit(d)'
  <2>1. CASE d = c
    BY <2>1 DEF Moves
  <2>2. CASE d # c
    BY <2>2, MoveOthers DEF Moves, Apart
  <2> QED BY <2>1, <2>2
<1> QED BY <1>1 DEF WorkInv, Moves

\* A step that leaves the catalog alone leaves every id on its own path.
LEMMA IdsStay ==
    ASSUME WorkInv, OwnersStay, avus' = avus
    PROVE  (IdsInv /\ IdOnOnePath)'
<1>1. \A id \in Ids : \A p \in Paths : id \in IdsIn(avus[p]) => owner'[id] = p
  BY NoneIsNothing DEF WorkInv, IdOnOnePath, OwnersStay
<1> QED BY <1>1 DEF WorkInv, IdsInv, IdOnOnePath

LEMMA SameInv ==
    ASSUME WorkInv, NEW c \in Clients, Moves(c), avus' = avus
    PROVE  WorkInv'
BY IdsStay, MoveInv DEF Moves

\* A job is one that a walk may also call.
LEMMA JobsWork ==
    ASSUME NEW c \in Clients, NEW j \in JobType, j.op = "create" => j.path \in DataObjects
    PROVE  j \in WorkType /\ Proper(c, j) /\ Proper(c, j)'
BY DEF JobType, WorkType, WorkOps, Proper, Creators, Updaters, Removers, Readers

LEMMA NoJobWorks ==
    ASSUME NEW c \in Clients
    PROVE  NoJob(c) \in WorkType /\ Proper(c, NoJob(c)) /\ Proper(c, NoJob(c))'
<1>1. NoJob(c) \in JobsOf[c] /\ NoJob(c) \in JobType
  BY NoJobType
<1> QED BY <1>1, JobsWork, CreatesNameDataObjects

\* Asking for an operation,
LEMMA BeginMoves ==
    ASSUME WorkInv, NEW c \in Clients, NEW j \in WorkType, Proper(c, j), Begin(c, j)
    PROVE  Moves(c) /\ avus' = avus /\ owner' = owner
           /\ stage'[c] = FirstStage(j.op) /\ job'[c] = j
<1>1. /\ stage' = [stage EXCEPT ![c] = FirstStage(j.op)]
      /\ job' = [job EXCEPT ![c] = j] /\ stage[c] \notin Active
      /\ UNCHANGED <<avus, dels, adds, owner>>
  BY DEF Begin
<1>2. stage \in [Clients -> Stages] /\ job \in [Clients -> WorkType]
  BY DEF WorkInv, WorkTypes
<1>3. FirstStage(j.op) \in {"query", "resolve", "plan"}
  BY DEF FirstStage
<1>4. stage'[c] = FirstStage(j.op) /\ job'[c] = j
  BY <1>1, <1>2
<1>5. dels[c] = {} /\ adds[c] = <<>>
  BY <1>1 DEF WorkInv, WritesFit, Active
<1>6. Apart(c) /\ OwnersStay
  BY <1>1, <1>2 DEF Apart, OwnersStay
<1>7. WorkTypes'
  BY <1>1, <1>2, <1>3 DEF WorkInv, WorkTypes, Stages
<1>8. JobFits(c)'
  <2>1. Proper(c, j)'
    BY <1>1 DEF Proper
  <2> QED BY <1>4, <2>1 DEF JobFits, FirstStage, Readers, Resolvers, Updaters
<1>9. WritesFit(c)'
  <2>1. <<>> \in Seq(Plain)
    OBVIOUS
  <2> QED BY <1>1, <1>5, <2>1 DEF WritesFit
<1> QED BY <1>1, <1>4, <1>6, <1>7, <1>8, <1>9 DEF Moves

\* giving up, whatever became of the catalog,
LEMMA GiveUpMoves ==
    ASSUME WorkInv, NEW c \in Clients, GiveUp(c), avus' \in [Paths -> SUBSET AVU]
    PROVE  Moves(c) /\ owner' = owner
           /\ stage'[c] = "failed" /\ job'[c] = NoJob(c)
<1>1. /\ stage' = [stage EXCEPT ![c] = "failed"]
      /\ job' = [job EXCEPT ![c] = NoJob(c)]
      /\ dels' = [dels EXCEPT ![c] = {}] /\ adds' = [adds EXCEPT ![c] = <<>>]
      /\ owner' = owner
  BY DEF GiveUp
<1>2. /\ stage \in [Clients -> Stages] /\ job \in [Clients -> WorkType]
      /\ dels \in [Clients -> SUBSET AVU] /\ adds \in [Clients -> Seq(DrsAvus)]
  BY DEF WorkInv, WorkTypes
<1>3. /\ stage'[c] = "failed" /\ job'[c] = NoJob(c)
      /\ dels'[c] = {} /\ adds'[c] = <<>>
  BY <1>1, <1>2
<1>4. Apart(c) /\ OwnersStay
  BY <1>1, <1>2 DEF Apart, OwnersStay
<1>5. NoJob(c) \in WorkType /\ Proper(c, NoJob(c))'
  BY NoJobWorks
<1>6. WorkTypes'
  <2>1. <<>> \in Seq(DrsAvus)
    OBVIOUS
  <2> QED BY <1>1, <1>2, <1>5, <2>1 DEF WorkInv, WorkTypes, Stages
<1>7. JobFits(c)'
  BY <1>3, <1>5 DEF JobFits
<1>8. WritesFit(c)'
  <2>1. <<>> \in Seq(Plain)
    OBVIOUS
  <2> QED BY <1>3, <2>1 DEF WritesFit
<1> QED BY <1>1, <1>3, <1>4, <1>6, <1>7, <1>8 DEF Moves

LEMMA RefuseMoves ==
    ASSUME WorkInv, NEW c \in Clients, Refuse(c)
    PROVE  Moves(c) /\ avus' = avus /\ owner' = owner
           /\ stage'[c] = "failed" /\ job'[c] = NoJob(c)
<1>1. GiveUp(c) /\ avus' = avus
  BY DEF Refuse
<1>2. avus' \in [Paths -> SUBSET AVU]
  BY <1>1 DEF WorkInv, WorkTypes
<1> QED BY <1>1, <1>2, GiveUpMoves

\* going on to another stage,
Advances(c, s) ==
    /\ stage' = [stage EXCEPT ![c] = s]
    /\ UNCHANGED <<avus, dels, adds, owner>>

LEMMA AdvanceMoves ==
    ASSUME WorkInv, NEW c \in Clients, NEW s \in Stages, Advances(c, s), job' = job,
           s # "write", dels[c] = {}, adds[c] = <<>>,
           s \in {"query", "load"} => job[c].op \in Readers,
           s \in {"resolve", "plan"} => job[c].op \notin Readers,
           s = "plan" /\ job[c].op = "updateField" => job[c].attr \in FieldAttribs
    PROVE  Moves(c) /\ stage'[c] = s
<1>1. stage \in [Clients -> Stages]
  BY DEF WorkInv, WorkTypes
<1>2. stage'[c] = s
  BY <1>1 DEF Advances
<1>3. Apart(c) /\ OwnersStay
  BY <1>1 DEF Apart, OwnersStay, Advances
<1>4. WorkTypes'
  BY <1>1 DEF WorkInv, WorkTypes, Advances
<1>5. JobFits(c)'
  BY <1>2 DEF WorkInv, JobFits, Proper, Advances
<1>6. WritesFit(c)'
  <2>1. <<>> \in Seq(Plain)
    OBVIOUS
  <2> QED BY <1>2, <2>1 DEF WritesFit, Advances
<1> QED BY <1>2, <1>3, <1>4, <1>5, <1>6 DEF Moves

\* the search and the listing of GetDrsObjectByID,
LEMMA QueryMoves ==
    ASSUME WorkInv, NEW c \in Clients, Query(c)
    PROVE  Moves(c) /\ avus' = avus /\ owner' = owner
           /\ job[c].op \in Readers
           /\ \/ stage'[c] = "load" /\ job'[c].op = job[c].op
              \/ stage'[c] = "failed" /\ job'[c] = NoJob(c)
<1>1. stage[c] = "query" /\ job[c].op \in Readers
  BY DEF Query, WorkInv, JobFits
<1>2. CASE Refuse(c)
  BY <1>1, <1>2, RefuseMoves
<1>3. CASE /\ \E p \in Paths : job' = [job EXCEPT ![c].path = p]
           /\ stage' = [stage EXCEPT ![c] = "load"]
           /\ UNCHANGED <<avus, dels, adds, seen, history>>
  <2> USE <1>3 DEF history
  <2>1. PICK p \in Paths : job' = [job EXCEPT ![c].path = p]
    OBVIOUS
  <2>2. job \in [Clients -> WorkType] /\ stage \in [Clients -> Stages]
    BY DEF WorkInv, WorkTypes
  <2>3. job'[c] = [job[c] EXCEPT !.path = p] /\ stage'[c] = "load"
    BY <2>1, <2>2
  <2>4. /\ job'[c] \in WorkType /\ job'[c].op = job[c].op
        /\ job'[c].value = job[c].value
    <3>1. job[c] \in WorkType
      BY <2>2
    <3> QED BY <2>3, <3>1 DEF WorkType
  <2>5. Apart(c) /\ OwnersStay
    BY <2>1, <2>2 DEF Apart, OwnersStay
  <2>6. WorkTypes'
    BY <2>1, <2>2, <2>4 DEF WorkInv, WorkTypes, Stages
  <2>7. JobFits(c)'
    <3>1. Proper(c, job[c])'
      BY <1>1, <2>4 DEF WorkInv, JobFits, Proper, Readers
    <3> QED BY <1>1, <2>3, <2>4, <3>1 DEF JobFits
  <2>8. WritesFit(c)'
    <3>1. dels'[c] = {} /\ adds'[c] = <<>> /\ <<>> \in Seq(Plain)
      BY <1>1 DEF WorkInv, WritesFit
    <3> QED BY <3>1 DEF WritesFit
  <2> QED BY <1>1, <2>3, <2>4, <2>5, <2>6, <2>7, <2>8 DEF Moves
<1> QED BY <1>2, <1>3 DEF Query

LEMMA LoadMoves ==
    ASSUME WorkInv, NEW c \in Clients, Load(c)
    PROVE  Moves(c) /\ avus' = avus /\ owner' = owner /\ job' = job
           /\ job[c].op \in Readers /\ stage'[c] \in {"done", "nil"}
<1>1. /\ stage[c] = "load" /\ job[c].op \in Readers
      /\ dels[c] = {} /\ adds[c] = <<>>
  BY DEF Load, WorkInv, JobFits, WritesFit
<1>2. PICK s \in {"done", "nil"} : Advances(c, s) /\ job' = job
  BY DEF Load, Advances, history
<1> QED BY <1>1, <1>2, AdvanceMoves DEF Stages, Advances

\* the resolution of a path,
LEMMA ResolveMoves ==
    ASSUME WorkInv, NEW c \in Clients, Resolve(c)
    PROVE  Moves(c) /\ avus' = avus /\ owner' = owner
           /\ \/ stage'[c] = "plan" /\ job' = job /\ IdsIn(avus[job[c].path]) # {}
              \/ stage'[c] = "failed" /\ job'[c] = NoJob(c)
<1>1. stage[c] = "resolve"
  BY DEF Resolve
<1>2. CASE Refuse(c)
  BY <1>2, RefuseMoves
<1>3. CASE /\ IdsIn(avus[job[c].path]) # {}
           /\ job[c].op = "updateField" => job[c].attr \in FieldAttribs
           /\ stage' = [stage EXCEPT ![c] = "plan"]
           /\ UNCHANGED <<avus, job, dels, adds, seen, history>>
  <2>1. Advances(c, "plan") /\ job' = job
    BY <1>3 DEF Advances, history
  <2>2. dels[c] = {} /\ adds[c] = <<>> /\ job[c].op \notin Readers
    BY <1>1 DEF WorkInv, WritesFit, JobFits
  <2> QED BY <1>3, <2>1, <2>2, AdvanceMoves DEF Stages, Advances
<1> QED BY <1>2, <1>3 DEF Resolve

\* the return of an operation,
LEMMA FinishMoves ==
    ASSUME WorkInv, NEW c \in Clients, Finish(c)
    PROVE  Moves(c) /\ avus' = avus /\ owner' = owner /\ job' = job
           /\ stage[c] = "write" /\ dels[c] = {} /\ adds[c] = <<>>
           /\ stage'[c] = "done"
<1>1. Advances(c, "done") /\ job' = job
  BY DEF Finish, Advances
<1> QED BY <1>1, AdvanceMoves DEF Stages, Finish, Advances

\* a plan, to delete ds and to add as,
MayDelete(c, ds) ==
    \A meta \in ds :
        /\ isDrsMetadata(meta)
        /\ meta.name \in KeyAttribs =>
              job[c].op \in Removers \/ (job[c].op = "upsert" /\ meta.name = job[c].attr)

MayAdd(c, as) ==
    \/ as \in Seq(Plain)
    \/ /\ job[c].op = "create" /\ as # <<>> /\ Tail(as) \in Seq(Plain)
       /\ \E id \in Ids : /\ owner'[id] = job[c].path
                          /\ Head(as) = DrsAvu(DrsIdAvuAttrib, id)
    \/ job[c].op = "upsert" /\ as = <<DrsAvu(job[c].attr, job[c].value)>>

LEMMA PlanMoves ==
    ASSUME WorkInv, NEW c \in Clients, stage[c] = "plan",
           NEW ds \in SUBSET AVU, NEW as \in Seq(DrsAvus), Plan(c, ds, as),
           OwnersStay, owner' \in [Ids -> Paths \cup {None}],
           MayDelete(c, ds), MayAdd(c, as)
    PROVE  Moves(c) /\ avus' = avus /\ job' = job /\ stage'[c] = "write"
           /\ dels'[c] = ds /\ adds'[c] = as
<1>1. /\ stage' = [stage EXCEPT ![c] = "write"] /\ dels' = [dels EXCEPT ![c] = ds]
      /\ adds' = [adds EXCEPT ![c] = as] /\ avus' = avus /\ job' = job
  BY DEF Plan
<1>2. /\ stage \in [Clients -> Stages] /\ job \in [Clients -> WorkType]
      /\ dels \in [Clients -> SUBSET AVU] /\ adds \in [Clients -> Seq(DrsAvus)]
  BY DEF WorkInv, WorkTypes
<1>3. stage'[c] = "write" /\ dels'[c] = ds /\ adds'[c] = as
  BY <1>1, <1>2
<1>4. Apart(c)
  BY <1>1, <1>2 DEF Apart
<1>5. WorkTypes'
  BY <1>1, <1>2 DEF WorkInv, WorkTypes, Stages
<1>6. JobFits(c)'
  <2>1. job[c].path \in Paths
    BY <1>2 DEF WorkType
  <2>2. Proper(c, job[c])'
    <3>1. \A id \in Ids : owner[id] = job[c].path => owner'[id] = job[c].path
      BY <2>1, NoneIsNothing DEF OwnersStay
    <3> QED BY <1>1, <3>1 DEF WorkInv, JobFits, Proper
  <2>3. job[c].op \notin Readers
    BY DEF WorkInv, JobFits
  <2> QED BY <1>1, <1>3, <2>2, <2>3 DEF JobFits
<1>7. WritesFit(c)'
  <2>1. (adds[c] \in Seq(Plain) \/ AddsId(c) \/ AddsKey(c))'
    BY <1>1, <1>3 DEF AddsId, AddsKey, MayAdd
  <2>2. MayDelete(c, ds)' = MayDelete(c, ds)
    BY <1>1 DEF MayDelete
  <2> QED BY <1>1, <1>3, <2>1 DEF WritesFit, MayDelete
<1> QED BY <1>1, <1>3, <1>4, <1>5, <1>6, <1>7 DEF Moves

\* which for what describes a path deletes and adds plain AVUs,
LEMMA PlanPlain ==
    ASSUME WorkInv, NEW c \in Clients,
           PlanUpdateField(c) \/ PlanUpdateAliases(c) \/ PlanComplete(c)
    PROVE  Moves(c) /\ avus' = avus /\ owner' = owner /\ job' = job
           /\ stage[c] = "plan" /\ stage'[c] = "write"
           /\ job[c].op \in Updaters \cup {"complete"}
<1> DEFINE metas == avus[job[c].path]
<1>1. /\ job[c] \in WorkType /\ metas \in SUBSET AVU
      /\ JobFits(c)
  BY DEF WorkInv, WorkTypes, WorkType
<1>2. /\ owner' = owner /\ OwnersStay /\ owner' \in [Ids -> Paths \cup {None}]
      /\ stage[c] = "plan"
  BY DEF PlanUpdateField, PlanUpdateAliases, PlanComplete, OwnersStay, WorkInv, WorkTypes
<1>3. Seq(Plain) \subseteq Seq(DrsAvus)
  BY DEF Plain, Describing
<1>4. CASE PlanUpdateField(c)
  <2> DEFINE ds == MetasOf(metas, job[c].attr)
             as == Optional(job[c].attr, job[c].value)
  <2>1. Plan(c, ds, as) /\ job[c].op = "updateField"
    BY <1>4 DEF PlanUpdateField
  <2>2. job[c].attr \in FieldAttribs /\ job[c].value \in Texts \cup {Blank}
    BY <1>1, <1>2, <2>1 DEF JobFits, Proper
  <2>3. as \in Seq(Plain)
    BY <2>2, OptionalPlain
  <2>4. ds \in SUBSET AVU /\ MayDelete(c, ds)
    BY <1>1, <2>2, FieldsArePlain DEF MetasOf, DrsMetas, MayDelete
  <2> HIDE DEF ds, as
  <2>5. /\ Moves(c) /\ avus' = avus /\ job' = job /\ stage'[c] = "write"
    <3>1. MayAdd(c, as)
      BY <2>3 DEF MayAdd
    <3> QED BY <1>2, <1>3, <2>1, <2>3, <2>4, <3>1, PlanMoves
  <2> QED BY <1>2, <2>1, <2>5 DEF Updaters
<1>5. CASE PlanUpdateAliases(c)
  <2> DEFINE ds == MetasOf(metas, DrsAvuAliasAttrib)
             as == AliasAvus(normalizedAliases(job[c].aliases))
  <2>1. Plan(c, ds, as) /\ job[c].op = "updateAliases"
    BY <1>5 DEF PlanUpdateAliases
  <2>3. as \in Seq(Plain)
    BY <1>1, AliasesPlain DEF WorkType
  <2>4. ds \in SUBSET AVU /\ MayDelete(c, ds)
    BY <1>1, FieldsArePlain DEF MetasOf, DrsMetas, MayDelete
  <2> HIDE DEF ds, as
  <2>5. /\ Moves(c) /\ avus' = avus /\ job' = job /\ stage'[c] = "write"
    <3>1. MayAdd(c, as)
      BY <2>3 DEF MayAdd
    <3> QED BY <1>2, <1>3, <2>1, <2>3, <2>4, <3>1, PlanMoves
  <2> QED BY <1>2, <2>1, <2>5 DEF Updaters
<1>6. CASE PlanComplete(c)
  <2> DEFINE p == job[c].path
             m == Missing(avus[p], DrsAvuMimeTypeAttrib, MimeOf[p])
             v == Missing(avus[p], DrsAvuVersionAttrib, ChecksumOf[p])
             as == m \o v
  <2>1. Plan(c, {}, as) /\ job[c].op = "complete"
    BY <1>6 DEF PlanComplete
  <2>2. /\ Optional(DrsAvuMimeTypeAttrib, MimeOf[p]) \in Seq(Plain)
        /\ Optional(DrsAvuVersionAttrib, ChecksumOf[p]) \in Seq(Plain)
        /\ <<>> \in Seq(Plain)
    BY <1>1, OptionalPlain, FieldsArePlain, DerivedValues DEF WorkType
  <2>3. m \in Seq(Plain) /\ v \in Seq(Plain)
    BY <2>2 DEF Missing
  <2> HIDE DEF m, v
  <2>4. as \in Seq(Plain)
    BY <2>3, ConcatProperties
  <2> HIDE DEF as
  <2>5. /\ Moves(c) /\ avus' = avus /\ job' = job /\ stage'[c] = "write"
    <3>1. MayDelete(c, {}) /\ MayAdd(c, as)
      BY <2>4 DEF MayDelete, MayAdd
    <3> QED BY <1>2, <1>3, <2>1, <2>4, <3>1, PlanMoves
  <2> QED BY <1>2, <2>1, <2>5
<1> QED BY <1>4, <1>5, <1>6

\* for a removal deletes all the DRS metadata,
LEMMA PlanRemoval ==
    ASSUME WorkInv, NEW c \in Clients, PlanRemoveSingle(c) \/ PlanStrip(c)
    PROVE  Moves(c) /\ avus' = avus /\ owner' = owner
           /\ job[c].op \in Removers /\ stage[c] = "plan"
           /\ \/ stage'[c] = "write" /\ job' = job
              \/ stage'[c] = "failed" /\ job'[c] = NoJob(c)
<1>1. stage[c] = "plan" /\ job[c].op \in Removers
  BY DEF PlanRemoveSingle, PlanStrip, Removers
<1>2. CASE Refuse(c)
  BY <1>1, <1>2, RefuseMoves
<1>3. CASE Plan(c, DrsMetas(avus[job[c].path]), <<>>) /\ UNCHANGED <<owner, minted>>
  <2>1. /\ DrsMetas(avus[job[c].path]) \in SUBSET AVU
        /\ MayDelete(c, DrsMetas(avus[job[c].path]))
    BY <1>1 DEF WorkInv, WorkTypes, WorkType, DrsMetas, MayDelete
  <2>2. MayAdd(c, <<>>) /\ <<>> \in Seq(DrsAvus)
    BY DEF MayAdd
  <2>3. OwnersStay /\ owner' \in [Ids -> Paths \cup {None}]
    BY <1>3 DEF OwnersStay, WorkInv, WorkTypes
  <2> QED BY <1>1, <1>3, <2>1, <2>2, <2>3, PlanMoves
<1> QED BY <1>2, <1>3 DEF PlanRemoveSingle, PlanStrip

\* for an upsert replaces the values of one attribute,
LEMMA UpsertMoves ==
    ASSUME WorkInv, NEW c \in Clients, PlanUpsert(c)
    PROVE  Moves(c) /\ avus' = avus /\ owner' = owner /\ job' = job
           /\ stage[c] = "plan" /\ stage'[c] = "write" /\ job[c].op = "upsert"
           /\ dels'[c] = MetasOf(avus[job[c].path], job[c].attr)
           /\ adds'[c] = <<DrsAvu(job[c].attr, job[c].value)>>
<1> DEFINE ds == MetasOf(avus[job[c].path], job[c].attr)
           as == <<DrsAvu(job[c].attr, job[c].value)>>
<1>1. /\ stage[c] = "plan" /\ job[c].op = "upsert" /\ Plan(c, ds, as)
      /\ owner' = owner
  BY DEF PlanUpsert
<1>2. /\ job[c].path \in Paths /\ avus[job[c].path] \in SUBSET AVU
      /\ Proper(c, job[c])
  BY DEF WorkInv, WorkTypes, WorkType, JobFits
<1>3. ds \in SUBSET AVU /\ MayDelete(c, ds) /\ MayAdd(c, as)
  BY <1>1, <1>2 DEF MetasOf, DrsMetas, MayDelete, MayAdd
<1>4. /\ job[c].attr \in DrsAttribs /\ job[c].value \in Ids \cup Texts
      /\ job[c].attr = DrsIdAvuAttrib => job[c].value \in Ids
  BY <1>1, <1>2 DEF Proper, DrsAttribs, DrsIdAvuAttrib, DrsAvuCompoundManifestAttrib
<1>5. as \in Seq(DrsAvus)
  <2>1. DrsAvu(job[c].attr, job[c].value) \in DrsAvus
    BY <1>4, DrsAvuIsDrs DEF DrsAvus
  <2> QED BY <2>1
<1>6. OwnersStay /\ owner' \in [Ids -> Paths \cup {None}]
  BY <1>1 DEF OwnersStay, WorkInv, WorkTypes
<1> HIDE DEF ds
<1>7. Moves(c) /\ avus' = avus /\ job' = job /\ stage'[c] = "write"
      /\ dels'[c] = ds /\ adds'[c] = as
  BY <1>1, <1>3, <1>5, <1>6, PlanMoves
<1> QED BY <1>1, <1>7 DEF ds

\* and for a create adds a fresh id, before anything else.
LEMMA CreateMoves ==
    ASSUME WorkInv, NEW c \in Clients, PlanCreate(c)
    PROVE  Moves(c) /\ avus' = avus /\ job[c].op = "create" /\ stage[c] = "plan"
           /\ \/ /\ stage'[c] = "write" /\ job' = job
                 /\ adds'[c] # <<>> /\ Head(adds'[c]).name = DrsIdAvuAttrib
              \/ stage'[c] = "failed" /\ job'[c] = NoJob(c)
<1>1. stage[c] = "plan" /\ job[c].op = "create"
  BY DEF PlanCreate
<1>2. CASE Refuse(c)
  BY <1>1, <1>2, RefuseMoves
<1>3. ASSUME NEW drsID \in FreshIds,
             Plan(c, {}, metadataForObject(internalObject(job[c], drsID))),
             owner' = [owner EXCEPT ![drsID] = job[c].path]
      PROVE  Moves(c) /\ avus' = avus /\ job' = job /\ stage'[c] = "write"
             /\ adds'[c] # <<>> /\ Head(adds'[c]).name = DrsIdAvuAttrib
  <2> DEFINE as == metadataForObject(internalObject(job[c], drsID))
  <2>1. job[c] \in WorkType /\ job[c].path \in Paths /\ job[c].value \in Texts \cup {Blank}
    BY <1>1 DEF WorkInv, WorkTypes, WorkType, JobFits, Proper
  <2>2. drsID \in Ids /\ owner[drsID] = None
    BY DEF FreshIds
  <2>3. /\ as \in Seq(DrsAvus) /\ as # <<>>
        /\ Head(as) = DrsAvu(DrsIdAvuAttrib, drsID)
        /\ Tail(as) \in Seq(Plain)
    BY <2>1, <2>2, CreateAdds
  <2> HIDE DEF as
  <2>4. owner \in [Ids -> Paths \cup {None}]
    BY DEF WorkInv, WorkTypes
  <2>5. OwnersStay /\ owner' \in [Ids -> Paths \cup {None}] /\ owner'[drsID] = job[c].path
    BY <1>3, <2>1, <2>2, <2>4 DEF OwnersStay
  <2>6. Plan(c, {}, as)
    BY <1>3 DEF as
  <2>7. MayDelete(c, {}) /\ MayAdd(c, as)
    BY <1>1, <2>2, <2>3, <2>5 DEF MayDelete, MayAdd
  <2>8. Moves(c) /\ avus' = avus /\ job' = job /\ stage'[c] = "write" /\ adds'[c] = as
    BY <1>1, <2>3, <2>5, <2>6, <2>7, PlanMoves
  <2>9. Head(as).name = DrsIdAvuAttrib
    <3>1. DrsAvu(DrsIdAvuAttrib, drsID).name = DrsIdAvuAttrib
      BY DEF DrsAvu
    <3> QED BY <2>3, <3>1
  <2> QED BY <2>3, <2>8, <2>9
<1> QED BY <1>1, <1>2, <1>3 DEF PlanCreate

\* One write keeps the catalog typed and every id on its own path.
LEMMA OneWrite ==
    ASSUME WorkInv, NEW c \in Clients, stage[c] = "write", owner' = owner,
           (\E meta \in dels[c] : DeletesOne(c, meta)) \/ AddsOne(c)
    PROVE  avus' \in [Paths -> SUBSET AVU] /\ (IdsInv /\ IdOnOnePath)'
<1> DEFINE p == job[c].path
<1>1. p \in Paths /\ avus \in [Paths -> SUBSET AVU]
  BY DEF WorkInv, WorkTypes, WorkType
<1>2. CASE \E meta \in dels[c] : DeletesOne(c, meta)
  <2>1. PICK meta \in dels[c] : avus' = [avus EXCEPT ![p] = avus[p] \ {meta}]
    BY <1>2 DEF DeletesOne, Write
  <2>2. \A q \in Paths : IdsIn(avus'[q]) \subseteq IdsIn(avus[q])
    BY <1>1, <2>1, IdsAfterDelete
  <2>3. avus' \in [Paths -> SUBSET AVU]
    BY <1>1, <2>1
  <2> QED BY <2>2, <2>3 DEF WorkInv, IdsInv, IdOnOnePath
<1>3. CASE AddsOne(c)
  <2> DEFINE meta == Head(adds[c])
  <2>1. avus' = [avus EXCEPT ![p] = avus[p] \cup {meta}] /\ adds[c] # <<>>
    BY <1>3 DEF AddsOne, Write
  <2>2. /\ meta \in DrsAvus
        /\ meta \in Plain \/ AddsId(c) \/ AddsKey(c)
    BY <2>1, NextWrite
  <2>3. avus' \in [Paths -> SUBSET AVU]
    BY <1>1, <2>1, <2>2 DEF DrsAvus
  <2>4. \A q \in Paths : q # p => IdsIn(avus'[q]) = IdsIn(avus[q])
    BY <1>1, <2>1
  <2>5. avus'[p] = avus[p] \cup {meta}
    BY <1>1, <2>1
  <2>6. meta.name = DrsIdAvuAttrib => meta.value \in Ids /\ owner[meta.value] = p
    <3>1. CASE meta \in Plain
      BY <3>1 DEF Plain, Describing
    <3>2. CASE AddsId(c)
      <4>1. PICK id \in Ids : owner[id] = p /\ meta = DrsAvu(DrsIdAvuAttrib, id)
        BY <3>2 DEF AddsId
      <4> QED BY <4>1 DEF DrsAvu
    <3>3. CASE AddsKey(c)
      <4>1. meta = DrsAvu(job[c].attr, job[c].value)
        BY <3>3 DEF AddsKey
      <4>2. meta.name = job[c].attr /\ meta.value = job[c].value
        BY <4>1 DEF DrsAvu
      <4>3. Proper(c, job[c]) /\ job[c].op = "upsert"
        BY <3>3 DEF WorkInv, JobFits, AddsKey
      <4> QED BY <4>2, <4>3 DEF Proper, DrsIdAvuAttrib, DrsAvuCompoundManifestAttrib
    <3> QED BY <2>2, <3>1, <3>2, <3>3
  <2> HIDE DEF meta
  <2>7. \A id \in IdsIn(avus'[p]) :
           id \in IdsIn(avus[p]) \/ (id \in Ids /\ owner[id] = p)
    BY <2>5, <2>6, IdsAfterAdd
  <2>8. IdsInv'
    BY <2>4, <2>7 DEF WorkInv, IdsInv
  <2>9. IdOnOnePath'
    BY <2>4, <2>7 DEF WorkInv, IdOnOnePath
  <2> QED BY <2>3, <2>8, <2>9
<1> QED BY <1>2, <1>3

\* What a step of c may make of the AVUs of p.
Touches(c, p) ==
    \/ avus'[p] = avus[p]
    \/ /\ stage[c] = "write" /\ job[c].path = p
       /\ \/ \E meta \in dels[c] : avus'[p] = avus[p] \ {meta}
          \/ /\ dels[c] = {} /\ adds[c] # <<>>
             /\ avus'[p] = avus[p] \cup {Head(adds[c])}

LEMMA WriteTouches ==
    ASSUME WorkInv, NEW c \in Clients, stage[c] = "write",
           (\E meta \in dels[c] : DeletesOne(c, meta)) \/ AddsOne(c),
           NEW p \in Paths
    PROVE  Touches(c, p)
<1>1. avus \in [Paths -> SUBSET AVU] /\ job[c].path \in Paths
  BY DEF WorkInv, WorkTypes, WorkType
<1>2. ASSUME NEW metas, Write(c, metas)
      PROVE  avus'[p] = avus[p] \/ (job[c].path = p /\ avus'[p] = metas)
  BY <1>1, <1>2 DEF Write
<1>3. CASE \E meta \in dels[c] : DeletesOne(c, meta)
  BY <1>2, <1>3 DEF DeletesOne, Touches
<1>4. CASE AddsOne(c)
  BY <1>2, <1>4 DEF AddsOne, Touches
<1> QED BY <1>3, <1>4

\* A deletion preserves the invariant,
LEMMA DeleteMoves ==
    ASSUME WorkInv, NEW c \in Clients, DeleteNext(c)
    PROVE  Moves(c) /\ (IdsInv /\ IdOnOnePath)'
           /\ owner' = owner /\ stage' = stage /\ job' = job /\ adds' = adds
           /\ stage[c] = "write" /\ dels[c] # {}
           /\ \A p \in Paths : Touches(c, p)
<1>1. PICK meta \in dels[c] :
         DeletesOne(c, meta) /\ dels' = [dels EXCEPT ![c] = @ \ {meta}]
  BY DEF DeleteNext, DeletesOne
<1>2. stage[c] = "write" /\ UNCHANGED <<stage, job, adds, owner>>
  BY DEF DeleteNext
<1>3. avus' \in [Paths -> SUBSET AVU] /\ (IdsInv /\ IdOnOnePath)'
  BY <1>1, <1>2, OneWrite
<1>4. dels \in [Clients -> SUBSET AVU]
  BY DEF WorkInv, WorkTypes
<1>5. dels'[c] = dels[c] \ {meta}
  BY <1>1, <1>4
<1>6. Apart(c) /\ OwnersStay
  BY <1>1, <1>2, <1>4 DEF Apart, OwnersStay
<1>7. WorkTypes'
  BY <1>1, <1>2, <1>3, <1>4 DEF WorkInv, WorkTypes
<1>8. JobFits(c)'
  BY <1>2 DEF WorkInv, JobFits, Proper
<1>9. WritesFit(c)'
  <2>1. (adds[c] \in Seq(Plain) \/ AddsId(c) \/ AddsKey(c))'
    BY <1>2 DEF WorkInv, WritesFit, AddsId, AddsKey
  <2> QED BY <1>2, <1>5, <2>1 DEF WorkInv, WritesFit
<1>10. \A p \in Paths : Touches(c, p)
  BY <1>1, <1>2, WriteTouches
<1> QED BY <1>1, <1>2, <1>3, <1>6, <1>7, <1>8, <1>9, <1>10 DEF Moves

\* as does an addition,
LEMMA AddMoves ==
    ASSUME WorkInv, NEW c \in Clients, AddNext(c)
    PROVE  Moves(c) /\ (IdsInv /\ IdOnOnePath)'
           /\ owner' = owner /\ stage' = stage /\ job' = job /\ dels' = dels
           /\ stage[c] = "write" /\ dels[c] = {} /\ adds[c] # <<>>
           /\ adds'[c] = Tail(adds[c])
           /\ avus'[job[c].path] = avus[job[c].path] \cup {Head(adds[c])}
           /\ \A p \in Paths : Touches(c, p)
<1>1. /\ stage[c] = "write" /\ AddsOne(c) /\ adds[c] # <<>> /\ dels[c] = {}
      /\ adds' = [adds EXCEPT ![c] = Tail(@)]
      /\ UNCHANGED <<stage, job, dels, owner>>
  BY DEF AddNext, AddsOne
<1>2. avus' \in [Paths -> SUBSET AVU] /\ (IdsInv /\ IdOnOnePath)'
  BY <1>1, OneWrite
<1>3. adds \in [Clients -> Seq(DrsAvus)] /\ avus \in [Paths -> SUBSET AVU]
      /\ job[c].path \in Paths
  BY DEF WorkInv, WorkTypes, WorkType
<1>4. adds'[c] = Tail(adds[c]) /\ Tail(adds[c]) \in Seq(Plain)
  BY <1>1, <1>3, NextWrite
<1>5. Seq(Plain) \subseteq Seq(DrsAvus)
  BY DEF Plain, Describing
<1>6. Apart(c) /\ OwnersStay
  BY <1>1, <1>3 DEF Apart, OwnersStay
<1>7. WorkTypes'
  BY <1>1, <1>2, <1>3, <1>4, <1>5 DEF WorkInv, WorkTypes
<1>8. JobFits(c)'
  BY <1>1 DEF WorkInv, JobFits, Proper
<1>9. WritesFit(c)'
  BY <1>1, <1>4 DEF WorkInv, WritesFit
<1>10. avus'[job[c].path] = avus[job[c].path] \cup {Head(adds[c])}
  BY <1>1, <1>3 DEF AddsOne, Write
<1>11. \A p \in Paths : Touches(c, p)
  BY <1>1, WriteTouches
<1> QED BY <1>1, <1>2, <1>4, <1>6, <1>7, <1>8, <1>9, <1>10, <1>11 DEF Moves

\* and a write whose caller sees an error.
LEMMA FailedWriteMoves ==
    ASSUME WorkInv, NEW c \in Clients, FailAfterWrite(c)
    PROVE  Moves(c) /\ (IdsInv /\ IdOnOnePath)'
           /\ owner' = owner /\ stage[c] = "write"
           /\ stage'[c] = "failed" /\ job'[c] = NoJob(c)
           /\ \A p \in Paths : Touches(c, p)
<1>1. /\ stage[c] = "write" /\ GiveUp(c) /\ owner' = owner
      /\ (\E meta \in dels[c] : DeletesOne(c, meta)) \/ AddsOne(c)
  BY DEF FailAfterWrite, DeletesOne, AddsOne, GiveUp
<1>2. avus' \in [Paths -> SUBSET AVU] /\ (IdsInv /\ IdOnOnePath)'
  BY <1>1, OneWrite
<1>3. \A p \in Paths : Touches(c, p)
  BY <1>1, WriteTouches
<1> QED BY <1>1, <1>2, <1>3, GiveUpMoves

----------------------------------------------------------------------------
(* The walks.                                                              *)

\* The phases of a creation.
Creating == {"read", "nodes", "create", "complete", "rootId", "marker"}

WalkTypes ==
    /\ phase \in [Coordinators -> Phases]
    /\ root \in [Coordinators -> Paths \cup {None}]
    /\ unread \in [Coordinators -> SUBSET Paths]
    /\ tree \in [Coordinators -> [Paths -> [ids : SUBSET Ids, marked : BOOLEAN]]]
    /\ todo \in [Coordinators -> Seq(DataObjects)]
    /\ errors \in [Coordinators -> SUBSET Paths]
    /\ rootId \in [Coordinators -> Ids \cup {None}]
    /\ granted \subseteq Collections \X Ids

\* The operation a walk has called is the one that its phase is about.
Calls(c) ==
    stage[c] # "failed" =>
        /\ phase[c] \in {"create", "complete"} =>
              job[c].op = phase[c] /\ job[c].path = Head(todo[c])
        /\ phase[c] \in {"rootId", "marker"} =>
              job[c].op = "upsert" /\ job[c].path = root[c]
        /\ phase[c] = "rootId" =>
              job[c].attr = DrsIdAvuAttrib /\ job[c].value = rootId[c]
        /\ phase[c] = "marker" => job[c].attr = DrsAvuCompoundManifestAttrib
        /\ phase[c] = "strip" => job[c].op \in Removers

\* A walk that has called no operation runs none; the ids it knows are those of
\* the paths it has them for; and a creation is about a collection of its own.
WalkFits(c) ==
    /\ phase[c] \in Resting \cup {"read", "nodes"} => stage[c] \notin Active
    /\ \A p \in Paths : \A id \in tree[c][p].ids : owner[id] = p
    /\ rootId[c] # None => root[c] \in Collections /\ owner[rootId[c]] = root[c]
    /\ phase[c] \in Creating => root[c] \in RootsOf[c]
    /\ phase[c] \in Creating \ {"read"} => rootId[c] # None
    /\ phase[c] \in {"create", "complete"} => todo[c] # <<>>
    /\ Calls(c)

CInv == WorkInv /\ WalkTypes /\ \A c \in Coordinators : WalkFits(c)

\* p is registered; and so is every data object that r includes.
HasId(p) == IdsIn(avus[p]) # {}
MembersHaveIds(r) == \A p \in Included(r) : HasId(p)

\* While nobody strips: what is registered stays so, and a walk that has met no
\* error has registered what it has done with.
ClientKeeps(c) ==
    /\ job[c].op \notin Removers
    /\ job[c].op = "create" /\ (stage[c] = "done" \/ (stage[c] = "write" /\ ~IdPending(c))) =>
          HasId(job[c].path)

WalkKeeps(c) ==
    /\ phase[c] # "strip"
    /\ \A p \in DataObjects : tree[c][p].ids # {} => HasId(p)
    /\ phase[c] \in {"nodes", "create", "complete"} /\ errors[c] = {} =>
          \A p \in Included(root[c]) : HasId(p) \/ p \in Listed(todo[c])
    /\ phase[c] = "complete" => HasId(Head(todo[c]))
    /\ phase[c] \in {"rootId", "marker"} => MembersHaveIds(root[c])

MarkedHaveMembers == \A r \in Collections : IsManifest(avus[r]) => MembersHaveIds(r)

MembersInv ==
    /\ \A c \in Clients : ClientKeeps(c)
    /\ \A c \in Coordinators : WalkKeeps(c)
    /\ MarkedHaveMembers

\* An upsert on a collection that no other coordinator works on deletes every
\* value there is and leaves the one it adds.
UpsertFits(c) ==
    LET metas == MetasOf(avus[job[c].path], job[c].attr)
        new   == DrsAvu(job[c].attr, job[c].value)
    IN  job[c].op = "upsert" /\ OneCoordinator(job[c].path) =>
            /\ stage[c] = "write" /\ adds[c] # <<>> => metas \subseteq dels[c] /\ adds[c] = <<new>>
            /\ stage[c] = "write" /\ adds[c] = <<>> => dels[c] = {} /\ metas = {new}
            /\ stage[c] = "done" => metas = {new}

\* While nobody strips: a creation never gets beyond the snapshot of a compound
\* object that it has created before.
RootGrant(c) ==
    OneCoordinator(root[c]) =>
        /\ phase[c] = "marker" /\ errors[c] = {} => IdsIn(avus[root[c]]) = {rootId[c]}
        /\ \A g \in granted : g[1] = root[c] =>
              /\ phase[c] \notin Creating \ {"read"}
              /\ phase[c] = "read" => root[c] \in unread[c] \/ tree[c][root[c]].marked

GrantedKept ==
    \A g \in granted : OneCoordinator(g[1]) =>
        IdsIn(avus[g[1]]) = {g[2]} /\ IsManifest(avus[g[1]])

GrantInv ==
    /\ \A c \in Clients : UpsertFits(c)
    /\ \A c \in Coordinators : RootGrant(c)
    /\ GrantedKept

----------------------------------------------------------------------------
(* Steps of operations, and steps of walks.                                *)

\* A step of the operation that c runs, whether c goes on after it or not.
OpStep(c) ==
    Step(c) \/ PlanComplete(c) \/ PlanUpsert(c) \/ Fail(c) \/ FailAfterWrite(c)

\* It leaves c with its operation, with no operation, or with the path that a
\* search has found.
Stays(c) ==
    \/ job'[c] = job[c]
    \/ stage'[c] = "failed" /\ job'[c] = NoJob(c)
    \/ job[c].op \in Readers /\ job'[c].op = job[c].op

LEMMA OpMoves ==
    ASSUME WorkInv, NEW c \in Clients, OpStep(c)
    PROVE  /\ WorkInv' /\ Moves(c) /\ Stays(c) /\ stage[c] \in Active
           /\ \A p \in Paths : Touches(c, p)
<1>1. CASE Query(c)
  BY <1>1, QueryMoves, SameInv DEF Query, Stays, Touches, Active
<1>2. CASE Load(c)
  BY <1>2, LoadMoves, SameInv DEF Load, Stays, Touches, Active
<1>3. CASE Resolve(c)
  BY <1>3, ResolveMoves, SameInv DEF Resolve, Stays, Touches, Active
<1>4. CASE PlanCreate(c)
  BY <1>4, CreateMoves, SameInv DEF Stays, Touches, Active
<1>5. CASE PlanUpdateField(c) \/ PlanUpdateAliases(c) \/ PlanComplete(c)
  BY <1>5, PlanPlain, SameInv DEF Stays, Touches, Active
<1>6. CASE PlanRemoveSingle(c) \/ PlanStrip(c)
  BY <1>6, PlanRemoval, SameInv DEF Stays, Touches, Active
<1>7. CASE PlanUpsert(c)
  BY <1>7, UpsertMoves, SameInv DEF Stays, Touches, Active
<1>8. CASE DeleteNext(c)
  BY <1>8, DeleteMoves, MoveInv DEF Stays, Active
<1>9. CASE AddNext(c)
  BY <1>9, AddMoves, MoveInv DEF Stays, Active
<1>10. CASE Finish(c)
  BY <1>10, FinishMoves, SameInv DEF Stays, Touches, Active
<1>11. CASE Fail(c)
  BY <1>11, RefuseMoves, SameInv DEF Fail, Stays, Touches
<1>12. CASE FailAfterWrite(c)
  BY <1>12, FailedWriteMoves, MoveInv DEF Stays, Active
<1> QED BY <1>1, <1>2, <1>3, <1>4, <1>5, <1>6, <1>7, <1>8, <1>9, <1>10, <1>11, <1>12
        DEF OpStep, Step

\* A step of a walk that calls no operation.
LEMMA WalkRests ==
    ASSUME WorkInv, UNCHANGED <<avus, stage, job, dels, adds>>,
           OwnersStay, owner' \in [Ids -> Paths \cup {None}]
    PROVE  WorkInv'
<1>1. \A d \in Clients : JobFits(d)' /\ WritesFit(d)'
  BY MoveOthers
<1>2. (IdsInv /\ IdOnOnePath)'
  BY IdsStay
<1>3. WorkTypes'
  BY DEF WorkInv, WorkTypes
<1> QED BY <1>1, <1>2, <1>3 DEF WorkInv

\* The walk of d is where it was.
Waits(d) ==
    /\ phase'[d] = phase[d] /\ root'[d] = root[d] /\ unread'[d] = unread[d]
    /\ tree'[d] = tree[d] /\ todo'[d] = todo[d] /\ errors'[d] = errors[d]
    /\ rootId'[d] = rootId[d]

LEMMA WaitsFit ==
    ASSUME CInv, NEW d \in Coordinators, OwnersStay, Waits(d), stage'[d] = stage[d],
           job'[d] = job[d]
    PROVE  WalkFits(d)'
<1>1. /\ WalkFits(d) /\ None \notin Paths /\ None \notin Ids
      /\ tree[d] \in [Paths -> [ids : SUBSET Ids, marked : BOOLEAN]]
      /\ rootId[d] \in Ids \cup {None}
  BY NoneIsNothing DEF CInv, WalkTypes
<1>2. \A p \in Paths : \A id \in tree[d][p].ids : owner'[id] = p
  BY <1>1 DEF WalkFits, OwnersStay
<1>3. rootId[d] # None => owner'[rootId[d]] = root[d]
  <2> SUFFICES ASSUME rootId[d] # None PROVE owner'[rootId[d]] = root[d]
    OBVIOUS
  <2>1. owner[rootId[d]] = root[d] /\ rootId[d] \in Ids
    BY <1>1 DEF WalkFits
  <2>2. root[d] # None
    BY <1>1, TreeIsTree DEF WalkFits
  <2> QED BY <2>1, <2>2 DEF OwnersStay
<1>4. Calls(d)'
  BY <1>1 DEF Waits, WalkFits, Calls
<1> QED BY <1>1, <1>2, <1>3, <1>4 DEF Waits, WalkFits

\* A step of a walk that calls an operation.
Called(c, op, path, attr, value) ==
    /\ stage'[c] = FirstStage(op) /\ stage'[c] \in Active
    /\ job'[c].op = op /\ job'[c].path = path
    /\ job'[c].attr = attr /\ job'[c].value = value

LEMMA CallMoves ==
    ASSUME WorkInv, NEW c \in Coordinators, NEW op \in WorkOps, NEW path \in Paths,
           NEW attr \in DrsAttribs, NEW value \in Ids \cup Texts \cup {Blank},
           Call(c, op, path, attr, value),
           op # "upsert" => value \in Texts \cup {Blank},
           op = "create" => path \in DataObjects,
           op = "upsert" =>
              /\ path \in RootsOf[c]
              /\ \/ attr = DrsIdAvuAttrib /\ value \in Ids /\ owner[value] = path
                 \/ attr = DrsAvuCompoundManifestAttrib /\ value \in Texts
    PROVE  WorkInv' /\ Moves(c) /\ avus' = avus /\ owner' = owner
           /\ stage[c] \notin Active /\ Called(c, op, path, attr, value)
<1> DEFINE j == [op |-> op, path |-> path, attr |-> attr, value |-> value,
                 mime |-> Blank, aliases |-> <<>>, id |-> None]
<1>1. Begin(c, j) /\ stage[c] \notin Active /\ c \in Clients
  BY TreeIsTree DEF Call, Begin
<1>2. j \in WorkType
  <2>1. <<>> \in Seq(Texts \cup {Blank})
    OBVIOUS
  <2> QED BY <2>1 DEF WorkType
<1>3. /\ j.op = op /\ j.path = path /\ j.attr = attr /\ j.value = value
  OBVIOUS
<1> HIDE DEF j
<1>4. Proper(c, j)
  BY <1>3 DEF Proper
<1>5. Moves(c) /\ avus' = avus /\ owner' = owner
      /\ stage'[c] = FirstStage(j.op) /\ job'[c] = j
  BY <1>1, <1>2, <1>4, BeginMoves
<1>6. WorkInv'
  BY <1>1, <1>5, SameInv
<1>7. FirstStage(op) \in Active
  BY DEF FirstStage, Active
<1> QED BY <1>1, <1>3, <1>5, <1>6, <1>7 DEF Called

LEMMA CallOnMoves ==
    ASSUME WorkInv, NEW c \in Coordinators, NEW op \in {"create", "complete"} \cup Removers,
           NEW path \in Paths, CallOn(c, op, path),
           op = "create" => path \in DataObjects
    PROVE  WorkInv' /\ Moves(c) /\ avus' = avus /\ owner' = owner
           /\ stage[c] \notin Active /\ Called(c, op, path, DrsIdAvuAttrib, Blank)
<1>1. op \in WorkOps /\ op # "upsert"
  BY DEF WorkOps, Creators, Removers
<1>2. DrsIdAvuAttrib \in DrsAttribs
  BY DEF DrsAttribs
<1> QED BY <1>1, <1>2, CallMoves DEF CallOn

\* What has to be shown of a step of a walk.
WalkMoves(c) ==
    /\ WorkInv' /\ WalkTypes' /\ WalkFits(c)'
    /\ Apart(c) /\ OwnersStay
    /\ \A d \in Coordinators \ {c} : Waits(d)

LEMMA WalkInv ==
    ASSUME CInv, NEW c \in Coordinators, WalkMoves(c)
    PROVE  CInv'
<1>1. ASSUME NEW d \in Coordinators PROVE WalkFits(d)'
  <2>1. CASE d # c
    <3>1. d \in Clients
      BY TreeIsTree
    <3>2. stage'[d] = stage[d] /\ job'[d] = job[d] /\ Waits(d) /\ OwnersStay
      BY <2>1, <3>1 DEF WalkMoves, Apart
    <3> QED BY <3>2, WaitsFit
  <2> QED BY <2>1 DEF WalkMoves
<1> QED BY <1>1 DEF CInv, WalkMoves

\* A step of an operation is none of the walks'.
LEMMA OpInv ==
    ASSUME CInv, NEW c \in Clients, OpStep(c), UNCHANGED walk
    PROVE  CInv'
<1>1. /\ WorkInv' /\ Moves(c) /\ Stays(c) /\ stage[c] \in Active
  BY OpMoves DEF CInv
<1>2. WalkTypes' /\ \A d \in Coordinators : Waits(d)
  BY DEF CInv, WalkTypes, walk, Waits
<1>3. ASSUME NEW d \in Coordinators, d # c PROVE WalkFits(d)'
  <2>1. d \in Clients
    BY TreeIsTree
  <2>2. stage'[d] = stage[d] /\ job'[d] = job[d] /\ OwnersStay
    BY <1>1, <1>3, <2>1 DEF Moves, Apart
  <2> QED BY <1>2, <2>2, WaitsFit
<1>4. ASSUME c \in Coordinators PROVE WalkFits(c)'
  <2>1. WalkFits(c) /\ Waits(c) /\ OwnersStay
    BY <1>1, <1>2, <1>4 DEF CInv, Moves
  <2>2. phase[c] \notin Resting \cup {"read", "nodes"}
    BY <1>1, <2>1 DEF WalkFits
  <2>3. Calls(c)'
    <3>1. CASE stage'[c] = "failed"
      BY <3>1 DEF Calls
    <3>2. CASE stage'[c] # "failed"
      <4>1. stage[c] # "failed"
        BY <1>1 DEF Active
      <4>2. CASE job'[c] = job[c]
        BY <2>1, <4>1, <4>2 DEF Waits, WalkFits, Calls
      <4>3. CASE job[c].op \in Readers
        <5>1. phase[c] \in {"create", "complete", "rootId", "marker", "strip"}
          BY <1>4, <2>2 DEF CInv, WalkTypes, Phases
        <5>2. job[c].op \in {"create", "complete", "upsert"} \cup Removers
          BY <2>1, <4>1, <5>1 DEF WalkFits, Calls
        <5> QED BY <4>3, <5>2 DEF Readers, Removers
      <4> QED BY <1>1, <3>2, <4>2, <4>3 DEF Stays
    <3> QED BY <3>1, <3>2
  <2>4. \A p \in Paths : \A id \in tree[c][p].ids : owner'[id] = p
    <3>1. /\ tree[c] \in [Paths -> [ids : SUBSET Ids, marked : BOOLEAN]] /\ None \notin Paths
      BY <1>4, NoneIsNothing DEF CInv, WalkTypes
    <3> QED BY <2>1, <3>1 DEF WalkFits, OwnersStay
  <2>5. rootId[c] # None => owner'[rootId[c]] = root[c]
    <3>1. rootId[c] \in Ids \cup {None} /\ None \notin Paths /\ Collections \subseteq Paths
      BY <1>4, NoneIsNothing, TreeIsTree DEF CInv, WalkTypes
    <3> QED BY <2>1, <3>1 DEF WalkFits, OwnersStay
  <2> QED BY <2>1, <2>2, <2>3, <2>4, <2>5 DEF Waits, WalkFits
<1> QED BY <1>1, <1>2, <1>3, <1>4 DEF CInv

\* The steps of a walk that leave everything else alone:
LEMMA VarsRest ==
    ASSUME CInv, NEW c \in Coordinators, UNCHANGED vars
    PROVE  WorkInv' /\ Apart(c) /\ OwnersStay
           /\ stage' = stage /\ job' = job /\ dels' = dels /\ adds' = adds
           /\ avus' = avus /\ owner' = owner
<1>1. UNCHANGED <<avus, stage, job, dels, adds, owner>>
  BY DEF vars, catalog, client, history
<1>2. OwnersStay /\ owner' \in [Ids -> Paths \cup {None}]
  BY <1>1 DEF OwnersStay, CInv, WorkInv, WorkTypes
<1>3. WorkInv'
  BY <1>1, <1>2, WalkRests DEF CInv
<1> QED BY <1>1, <1>2, <1>3 DEF Apart

LEMMA BeginCompoundMoves ==
    ASSUME CInv, NEW c \in Coordinators, BeginCompound(c)
    PROVE  WalkMoves(c) /\ avus' = avus
<1>1. /\ phase[c] \in Resting /\ phase' = [phase EXCEPT ![c] = "read"]
      /\ tree' = [tree EXCEPT ![c] = NoTree]
      /\ errors' = [errors EXCEPT ![c] = {}]
      /\ rootId' = [rootId EXCEPT ![c] = None]
      /\ UNCHANGED <<vars, todo, granted>>
  BY DEF BeginCompound, GoTo
<1>2. PICK r \in RootsOf[c] :
         /\ root' = [root EXCEPT ![c] = r]
         /\ unread' = [unread EXCEPT ![c] = Subtree(r)]
  BY DEF BeginCompound
<1>3. r \in Paths /\ Subtree(r) \subseteq Paths
  BY TreeIsTree DEF Subtree
<1>4. WorkInv' /\ Apart(c) /\ OwnersStay /\ stage' = stage /\ avus' = avus
  BY <1>1, VarsRest
<1>5. WalkTypes /\ WalkFits(c)
  BY DEF CInv
<1>6. WalkTypes'
  <2>1. NoTree \in [Paths -> [ids : SUBSET Ids, marked : BOOLEAN]]
    BY DEF NoTree, NoNode
  <2> QED BY <1>1, <1>2, <1>3, <1>5, <2>1 DEF WalkTypes, Phases, Resting
<1>7. WalkFits(c)'
  <2>1. /\ phase'[c] = "read" /\ tree'[c] = NoTree /\ rootId'[c] = None /\ root'[c] = r
    BY <1>1, <1>2, <1>5 DEF WalkTypes
  <2>2. stage'[c] \notin Active
    BY <1>1, <1>4, <1>5 DEF WalkFits
  <2>3. \A p \in Paths : tree'[c][p].ids = {}
    BY <2>1 DEF NoTree, NoNode
  <2> QED BY <2>1, <2>2, <2>3 DEF WalkFits, Calls, Creating
<1>8. \A d \in Coordinators \ {c} : Waits(d)
  BY <1>1, <1>2, <1>5 DEF WalkTypes, Waits
<1> QED BY <1>4, <1>6, <1>7, <1>8 DEF WalkMoves

LEMMA ReadNodeMoves ==
    ASSUME CInv, NEW c \in Coordinators, ReadNode(c)
    PROVE  WalkMoves(c) /\ avus' = avus
<1>1. /\ phase[c] = "read" /\ UNCHANGED <<vars, phase, root, todo, errors, rootId, granted>>
  BY DEF ReadNode
<1>2. PICK p \in Reachable(c) :
         /\ tree' = [tree EXCEPT ![c][p] = [ids |-> IdsIn(avus[p]),
                                            marked |-> IsManifest(avus[p])]]
         /\ unread' = [unread EXCEPT ![c] = @ \ {p}]
  BY DEF ReadNode
<1>3. WorkInv' /\ Apart(c) /\ OwnersStay /\ stage' = stage /\ avus' = avus /\ owner' = owner
  BY <1>1, VarsRest
<1>4. WalkTypes /\ WalkFits(c) /\ IdsInv /\ IdOnOnePath
  BY DEF CInv, WorkInv
<1>5. p \in Paths /\ IdsIn(avus[p]) \in SUBSET Ids /\ IsManifest(avus[p]) \in BOOLEAN
  BY <1>4 DEF WalkTypes, Reachable, IdsInv, IsManifest
<1> DEFINE node == [ids |-> IdsIn(avus[p]), marked |-> IsManifest(avus[p])]
<1>6. node \in [ids : SUBSET Ids, marked : BOOLEAN] /\ node.ids = IdsIn(avus[p])
  BY <1>5
<1> HIDE DEF node
<1>7. tree' = [tree EXCEPT ![c][p] = node]
  BY <1>2 DEF node
<1>8. tree'[c] = [tree[c] EXCEPT ![p] = node]
  BY <1>4, <1>7 DEF WalkTypes
<1>9. WalkTypes'
  <2>1. tree[c] \in [Paths -> [ids : SUBSET Ids, marked : BOOLEAN]]
    BY <1>4 DEF WalkTypes
  <2>2. [tree[c] EXCEPT ![p] = node] \in [Paths -> [ids : SUBSET Ids, marked : BOOLEAN]]
    BY <1>6, <2>1
  <2>3. tree' \in [Coordinators -> [Paths -> [ids : SUBSET Ids, marked : BOOLEAN]]]
    BY <1>4, <1>7, <2>2 DEF WalkTypes
  <2>4. unread' \in [Coordinators -> SUBSET Paths]
    BY <1>2, <1>4 DEF WalkTypes
  <2> QED BY <1>1, <1>4, <2>3, <2>4 DEF WalkTypes
<1>10. WalkFits(c)'
  <2>1. ASSUME NEW q \in Paths, NEW id \in tree'[c][q].ids PROVE owner'[id] = q
    <3>1. tree[c] \in [Paths -> [ids : SUBSET Ids, marked : BOOLEAN]]
      BY <1>4 DEF WalkTypes
    <3>2. CASE q = p
      <4>1. tree'[c][q] = node
        BY <1>5, <1>8, <3>1, <3>2
      <4>2. id \in IdsIn(avus[p]) /\ id \in Ids
        BY <1>5, <1>6, <2>1, <4>1
      <4> QED BY <1>3, <1>4, <1>5, <3>2, <4>2 DEF IdOnOnePath
    <3>3. CASE q # p
      <4>1. tree'[c][q] = tree[c][q]
        BY <1>8, <3>1, <3>3
      <4> QED BY <1>3, <1>4, <2>1, <4>1 DEF WalkFits
    <3> QED BY <3>2, <3>3
  <2> QED BY <1>1, <1>3, <1>4, <2>1 DEF WalkFits, Calls
<1>11. \A d \in Coordinators \ {c} : Waits(d)
  BY <1>1, <1>2, <1>4, <1>7 DEF WalkTypes, Waits
<1> QED BY <1>3, <1>9, <1>10, <1>11 DEF WalkMoves

\* the ends of a walk,
LEMMA EndMoves ==
    ASSUME CInv, NEW c \in Coordinators,
           RefuseTree(c) \/ EndWithErrors(c) \/ EndCompound(c) \/ EndStrip(c)
    PROVE  WalkMoves(c) /\ avus' = avus
<1>1. /\ phase' = [phase EXCEPT ![c] = "ended"] \/ phase' = [phase EXCEPT ![c] = "failed"]
      /\ UNCHANGED <<vars, root, unread, tree, todo, rootId>>
      /\ stage[c] \notin Active
  <2>1. phase[c] \in {"read", "nodes"} => stage[c] \notin Active
    BY DEF CInv, WalkFits
  <2> QED BY <2>1 DEF RefuseTree, EndWithErrors, EndCompound, EndStrip, GoTo, Active
<1>2. WorkInv' /\ Apart(c) /\ OwnersStay /\ stage' = stage /\ avus' = avus /\ owner' = owner
  BY <1>1, VarsRest
<1>3. WalkTypes /\ WalkFits(c)
  BY DEF CInv
<1>4. /\ errors' \in [Coordinators -> SUBSET Paths] /\ granted' \subseteq Collections \X Ids
      /\ \A d \in Coordinators \ {c} : errors'[d] = errors[d]
  <2>1. CASE EndCompound(c)
    <3>1. /\ phase[c] = "marker" /\ errors' = [errors EXCEPT ![c] = UpsertErrors(c)]
          /\ granted' = granted \/ granted' = granted \cup {<<root[c], rootId[c]>>}
      BY <2>1 DEF EndCompound
    <3>2. rootId[c] \in Ids /\ root[c] \in Collections /\ root[c] \in Paths
      <4>1. rootId[c] # None
        BY <1>3, <3>1 DEF WalkFits, Creating
      <4> QED BY <1>3, <4>1, TreeIsTree DEF WalkTypes, WalkFits
    <3>3. UpsertErrors(c) \in SUBSET Paths
      BY <1>3, <3>2 DEF WalkTypes, UpsertErrors
    <3> QED BY <1>3, <3>1, <3>2, <3>3 DEF WalkTypes
  <2>2. CASE RefuseTree(c) \/ EndWithErrors(c) \/ EndStrip(c)
    BY <1>3, <2>2 DEF WalkTypes, RefuseTree, EndWithErrors, EndStrip
  <2> QED BY <2>1, <2>2
<1>5. WalkTypes'
  BY <1>1, <1>3, <1>4 DEF WalkTypes, Phases, Resting
<1>6. WalkFits(c)'
  <2>1. phase'[c] \in {"ended", "failed"}
    BY <1>1, <1>3 DEF WalkTypes
  <2> QED BY <1>1, <1>2, <1>3, <2>1 DEF WalkFits, Calls, Creating
<1>7. \A d \in Coordinators \ {c} : Waits(d)
  BY <1>1, <1>3, <1>4 DEF WalkTypes, Waits
<1> QED BY <1>2, <1>5, <1>6, <1>7 DEF WalkMoves

\* a node that is done with,
LEMMA NodeDoneMoves ==
    ASSUME CInv, NEW c \in Coordinators, NodeDone(c)
    PROVE  WalkMoves(c) /\ avus' = avus
<1>1. /\ phase[c] \in {"create", "complete"} /\ stage[c] \in {"done", "failed"}
      /\ \/ errors' = [errors EXCEPT ![c] = @ \cup {Head(todo[c])}]
         \/ errors' = errors
      /\ todo' = [todo EXCEPT ![c] = Tail(@)]
      /\ phase' = [phase EXCEPT ![c] = "nodes"]
      /\ UNCHANGED <<vars, root, unread, tree, rootId, granted>>
  BY DEF NodeDone, GoTo
<1>2. WorkInv' /\ Apart(c) /\ OwnersStay /\ stage' = stage /\ avus' = avus /\ owner' = owner
  BY <1>1, VarsRest
<1>3. WalkTypes /\ WalkFits(c)
  BY DEF CInv
<1>4. /\ todo[c] \in Seq(DataObjects) /\ todo[c] # <<>>
      /\ Head(todo[c]) \in Paths /\ Tail(todo[c]) \in Seq(DataObjects)
  <2>1. todo[c] \in Seq(DataObjects) /\ todo[c] # <<>>
    BY <1>1, <1>3 DEF WalkTypes, WalkFits
  <2>2. Head(todo[c]) \in DataObjects /\ Tail(todo[c]) \in Seq(DataObjects)
    BY <2>1, HeadTailProperties
  <2> QED BY <2>1, <2>2 DEF DataObjects
<1>5. WalkTypes'
  <2>1. errors' \in [Coordinators -> SUBSET Paths]
    <3>1. errors \in [Coordinators -> SUBSET Paths]
      BY <1>3 DEF WalkTypes
    <3>2. errors[c] \cup {Head(todo[c])} \in SUBSET Paths
      BY <1>4, <3>1
    <3> QED BY <1>1, <3>1, <3>2
  <2>2. todo' \in [Coordinators -> Seq(DataObjects)]
    BY <1>1, <1>3, <1>4 DEF WalkTypes
  <2>3. phase' \in [Coordinators -> Phases]
    BY <1>1, <1>3 DEF WalkTypes, Phases
  <2> QED BY <1>1, <1>3, <2>1, <2>2, <2>3 DEF WalkTypes
<1>6. WalkFits(c)'
  <2>1. phase'[c] = "nodes" /\ stage'[c] \notin Active
    BY <1>1, <1>2, <1>3 DEF WalkTypes, Active
  <2> QED BY <1>1, <1>2, <1>3, <2>1 DEF WalkFits, Calls, Creating
<1>7. \A d \in Coordinators \ {c} : Waits(d)
  BY <1>1, <1>3 DEF WalkTypes, Waits
<1> QED BY <1>2, <1>5, <1>6, <1>7 DEF WalkMoves

\* the decision from the snapshot, which gives the root its id,
LEMMA CreationDataNodes ==
    ASSUME NEW r
    PROVE  /\ creationDataNodes(r) \in Seq(DataObjects)
           /\ Included(r) \subseteq DataObjects
           /\ Listed(creationDataNodes(r)) = Included(r)
<1> DEFINE dropped == DataObjects \ Included(r)
<1>1. PathOrder \in Seq(DataObjects) /\ Listed(PathOrder) = DataObjects
  <2>1. /\ PathOrder \in Seq(DataObjects)
        /\ \A p \in DataObjects : \E i \in DOMAIN PathOrder : PathOrder[i] = p
    BY TreeIsTree
  <2>2. \A i \in DOMAIN PathOrder : PathOrder[i] \in DataObjects
    BY <2>1
  <2> QED BY <2>1, <2>2 DEF Listed
<1>2. Included(r) \subseteq DataObjects
  BY DEF Included
<1> HIDE DEF dropped
<1>3. /\ Without(PathOrder, dropped) \in Seq(DataObjects \ dropped)
      /\ Listed(Without(PathOrder, dropped)) = Listed(PathOrder) \ dropped
  BY <1>1, KeptEntries
<1>4. DataObjects \ dropped = Included(r)
  BY <1>2 DEF dropped
<1>5. creationDataNodes(r) = Without(PathOrder, dropped)
  BY DEF creationDataNodes, dropped
<1>6. Without(PathOrder, dropped) \in Seq(DataObjects)
  BY <1>3
<1>7. Listed(creationDataNodes(r)) = DataObjects \ dropped
  BY <1>1, <1>3, <1>5
<1> QED BY <1>2, <1>4, <1>5, <1>6, <1>7

LEMMA CheckTreeMoves ==
    ASSUME CInv, NEW c \in Coordinators, CheckTree(c)
    PROVE  WalkMoves(c) /\ avus' = avus /\ stage' = stage /\ job' = job /\ adds' = adds
<1>1. /\ phase[c] = "read" /\ phase' = [phase EXCEPT ![c] = "nodes"]
      /\ todo' = [todo EXCEPT ![c] = creationDataNodes(root[c])]
      /\ UNCHANGED <<avus, stage, job, dels, adds, root, unread, tree, errors, granted>>
  BY DEF CheckTree, GoTo, catalog, client
<1>2. WalkTypes /\ WalkFits(c) /\ owner \in [Ids -> Paths \cup {None}]
  BY DEF CInv, WorkInv, WorkTypes
<1>3. root[c] \in Paths /\ root[c] \in Collections /\ root[c] \in RootsOf[c]
  BY <1>1, <1>2, TreeIsTree DEF WalkFits, Creating
<1>4. PICK id \in Ids :
         /\ rootId' = [rootId EXCEPT ![c] = id]
         /\ \/ owner[id] = root[c] /\ owner' = owner
            \/ owner[id] = None /\ owner' = [owner EXCEPT ![id] = root[c]]
  <2>1. ASSUME NEW id \in tree[c][root[c]].ids PROVE id \in Ids /\ owner[id] = root[c]
    BY <1>2, <1>3, <2>1 DEF WalkTypes, WalkFits
  <2>2. \A id \in FreshIds : id \in Ids /\ owner[id] = None
    BY DEF FreshIds
  <2> QED BY <2>1, <2>2 DEF CheckTree
<1>5. /\ OwnersStay /\ owner' \in [Ids -> Paths \cup {None}] /\ owner'[id] = root[c]
  BY <1>2, <1>3, <1>4 DEF OwnersStay
<1>6. WorkInv' /\ Apart(c)
  <2>1. WorkInv
    BY DEF CInv
  <2>2. UNCHANGED <<avus, stage, job, dels, adds>>
    BY <1>1
  <2> QED BY <1>5, <2>1, <2>2, WalkRests DEF Apart
<1>7. WalkTypes'
  <2>1. creationDataNodes(root[c]) \in Seq(DataObjects)
    BY CreationDataNodes
  <2>2. todo' \in [Coordinators -> Seq(DataObjects)]
    BY <1>1, <1>2, <2>1 DEF WalkTypes
  <2>3. phase' \in [Coordinators -> Phases] /\ rootId' \in [Coordinators -> Ids \cup {None}]
    BY <1>1, <1>2, <1>4 DEF WalkTypes, Phases
  <2> QED BY <1>1, <1>2, <2>2, <2>3 DEF WalkTypes
<1>8. WalkFits(c)'
  <2>1. phase'[c] = "nodes" /\ stage'[c] \notin Active /\ rootId'[c] = id /\ root'[c] = root[c]
    BY <1>1, <1>2, <1>4 DEF WalkTypes, WalkFits
  <2>2. \A p \in Paths : \A i \in tree[c][p].ids : owner'[i] = p
    <3>1. /\ tree[c] \in [Paths -> [ids : SUBSET Ids, marked : BOOLEAN]] /\ None \notin Paths
      BY <1>2, NoneIsNothing DEF WalkTypes
    <3> QED BY <1>2, <1>5, <3>1 DEF WalkFits, OwnersStay
  <2>3. rootId'[c] # None
    BY <2>1, NoneIsNothing
  <2> QED BY <1>1, <1>3, <1>5, <2>1, <2>2, <2>3 DEF WalkFits, Calls, Creating
<1>9. \A d \in Coordinators \ {c} : Waits(d)
  BY <1>1, <1>2, <1>4 DEF WalkTypes, Waits
<1> QED BY <1>1, <1>5, <1>6, <1>7, <1>8, <1>9 DEF WalkMoves

\* the calls,
LEMMA CallsFit ==
    ASSUME CInv, NEW c \in Coordinators, NEW ph \in Phases \ (Resting \cup {"read", "nodes"}),
           phase' = [phase EXCEPT ![c] = ph],
           UNCHANGED <<root, tree, todo, rootId>>, owner' = owner,
           ph # "strip" =>
              root[c] \in RootsOf[c] /\ rootId[c] # None,
           ph \in {"create", "complete"} => todo[c] # <<>>,
           Calls(c)'
    PROVE  WalkFits(c)' /\ phase' \in [Coordinators -> Phases]
<1>1. WalkTypes /\ WalkFits(c)
  BY DEF CInv
<1>2. phase'[c] = ph /\ phase' \in [Coordinators -> Phases]
  BY <1>1 DEF WalkTypes
<1>3. (phase[c] \in Creating => root[c] \in RootsOf[c])'
  BY <1>2 DEF Creating
<1>4. (phase[c] \in Creating \ {"read"} => rootId[c] # None)'
  BY <1>2 DEF Creating
<1> QED BY <1>1, <1>2, <1>3, <1>4 DEF WalkFits

LEMMA NodeCalls ==
    ASSUME CInv, NEW c \in Coordinators, WorkOnNode(c) \/ NodeCreated(c)
    PROVE  /\ WalkMoves(c) /\ avus' = avus /\ stage[c] \notin Active
           /\ \/ Called(c, "create", Head(todo[c]), DrsIdAvuAttrib, Blank)
              \/ Called(c, "complete", Head(todo[c]), DrsIdAvuAttrib, Blank)
<1>1. WalkTypes /\ WalkFits(c) /\ WorkInv
  BY DEF CInv
<1>2. PICK op \in {"create", "complete"} :
         /\ CallOn(c, op, Head(todo[c])) /\ phase' = [phase EXCEPT ![c] = op]
  BY DEF WorkOnNode, NodeCreated, GoTo
<1>3. /\ phase[c] \in {"nodes", "create"} /\ todo[c] # <<>>
      /\ UNCHANGED <<root, unread, tree, todo, errors, rootId, granted>>
  BY <1>1 DEF WorkOnNode, NodeCreated, WalkFits
<1>4. Head(todo[c]) \in DataObjects /\ Head(todo[c]) \in Paths
  BY <1>1, <1>3, HeadTailProperties DEF WalkTypes, DataObjects
<1>5. WorkInv' /\ Moves(c) /\ avus' = avus /\ owner' = owner
      /\ stage[c] \notin Active /\ Called(c, op, Head(todo[c]), DrsIdAvuAttrib, Blank)
  BY <1>1, <1>2, <1>4, CallOnMoves
<1>6. Calls(c)'
  <2>1. phase'[c] = op
    BY <1>1, <1>2 DEF WalkTypes
  <2> QED BY <1>3, <1>5, <2>1 DEF Calls, Called
<1>7. WalkFits(c)' /\ phase' \in [Coordinators -> Phases]
  <2>1. op \in Phases \ (Resting \cup {"read", "nodes"}) /\ op # "strip"
    BY DEF Phases, Resting
  <2>2. root[c] \in RootsOf[c] /\ rootId[c] # None
    BY <1>1, <1>3 DEF WalkFits, Creating
  <2> QED BY <1>2, <1>3, <1>5, <1>6, <2>1, <2>2, CallsFit
<1>8. WalkTypes'
  BY <1>1, <1>3, <1>7 DEF WalkTypes
<1>9. \A d \in Coordinators \ {c} : Waits(d)
  BY <1>1, <1>2, <1>3 DEF WalkTypes, Waits
<1> QED BY <1>5, <1>7, <1>8, <1>9 DEF WalkMoves, Moves

LEMMA WriteRootIdMoves ==
    ASSUME CInv, NEW c \in Coordinators, WriteRootId(c)
    PROVE  /\ WalkMoves(c) /\ avus' = avus /\ stage[c] \notin Active
           /\ Called(c, "upsert", root[c], DrsIdAvuAttrib, rootId[c])
<1>1. WalkTypes /\ WalkFits(c) /\ WorkInv
  BY DEF CInv
<1>2. /\ Call(c, "upsert", root[c], DrsIdAvuAttrib, rootId[c])
      /\ phase[c] = "nodes" /\ phase' = [phase EXCEPT ![c] = "rootId"]
      /\ UNCHANGED <<root, unread, tree, todo, errors, rootId, granted>>
  BY DEF WriteRootId, GoTo
<1>3. /\ root[c] \in RootsOf[c] /\ root[c] \in Paths
      /\ rootId[c] # None /\ rootId[c] \in Ids /\ owner[rootId[c]] = root[c]
  BY <1>1, <1>2, TreeIsTree DEF WalkTypes, WalkFits, Creating
<1>4. "upsert" \in WorkOps /\ DrsIdAvuAttrib \in DrsAttribs
  BY DEF WorkOps, DrsAttribs
<1>5. WorkInv' /\ Moves(c) /\ avus' = avus /\ owner' = owner
      /\ stage[c] \notin Active /\ Called(c, "upsert", root[c], DrsIdAvuAttrib, rootId[c])
  BY <1>1, <1>2, <1>3, <1>4, CallMoves
<1>6. Calls(c)'
  <2>1. phase'[c] = "rootId"
    BY <1>1, <1>2 DEF WalkTypes
  <2> QED BY <1>2, <1>5, <2>1 DEF Calls, Called
<1>7. WalkFits(c)' /\ phase' \in [Coordinators -> Phases]
  <2>1. "rootId" \in Phases \ (Resting \cup {"read", "nodes"})
    BY DEF Phases, Resting
  <2> QED BY <1>2, <1>3, <1>5, <1>6, <2>1, CallsFit
<1>8. WalkTypes'
  BY <1>1, <1>2, <1>7 DEF WalkTypes
<1>9. \A d \in Coordinators \ {c} : Waits(d)
  BY <1>1, <1>2 DEF WalkTypes, Waits
<1> QED BY <1>5, <1>7, <1>8, <1>9 DEF WalkMoves, Moves

LEMMA WriteMarkerMoves ==
    ASSUME CInv, NEW c \in Coordinators, WriteMarker(c)
    PROVE  /\ WalkMoves(c) /\ avus' = avus /\ stage[c] \notin Active
           /\ Called(c, "upsert", root[c], DrsAvuCompoundManifestAttrib, MarkerValue)
<1>1. WalkTypes /\ WalkFits(c) /\ WorkInv
  BY DEF CInv
<1>2. /\ Call(c, "upsert", root[c], DrsAvuCompoundManifestAttrib, MarkerValue)
      /\ phase[c] = "rootId" /\ phase' = [phase EXCEPT ![c] = "marker"]
      /\ errors' = [errors EXCEPT ![c] = UpsertErrors(c)]
      /\ UNCHANGED <<root, unread, tree, todo, rootId, granted>>
  BY DEF WriteMarker, GoTo
<1>3. /\ root[c] \in RootsOf[c] /\ root[c] \in Paths /\ rootId[c] # None
  BY <1>1, <1>2, TreeIsTree DEF WalkTypes, WalkFits, Creating
<1>4. /\ "upsert" \in WorkOps /\ DrsAvuCompoundManifestAttrib \in DrsAttribs
      /\ MarkerValue \in Texts
  BY MarkerHasValue DEF WorkOps, DrsAttribs, MarkerValue
<1>5. WorkInv' /\ Moves(c) /\ avus' = avus /\ owner' = owner
      /\ stage[c] \notin Active
      /\ Called(c, "upsert", root[c], DrsAvuCompoundManifestAttrib, MarkerValue)
  BY <1>1, <1>2, <1>3, <1>4, CallMoves
<1>6. Calls(c)'
  <2>1. phase'[c] = "marker"
    BY <1>1, <1>2 DEF WalkTypes
  <2> QED BY <1>2, <1>5, <2>1 DEF Calls, Called
<1>7. WalkFits(c)' /\ phase' \in [Coordinators -> Phases]
  <2>1. "marker" \in Phases \ (Resting \cup {"read", "nodes"})
    BY DEF Phases, Resting
  <2> QED BY <1>2, <1>3, <1>5, <1>6, <2>1, CallsFit
<1>8. WalkTypes'
  <2>1. UpsertErrors(c) \in SUBSET Paths
    BY <1>1, <1>3 DEF WalkTypes, UpsertErrors
  <2> QED BY <1>1, <1>2, <1>7, <2>1 DEF WalkTypes
<1>9. \A d \in Coordinators \ {c} : Waits(d)
  BY <1>1, <1>2 DEF WalkTypes, Waits
<1> QED BY <1>5, <1>7, <1>8, <1>9 DEF WalkMoves, Moves

LEMMA StripMoves ==
    ASSUME CInv, NEW c \in Coordinators, BeginStrip(c) \/ StripNext(c)
    PROVE  /\ WalkMoves(c) /\ avus' = avus /\ stage[c] \notin Active
           /\ StripsOf[c] # {} \/ phase[c] = "strip"
<1>1. WalkTypes /\ WalkFits(c) /\ WorkInv
  BY DEF CInv
<1>2. CASE BeginStrip(c)
  <2>1. PICK r \in StripsOf[c] :
           /\ root' = [root EXCEPT ![c] = r]
           /\ unread' = [unread EXCEPT ![c] = Subtree(r) \ {r}]
           /\ CallOn(c, "drsrm", r)
    BY <1>2 DEF BeginStrip
  <2>2. /\ phase' = [phase EXCEPT ![c] = "strip"]
        /\ errors' = [errors EXCEPT ![c] = {}]
        /\ rootId' = [rootId EXCEPT ![c] = None]
        /\ UNCHANGED <<tree, todo, granted>>
    BY <1>2 DEF BeginStrip, GoTo
  <2>3. r \in Paths /\ Subtree(r) \ {r} \in SUBSET Paths
    BY TreeIsTree DEF Subtree
  <2>4. "drsrm" \in Removers
    BY DEF Removers
  <2>5. WorkInv' /\ Moves(c) /\ avus' = avus /\ owner' = owner
        /\ stage[c] \notin Active /\ Called(c, "drsrm", r, DrsIdAvuAttrib, Blank)
    BY <1>1, <2>1, <2>3, <2>4, CallOnMoves
  <2>6. WalkTypes'
    BY <1>1, <2>1, <2>2, <2>3 DEF WalkTypes, Phases
  <2>7. phase'[c] = "strip" /\ rootId'[c] = None
    BY <1>1, <2>2 DEF WalkTypes
  <2>8. Calls(c)'
    BY <2>4, <2>5, <2>7 DEF Calls, Called
  <2>9. WalkFits(c)'
    BY <1>1, <2>2, <2>5, <2>7, <2>8 DEF WalkFits, Resting, Creating
  <2>10. \A d \in Coordinators \ {c} : Waits(d)
    BY <1>1, <2>1, <2>2 DEF WalkTypes, Waits
  <2> QED BY <2>5, <2>6, <2>9, <2>10 DEF WalkMoves, Moves
<1>3. CASE StripNext(c)
  <2>1. PICK p \in Reachable(c) :
           CallOn(c, "strip", p) /\ unread' = [unread EXCEPT ![c] = @ \ {p}]
    BY <1>3 DEF StripNext
  <2>2. /\ phase[c] = "strip" /\ UNCHANGED <<phase, root, tree, todo, errors, rootId, granted>>
    BY <1>3 DEF StripNext
  <2>3. p \in Paths
    BY <1>1 DEF WalkTypes, Reachable
  <2>4. "strip" \in Removers
    BY DEF Removers
  <2>5. WorkInv' /\ Moves(c) /\ avus' = avus /\ owner' = owner
        /\ stage[c] \notin Active /\ Called(c, "strip", p, DrsIdAvuAttrib, Blank)
    BY <1>1, <2>1, <2>3, <2>4, CallOnMoves
  <2>6. WalkTypes'
    BY <1>1, <2>1, <2>2 DEF WalkTypes
  <2>7. Calls(c)'
    BY <2>2, <2>4, <2>5 DEF Calls, Called
  <2>8. WalkFits(c)'
    BY <1>1, <2>2, <2>5, <2>7 DEF WalkFits, Resting, Creating
  <2>9. \A d \in Coordinators \ {c} : Waits(d)
    BY <1>1, <2>1, <2>2 DEF WalkTypes, Waits
  <2> QED BY <2>2, <2>5, <2>6, <2>8, <2>9 DEF WalkMoves, Moves
<1> QED BY <1>2, <1>3

\* and a walk that fails or dies.
LEMMA DieMoves ==
    ASSUME CInv, NEW c \in Coordinators, Die(c)
    PROVE  /\ WalkMoves(c) /\ avus' = avus
           /\ \/ stage' = stage /\ job' = job /\ dels' = dels /\ adds' = adds
              \/ stage'[c] = "failed" /\ job'[c] = NoJob(c)
<1>1. /\ phase' = [phase EXCEPT ![c] = "failed"]
      /\ UNCHANGED <<root, unread, tree, todo, errors, rootId, granted>>
  BY DEF Die, GoTo
<1>2. WalkTypes /\ WalkFits(c) /\ WorkInv /\ c \in Clients
  BY TreeIsTree DEF CInv
<1>3. WorkInv' /\ Apart(c) /\ OwnersStay /\ avus' = avus /\ owner' = owner
      /\ \/ stage' = stage /\ job' = job /\ dels' = dels /\ adds' = adds
            /\ stage[c] \notin Active
         \/ stage'[c] = "failed" /\ job'[c] = NoJob(c)
  <2>1. CASE stage[c] \in Active
    <3>1. Refuse(c)
      BY <2>1 DEF Die
    <3>2. Moves(c) /\ avus' = avus /\ owner' = owner
          /\ stage'[c] = "failed" /\ job'[c] = NoJob(c)
      BY <1>2, <3>1, RefuseMoves
    <3>3. WorkInv'
      BY <1>2, <3>2, SameInv
    <3> QED BY <3>2, <3>3 DEF Moves
  <2>2. CASE stage[c] \notin Active
    <3>1. UNCHANGED vars
      BY <2>2 DEF Die
    <3> QED BY <2>2, <3>1, VarsRest
  <2> QED BY <2>1, <2>2
<1>4. WalkTypes'
  BY <1>1, <1>2 DEF WalkTypes, Phases, Resting
<1>5. WalkFits(c)'
  <2>1. phase'[c] = "failed" /\ stage'[c] \notin Active
    BY <1>1, <1>2, <1>3 DEF WalkTypes, Active
  <2> QED BY <1>1, <1>2, <1>3, <2>1 DEF WalkFits, Calls, Creating
<1>6. \A d \in Coordinators \ {c} : Waits(d)
  BY <1>1, <1>2 DEF WalkTypes, Waits
<1> QED BY <1>3, <1>4, <1>5, <1>6 DEF WalkMoves

LEMMA InitCInv == CInit => CInv
<1> SUFFICES ASSUME CInit PROVE CInv
  OBVIOUS
<1>1. /\ Init /\ TypeOK /\ IdsInv /\ IdOnOnePath
  BY InitIInv DEF CInit, IInv
<1>2. /\ stage = [c \in Clients |-> "idle"] /\ job = [c \in Clients |-> NoJob(c)]
      /\ dels = [c \in Clients |-> {}] /\ adds = [c \in Clients |-> <<>>]
  BY <1>1 DEF Init
<1>3. <<>> \in Seq(DrsAvus) /\ <<>> \in Seq(Plain) /\ <<>> \in Seq(DataObjects)
  OBVIOUS
<1>4. WorkTypes
  BY <1>1, <1>2, <1>3, NoJobWorks DEF WorkTypes, TypeOK
<1>5. \A c \in Clients : JobFits(c) /\ WritesFit(c)
  BY <1>2, <1>3, NoJobWorks DEF JobFits, WritesFit
<1>6. WalkTypes
  <2>1. NoTree \in [Paths -> [ids : SUBSET Ids, marked : BOOLEAN]]
    BY DEF NoTree, NoNode
  <2> QED BY <1>3, <2>1 DEF CInit, WalkTypes, Phases, Resting
<1>7. ASSUME NEW c \in Coordinators PROVE WalkFits(c)
  <2>1. /\ phase[c] = "off" /\ tree[c] = NoTree /\ rootId[c] = None /\ stage[c] = "idle"
    BY <1>2, TreeIsTree DEF CInit
  <2>2. \A p \in Paths : tree[c][p].ids = {}
    BY <2>1 DEF NoTree, NoNode
  <2> QED BY <2>1, <2>2 DEF WalkFits, Calls, Creating, Active
<1> QED BY <1>1, <1>4, <1>5, <1>6, <1>7 DEF CInv, WorkInv

LEMMA StartMoves ==
    ASSUME WorkInv, NEW c \in Clients, Start(c)
    PROVE  WorkInv' /\ Moves(c) /\ avus' = avus /\ owner' = owner
           /\ stage'[c] \in {"query", "resolve", "plan"} /\ job'[c] \in JobsOf[c]
<1>1. PICK j \in JobsOf[c] : Begin(c, j)
  BY DEF Start
<1>2. j \in JobType /\ (j.op = "create" => j.path \in DataObjects)
  BY ClientsHaveJobs, CreatesNameDataObjects
<1>3. j \in WorkType /\ Proper(c, j)
  BY <1>2, JobsWork
<1>4. Moves(c) /\ avus' = avus /\ owner' = owner
      /\ stage'[c] = FirstStage(j.op) /\ job'[c] = j
  BY <1>1, <1>3, BeginMoves
<1>5. FirstStage(j.op) \in {"query", "resolve", "plan"}
  BY DEF FirstStage
<1> QED BY <1>4, <1>5, SameInv

\* A step of the system is a step of a walk, or of an operation, or a new one.
WalkStep(c) == BeginCompound(c) \/ BeginStrip(c) \/ Walk(c) \/ Die(c)

LEMMA NextSteps ==
    ASSUME CNext
    PROVE  \/ \E c \in Coordinators : WalkStep(c)
           \/ \E c \in Clients : OpStep(c) /\ UNCHANGED walk
           \/ \E c \in Clients \ Coordinators : Start(c) /\ UNCHANGED walk
BY DEF CNext, WalkStep, OpStep, CallStep

LEMMA WalkStepMoves ==
    ASSUME CInv, NEW c \in Coordinators, WalkStep(c)
    PROVE  WalkMoves(c) /\ avus' = avus
<1>1. CASE WorkOnNode(c) \/ NodeCreated(c)
  BY <1>1, NodeCalls
<1>2. CASE RefuseTree(c) \/ EndWithErrors(c) \/ EndCompound(c) \/ EndStrip(c)
  BY <1>2, EndMoves
<1>3. CASE BeginStrip(c) \/ StripNext(c)
  BY <1>3, StripMoves
<1> QED BY <1>1, <1>2, <1>3, BeginCompoundMoves, ReadNodeMoves, CheckTreeMoves,
           NodeDoneMoves, WriteRootIdMoves, WriteMarkerMoves, DieMoves
        DEF WalkStep, Walk

\* A client that starts is no coordinator.
LEMMA StartInv ==
    ASSUME CInv, NEW c \in Clients \ Coordinators, Start(c), UNCHANGED walk
    PROVE  CInv'
<1>1. WorkInv' /\ Moves(c)
  BY StartMoves DEF CInv
<1>2. WalkTypes' /\ \A d \in Coordinators : Waits(d)
  BY DEF CInv, WalkTypes, walk, Waits
<1>3. ASSUME NEW d \in Coordinators PROVE WalkFits(d)'
  <2>1. d \in Clients /\ d # c
    BY TreeIsTree
  <2>2. stage'[d] = stage[d] /\ job'[d] = job[d] /\ OwnersStay
    BY <1>1, <2>1 DEF Moves, Apart
  <2> QED BY <1>2, <2>2, WaitsFit
<1> QED BY <1>1, <1>2, <1>3 DEF CInv

LEMMA NextCInv == CInv /\ [CNext]_cvars => CInv'
<1> SUFFICES ASSUME CInv, [CNext]_cvars PROVE CInv'
  OBVIOUS
<1>1. CASE UNCHANGED cvars
  <2> USE <1>1 DEF cvars, vars, walk, catalog, client, history
  <2>1. OwnersStay /\ owner' \in [Ids -> Paths \cup {None}]
    BY DEF OwnersStay, CInv, WorkInv, WorkTypes
  <2>2. WorkInv'
    BY <2>1, WalkRests DEF CInv
  <2>3. WalkTypes' /\ \A d \in Coordinators : Waits(d)
    BY DEF CInv, WalkTypes, Waits
  <2>4. \A d \in Coordinators : WalkFits(d)'
    BY <2>1, <2>3, WaitsFit
  <2> QED BY <2>2, <2>3, <2>4 DEF CInv
<1>2. ASSUME NEW c \in Coordinators, WalkStep(c) PROVE CInv'
  BY <1>2, WalkStepMoves, WalkInv
<1>3. ASSUME NEW c \in Clients, OpStep(c), UNCHANGED walk PROVE CInv'
  BY <1>3, OpInv
<1>4. ASSUME NEW c \in Clients \ Coordinators, Start(c), UNCHANGED walk PROVE CInv'
  BY <1>4, StartInv
<1> QED BY <1>1, <1>2, <1>3, <1>4, NextSteps

\* The inductive invariant of creations, strips and clients is an invariant.
THEOREM CompoundInvariance == CSpec => []CInv
<1>1. CInit => CInv
  BY InitCInv
<1>2. CInv /\ [CNext]_cvars => CInv'
  BY NextCInv
<1> QED BY <1>1, <1>2, PTL DEF CSpec

\* Every variable keeps its type, and what creations write is never blank.
THEOREM CompoundTypes == CSpec => []CompoundTypeOK
<1>1. CInv => CompoundTypeOK
  BY DEF CInv, WorkInv, WorkTypes, WalkTypes, CompoundTypeOK
<1> QED BY <1>1, CompoundInvariance, PTL

\* With creations that run next to each other and to every other operation, an
\* id is still only ever on the path it was generated for.
THEOREM CompoundIdsStayHome == CSpec => []IdOnOnePath
<1>1. CInv => IdOnOnePath
  BY DEF CInv, WorkInv
<1> QED BY <1>1, CompoundInvariance, PTL

----------------------------------------------------------------------------
(* The preflight.                                                          *)

\* On every tree, the two ways to leave ignored nodes out agree where what is
\* below an ignored collection is ignored too.
LEMMA PreflightNodes ==
    ASSUME NEW r \in Paths, NEW ignores \in SUBSET Below[r]
    PROVE  /\ preflightNodes(r, ignores) \subseteq collectIncludedNodes(r, ignores)
           /\ (\A p \in ignores : Below[p] \subseteq ignores) =>
                 preflightNodes(r, ignores) = collectIncludedNodes(r, ignores)
<1> DEFINE hidden == UNION {Subtree(p) : p \in ignores \cap Below[r]}
<1>1. ASSUME NEW p \in Subtree(r), p \notin hidden PROVE p = r \/ p \notin ignores
  BY <1>1 DEF Subtree
<1>2. ASSUME \A q \in ignores : Below[q] \subseteq ignores,
             NEW p \in Subtree(r), p = r \/ p \notin ignores
      PROVE  p \notin hidden
  <2> SUFFICES ASSUME NEW q \in ignores, p \in Subtree(q) PROVE FALSE
    OBVIOUS
  <2>1. q \in Paths /\ q \in Below[r] /\ q # r /\ Below[q] \subseteq Below[r] /\ r \notin Below[r]
    BY TreeIsTree
  <2>2. p \in ignores
    BY <1>2 DEF Subtree
  <2> QED BY <1>2, <2>1, <2>2 DEF Subtree
<1> HIDE DEF hidden
<1>3. preflightNodes(r, ignores) = Subtree(r) \ (DefaultExcluded(r) \cup hidden)
  BY DEF preflightNodes, hidden
<1> QED BY <1>1, <1>2, <1>3 DEF collectIncludedNodes

\* From the same snapshot, the preflight announces no id that a creation would
\* not assign; and every one when the rules ignore whole subtrees.
THEOREM PreflightAgrees == CSpec => []PreflightTells
<1>1. ASSUME CInv PROVE PreflightTells
  <2> SUFFICES ASSUME NEW c \in Coordinators, phase[c] = "nodes",
                      NEW ignores \in SUBSET Below[root[c]]
               PROVE  LET announced == WillAssign(tree[c], root[c], ignores)
                          included  == collectIncludedNodes(root[c], ignores)
                          assigned  == {p \in included \cap DataObjects : tree[c][p].ids = {}}
                      IN  /\ announced \subseteq assigned
                          /\ (\A p \in ignores : Below[p] \subseteq ignores) =>
                                announced = assigned
    BY DEF PreflightTells
  <2>1. root[c] \in Paths
    BY <1>1, TreeIsTree DEF CInv, WalkFits, Creating
  <2> QED BY <2>1, PreflightNodes DEF WillAssign
<1> QED BY <1>1, CompoundInvariance, PTL

----------------------------------------------------------------------------
(* While nobody strips: the members of a compound object are registered.   *)

\* What is registered stays so.
HasIdsStay == \A p \in DataObjects : HasId(p) => HasId(p)'

\* Who adds an id or a marker to a collection is in that phase of a creation.
LEMMA UpsertPhase ==
    ASSUME CInv, NEW c \in Clients, job[c].op = "upsert", stage[c] \in Active
    PROVE  /\ c \in Coordinators /\ job[c].path = root[c] /\ root[c] \in RootsOf[c]
           /\ \/ phase[c] = "rootId" /\ job[c].attr = DrsIdAvuAttrib
              \/ phase[c] = "marker" /\ job[c].attr = DrsAvuCompoundManifestAttrib
<1>1. c \in Coordinators
  BY DEF CInv, WorkInv, JobFits, Proper
<1>2. WalkFits(c) /\ phase[c] \in Phases
  BY <1>1 DEF CInv, WalkTypes
<1>3. phase[c] \in {"create", "complete", "rootId", "marker", "strip"}
  BY <1>2 DEF WalkFits, Phases
<1>4. stage[c] # "failed" /\ Calls(c)
  BY <1>2 DEF WalkFits, Active
<1>5. phase[c] \in {"rootId", "marker"}
  BY <1>3, <1>4 DEF Calls, Removers
<1> QED BY <1>1, <1>2, <1>4, <1>5 DEF WalkFits, Calls, Creating

\* No step takes the last id off a data object when it is no removal.
LEMMA TouchedKeepsIds ==
    ASSUME CInv, NEW c \in Clients, job[c].op \notin Removers,
           NEW p \in DataObjects, Touches(c, p)
    PROVE  IdsIn(avus[p]) \subseteq IdsIn(avus'[p])
<1>1. CASE avus'[p] = avus[p]
  BY <1>1
<1>2. ASSUME stage[c] = "write", job[c].path = p, NEW meta \in dels[c],
             avus'[p] = avus[p] \ {meta}
      PROVE  IdsIn(avus[p]) \subseteq IdsIn(avus'[p])
  <2>1. CASE meta.name # DrsIdAvuAttrib
    BY <1>2, <2>1, IdsAfterDelete
  <2>2. CASE meta.name = DrsIdAvuAttrib
    <3>1. job[c].op = "upsert"
      BY <2>2 DEF CInv, WorkInv, WritesFit, KeyAttribs
    <3>2. p \in Collections
      BY <1>2, <3>1, UpsertPhase, TreeIsTree DEF Active
    <3> QED BY <3>2 DEF DataObjects
  <2> QED BY <2>1, <2>2
<1>3. ASSUME avus'[p] = avus[p] \cup {Head(adds[c])}
      PROVE  IdsIn(avus[p]) \subseteq IdsIn(avus'[p])
  BY <1>3, IdsAfterAdd
<1> QED BY <1>1, <1>2, <1>3 DEF Touches

LEMMA MarkerAfter ==
    ASSUME NEW metas, NEW meta, ~IsManifest(metas)
    PROVE  /\ ~IsManifest(metas \ {meta})
           /\ IsManifest(metas \cup {meta}) => meta.name = DrsAvuCompoundManifestAttrib
BY DEF IsManifest, MetasOf, DrsMetas

\* A marker appears on a collection only at the end of its creation.
LEMMA MarkerAppears ==
    ASSUME CInv, NEW c \in Clients, NEW r \in Collections, Touches(c, r),
           ~IsManifest(avus[r]), IsManifest(avus'[r])
    PROVE  c \in Coordinators /\ phase[c] = "marker" /\ root[c] = r
<1>1. /\ stage[c] = "write" /\ job[c].path = r /\ adds[c] # <<>>
      /\ Head(adds[c]).name = DrsAvuCompoundManifestAttrib
  <2>1. ~\E meta \in dels[c] : avus'[r] = avus[r] \ {meta}
    BY MarkerAfter
  <2>2. /\ stage[c] = "write" /\ job[c].path = r /\ adds[c] # <<>>
        /\ avus'[r] = avus[r] \cup {Head(adds[c])}
    BY <2>1 DEF Touches
  <2>3. IsManifest(avus[r] \cup {Head(adds[c])})
    BY <2>2
  <2>4. Head(adds[c]).name = DrsAvuCompoundManifestAttrib
    BY <2>3, MarkerAfter
  <2> QED BY <2>2, <2>4
<1>2. CInv => WorkInv
  BY DEF CInv
<1>3. AddsKey(c)
  <2>1. Head(adds[c]) \notin Plain
    BY <1>1 DEF Plain, KeyAttribs
  <2>2. ~AddsId(c)
    <3>1. \A id : DrsAvu(DrsIdAvuAttrib, id).name # DrsAvuCompoundManifestAttrib
      BY DEF DrsAvu, DrsIdAvuAttrib, DrsAvuCompoundManifestAttrib
    <3> QED BY <1>1, <3>1 DEF AddsId
  <2> QED BY <1>1, <1>2, <2>1, <2>2, NextWrite
<1>4. job[c].op = "upsert" /\ job[c].attr = DrsAvuCompoundManifestAttrib
  BY <1>1, <1>3 DEF AddsKey, DrsAvu
<1> QED BY <1>1, <1>4, UpsertPhase DEF Active, DrsIdAvuAttrib, DrsAvuCompoundManifestAttrib

LEMMA OpKeepsIds ==
    ASSUME CInv, MembersInv, NEW c \in Clients, OpStep(c)
    PROVE  HasIdsStay
<1>1. job[c].op \notin Removers
  BY DEF MembersInv, ClientKeeps
<1>2. \A p \in DataObjects : Touches(c, p)
  BY OpMoves DEF CInv, DataObjects
<1>3. \A p \in DataObjects : IdsIn(avus[p]) \subseteq IdsIn(avus'[p])
  BY <1>1, <1>2, TouchedKeepsIds
<1> QED BY <1>3 DEF HasIdsStay, HasId

\* Who does nothing keeps what it has.
LEMMA IdleClientKeeps ==
    ASSUME CInv, HasIdsStay, NEW d \in Clients, ClientKeeps(d),
           stage'[d] = stage[d], job'[d] = job[d], adds'[d] = adds[d]
    PROVE  ClientKeeps(d)'
<1>1. job[d].op = "create" => job[d].path \in DataObjects
  BY DEF CInv, WorkInv, JobFits, Proper
<1>2. IdPending(d)' = IdPending(d)
  BY DEF IdPending
<1>3. HasId(job[d].path)' = (IdsIn(avus'[job[d].path]) # {})
  BY DEF HasId
<1>4. job[d].op = "create" /\ HasId(job[d].path) => HasId(job[d].path)'
  BY <1>1, <1>3 DEF HasIdsStay, HasId
<1> QED BY <1>2, <1>4 DEF ClientKeeps

LEMMA IdleWalkKeeps ==
    ASSUME CInv, HasIdsStay, NEW d \in Coordinators, WalkKeeps(d), Waits(d)
    PROVE  WalkKeeps(d)'
<1>1. /\ Included(root[d]) \subseteq DataObjects
      /\ phase[d] = "complete" => Head(todo[d]) \in DataObjects
  <2>1. phase[d] = "complete" => todo[d] \in Seq(DataObjects) /\ todo[d] # <<>>
    BY DEF CInv, WalkTypes, WalkFits
  <2> QED BY <2>1, HeadTailProperties, CreationDataNodes
<1>2. phase[d] = "complete" => (IdsIn(avus'[Head(todo[d])]) # {})
  BY <1>1 DEF WalkKeeps, HasIdsStay, HasId
<1>3. MembersHaveIds(root[d]) => \A p \in Included(root[d]) : IdsIn(avus'[p]) # {}
  BY <1>1 DEF MembersHaveIds, HasIdsStay, HasId
<1>4. \A p \in DataObjects : tree[d][p].ids # {} => IdsIn(avus'[p]) # {}
  BY DEF WalkKeeps, HasIdsStay, HasId
<1>5. phase[d] \in {"nodes", "create", "complete"} /\ errors[d] = {} =>
         \A p \in Included(root[d]) : IdsIn(avus'[p]) # {} \/ p \in Listed(todo[d])
  BY <1>1 DEF WalkKeeps, HasIdsStay, HasId
<1> QED BY <1>2, <1>3, <1>4, <1>5 DEF WalkKeeps, Waits, HasId, MembersHaveIds

\* A create that has written its id, or returned, has an id on its path.
LEMMA CreateKeeps ==
    ASSUME CInv, HasIdsStay, NEW c \in Clients, ClientKeeps(c), OpStep(c),
           job'[c] = job[c], job[c].op = "create",
           stage'[c] = "done" \/ (stage'[c] = "write" /\ ~IdPending(c)')
    PROVE  IdsIn(avus'[job[c].path]) # {}
<1>1. /\ WorkInv /\ job[c].path \in DataObjects
      /\ IdPending(c)' = (adds'[c] # <<>> /\ Head(adds'[c]).name = DrsIdAvuAttrib)
  BY DEF CInv, WorkInv, JobFits, Proper, IdPending
<1>2. HasId(job[c].path) => IdsIn(avus'[job[c].path]) # {}
  BY <1>1 DEF HasIdsStay, HasId
<1>3. CASE PlanCreate(c)
  BY <1>1, <1>3, CreateMoves
<1>4. CASE DeleteNext(c)
  <2>1. stage[c] = "write" /\ ~IdPending(c)
    BY <1>1, <1>4, DeleteMoves DEF IdPending
  <2> QED BY <1>2, <2>1 DEF ClientKeeps
<1>5. CASE AddNext(c)
  <2>1. /\ stage[c] = "write" /\ adds[c] # <<>>
        /\ avus'[job[c].path] = avus[job[c].path] \cup {Head(adds[c])}
    BY <1>1, <1>5, AddMoves
  <2>2. CASE IdPending(c)
    <3>1. Head(adds[c]).name = DrsIdAvuAttrib /\ isDrsMetadata(Head(adds[c]))
      BY <1>1, <2>1, <2>2, NextWrite DEF IdPending, DrsAvus
    <3>2. IdsIn(avus'[job[c].path]) = IdsIn(avus[job[c].path]) \cup {Head(adds[c]).value}
      BY <2>1, <3>1, IdsAfterAdd
    <3> QED BY <3>2
  <2>3. CASE ~IdPending(c)
    BY <1>2, <2>1, <2>3 DEF ClientKeeps
  <2> QED BY <2>2, <2>3
<1>6. CASE Finish(c)
  <2>1. stage[c] = "write" /\ ~IdPending(c)
    BY <1>1, <1>6, FinishMoves DEF IdPending
  <2> QED BY <1>2, <2>1 DEF ClientKeeps
<1>7. CASE Fail(c) \/ FailAfterWrite(c)
  <2>1. stage'[c] = "failed"
    BY <1>1, <1>7, RefuseMoves, FailedWriteMoves DEF Fail
  <2> QED BY <2>1
<1>8. CASE Query(c) \/ Load(c) \/ Resolve(c)
  <2>1. stage'[c] \in {"load", "failed", "plan"} \/ job[c].op \in Readers
    BY <1>1, <1>8, QueryMoves, LoadMoves, ResolveMoves
  <2> QED BY <2>1 DEF Readers
<1>9. CASE PlanUpdateField(c) \/ PlanUpdateAliases(c) \/ PlanComplete(c)
  BY <1>1, <1>9, PlanPlain DEF Updaters
<1>10. CASE PlanRemoveSingle(c) \/ PlanStrip(c)
  BY <1>1, <1>10, PlanRemoval DEF Removers
<1>11. CASE PlanUpsert(c)
  BY <1>1, <1>11, UpsertMoves
<1> QED BY <1>3, <1>4, <1>5, <1>6, <1>7, <1>8, <1>9, <1>10, <1>11 DEF OpStep, Step

LEMMA OpClientKeeps ==
    ASSUME CInv, NoStrips, HasIdsStay, NEW c \in Clients, ClientKeeps(c), OpStep(c)
    PROVE  ClientKeeps(c)'
<1>1. Stays(c) /\ WorkInv'
  BY OpMoves DEF CInv
<1>2. NoJob(c).op \notin Removers
  BY NoJobType DEF NoStrips, NoRemovers
<1>3. job'[c].op \notin Removers
  BY <1>1, <1>2 DEF Stays, ClientKeeps
<1>4. ASSUME job'[c].op = "create", stage'[c] = "done" \/ (stage'[c] = "write" /\ ~IdPending(c)')
      PROVE  IdsIn(avus'[job'[c].path]) # {}
  <2>1. job'[c] = job[c]
    BY <1>1, <1>4 DEF Stays, Readers
  <2> QED BY <1>4, <2>1, CreateKeeps
<1>5. HasId(job[c].path)' = (IdsIn(avus'[job'[c].path]) # {})
  BY DEF HasId
<1> QED BY <1>3, <1>4, <1>5 DEF ClientKeeps

LEMMA OpMembers ==
    ASSUME CInv, NoStrips, MembersInv, NEW c \in Clients, OpStep(c), UNCHANGED walk
    PROVE  MembersInv'
<1>1. HasIdsStay /\ CInv'
  BY OpKeepsIds, OpInv
<1>2. Moves(c) /\ \A p \in Paths : Touches(c, p)
  BY OpMoves DEF CInv
<1>3. ASSUME NEW d \in Clients PROVE ClientKeeps(d)'
  <2>1. CASE d = c
    BY <1>1, <2>1, OpClientKeeps DEF MembersInv
  <2>2. CASE d # c
    BY <1>1, <1>2, <2>2, IdleClientKeeps DEF MembersInv, Moves, Apart
  <2> QED BY <2>1, <2>2
<1>4. ASSUME NEW d \in Coordinators PROVE WalkKeeps(d)'
  <2>1. Waits(d)
    BY DEF walk, Waits
  <2> QED BY <1>1, <2>1, IdleWalkKeeps DEF MembersInv
<1>5. MarkedHaveMembers'
  <2> SUFFICES ASSUME NEW r \in Collections, IsManifest(avus'[r])
               PROVE  \A p \in Included(r) : IdsIn(avus'[p]) # {}
    BY DEF MarkedHaveMembers, MembersHaveIds, HasId
  <2>1. MembersHaveIds(r)
    <3>1. CASE IsManifest(avus[r])
      BY <3>1 DEF MembersInv, MarkedHaveMembers
    <3>2. CASE ~IsManifest(avus[r])
      <4>1. Touches(c, r)
        BY <1>2, TreeIsTree
      <4>2. c \in Coordinators /\ phase[c] = "marker" /\ root[c] = r
        BY <3>2, <4>1, MarkerAppears
      <4> QED BY <4>2 DEF MembersInv, WalkKeeps
    <3> QED BY <3>1, <3>2
  <2>2. Included(r) \subseteq DataObjects
    BY CreationDataNodes
  <2> QED BY <1>1, <2>1, <2>2 DEF MembersHaveIds, HasIdsStay, HasId
<1> QED BY <1>3, <1>4, <1>5 DEF MembersInv

\* A walk calls operations that take no id away.
LEMMA WalkStepCalls ==
    ASSUME CInv, NoStrips, NEW c \in Coordinators, phase[c] # "strip", WalkStep(c)
    PROVE  /\ phase'[c] # "strip"
           /\ \/ stage' = stage /\ job' = job /\ dels' = dels /\ adds' = adds
              \/ stage'[c] = "failed" /\ job'[c] = NoJob(c)
              \/ stage'[c] \in {"query", "resolve", "plan"}
                 /\ job'[c].op \in {"create", "complete", "upsert"}
<1>1. phase \in [Coordinators -> Phases] /\ StripsOf[c] = {}
  BY DEF CInv, WalkTypes, NoStrips
<1>2. \A op : FirstStage(op) \in {"query", "resolve", "plan"}
  BY DEF FirstStage
<1>3. CASE BeginCompound(c) \/ ReadNode(c) \/ RefuseTree(c) \/ NodeDone(c)
           \/ EndWithErrors(c) \/ EndCompound(c) \/ EndStrip(c)
  <2>1. UNCHANGED vars
    BY <1>3 DEF BeginCompound, ReadNode, RefuseTree, NodeDone, EndWithErrors,
                EndCompound, EndStrip
  <2>2. phase'[c] # "strip"
    BY <1>1, <1>3 DEF BeginCompound, ReadNode, RefuseTree, NodeDone, EndWithErrors,
                      EndCompound, EndStrip, GoTo
  <2> QED BY <2>1, <2>2 DEF vars, client
<1>4. CASE CheckTree(c)
  BY <1>1, <1>4 DEF CheckTree, GoTo, client
<1>5. CASE WorkOnNode(c) \/ NodeCreated(c)
  <2>1. phase'[c] # "strip"
    BY <1>1, <1>5 DEF WorkOnNode, NodeCreated, GoTo
  <2> QED BY <1>2, <1>5, <2>1, NodeCalls DEF Called
<1>6. CASE WriteRootId(c)
  <2>1. phase'[c] # "strip"
    BY <1>1, <1>6 DEF WriteRootId, GoTo
  <2> QED BY <1>2, <1>6, <2>1, WriteRootIdMoves DEF Called
<1>7. CASE WriteMarker(c)
  <2>1. phase'[c] # "strip"
    BY <1>1, <1>7 DEF WriteMarker, GoTo
  <2> QED BY <1>2, <1>7, <2>1, WriteMarkerMoves DEF Called
<1>8. CASE BeginStrip(c) \/ StripNext(c)
  BY <1>1, <1>8 DEF BeginStrip, StripNext
<1>9. CASE Die(c)
  <2>1. phase'[c] # "strip"
    BY <1>1, <1>9 DEF Die, GoTo
  <2> QED BY <1>9, <2>1, DieMoves
<1> QED BY <1>3, <1>4, <1>5, <1>6, <1>7, <1>8, <1>9 DEF WalkStep, Walk

\* Every phase of a creation keeps its share of the invariant.
LEMMA BeginCompoundKeeps ==
    ASSUME CInv, NEW c \in Coordinators, BeginCompound(c)
    PROVE  WalkKeeps(c)'
<1>1. WalkTypes
  BY DEF CInv
<1>2. phase'[c] = "read" /\ tree'[c] = NoTree
  BY <1>1 DEF BeginCompound, GoTo, WalkTypes
<1>3. \A p \in DataObjects : tree'[c][p].ids = {}
  BY <1>2 DEF NoTree, NoNode, DataObjects
<1> QED BY <1>2, <1>3 DEF WalkKeeps

LEMMA ReadNodeKeeps ==
    ASSUME CInv, NEW c \in Coordinators, WalkKeeps(c), ReadNode(c)
    PROVE  WalkKeeps(c)'
<1>1. WalkTypes
  BY DEF CInv
<1>2. phase[c] = "read" /\ phase' = phase /\ avus' = avus
  BY DEF ReadNode, vars, catalog
<1>3. PICK p \in Reachable(c) :
         tree' = [tree EXCEPT ![c][p] = [ids |-> IdsIn(avus[p]),
                                         marked |-> IsManifest(avus[p])]]
  BY DEF ReadNode
<1> DEFINE node == [ids |-> IdsIn(avus[p]), marked |-> IsManifest(avus[p])]
<1>4. node.ids = IdsIn(avus[p]) /\ tree' = [tree EXCEPT ![c][p] = node]
  BY <1>3
<1> HIDE DEF node
<1>5. ASSUME NEW q \in DataObjects, tree'[c][q].ids # {} PROVE IdsIn(avus[q]) # {}
  <2>1. /\ tree[c] \in [Paths -> [ids : SUBSET Ids, marked : BOOLEAN]]
        /\ tree'[c] = [tree[c] EXCEPT ![p] = node] /\ q \in Paths
    BY <1>1, <1>4 DEF WalkTypes, DataObjects
  <2>2. CASE q = p
    BY <1>4, <1>5, <2>1, <2>2
  <2>3. CASE q # p
    BY <1>5, <2>1, <2>3 DEF WalkKeeps, HasId
  <2> QED BY <2>2, <2>3
<1> QED BY <1>2, <1>5 DEF WalkKeeps, HasId

LEMMA CheckTreeKeeps ==
    ASSUME CInv, NEW c \in Coordinators, WalkKeeps(c), CheckTree(c)
    PROVE  WalkKeeps(c)'
<1>1. WalkTypes
  BY DEF CInv
<1>2. /\ phase'[c] = "nodes" /\ todo'[c] = creationDataNodes(root[c])
      /\ tree' = tree /\ root' = root /\ avus' = avus
  BY <1>1 DEF CheckTree, GoTo, WalkTypes, catalog
<1>3. Listed(todo'[c]) = Included(root'[c])
  BY <1>2, CreationDataNodes
<1> QED BY <1>2, <1>3 DEF WalkKeeps, HasId

LEMMA NodeCallsKeep ==
    ASSUME CInv, NEW c \in Coordinators, c \in Clients, ClientKeeps(c), WalkKeeps(c),
           WorkOnNode(c) \/ NodeCreated(c)
    PROVE  WalkKeeps(c)'
<1>1. WalkTypes /\ WalkFits(c) /\ avus' = avus
  BY NodeCalls DEF CInv
<1>2. /\ phase[c] \in {"nodes", "create"} /\ phase'[c] \in {"create", "complete"}
      /\ UNCHANGED <<root, tree, todo, errors>>
      /\ todo[c] # <<>>
  BY <1>1 DEF WorkOnNode, NodeCreated, GoTo, WalkTypes, WalkFits
<1>3. Head(todo[c]) \in DataObjects
  BY <1>1, <1>2, HeadTailProperties DEF WalkTypes
<1>4. phase'[c] = "complete" => HasId(Head(todo[c]))
  <2>1. CASE WorkOnNode(c)
    <3>1. phase'[c] = "complete" => tree[c][Head(todo[c])].ids # {}
      BY <1>1, <2>1 DEF WorkOnNode, GoTo, WalkTypes
    <3> QED BY <1>3, <3>1 DEF WalkKeeps
  <2>2. CASE NodeCreated(c)
    BY <1>1, <2>2 DEF NodeCreated, WalkFits, Calls, ClientKeeps
  <2> QED BY <2>1, <2>2
<1> QED BY <1>1, <1>2, <1>4 DEF WalkKeeps, HasId

LEMMA NodeDoneKeeps ==
    ASSUME CInv, NEW c \in Coordinators, WalkKeeps(c), NodeDone(c)
    PROVE  WalkKeeps(c)'
<1>1. WalkTypes /\ WalkFits(c) /\ avus' = avus
  BY NodeDoneMoves DEF CInv
<1>2. /\ phase[c] \in {"create", "complete"} /\ phase'[c] = "nodes"
      /\ UNCHANGED <<root, tree>> /\ todo'[c] = Tail(todo[c])
      /\ errors'[c] = {} => phase[c] = "complete" /\ errors[c] = {}
  BY <1>1 DEF NodeDone, GoTo, WalkTypes
<1>3. Listed(todo[c]) = {Head(todo[c])} \cup Listed(Tail(todo[c]))
  BY <1>1, <1>2, ListedTail DEF WalkTypes, WalkFits
<1>4. errors'[c] = {} => \A p \in Included(root[c]) : HasId(p) \/ p \in Listed(todo'[c])
  BY <1>2, <1>3 DEF WalkKeeps
<1> QED BY <1>1, <1>2, <1>4 DEF WalkKeeps, HasId

LEMMA RootKeeps ==
    ASSUME CInv, NEW c \in Coordinators, WalkKeeps(c), WriteRootId(c) \/ WriteMarker(c)
    PROVE  WalkKeeps(c)'
<1>1. WalkTypes /\ avus' = avus
  BY WriteRootIdMoves, WriteMarkerMoves DEF CInv
<1>2. /\ phase'[c] \in {"rootId", "marker"} /\ UNCHANGED <<root, tree>>
  BY <1>1 DEF WriteRootId, WriteMarker, GoTo, WalkTypes
<1>3. MembersHaveIds(root[c])
  <2>1. CASE WriteRootId(c)
    <3>1. phase[c] = "nodes" /\ errors[c] = {} /\ todo[c] = <<>>
      BY <2>1 DEF WriteRootId
    <3>2. Listed(todo[c]) = {}
      BY <3>1 DEF Listed
    <3> QED BY <3>1, <3>2 DEF WalkKeeps, MembersHaveIds
  <2>2. CASE WriteMarker(c)
    BY <2>2 DEF WriteMarker, WalkKeeps
  <2> QED BY <2>1, <2>2
<1> QED BY <1>1, <1>2, <1>3 DEF WalkKeeps, MembersHaveIds, HasId

LEMMA RestingKeeps ==
    ASSUME CInv, NEW c \in Coordinators, WalkKeeps(c), avus' = avus, tree' = tree,
           phase'[c] \in Resting
    PROVE  WalkKeeps(c)'
BY DEF WalkKeeps, HasId, Resting

LEMMA WalkMembers ==
    ASSUME CInv, NoStrips, MembersInv, NEW c \in Coordinators, WalkStep(c)
    PROVE  MembersInv'
<1>1. WalkMoves(c) /\ avus' = avus /\ c \in Clients
  BY WalkStepMoves, TreeIsTree
<1>2. HasIdsStay
  BY <1>1 DEF HasIdsStay, HasId
<1>3. ClientKeeps(c) /\ WalkKeeps(c) /\ phase[c] # "strip"
  BY <1>1 DEF MembersInv, WalkKeeps
<1>4. ASSUME NEW d \in Clients PROVE ClientKeeps(d)'
  <2>1. CASE d = c
    <3>1. CASE stage' = stage /\ job' = job /\ adds' = adds
      BY <1>2, <1>3, <2>1, <3>1, IdleClientKeeps
    <3>2. CASE stage'[c] = "failed" /\ job'[c] = NoJob(c)
      <4>1. NoJob(c).op \notin Removers
        BY <1>1, NoJobType DEF NoStrips, NoRemovers
      <4> QED BY <2>1, <3>2, <4>1 DEF ClientKeeps
    <3>3. CASE /\ stage'[c] \in {"query", "resolve", "plan"}
               /\ job'[c].op \in {"create", "complete", "upsert"}
      BY <2>1, <3>3 DEF ClientKeeps, Removers
    <3> QED BY <1>3, <3>1, <3>2, <3>3, WalkStepCalls
  <2>2. CASE d # c
    BY <1>1, <1>2, <2>2, IdleClientKeeps DEF MembersInv, WalkMoves, Apart
  <2> QED BY <2>1, <2>2
<1>5. WalkKeeps(c)'
  <2>1. CASE RefuseTree(c) \/ EndWithErrors(c) \/ EndCompound(c) \/ EndStrip(c) \/ Die(c)
    <3>1. phase \in [Coordinators -> Phases]
      BY DEF CInv, WalkTypes
    <3>2. phase'[c] \in Resting /\ tree' = tree
      BY <2>1, <3>1 DEF RefuseTree, EndWithErrors, EndCompound, EndStrip, Die, GoTo, Resting
    <3> QED BY <1>1, <1>3, <3>2, RestingKeeps
  <2>2. CASE BeginStrip(c) \/ StripNext(c)
    BY <1>3, <2>2 DEF NoStrips, BeginStrip, StripNext
  <2>3. CASE WorkOnNode(c) \/ NodeCreated(c)
    BY <1>1, <1>3, <2>3, NodeCallsKeep
  <2>4. CASE WriteRootId(c) \/ WriteMarker(c)
    BY <1>3, <2>4, RootKeeps
  <2> QED BY <1>3, <2>1, <2>2, <2>3, <2>4, BeginCompoundKeeps, ReadNodeKeeps,
             CheckTreeKeeps, NodeDoneKeeps DEF WalkStep, Walk
<1>6. ASSUME NEW d \in Coordinators PROVE WalkKeeps(d)'
  <2>1. CASE d = c
    BY <1>5, <2>1
  <2>2. CASE d # c
    BY <1>1, <1>2, <2>2, IdleWalkKeeps DEF MembersInv, WalkMoves
  <2> QED BY <2>1, <2>2
<1>7. MarkedHaveMembers'
  BY <1>1 DEF MembersInv, MarkedHaveMembers, MembersHaveIds, HasId
<1> QED BY <1>4, <1>6, <1>7 DEF MembersInv

LEMMA StartMembers ==
    ASSUME CInv, NoStrips, MembersInv, NEW c \in Clients, Start(c), UNCHANGED walk
    PROVE  MembersInv'
<1>1. /\ Moves(c) /\ avus' = avus /\ stage'[c] \in {"query", "resolve", "plan"}
      /\ job'[c] \in JobsOf[c]
  BY StartMoves DEF CInv
<1>2. HasIdsStay
  BY <1>1 DEF HasIdsStay, HasId
<1>3. ASSUME NEW d \in Clients PROVE ClientKeeps(d)'
  <2>1. CASE d = c
    BY <1>1, <2>1 DEF ClientKeeps, NoStrips, NoRemovers
  <2>2. CASE d # c
    BY <1>1, <1>2, <2>2, IdleClientKeeps DEF MembersInv, Moves, Apart
  <2> QED BY <2>1, <2>2
<1>4. ASSUME NEW d \in Coordinators PROVE WalkKeeps(d)'
  <2>1. Waits(d)
    BY DEF walk, Waits
  <2> QED BY <1>2, <2>1, IdleWalkKeeps DEF MembersInv
<1>5. MarkedHaveMembers'
  BY <1>1 DEF MembersInv, MarkedHaveMembers, MembersHaveIds, HasId
<1> QED BY <1>3, <1>4, <1>5 DEF MembersInv

LEMMA InitMembers == CInit /\ NoStrips => MembersInv
<1> SUFFICES ASSUME CInit, NoStrips PROVE MembersInv
  OBVIOUS
<1>1. \A c \in Clients : stage[c] = "idle" /\ job[c] = NoJob(c)
  BY DEF CInit, Init
<1>2. \A c \in Clients : ClientKeeps(c)
  BY <1>1, NoJobType DEF ClientKeeps, NoStrips, NoRemovers
<1>3. ASSUME NEW c \in Coordinators PROVE WalkKeeps(c)
  <2>1. phase[c] = "off" /\ tree[c] = NoTree
    BY DEF CInit
  <2>2. \A p \in DataObjects : tree[c][p].ids = {}
    BY <2>1 DEF NoTree, NoNode, DataObjects
  <2> QED BY <2>1, <2>2 DEF WalkKeeps
<1>4. MarkedHaveMembers
  <2>1. avus \in InitialAvus
    BY DEF CInit, Init
  <2> QED BY <2>1, InitialCompounds DEF MarkedHaveMembers, MembersHaveIds, HasId
<1> QED BY <1>2, <1>3, <1>4 DEF MembersInv

LEMMA NextMembers ==
    CInv /\ NoStrips /\ MembersInv /\ [CNext]_cvars => MembersInv'
<1> SUFFICES ASSUME CInv, NoStrips, MembersInv, [CNext]_cvars PROVE MembersInv'
  OBVIOUS
<1>1. CASE UNCHANGED cvars
  <2> USE <1>1 DEF cvars, vars, walk, catalog, client
  <2>1. HasIdsStay
    BY DEF HasIdsStay, HasId
  <2>2. \A d \in Clients : ClientKeeps(d)'
    BY <2>1, IdleClientKeeps DEF MembersInv
  <2>3. ASSUME NEW d \in Coordinators PROVE WalkKeeps(d)'
    <3>1. Waits(d)
      BY DEF Waits
    <3> QED BY <2>1, <3>1, IdleWalkKeeps DEF MembersInv
  <2>4. MarkedHaveMembers'
    BY DEF MembersInv, MarkedHaveMembers, MembersHaveIds, HasId
  <2> QED BY <2>2, <2>3, <2>4 DEF MembersInv
<1>2. CASE CNext
  BY <1>2, NextSteps, WalkMembers, OpMembers, StartMembers
<1> QED BY <1>1, <1>2

\* While nobody removes registrations, a collection carries the compound marker
\* only together with registered members, whatever fails or runs at the same time.
THEOREM CompoundsHaveMembers == CSpec => []MembersRegistered
<1>1. CASE NoStrips
  <2>1. CInit => CInv /\ MembersInv
    BY <1>1, InitCInv, InitMembers
  <2>2. (CInv /\ MembersInv) /\ [CNext]_cvars => (CInv /\ MembersInv)'
    BY <1>1, NextCInv, NextMembers
  <2>3. MembersInv => MembersRegistered
    BY DEF MembersInv, MarkedHaveMembers, MembersHaveIds, HasId, MembersRegistered
  <2> QED BY <2>1, <2>2, <2>3, PTL DEF CSpec
<1>2. CASE ~NoStrips
  <2>1. MembersRegistered
    BY <1>2 DEF MembersRegistered
  <2> QED BY <2>1, PTL
<1> QED BY <1>1, <1>2

----------------------------------------------------------------------------
(* While nobody strips: the id that a creation granted stays.              *)

\* Only an upsert on a collection changes its ids, or its markers.
LEMMA KeyMetasStay ==
    ASSUME CInv, NEW c \in Clients, job[c].op \notin Removers,
           NEW r \in Collections, NEW attrib \in KeyAttribs, Touches(c, r),
           ~(stage[c] = "write" /\ job[c].op = "upsert"
                /\ job[c].path = r /\ job[c].attr = attrib)
    PROVE  MetasOf(avus'[r], attrib) = MetasOf(avus[r], attrib)
<1>1. \A metas, meta : meta.name # attrib =>
         /\ MetasOf(metas \ {meta}, attrib) = MetasOf(metas, attrib)
         /\ MetasOf(metas \cup {meta}, attrib) = MetasOf(metas, attrib)
  BY DEF MetasOf, DrsMetas
<1>2. CASE avus'[r] = avus[r]
  BY <1>2
<1>3. ASSUME stage[c] = "write", job[c].path = r, NEW meta \in dels[c],
             avus'[r] = avus[r] \ {meta}
      PROVE  meta.name # attrib
  BY <1>3 DEF CInv, WorkInv, WritesFit
<1>4. ASSUME stage[c] = "write", job[c].path = r, adds[c] # <<>>
      PROVE  Head(adds[c]).name # attrib
  <2>1. CASE Head(adds[c]) \in Plain
    BY <2>1 DEF Plain
  <2>2. CASE AddsId(c)
    <3>1. job[c].path \in DataObjects
      BY <2>2 DEF AddsId, CInv, WorkInv, JobFits, Proper
    <3> QED BY <1>4, <3>1 DEF DataObjects
  <2>3. CASE AddsKey(c)
    <3>1. Head(adds[c]) = DrsAvu(job[c].attr, job[c].value) /\ job[c].op = "upsert"
      BY <2>3 DEF AddsKey
    <3> QED BY <1>4, <3>1 DEF DrsAvu
  <2> QED BY <1>4, <2>1, <2>2, <2>3, NextWrite DEF CInv
<1> QED BY <1>1, <1>2, <1>3, <1>4 DEF Touches

\* An upsert that does nothing, and that nobody disturbs, stays as it is.
LEMMA IdleUpsertFits ==
    ASSUME NEW d \in Clients, UpsertFits(d),
           stage'[d] = stage[d], job'[d] = job[d], dels'[d] = dels[d], adds'[d] = adds[d],
           job[d].op = "upsert" /\ OneCoordinator(job[d].path) =>
              MetasOf(avus'[job[d].path], job[d].attr) = MetasOf(avus[job[d].path], job[d].attr)
    PROVE  UpsertFits(d)'
<1>1. OneCoordinator(job[d].path)' = OneCoordinator(job[d].path)
  BY DEF OneCoordinator
<1> QED BY <1>1 DEF UpsertFits

\* Where one coordinator works, no client disturbs its upserts.
LEMMA OthersUpsert ==
    ASSUME CInv, MembersInv, NEW c \in Clients, OpStep(c), NEW d \in Clients, d # c,
           job[d].op = "upsert", OneCoordinator(job[d].path)
    PROVE  MetasOf(avus'[job[d].path], job[d].attr) = MetasOf(avus[job[d].path], job[d].attr)
<1>1. /\ d \in Coordinators /\ job[d].path \in RootsOf[d] /\ job[d].attr \in KeyAttribs
  BY DEF CInv, WorkInv, JobFits, Proper, KeyAttribs
<1>2. job[d].path \in Collections /\ job[d].path \in Paths
  BY <1>1, TreeIsTree
<1>3. Touches(c, job[d].path) /\ job[c].op \notin Removers
  BY <1>2, OpMoves DEF CInv, MembersInv, ClientKeeps
<1>4. ~(stage[c] = "write" /\ job[c].op = "upsert" /\ job[c].path = job[d].path)
  <2> SUFFICES ASSUME job[c].op = "upsert", job[c].path = job[d].path PROVE FALSE
    OBVIOUS
  <2>1. c \in Coordinators /\ job[c].path \in RootsOf[c]
    BY DEF CInv, WorkInv, JobFits, Proper
  <2> QED BY <1>1, <2>1 DEF OneCoordinator
<1> QED BY <1>1, <1>2, <1>3, <1>4, KeyMetasStay

\* An upsert makes its way from the values there are to the new one.
LEMMA OpUpsertFits ==
    ASSUME CInv, NEW c \in Clients, UpsertFits(c), OpStep(c)
    PROVE  UpsertFits(c)'
<1>1. WorkInv /\ Stays(c) /\ NoJob(c).op # "upsert"
  BY OpMoves, NoJobType DEF CInv, JobType, Creators, Updaters, Removers, Readers
<1> DEFINE path == job[c].path
           attr == job[c].attr
           new == DrsAvu(job[c].attr, job[c].value)
<1>2. SUFFICES ASSUME job'[c] = job[c], job[c].op = "upsert", OneCoordinator(path)
      PROVE  /\ stage'[c] = "write" /\ adds'[c] # <<>> =>
                   MetasOf(avus'[path], attr) \subseteq dels'[c] /\ adds'[c] = <<new>>
             /\ stage'[c] = "write" /\ adds'[c] = <<>> =>
                   dels'[c] = {} /\ MetasOf(avus'[path], attr) = {new}
             /\ stage'[c] = "done" => MetasOf(avus'[path], attr) = {new}
  <2>1. job'[c].op = "upsert" => job'[c] = job[c]
    BY <1>1 DEF Stays, Readers
  <2>2. OneCoordinator(job[c].path)' = OneCoordinator(job'[c].path)
    BY DEF OneCoordinator
  <2> QED BY <1>2, <2>1, <2>2 DEF UpsertFits
<1>3. /\ stage[c] = "write" /\ adds[c] # <<>> =>
            MetasOf(avus[path], attr) \subseteq dels[c] /\ adds[c] = <<new>>
      /\ stage[c] = "write" /\ adds[c] = <<>> =>
            dels[c] = {} /\ MetasOf(avus[path], attr) = {new}
  BY <1>2 DEF UpsertFits
<1>4. path \in Paths /\ avus \in [Paths -> SUBSET AVU] /\ dels \in [Clients -> SUBSET AVU]
  BY <1>1 DEF WorkInv, WorkTypes, WorkType
<1>5. CASE PlanUpsert(c)
  BY <1>1, <1>5, UpsertMoves
<1>6. CASE DeleteNext(c)
  <2>1. PICK meta \in dels[c] :
           /\ Write(c, avus[path] \ {meta})
           /\ dels' = [dels EXCEPT ![c] = @ \ {meta}]
    BY <1>6 DEF DeleteNext
  <2>2. avus'[path] = avus[path] \ {meta} /\ dels'[c] = dels[c] \ {meta}
    BY <1>4, <2>1 DEF Write
  <2>3. stage[c] = "write" /\ stage' = stage /\ adds' = adds /\ dels[c] # {}
    BY <1>1, <1>6, DeleteMoves
  <2>4. MetasOf(avus'[path], attr) \subseteq MetasOf(avus[path], attr) \ {meta}
    BY <2>2 DEF MetasOf, DrsMetas
  <2> QED BY <1>3, <2>2, <2>3, <2>4
<1>7. CASE AddNext(c)
  <2>1. /\ stage[c] = "write" /\ stage' = stage /\ dels' = dels /\ dels[c] = {}
        /\ adds[c] # <<>> /\ adds'[c] = Tail(adds[c])
        /\ avus'[path] = avus[path] \cup {Head(adds[c])}
    BY <1>1, <1>7, AddMoves
  <2>2. MetasOf(avus[path], attr) = {} /\ adds[c] = <<new>>
    BY <1>3, <2>1
  <2>3. adds'[c] = <<>> /\ avus'[path] = avus[path] \cup {new}
    BY <2>1, <2>2
  <2>4. isDrsMetadata(new) /\ new.name = attr
    <3>1. Head(adds[c]) \in DrsAvus /\ Head(adds[c]) = new
      BY <1>1, <2>1, <2>2, NextWrite
    <3> QED BY <3>1 DEF DrsAvus, DrsAvu
  <2> HIDE DEF new
  <2>5. MetasOf(avus'[path], attr) = {new}
    BY <2>2, <2>3, <2>4 DEF MetasOf, DrsMetas
  <2> QED BY <2>1, <2>3, <2>5
<1>8. CASE Finish(c)
  <2>1. avus' = avus /\ stage[c] = "write" /\ adds[c] = <<>> /\ stage'[c] = "done"
    BY <1>1, <1>8, FinishMoves
  <2> QED BY <1>3, <2>1
<1>9. CASE Fail(c) \/ FailAfterWrite(c)
  <2>1. stage'[c] = "failed"
    BY <1>1, <1>9, RefuseMoves, FailedWriteMoves DEF Fail
  <2> QED BY <2>1
<1>10. CASE Query(c) \/ Load(c) \/ Resolve(c)
  <2>1. stage'[c] \in {"load", "failed", "plan"}
    BY <1>1, <1>2, <1>10, QueryMoves, LoadMoves, ResolveMoves DEF Readers
  <2> QED BY <2>1
<1>11. CASE PlanUpdateField(c) \/ PlanUpdateAliases(c) \/ PlanComplete(c)
            \/ PlanRemoveSingle(c) \/ PlanStrip(c) \/ PlanCreate(c)
  BY <1>1, <1>2, <1>11, PlanPlain, PlanRemoval, CreateMoves DEF Updaters, Removers
<1> QED BY <1>5, <1>6, <1>7, <1>8, <1>9, <1>10, <1>11 DEF OpStep, Step

\* A creation whose call touches its root is beyond the snapshot.
LEMMA UpsertOnRoot ==
    ASSUME CInv, NEW c \in Clients, NEW r, stage[c] = "write",
           job[c].op = "upsert", job[c].path = r
    PROVE  /\ c \in Coordinators /\ root[c] = r /\ r \in RootsOf[c]
           /\ phase[c] \in {"rootId", "marker"} /\ phase[c] \in Creating \ {"read"}
           /\ job[c].attr = DrsIdAvuAttrib => phase[c] = "rootId"
BY UpsertPhase DEF Active, Creating, DrsIdAvuAttrib, DrsAvuCompoundManifestAttrib

\* A step of an operation keeps what was granted.
LEMMA OpGrants ==
    ASSUME CInv, NoStrips, MembersInv, GrantInv, NEW c \in Clients, OpStep(c), UNCHANGED walk
    PROVE  GrantInv'
<1>1. Moves(c) /\ (\A p \in Paths : Touches(c, p)) /\ job[c].op \notin Removers
  BY OpMoves DEF CInv, MembersInv, ClientKeeps
<1>2. ASSUME NEW d \in Clients PROVE UpsertFits(d)'
  <2>1. CASE d = c
    BY <2>1, OpUpsertFits DEF GrantInv
  <2>2. CASE d # c
    BY <1>1, <2>2, OthersUpsert, IdleUpsertFits DEF GrantInv, Moves, Apart
  <2> QED BY <2>1, <2>2
<1>3. ASSUME NEW d \in Coordinators PROVE RootGrant(d)'
  <2>1. UNCHANGED <<phase, root, unread, tree, errors, rootId, granted>>
    BY DEF walk
  <2>2. ASSUME OneCoordinator(root[d]), phase[d] = "marker", errors[d] = {}
        PROVE  IdsIn(avus'[root[d]]) = IdsIn(avus[root[d]])
    <3>1. root[d] \in RootsOf[d] /\ root[d] \in Collections /\ root[d] \in Paths
      BY <2>2, TreeIsTree DEF CInv, WalkFits, Creating
    <3>2. ~(stage[c] = "write" /\ job[c].op = "upsert"
               /\ job[c].path = root[d] /\ job[c].attr = DrsIdAvuAttrib)
      <4> SUFFICES ASSUME stage[c] = "write", job[c].op = "upsert", job[c].path = root[d],
                          job[c].attr = DrsIdAvuAttrib
                   PROVE  FALSE
        OBVIOUS
      <4>1. c \in Coordinators /\ root[d] \in RootsOf[c] /\ phase[c] = "rootId"
        BY UpsertOnRoot
      <4>2. c = d
        BY <2>2, <3>1, <4>1 DEF OneCoordinator
      <4> QED BY <2>2, <4>1, <4>2
    <3>3. MetasOf(avus'[root[d]], DrsIdAvuAttrib) = MetasOf(avus[root[d]], DrsIdAvuAttrib)
      BY <1>1, <3>1, <3>2, KeyMetasStay DEF KeyAttribs
    <3> QED BY <3>3 DEF IdsIn, ValuesOf
  <2>3. OneCoordinator(root[d])' = OneCoordinator(root[d])
    BY <2>1 DEF OneCoordinator
  <2> QED BY <2>1, <2>2, <2>3 DEF GrantInv, RootGrant
<1>4. GrantedKept'
  <2> SUFFICES ASSUME NEW g \in granted, OneCoordinator(g[1])
               PROVE  IdsIn(avus'[g[1]]) = {g[2]} /\ IsManifest(avus'[g[1]])
    BY DEF walk, GrantedKept, OneCoordinator
  <2>1. g[1] \in Collections /\ g[1] \in Paths
    BY TreeIsTree DEF CInv, WalkTypes
  <2>2. ~(stage[c] = "write" /\ job[c].op = "upsert" /\ job[c].path = g[1])
    <3> SUFFICES ASSUME stage[c] = "write", job[c].op = "upsert", job[c].path = g[1]
                 PROVE  FALSE
      OBVIOUS
    <3>1. c \in Coordinators /\ root[c] = g[1] /\ phase[c] \in Creating \ {"read"}
      BY UpsertOnRoot
    <3> QED BY <3>1 DEF GrantInv, RootGrant
  <2>3. /\ MetasOf(avus'[g[1]], DrsIdAvuAttrib) = MetasOf(avus[g[1]], DrsIdAvuAttrib)
        /\ MetasOf(avus'[g[1]], DrsAvuCompoundManifestAttrib)
              = MetasOf(avus[g[1]], DrsAvuCompoundManifestAttrib)
    BY <1>1, <2>1, <2>2, KeyMetasStay DEF KeyAttribs
  <2>4. IdsIn(avus[g[1]]) = {g[2]} /\ IsManifest(avus[g[1]])
    BY DEF GrantInv, GrantedKept
  <2> QED BY <2>3, <2>4 DEF IdsIn, ValuesOf, IsManifest
<1> QED BY <1>2, <1>3, <1>4 DEF GrantInv

\* Every phase of a creation keeps its share.
LEMMA ReadNodeGrants ==
    ASSUME CInv, GrantedKept, NEW c \in Coordinators, RootGrant(c), ReadNode(c)
    PROVE  RootGrant(c)'
<1>1. WalkTypes /\ phase[c] = "read" /\ UNCHANGED <<avus, phase, root, errors, rootId, granted>>
  BY DEF CInv, ReadNode, vars, catalog
<1>2. PICK p \in Reachable(c) :
         /\ tree' = [tree EXCEPT ![c][p] = [ids |-> IdsIn(avus[p]),
                                            marked |-> IsManifest(avus[p])]]
         /\ unread' = [unread EXCEPT ![c] = @ \ {p}]
  BY DEF ReadNode
<1> DEFINE node == [ids |-> IdsIn(avus[p]), marked |-> IsManifest(avus[p])]
<1>3. node.marked = IsManifest(avus[p]) /\ tree' = [tree EXCEPT ![c][p] = node]
  BY <1>2
<1> HIDE DEF node
<1>4. /\ tree'[c] = [tree[c] EXCEPT ![p] = node] /\ unread'[c] = unread[c] \ {p}
      /\ tree[c] \in [Paths -> [ids : SUBSET Ids, marked : BOOLEAN]]
      /\ p \in Paths
  BY <1>1, <1>2, <1>3 DEF WalkTypes, Reachable
<1>5. root[c] \in Paths
  BY <1>1, TreeIsTree DEF CInv, WalkFits, Creating
<1>6. ASSUME OneCoordinator(root[c]), NEW g \in granted, g[1] = root[c]
      PROVE  root[c] \in unread'[c] \/ tree'[c][root[c]].marked
  <2>1. IsManifest(avus[root[c]]) /\ (root[c] \in unread[c] \/ tree[c][root[c]].marked)
    BY <1>1, <1>6 DEF GrantedKept, RootGrant
  <2>2. CASE root[c] = p
    BY <1>3, <1>4, <2>1, <2>2
  <2>3. CASE root[c] # p
    BY <1>4, <1>5, <2>1, <2>3
  <2> QED BY <2>2, <2>3
<1>7. OneCoordinator(root[c])' = OneCoordinator(root[c])
  BY <1>1 DEF OneCoordinator
<1> QED BY <1>1, <1>6, <1>7 DEF RootGrant, Creating

LEMMA CheckTreeGrants ==
    ASSUME CInv, NEW c \in Coordinators, RootGrant(c), CheckTree(c)
    PROVE  RootGrant(c)'
<1>1. WalkTypes /\ UNCHANGED <<root, errors, granted>> /\ phase'[c] = "nodes"
  BY DEF CInv, CheckTree, GoTo, WalkTypes
<1>2. phase[c] = "read" /\ unread[c] = {} /\ ~Conflict(c)
  BY DEF CheckTree
<1>3. ~tree[c][root[c]].marked
  <2>1. root[c] \in Collections
    BY <1>2, TreeIsTree DEF CInv, WalkFits, Creating
  <2> QED BY <1>2, <2>1 DEF Conflict, Subtree
<1>4. OneCoordinator(root[c]) => \A g \in granted : g[1] # root[c]
  BY <1>2, <1>3 DEF RootGrant
<1>5. OneCoordinator(root[c])' = OneCoordinator(root[c])
  BY <1>1 DEF OneCoordinator
<1> QED BY <1>1, <1>4, <1>5 DEF RootGrant

LEMMA OnwardGrants ==
    ASSUME CInv, NEW c \in Coordinators, RootGrant(c), phase[c] \in Creating \ {"read"},
           phase'[c] \in Creating \ {"read", "marker"}, root' = root, granted' = granted
    PROVE  RootGrant(c)'
<1>1. OneCoordinator(root[c])' = OneCoordinator(root[c])
  BY DEF OneCoordinator
<1>2. OneCoordinator(root[c]) => \A g \in granted : g[1] # root[c]
  BY DEF RootGrant
<1> QED BY <1>1, <1>2 DEF RootGrant

LEMMA WriteMarkerGrants ==
    ASSUME CInv, NEW c \in Coordinators, c \in Clients, UpsertFits(c), RootGrant(c),
           WriteMarker(c)
    PROVE  RootGrant(c)'
<1>1. /\ WalkTypes /\ WalkFits(c) /\ phase[c] = "rootId" /\ avus' = avus
      /\ UNCHANGED <<root, rootId, granted>> /\ errors'[c] = UpsertErrors(c)
      /\ stage[c] \in {"done", "failed"}
  BY WriteMarkerMoves DEF CInv, WriteMarker, WalkTypes
<1>2. ASSUME errors'[c] = {}, OneCoordinator(root[c])
      PROVE  IdsIn(avus[root[c]]) = {rootId[c]}
  <2>1. stage[c] = "done"
    BY <1>1, <1>2 DEF UpsertErrors
  <2>2. /\ job[c].op = "upsert" /\ job[c].path = root[c]
        /\ job[c].attr = DrsIdAvuAttrib /\ job[c].value = rootId[c]
    BY <1>1, <2>1 DEF WalkFits, Calls
  <2>3. MetasOf(avus[root[c]], DrsIdAvuAttrib) = {DrsAvu(DrsIdAvuAttrib, rootId[c])}
    BY <1>2, <2>1, <2>2 DEF UpsertFits
  <2>4. DrsAvu(DrsIdAvuAttrib, rootId[c]).value = rootId[c]
    BY DEF DrsAvu
  <2> QED BY <2>3, <2>4 DEF IdsIn, ValuesOf
<1>3. OneCoordinator(root[c])' = OneCoordinator(root[c])
  BY <1>1 DEF OneCoordinator
<1>4. OneCoordinator(root[c]) => \A g \in granted : g[1] # root[c]
  BY <1>1 DEF RootGrant, Creating
<1> QED BY <1>1, <1>2, <1>3, <1>4 DEF RootGrant

LEMMA AwayGrants ==
    ASSUME NEW c \in Coordinators, phase'[c] \notin Creating
    PROVE  RootGrant(c)'
BY DEF RootGrant, Creating

\* A creation that returns without error grants the id that its root carries.
LEMMA EndCompoundGrants ==
    ASSUME CInv, GrantedKept, NEW c \in Coordinators, c \in Clients, UpsertFits(c), RootGrant(c),
           EndCompound(c)
    PROVE  GrantedKept'
<1>1. /\ WalkFits(c) /\ phase[c] = "marker" /\ avus' = avus
      /\ granted' = IF UpsertErrors(c) = {}
                    THEN granted \cup {<<root[c], rootId[c]>>} ELSE granted
      /\ stage[c] \in {"done", "failed"}
  BY EndMoves DEF CInv, EndCompound
<1>2. ASSUME UpsertErrors(c) = {}, OneCoordinator(root[c])
      PROVE  IdsIn(avus[root[c]]) = {rootId[c]} /\ IsManifest(avus[root[c]])
  <2>1. stage[c] = "done" /\ errors[c] = {}
    BY <1>1, <1>2 DEF UpsertErrors
  <2>2. /\ job[c].op = "upsert" /\ job[c].path = root[c]
        /\ job[c].attr = DrsAvuCompoundManifestAttrib
    BY <1>1, <2>1 DEF WalkFits, Calls
  <2>3. IsManifest(avus[root[c]])
    BY <1>2, <2>1, <2>2 DEF UpsertFits, IsManifest
  <2> QED BY <1>1, <1>2, <2>1, <2>3 DEF RootGrant
<1> SUFFICES ASSUME NEW g \in granted', OneCoordinator(g[1])
             PROVE  IdsIn(avus[g[1]]) = {g[2]} /\ IsManifest(avus[g[1]])
  BY <1>1 DEF GrantedKept, OneCoordinator
<1>3. CASE g \in granted
  BY <1>3 DEF GrantedKept
<1>4. CASE g = <<root[c], rootId[c]>> /\ UpsertErrors(c) = {}
  BY <1>2, <1>4
<1> QED BY <1>1, <1>3, <1>4

LEMMA WalkGrants ==
    ASSUME CInv, NoStrips, MembersInv, GrantInv, NEW c \in Coordinators, WalkStep(c)
    PROVE  GrantInv'
<1>1. WalkMoves(c) /\ avus' = avus /\ c \in Clients /\ WalkTypes
  BY WalkStepMoves, TreeIsTree DEF CInv
<1>2. UpsertFits(c) /\ RootGrant(c) /\ GrantedKept /\ phase[c] # "strip"
  BY <1>1 DEF GrantInv, MembersInv, WalkKeeps
<1>3. ASSUME NEW d \in Clients PROVE UpsertFits(d)'
  <2>1. CASE stage' = stage /\ job' = job /\ dels' = dels /\ adds' = adds
    BY <1>1, <2>1, IdleUpsertFits DEF GrantInv
  <2>2. CASE d = c /\ stage'[c] \in {"failed", "query", "resolve", "plan"}
    BY <2>2 DEF UpsertFits
  <2>3. CASE d # c
    <3>1. /\ stage'[d] = stage[d] /\ job'[d] = job[d]
          /\ dels'[d] = dels[d] /\ adds'[d] = adds[d]
      BY <1>1, <2>3 DEF WalkMoves, Apart
    <3> QED BY <1>1, <3>1, IdleUpsertFits DEF GrantInv
  <2> QED BY <1>2, <2>1, <2>2, <2>3, WalkStepCalls
<1>4. \A g \in granted' : g \in granted \/ (EndCompound(c) /\ g = <<root[c], rootId[c]>>)
  BY DEF WalkStep, Walk, BeginCompound, BeginStrip, ReadNode, CheckTree, RefuseTree,
         WorkOnNode, NodeCreated, NodeDone, EndWithErrors, WriteRootId, WriteMarker,
         EndCompound, StripNext, EndStrip, Die
<1>5. EndCompound(c) \/ granted' = granted
  BY DEF WalkStep, Walk, BeginCompound, BeginStrip, ReadNode, CheckTree, RefuseTree,
         WorkOnNode, NodeCreated, NodeDone, EndWithErrors, WriteRootId, WriteMarker,
         EndCompound, StripNext, EndStrip, Die
<1>6. GrantedKept'
  <2>1. CASE EndCompound(c)
    BY <1>1, <1>2, <2>1, EndCompoundGrants
  <2>2. CASE granted' = granted
    BY <1>1, <1>2, <2>2 DEF GrantedKept, OneCoordinator
  <2> QED BY <1>5, <2>1, <2>2
<1>7. RootGrant(c)'
  <2>1. CASE BeginCompound(c)
    <3>1. PICK r \in RootsOf[c] : /\ root' = [root EXCEPT ![c] = r]
                                  /\ unread' = [unread EXCEPT ![c] = Subtree(r)]
      BY <2>1 DEF BeginCompound
    <3>2. phase'[c] = "read" /\ root'[c] = r /\ r \in unread'[c]
      BY <1>1, <2>1, <3>1 DEF BeginCompound, GoTo, WalkTypes, Subtree
    <3> QED BY <3>2 DEF RootGrant, Creating
  <2>2. CASE WorkOnNode(c) \/ NodeCreated(c) \/ NodeDone(c) \/ WriteRootId(c)
    <3>1. /\ phase[c] \in Creating \ {"read"} /\ phase'[c] \in Creating \ {"read", "marker"}
          /\ root' = root /\ granted' = granted
      BY <1>1, <2>2 DEF WorkOnNode, NodeCreated, NodeDone, WriteRootId, GoTo, WalkTypes, Creating
    <3> QED BY <1>2, <3>1, OnwardGrants
  <2>3. CASE RefuseTree(c) \/ EndWithErrors(c) \/ EndCompound(c) \/ EndStrip(c)
             \/ Die(c) \/ BeginStrip(c)
    <3>1. phase'[c] \notin Creating
      BY <1>1, <2>3 DEF RefuseTree, EndWithErrors, EndCompound, EndStrip, Die, BeginStrip,
                        GoTo, WalkTypes, Creating
    <3> QED BY <3>1, AwayGrants
  <2>4. CASE StripNext(c)
    BY <1>2, <2>4 DEF StripNext
  <2>5. CASE ReadNode(c)
    BY <1>2, <2>5, ReadNodeGrants
  <2>6. CASE CheckTree(c)
    BY <1>2, <2>6, CheckTreeGrants
  <2>7. CASE WriteMarker(c)
    BY <1>1, <1>2, <2>7, WriteMarkerGrants
  <2> QED BY <2>1, <2>2, <2>3, <2>4, <2>5, <2>6, <2>7 DEF WalkStep, Walk
<1>8. ASSUME NEW d \in Coordinators, d # c PROVE RootGrant(d)'
  <2>1. Waits(d) /\ RootGrant(d)
    BY <1>1, <1>8 DEF WalkMoves, GrantInv
  <2>2. OneCoordinator(root[d])' = OneCoordinator(root'[d])
    BY DEF OneCoordinator
  <2>3. ASSUME OneCoordinator(root[d]), NEW g \in granted', g[1] = root[d], phase[d] \in Creating
        PROVE  g \in granted
    <3> SUFFICES ASSUME EndCompound(c), g = <<root[c], rootId[c]>> PROVE FALSE
      BY <1>4
    <3>1. root[c] \in RootsOf[c] /\ root[d] \in RootsOf[d]
      BY <2>3 DEF CInv, WalkFits, EndCompound, Creating
    <3>2. root[c] = root[d]
      BY <2>3
    <3> QED BY <1>8, <2>3, <3>1, <3>2 DEF OneCoordinator
  <2>4. CASE phase[d] \in Creating
    BY <1>1, <2>1, <2>2, <2>3, <2>4 DEF Waits, RootGrant
  <2>5. CASE phase[d] \notin Creating
    BY <2>1, <2>5, AwayGrants DEF Waits
  <2> QED BY <2>4, <2>5
<1> QED BY <1>3, <1>6, <1>7, <1>8 DEF GrantInv

LEMMA StartGrants ==
    ASSUME CInv, GrantInv, NEW c \in Clients, Start(c), UNCHANGED walk
    PROVE  GrantInv'
<1>1. /\ Moves(c) /\ avus' = avus /\ stage'[c] \in {"query", "resolve", "plan"}
  BY StartMoves DEF CInv
<1>2. ASSUME NEW d \in Clients PROVE UpsertFits(d)'
  <2>1. CASE d = c
    BY <1>1, <2>1 DEF UpsertFits
  <2>2. CASE d # c
    BY <1>1, <2>2, IdleUpsertFits DEF GrantInv, Moves, Apart
  <2> QED BY <2>1, <2>2
<1>3. ASSUME NEW d \in Coordinators PROVE RootGrant(d)'
  BY <1>1 DEF walk, GrantInv, RootGrant, OneCoordinator
<1>4. GrantedKept'
  BY <1>1 DEF walk, GrantInv, GrantedKept, OneCoordinator
<1> QED BY <1>2, <1>3, <1>4 DEF GrantInv

LEMMA InitGrants == CInit => GrantInv
<1> SUFFICES ASSUME CInit PROVE GrantInv
  OBVIOUS
<1>1. granted = {} /\ \A c \in Clients : stage[c] = "idle"
  BY DEF CInit, Init
<1>2. \A c \in Clients : UpsertFits(c)
  BY <1>1 DEF UpsertFits
<1>3. \A c \in Coordinators : RootGrant(c)
  BY <1>1 DEF CInit, RootGrant
<1> QED BY <1>1, <1>2, <1>3 DEF GrantInv, GrantedKept

LEMMA NextGrants ==
    CInv /\ NoStrips /\ MembersInv /\ GrantInv /\ [CNext]_cvars => GrantInv'
<1> SUFFICES ASSUME CInv, NoStrips, MembersInv, GrantInv, [CNext]_cvars PROVE GrantInv'
  OBVIOUS
<1>1. CASE UNCHANGED cvars
  <2> USE <1>1 DEF cvars, vars, walk, catalog, client
  <2>1. \A d \in Clients : UpsertFits(d)'
    BY IdleUpsertFits DEF GrantInv
  <2>2. \A d \in Coordinators : RootGrant(d)'
    BY DEF GrantInv, RootGrant, OneCoordinator
  <2>3. GrantedKept'
    BY DEF GrantInv, GrantedKept, OneCoordinator
  <2> QED BY <2>1, <2>2, <2>3 DEF GrantInv
<1>2. CASE CNext
  BY <1>2, NextSteps, WalkGrants, OpGrants, StartGrants
<1> QED BY <1>1, <1>2

\* The id that a successful creation returned stays on its collection, alone, as
\* long as one coordinator creates it and nobody removes registrations.
THEOREM GrantsStay == CSpec => []GrantedIdStays
<1>1. CASE NoStrips
  <2>1. CInit => CInv /\ MembersInv /\ GrantInv
    BY <1>1, InitCInv, InitMembers, InitGrants
  <2>2. (CInv /\ MembersInv /\ GrantInv) /\ [CNext]_cvars
           => (CInv /\ MembersInv /\ GrantInv)'
    BY <1>1, NextCInv, NextMembers, NextGrants
  <2>3. GrantInv => GrantedIdStays
    BY DEF GrantInv, GrantedKept, GrantedIdStays
  <2> QED BY <2>1, <2>2, <2>3, PTL DEF CSpec
<1>2. CASE ~NoStrips
  <2>1. GrantedIdStays
    BY <1>2 DEF GrantedIdStays
  <2> QED BY <2>1, PTL
<1> QED BY <1>1, <1>2

----------------------------------------------------------------------------
(* A strip that nobody disturbs leaves nothing.                            *)

Bare(p) == DrsMetas(avus[p]) = {}

\* The strip has left nothing on the nodes it has done with, and goes on to
\* leave nothing on the one it is at.
StripFits(c) ==
    phase[c] = "strip" /\ stage[c] # "failed" =>
        /\ root[c] \in Paths
        /\ \A p \in Subtree(root[c]) \ unread[c] : p = job[c].path \/ Bare(p)
        /\ stage[c] = "write" => adds[c] = <<>> /\ DrsMetas(avus[job[c].path]) \subseteq dels[c]
        /\ stage[c] = "done" => Bare(job[c].path)

StripInv ==
    \A c \in Coordinators : Clients = {c} =>
        /\ StripFits(c)
        /\ phase[c] = "strip" => rootId[c] = None
        /\ phase[c] = "ended" /\ rootId[c] = None => \A p \in Subtree(root[c]) : Bare(p)

\* A removal makes its way to the end.
LEMMA OpStripFits ==
    ASSUME CInv, NEW c \in Coordinators, c \in Clients, StripFits(c), OpStep(c), UNCHANGED walk
    PROVE  StripFits(c)'
<1>1. /\ WorkInv /\ Stays(c) /\ WalkTypes /\ WalkFits(c) /\ stage[c] # "failed"
      /\ \A p \in Paths : Touches(c, p)
  BY OpMoves DEF CInv, Active
<1>2. SUFFICES ASSUME phase[c] = "strip", stage'[c] # "failed"
      PROVE  /\ root[c] \in Paths
             /\ \A p \in Subtree(root[c]) \ unread[c] : p = job'[c].path \/ DrsMetas(avus'[p]) = {}
             /\ stage'[c] = "write" =>
                   adds'[c] = <<>> /\ DrsMetas(avus'[job'[c].path]) \subseteq dels'[c]
             /\ stage'[c] = "done" => DrsMetas(avus'[job'[c].path]) = {}
  BY <1>2 DEF walk, StripFits, Bare
<1>3. job[c].op \in Removers
  BY <1>1, <1>2 DEF WalkFits, Calls
<1>4. job'[c] = job[c]
  BY <1>1, <1>2, <1>3 DEF Stays, Readers, Removers
<1> DEFINE path == job[c].path
<1>5. path \in Paths /\ avus \in [Paths -> SUBSET AVU] /\ dels \in [Clients -> SUBSET AVU]
  BY <1>1 DEF WorkInv, WorkTypes, WorkType
<1>6. ASSUME NEW p \in Subtree(root[c]) \ unread[c], p # path PROVE DrsMetas(avus'[p]) = {}
  <2>1. DrsMetas(avus[p]) = {}
    BY <1>1, <1>2, <1>6 DEF StripFits, Bare
  <2>2. p \in Paths
    <3>1. root[c] \in Paths
      BY <1>1, <1>2 DEF StripFits
    <3> QED BY <1>6, <3>1, TreeIsTree DEF Subtree
  <2> QED BY <1>1, <1>6, <2>1, <2>2 DEF Touches
<1>7. /\ stage[c] = "write" => adds[c] = <<>> /\ DrsMetas(avus[path]) \subseteq dels[c]
      /\ stage[c] = "done" => DrsMetas(avus[path]) = {}
  BY <1>1, <1>2 DEF StripFits, Bare
<1>8. /\ stage'[c] = "write" => adds'[c] = <<>> /\ DrsMetas(avus'[path]) \subseteq dels'[c]
      /\ stage'[c] = "done" => DrsMetas(avus'[path]) = {}
  <2>1. CASE PlanRemoveSingle(c) \/ PlanStrip(c)
    <3>1. CASE Refuse(c)
      BY <1>1, <1>2, <3>1, RefuseMoves
    <3>2. CASE Plan(c, DrsMetas(avus[path]), <<>>)
      <4>1. /\ stage' = [stage EXCEPT ![c] = "write"]
            /\ dels' = [dels EXCEPT ![c] = DrsMetas(avus[path])]
            /\ adds' = [adds EXCEPT ![c] = <<>>] /\ avus' = avus
        BY <3>2 DEF Plan
      <4>2. stage'[c] = "write" /\ dels'[c] = DrsMetas(avus[path]) /\ adds'[c] = <<>>
        BY <1>1, <4>1 DEF WorkInv, WorkTypes
      <4> QED BY <4>1, <4>2
    <3> QED BY <2>1, <3>1, <3>2 DEF PlanRemoveSingle, PlanStrip
  <2>2. CASE DeleteNext(c)
    <3>1. PICK meta \in dels[c] :
             /\ Write(c, avus[path] \ {meta})
             /\ dels' = [dels EXCEPT ![c] = @ \ {meta}]
      BY <2>2 DEF DeleteNext
    <3>2. avus'[path] = avus[path] \ {meta} /\ dels'[c] = dels[c] \ {meta}
      BY <1>5, <3>1 DEF Write
    <3>3. stage[c] = "write" /\ stage' = stage /\ adds' = adds
      BY <1>1, <2>2, DeleteMoves
    <3>4. DrsMetas(avus'[path]) \subseteq DrsMetas(avus[path]) \ {meta}
      BY <3>2 DEF DrsMetas
    <3> QED BY <1>7, <3>2, <3>3, <3>4
  <2>3. CASE AddNext(c)
    BY <1>1, <1>7, <2>3, AddMoves
  <2>4. CASE Finish(c)
    BY <1>1, <1>7, <2>4, FinishMoves
  <2>5. CASE Fail(c) \/ FailAfterWrite(c)
    BY <1>1, <1>2, <2>5, RefuseMoves, FailedWriteMoves DEF Fail
  <2>6. CASE Query(c) \/ Load(c) \/ Resolve(c)
    <3>1. stage'[c] \in {"load", "failed", "plan"}
      BY <1>1, <1>3, <2>6, QueryMoves, LoadMoves, ResolveMoves DEF Readers, Removers
    <3> QED BY <3>1
  <2>7. CASE PlanUpdateField(c) \/ PlanUpdateAliases(c) \/ PlanComplete(c)
             \/ PlanUpsert(c) \/ PlanCreate(c)
    BY <1>1, <1>3, <2>7, PlanPlain, UpsertMoves, CreateMoves DEF Updaters, Removers
  <2> QED BY <2>1, <2>2, <2>3, <2>4, <2>5, <2>6, <2>7 DEF OpStep, Step
<1>9. root[c] \in Paths
  BY <1>1, <1>2 DEF StripFits
<1> QED BY <1>4, <1>6, <1>8, <1>9

LEMMA NextStrip == CInv /\ StripInv /\ [CNext]_cvars => StripInv'
<1> SUFFICES ASSUME CInv, StripInv, [CNext]_cvars, NEW c \in Coordinators, Clients = {c}
             PROVE  /\ StripFits(c)'
                    /\ phase'[c] = "strip" => rootId'[c] = None
                    /\ phase'[c] = "ended" /\ rootId'[c] = None =>
                          \A p \in Subtree(root'[c]) : DrsMetas(avus'[p]) = {}
  BY DEF StripInv, Bare
<1>1. /\ StripFits(c) /\ WalkTypes /\ WalkFits(c) /\ WorkInv
      /\ phase[c] = "strip" => rootId[c] = None
      /\ phase[c] = "ended" /\ rootId[c] = None =>
            \A p \in Subtree(root[c]) : DrsMetas(avus[p]) = {}
  BY DEF CInv, StripInv, Bare
<1>2. CASE UNCHANGED cvars
  BY <1>1, <1>2 DEF cvars, vars, walk, catalog, client, StripFits, Bare
<1>3. CASE OpStep(c) /\ UNCHANGED walk
  <2>1. StripFits(c)'
    BY <1>1, <1>3, OpStripFits
  <2>2. phase[c] # "ended"
    BY <1>1, <1>3, OpMoves DEF WalkFits, Resting
  <2> QED BY <1>1, <1>3, <2>1, <2>2 DEF walk
<1>4. CASE WalkStep(c)
  <2>1. CASE BeginCompound(c) \/ ReadNode(c) \/ CheckTree(c) \/ RefuseTree(c) \/ WorkOnNode(c)
             \/ NodeCreated(c) \/ NodeDone(c) \/ WriteRootId(c) \/ WriteMarker(c) \/ Die(c)
    <3>1. phase'[c] \notin {"strip", "ended"}
      BY <1>1, <2>1 DEF BeginCompound, ReadNode, CheckTree, RefuseTree, WorkOnNode, NodeCreated,
                        NodeDone, WriteRootId, WriteMarker, Die, GoTo, WalkTypes
    <3> QED BY <3>1 DEF StripFits
  <2>2. CASE EndWithErrors(c) \/ EndCompound(c)
    <3>1. /\ phase[c] \in {"nodes", "marker"} /\ phase'[c] = "ended" /\ rootId' = rootId
      BY <1>1, <2>2 DEF EndWithErrors, EndCompound, GoTo, WalkTypes
    <3>2. rootId[c] # None
      BY <1>1, <3>1 DEF WalkFits, Creating
    <3> QED BY <3>1, <3>2 DEF StripFits
  <2>3. CASE EndStrip(c)
    <3>1. /\ phase[c] = "strip" /\ UNCHANGED <<vars, root, unread, rootId>>
          /\ phase'[c] = "failed" \/ (phase'[c] = "ended" /\ stage[c] = "done" /\ unread[c] = {})
      BY <1>1, <2>3 DEF EndStrip, GoTo, WalkTypes
    <3>2. StripFits(c)'
      BY <3>1 DEF StripFits
    <3>3. phase'[c] = "ended" => \A p \in Subtree(root[c]) : DrsMetas(avus[p]) = {}
      BY <1>1, <3>1 DEF StripFits, Bare
    <3> QED BY <3>1, <3>2, <3>3 DEF vars, catalog
  <2>4. CASE BeginStrip(c)
    <3>1. PICK r \in StripsOf[c] :
             /\ root' = [root EXCEPT ![c] = r]
             /\ unread' = [unread EXCEPT ![c] = Subtree(r) \ {r}]
             /\ CallOn(c, "drsrm", r)
      BY <2>4 DEF BeginStrip
    <3>2. phase'[c] = "strip" /\ rootId'[c] = None /\ root'[c] = r /\ unread'[c] = Subtree(r) \ {r}
      BY <1>1, <2>4, <3>1 DEF BeginStrip, GoTo, WalkTypes
    <3>3. Called(c, "drsrm", r, DrsIdAvuAttrib, Blank)
      BY <1>1, <3>1, CallOnMoves, TreeIsTree DEF Removers
    <3>4. stage'[c] \in {"query", "resolve", "plan"} /\ job'[c].path = r
      BY <3>3 DEF Called, FirstStage
    <3>5. r \in Paths /\ c \in Coordinators
      BY <3>1, TreeIsTree
    <3>6. StripFits(c)'
      BY <3>2, <3>4, <3>5 DEF StripFits
    <3> QED BY <3>2, <3>6
  <2>5. CASE StripNext(c)
    <3>1. PICK p \in Reachable(c) :
             CallOn(c, "strip", p) /\ unread' = [unread EXCEPT ![c] = @ \ {p}]
      BY <2>5 DEF StripNext
    <3>2. /\ phase[c] = "strip" /\ stage[c] = "done" /\ unread'[c] = unread[c] \ {p}
          /\ UNCHANGED <<phase, root, rootId>> /\ p \in Paths
      BY <1>1, <2>5, <3>1 DEF StripNext, WalkTypes, Reachable
    <3>3. Called(c, "strip", p, DrsIdAvuAttrib, Blank) /\ avus' = avus
      BY <1>1, <3>1, <3>2, CallOnMoves DEF Removers
    <3>4. stage'[c] \in {"query", "resolve", "plan"} /\ job'[c].path = p
      BY <3>3 DEF Called, FirstStage
    <3>5. \A q \in Subtree(root[c]) \ unread'[c] : q = p \/ DrsMetas(avus[q]) = {}
      BY <1>1, <3>2 DEF StripFits, Bare
    <3> QED BY <1>1, <3>2, <3>3, <3>4, <3>5 DEF StripFits, Bare
  <2> QED BY <1>4, <2>1, <2>2, <2>3, <2>4, <2>5 DEF WalkStep, Walk
<1>5. Coordinators = {c}
  BY TreeIsTree
<1> QED BY <1>2, <1>3, <1>4, <1>5, NextSteps

\* A strip that nobody disturbed and that returned without error has left no DRS
\* metadata in its tree.
THEOREM StripsLeaveNothing == CSpec => []StripEffect
<1>1. CInit => CInv /\ StripInv
  BY InitCInv DEF CInit, StripInv, StripFits
<1>2. (CInv /\ StripInv) /\ [CNext]_cvars => (CInv /\ StripInv)'
  BY NextCInv, NextStrip
<1>3. StripInv => StripEffect
  BY DEF StripInv, StripEffect, Bare
<1> QED BY <1>1, <1>2, <1>3, PTL DEF CSpec

----------------------------------------------------------------------------
(* A creation that nobody disturbs registers and completes its members.    *)

Has(p, attrib) == ValuesOf(avus[p], attrib) # {}

\* What a registered data object is to have.
Wanted(p) ==
    {DrsIdAvuAttrib} \cup {attrib \in {DrsAvuMimeTypeAttrib} : MimeOf[p] # Blank}
                     \cup {attrib \in {DrsAvuVersionAttrib} : ChecksumOf[p] # Blank}

Complete(p) == \A attrib \in Wanted(p) : Has(p, attrib)
MembersComplete(r) == \A p \in Included(r) : Complete(p)

\* What the call of c is to leave on the node that c works on.
Owed(c) == IF phase[c] = "create" THEN {DrsIdAvuAttrib} ELSE Wanted(Head(todo[c]))
ToAdd(c) == {meta.name : meta \in Listed(adds[c])}

NodeFits(c) ==
    phase[c] \in {"create", "complete"} /\ stage[c] # "failed" =>
        /\ phase[c] = "complete" => Has(Head(todo[c]), DrsIdAvuAttrib)
        /\ stage[c] = "write" =>
              dels[c] = {} /\ \A attrib \in Owed(c) :
                                 Has(Head(todo[c]), attrib) \/ attrib \in ToAdd(c)
        /\ stage[c] = "done" => \A attrib \in Owed(c) : Has(Head(todo[c]), attrib)

\* A creation knows of no id that is not there, and has completed the members
\* that it is done with.
SnapshotHolds(c) ==
    phase[c] \in Creating =>
        \A p \in DataObjects : tree[c][p].ids # {} => Has(p, DrsIdAvuAttrib)

MembersFit(c) ==
    /\ phase[c] \in {"nodes", "create", "complete"} /\ errors[c] = {} =>
          \A p \in Included(root[c]) : Complete(p) \/ p \in Listed(todo[c])
    /\ phase[c] \in {"rootId", "marker"} => MembersComplete(root[c])

RootFits(c) ==
    phase[c] = "marker" /\ errors[c] = {} => IdsIn(avus[root[c]]) = {rootId[c]}

CreationFits(c) ==
    /\ SnapshotHolds(c) /\ MembersFit(c) /\ NodeFits(c)
    /\ UpsertFits(c) /\ RootFits(c)

Created(c) ==
    phase[c] = "ended" /\ rootId[c] # None /\ errors[c] = {} =>
        /\ IdsIn(avus[root[c]]) = {rootId[c]} /\ IsManifest(avus[root[c]])
        /\ MembersComplete(root[c])

CreationInv == \A c \in Coordinators : Clients = {c} => CreationFits(c) /\ Created(c)

\* What the data objects have stays while c creates.
HaveStays == \A p \in DataObjects : \A attrib : Has(p, attrib) => Has(p, attrib)'

LEMMA WantedAttribs ==
    ASSUME NEW p
    PROVE  /\ DrsIdAvuAttrib \in Wanted(p)
           /\ \A attrib \in Wanted(p) \ {DrsIdAvuAttrib} :
                 \/ attrib = DrsAvuMimeTypeAttrib /\ MimeOf[p] # Blank
                 \/ attrib = DrsAvuVersionAttrib /\ ChecksumOf[p] # Blank
BY DEF Wanted

LEMMA MoreHas ==
    ASSUME NEW metas, NEW more, metas \subseteq more, NEW attrib, ValuesOf(metas, attrib) # {}
    PROVE  ValuesOf(more, attrib) # {}
BY DEF ValuesOf, MetasOf, DrsMetas

\* A call of a creation on a node is on its first data object, any other on its
\* root.
LEMMA CreationCalls ==
    ASSUME CInv, NEW c \in Coordinators, phase[c] \in Creating, stage[c] \in Active
    PROVE  \/ /\ phase[c] \in {"create", "complete"} /\ job[c].op = phase[c]
              /\ job[c].path = Head(todo[c]) /\ Head(todo[c]) \in DataObjects
           \/ /\ phase[c] \in {"rootId", "marker"} /\ job[c].op = "upsert"
              /\ job[c].path = root[c] /\ root[c] \in Collections /\ root[c] \in Paths
              /\ phase[c] = "rootId" => job[c].attr = DrsIdAvuAttrib
              /\ phase[c] = "marker" => job[c].attr = DrsAvuCompoundManifestAttrib
<1>1. WalkFits(c) /\ WalkTypes /\ stage[c] # "failed"
  BY DEF CInv, Active
<1>2. phase[c] \in {"create", "complete", "rootId", "marker"}
  BY <1>1 DEF WalkFits, Creating
<1>3. CASE phase[c] \in {"create", "complete"}
  <2>1. todo[c] \in Seq(DataObjects) /\ todo[c] # <<>>
    BY <1>1, <1>3 DEF WalkTypes, WalkFits
  <2>2. Head(todo[c]) \in DataObjects
    BY <2>1, HeadTailProperties
  <2> QED BY <1>1, <1>3, <2>2 DEF WalkFits, Calls
<1>4. CASE phase[c] \in {"rootId", "marker"}
  <2>1. root[c] \in Collections /\ root[c] \in Paths
    BY <1>1, TreeIsTree DEF WalkFits
  <2> QED BY <1>1, <1>4, <2>1 DEF WalkFits, Calls
<1> QED BY <1>2, <1>3, <1>4

LEMMA OpHaveStays ==
    ASSUME CInv, NEW c \in Coordinators, c \in Clients, phase[c] \in Creating, NodeFits(c), OpStep(c)
    PROVE  HaveStays
<1>1. /\ stage[c] \in Active /\ stage[c] # "failed"
      /\ \A p \in DataObjects : Touches(c, p)
  BY OpMoves DEF CInv, DataObjects, Active
<1>2. ASSUME NEW p \in DataObjects, stage[c] = "write", job[c].path = p PROVE dels[c] = {}
  <2>1. phase[c] \in {"create", "complete"}
    BY <1>1, <1>2, CreationCalls DEF DataObjects
  <2> QED BY <1>1, <1>2, <2>1 DEF NodeFits
<1>3. ASSUME NEW p \in DataObjects PROVE avus[p] \subseteq avus'[p]
  BY <1>1, <1>2 DEF Touches
<1>4. ASSUME NEW p \in DataObjects, NEW attrib, ValuesOf(avus[p], attrib) # {}
      PROVE  ValuesOf(avus'[p], attrib) # {}
  BY <1>3, <1>4, MoreHas
<1> QED BY <1>4 DEF HaveStays, Has

\* The plan of a completion owes nothing that it does not add.
LEMMA CompleteAdds ==
    ASSUME WorkInv, NEW c \in Clients, PlanComplete(c), NEW p, p = job[c].path,
           Has(p, DrsIdAvuAttrib)
    PROVE  /\ dels'[c] = {}
           /\ \A attrib \in Wanted(p) :
                 Has(p, attrib) \/ attrib \in {meta.name : meta \in Listed(adds'[c])}
<1> DEFINE m == Missing(avus[p], DrsAvuMimeTypeAttrib, MimeOf[p])
           v == Missing(avus[p], DrsAvuVersionAttrib, ChecksumOf[p])
<1>1. dels'[c] = {} /\ adds'[c] = m \o v
  BY DEF WorkInv, WorkTypes, PlanComplete, Plan
<1>2. p \in Paths
  BY DEF WorkInv, WorkTypes, WorkType
<1>3. MimeOf[p] \in Texts \cup {Blank} /\ ChecksumOf[p] \in Texts \cup {Blank}
  BY <1>2, DerivedValues
<1>4. m \in Seq(Plain) /\ v \in Seq(Plain)
  BY <1>3, OptionalPlain, FieldsArePlain DEF Missing
<1>5. ASSUME NEW attrib, NEW value, value # Blank, ValuesOf(avus[p], attrib) = {}
      PROVE  attrib \in {meta.name : meta \in Listed(Missing(avus[p], attrib, value))}
  <2>1. Missing(avus[p], attrib, value) = <<DrsAvu(attrib, value)>>
    BY <1>5 DEF Missing, Optional
  <2>2. DrsAvu(attrib, value) \in Listed(<<DrsAvu(attrib, value)>>)
    BY DEF Listed
  <2> QED BY <2>1, <2>2 DEF DrsAvu
<1> HIDE DEF m, v
<1>6. Listed(m \o v) = Listed(m) \cup Listed(v)
  BY <1>4, ListedConcat
<1>7. ASSUME NEW attrib \in Wanted(p), ~Has(p, attrib)
      PROVE  attrib \in {meta.name : meta \in Listed(m \o v)}
  <2>1. CASE attrib = DrsAvuMimeTypeAttrib /\ MimeOf[p] # Blank
    BY <1>5, <1>6, <1>7, <2>1 DEF Has, m
  <2>2. CASE attrib = DrsAvuVersionAttrib /\ ChecksumOf[p] # Blank
    BY <1>5, <1>6, <1>7, <2>2 DEF Has, v
  <2> QED BY <1>7, <2>1, <2>2, WantedAttribs
<1> QED BY <1>1, <1>7

\* What a call owes its node it adds, or the node has it.
LEMMA OpNodeFits ==
    ASSUME CInv, NEW c \in Coordinators, c \in Clients, phase[c] \in {"create", "complete"},
           NodeFits(c), OpStep(c), UNCHANGED walk
    PROVE  NodeFits(c)'
<1> DEFINE p == Head(todo[c])
           owed == IF phase[c] = "create" THEN {DrsIdAvuAttrib} ELSE Wanted(p)
<1>1. /\ WorkInv /\ Stays(c) /\ stage[c] \in Active /\ HaveStays /\ phase[c] \in Creating
  BY OpMoves, OpHaveStays DEF CInv, Creating
<1>2. job[c].op = phase[c] /\ job[c].path = p /\ p \in DataObjects /\ stage[c] # "failed"
  BY <1>1, CreationCalls DEF Active
<1>3. /\ phase[c] = "complete" => Has(p, DrsIdAvuAttrib)
      /\ stage[c] = "write" =>
            /\ dels[c] = {}
            /\ \A attrib \in owed : Has(p, attrib) \/ attrib \in ToAdd(c)
  BY <1>2 DEF NodeFits, Owed
<1> HIDE DEF p
<1>4. \A attrib : Has(p, attrib) => ValuesOf(avus'[p], attrib) # {}
  BY <1>1, <1>2 DEF HaveStays, Has
<1> DEFINE added == {meta.name : meta \in Listed(adds'[c])}
<1>5. SUFFICES ASSUME stage'[c] # "failed"
      PROVE  /\ stage'[c] = "write" =>
                   dels'[c] = {} /\ \A attrib \in owed :
                                      ValuesOf(avus'[p], attrib) # {} \/ attrib \in added
             /\ stage'[c] = "done" => \A attrib \in owed : ValuesOf(avus'[p], attrib) # {}
  BY <1>3, <1>4, <1>5 DEF walk, NodeFits, Owed, ToAdd, Has, p
<1> HIDE DEF owed, added
<1>6. CASE PlanCreate(c)
  <2>1. CASE Refuse(c)
    BY <1>1, <1>5, <2>1, RefuseMoves
  <2>2. CASE \E drsID \in FreshIds : Plan(c, {}, metadataForObject(internalObject(job[c], drsID)))
    <3>1. stage'[c] = "write" /\ dels'[c] = {} /\ adds'[c] # <<>>
          /\ Head(adds'[c]).name = DrsIdAvuAttrib /\ adds'[c] \in Seq(DrsAvus)
      <4>1. dels'[c] = {}
        BY <1>1, <2>2 DEF Plan, WorkInv, WorkTypes
      <4>2. adds'[c] \in Seq(DrsAvus)
        BY <1>1, OpMoves DEF WorkInv, WorkTypes
      <4>3. stage'[c] = "write"
        BY <1>1, <2>2 DEF Plan, WorkInv, WorkTypes
      <4> QED BY <1>1, <1>6, <4>1, <4>2, <4>3, CreateMoves
    <3>2. Head(adds'[c]) \in Listed(adds'[c])
      BY <3>1, ListedTail
    <3>3. owed = {DrsIdAvuAttrib}
      BY <1>1, <1>2, <1>6, CreateMoves DEF owed
    <3> QED BY <3>1, <3>2, <3>3 DEF added
  <2> QED BY <1>6, <2>1, <2>2 DEF PlanCreate
<1>7. CASE PlanComplete(c)
  <2>1. stage'[c] = "write" /\ job[c].op = "complete"
    BY <1>1, <1>7, PlanPlain DEF PlanComplete
  <2>2. owed = Wanted(p) /\ Has(p, DrsIdAvuAttrib)
    BY <1>2, <1>3, <2>1 DEF owed
  <2>3. dels'[c] = {} /\ \A attrib \in Wanted(p) : Has(p, attrib) \/ attrib \in added
    BY <1>1, <1>2, <1>7, <2>2, CompleteAdds DEF added
  <2> QED BY <1>4, <2>1, <2>2, <2>3
<1>8. CASE DeleteNext(c)
  BY <1>1, <1>3, <1>8, DeleteMoves
<1>9. CASE AddNext(c)
  <2>1. /\ stage[c] = "write" /\ stage' = stage /\ dels' = dels
        /\ adds[c] # <<>> /\ adds'[c] = Tail(adds[c])
        /\ avus'[p] = avus[p] \cup {Head(adds[c])} /\ adds[c] \in Seq(DrsAvus)
    BY <1>1, <1>2, <1>9, AddMoves DEF WorkInv, WorkTypes
  <2>2. Head(adds[c]) \in DrsAvus /\ Listed(adds[c]) = {Head(adds[c])} \cup Listed(Tail(adds[c]))
    BY <2>1, ListedTail, HeadTailProperties
  <2>3. ValuesOf(avus'[p], Head(adds[c]).name) # {}
    <3>1. isDrsMetadata(Head(adds[c])) /\ Head(adds[c]) \in avus'[p]
      BY <2>1, <2>2 DEF DrsAvus
    <3>2. Head(adds[c]) \in MetasOf(avus'[p], Head(adds[c]).name)
      BY <3>1 DEF MetasOf, DrsMetas
    <3> HIDE DEF p
    <3> QED BY <3>2 DEF ValuesOf
  <2>4. ASSUME NEW attrib \in owed
        PROVE  ValuesOf(avus'[p], attrib) # {} \/ attrib \in added
    <3>1. Has(p, attrib) \/ attrib \in ToAdd(c)
      BY <1>3, <2>1
    <3>2. attrib \in ToAdd(c) => attrib = Head(adds[c]).name \/ attrib \in added
      BY <2>1, <2>2 DEF ToAdd, added
    <3> QED BY <1>4, <2>3, <3>1, <3>2
  <2> QED BY <1>3, <2>1, <2>4
<1>10. CASE Finish(c)
  <2>1. stage[c] = "write" /\ adds[c] = <<>> /\ stage'[c] = "done"
    BY <1>1, <1>10, FinishMoves
  <2>2. ToAdd(c) = {}
    BY <2>1 DEF ToAdd, Listed
  <2> QED BY <1>3, <1>4, <2>1, <2>2
<1>11. CASE Fail(c) \/ FailAfterWrite(c)
  BY <1>1, <1>5, <1>11, RefuseMoves, FailedWriteMoves DEF Fail
<1>12. CASE Query(c) \/ Load(c) \/ Resolve(c)
  <2>1. stage'[c] \in {"load", "failed", "plan"}
    BY <1>1, <1>2, <1>12, QueryMoves, LoadMoves, ResolveMoves DEF Readers
  <2> QED BY <2>1
<1>13. CASE PlanUpdateField(c) \/ PlanUpdateAliases(c) \/ PlanRemoveSingle(c) \/ PlanStrip(c)
             \/ PlanUpsert(c)
  <2>1. job[c].op \in {"create", "complete"}
    BY <1>2
  <2> QED BY <1>13, <2>1 DEF PlanUpdateField, PlanUpdateAliases, PlanRemoveSingle, PlanStrip,
                             PlanUpsert
<1> QED BY <1>6, <1>7, <1>8, <1>9, <1>10, <1>11, <1>12, <1>13 DEF OpStep, Step

LEMMA OpCreation ==
    ASSUME CInv, NEW c \in Coordinators, Clients = {c}, CreationFits(c), OpStep(c), UNCHANGED walk
    PROVE  CreationFits(c)'
<1>1. /\ c \in Clients /\ stage[c] \in Active /\ WalkFits(c) /\ WalkTypes
      /\ \A p \in Paths : Touches(c, p)
  BY OpMoves DEF CInv
<1>2. SnapshotHolds(c) /\ MembersFit(c) /\ NodeFits(c) /\ UpsertFits(c) /\ RootFits(c)
  BY DEF CreationFits
<1>3. UpsertFits(c)'
  BY <1>1, <1>2, OpUpsertFits
<1>4. CASE phase[c] \notin Creating
  <2>1. phase'[c] \notin Creating
    BY <1>4 DEF walk
  <2> QED BY <1>3, <2>1 DEF CreationFits, SnapshotHolds, MembersFit, NodeFits, RootFits, Creating
<1>5. CASE phase[c] \in Creating
  <2>1. HaveStays
    BY <1>1, <1>2, <1>5, OpHaveStays
  <2>2. \A p \in DataObjects : \A attrib : Has(p, attrib) => ValuesOf(avus'[p], attrib) # {}
    BY <2>1 DEF HaveStays, Has
  <2>3. \A p \in DataObjects :
           Complete(p) => \A attrib \in Wanted(p) : ValuesOf(avus'[p], attrib) # {}
    BY <2>2 DEF Complete
  <2>4. Included(root[c]) \subseteq DataObjects
    BY CreationDataNodes
  <2>5. SnapshotHolds(c)'
    BY <1>2, <2>2 DEF SnapshotHolds, Has, walk
  <2>6. MembersFit(c)'
    BY <1>2, <2>3, <2>4 DEF MembersFit, MembersComplete, Complete, Has, Wanted, walk
  <2>7. NodeFits(c)'
    <3>1. CASE phase[c] \in {"create", "complete"}
      BY <1>1, <1>2, <3>1, OpNodeFits
    <3>2. CASE phase[c] \notin {"create", "complete"}
      BY <3>2 DEF NodeFits, walk
    <3> QED BY <3>1, <3>2
  <2>8. RootFits(c)'
    <3>1. CASE phase[c] # "marker"
      BY <3>1 DEF RootFits, walk
    <3>2. CASE phase[c] = "marker"
      <4>1. /\ job[c].op = "upsert" /\ job[c].attr = DrsAvuCompoundManifestAttrib
            /\ root[c] \in Collections /\ root[c] \in Paths
        BY <1>1, <1>5, <3>2, CreationCalls
      <4>2. /\ job[c].op \notin Removers /\ DrsIdAvuAttrib \in KeyAttribs
            /\ DrsIdAvuAttrib # DrsAvuCompoundManifestAttrib
        BY <4>1 DEF Removers, KeyAttribs, DrsIdAvuAttrib, DrsAvuCompoundManifestAttrib
      <4>3. MetasOf(avus'[root[c]], DrsIdAvuAttrib) = MetasOf(avus[root[c]], DrsIdAvuAttrib)
        BY <1>1, <4>1, <4>2, KeyMetasStay
      <4> QED BY <1>2, <4>3 DEF RootFits, IdsIn, ValuesOf, walk
    <3> QED BY <3>1, <3>2
  <2> QED BY <1>3, <2>5, <2>6, <2>7, <2>8 DEF CreationFits
<1> QED BY <1>4, <1>5

\* The steps of the walk.
LEMMA WalkUpsertFits ==
    ASSUME CInv, NEW c \in Coordinators, c \in Clients, UpsertFits(c), WalkStep(c)
    PROVE  UpsertFits(c)'
<1>1. WalkMoves(c) /\ avus' = avus
  BY WalkStepMoves
<1>2. CASE stage' = stage /\ job' = job /\ dels' = dels /\ adds' = adds
  BY <1>1, <1>2, IdleUpsertFits
<1>3. CASE stage'[c] \in {"failed", "query", "resolve", "plan"}
  BY <1>3 DEF UpsertFits
<1>4. CASE BeginStrip(c) \/ StripNext(c)
  <2>1. stage'[c] \in {"query", "resolve", "plan"}
    BY <1>4 DEF BeginStrip, StripNext, CallOn, Call, Begin, FirstStage, CInv, WorkInv, WorkTypes
  <2> QED BY <1>3, <2>1
<1>5. CASE WorkOnNode(c) \/ NodeCreated(c) \/ WriteRootId(c) \/ WriteMarker(c)
  <2>1. stage'[c] \in {"query", "resolve", "plan"}
    BY <1>5, NodeCalls, WriteRootIdMoves, WriteMarkerMoves DEF Called, FirstStage
  <2> QED BY <1>3, <2>1
<1>6. CASE Die(c)
  BY <1>2, <1>3, <1>6, DieMoves
<1>7. CASE CheckTree(c)
  <2>1. dels' = dels
    BY <1>7 DEF CheckTree, client
  <2> QED BY <1>2, <1>7, <2>1, CheckTreeMoves
<1>8. CASE BeginCompound(c) \/ ReadNode(c) \/ RefuseTree(c) \/ NodeDone(c) \/ EndWithErrors(c)
           \/ EndCompound(c) \/ EndStrip(c)
  BY <1>2, <1>8 DEF BeginCompound, ReadNode, RefuseTree, NodeDone, EndWithErrors, EndCompound,
                    EndStrip, vars, client
<1> QED BY <1>4, <1>5, <1>6, <1>7, <1>8 DEF WalkStep, Walk

LEMMA ReadNodeCreation ==
    ASSUME CInv, NEW c \in Coordinators, SnapshotHolds(c), ReadNode(c)
    PROVE  SnapshotHolds(c)' /\ MembersFit(c)' /\ NodeFits(c)' /\ RootFits(c)'
<1>1. /\ WalkTypes /\ phase[c] = "read" /\ phase' = phase /\ avus' = avus
  BY ReadNodeMoves DEF CInv, ReadNode
<1>2. PICK p \in Reachable(c) :
         tree' = [tree EXCEPT ![c][p] = [ids |-> IdsIn(avus[p]), marked |-> IsManifest(avus[p])]]
  BY DEF ReadNode
<1>3. p \in Paths
  BY <1>1 DEF WalkTypes, Reachable
<1>4. ASSUME NEW q \in DataObjects, tree'[c][q].ids # {} PROVE ValuesOf(avus[q], DrsIdAvuAttrib) # {}
  <2>1. CASE q = p
    BY <1>1, <1>2, <1>3, <1>4, <2>1 DEF WalkTypes, IdsIn
  <2>2. CASE q # p
    <3>1. tree'[c][q] = tree[c][q]
      BY <1>1, <1>2, <1>3, <2>2 DEF WalkTypes, DataObjects
    <3> QED BY <1>1, <1>4, <3>1 DEF SnapshotHolds, Has, Creating
  <2> QED BY <2>1, <2>2
<1> QED BY <1>1, <1>4 DEF SnapshotHolds, MembersFit, NodeFits, RootFits, Has

LEMMA NodeCallsCreation ==
    ASSUME CInv, NEW c \in Coordinators, SnapshotHolds(c), MembersFit(c), NodeFits(c),
           WorkOnNode(c) \/ NodeCreated(c)
    PROVE  SnapshotHolds(c)' /\ MembersFit(c)' /\ NodeFits(c)' /\ RootFits(c)'
<1>1. /\ WalkTypes /\ WalkFits(c) /\ avus' = avus
      /\ \/ Called(c, "create", Head(todo[c]), DrsIdAvuAttrib, Blank)
         \/ Called(c, "complete", Head(todo[c]), DrsIdAvuAttrib, Blank)
  BY NodeCalls DEF CInv
<1>2. /\ phase[c] \in {"nodes", "create"} /\ phase'[c] \in {"create", "complete"}
      /\ UNCHANGED <<root, tree, todo, errors>>
      /\ todo[c] # <<>>
  BY <1>1 DEF WorkOnNode, NodeCreated, GoTo, WalkTypes, WalkFits
<1>3. Head(todo[c]) \in DataObjects
  BY <1>1, <1>2, HeadTailProperties DEF WalkTypes
<1>4. phase'[c] = "complete" => Has(Head(todo[c]), DrsIdAvuAttrib)
  <2>1. CASE WorkOnNode(c)
    <3>1. phase'[c] = "complete" => tree[c][Head(todo[c])].ids # {}
      BY <1>1, <2>1 DEF WorkOnNode, GoTo, WalkTypes
    <3> QED BY <1>2, <1>3, <3>1 DEF SnapshotHolds, Creating
  <2>2. CASE NodeCreated(c)
    BY <2>2 DEF NodeCreated, NodeFits, Owed
  <2> QED BY <2>1, <2>2
<1>5. stage'[c] \in {"query", "resolve", "plan"}
  BY <1>1 DEF Called, FirstStage
<1>6. NodeFits(c)'
  BY <1>1, <1>2, <1>4, <1>5 DEF NodeFits, Has
<1>7. SnapshotHolds(c)'
  BY <1>1, <1>2 DEF SnapshotHolds, Has, Creating
<1>8. MembersFit(c)'
  BY <1>1, <1>2 DEF MembersFit, Complete, Has, Wanted
<1> QED BY <1>2, <1>6, <1>7, <1>8 DEF RootFits

LEMMA NodeDoneCreation ==
    ASSUME CInv, NEW c \in Coordinators, SnapshotHolds(c), MembersFit(c), NodeFits(c), NodeDone(c)
    PROVE  SnapshotHolds(c)' /\ MembersFit(c)' /\ NodeFits(c)' /\ RootFits(c)'
<1>1. WalkTypes /\ WalkFits(c) /\ avus' = avus
  BY NodeDoneMoves DEF CInv
<1>2. /\ phase[c] \in {"create", "complete"} /\ phase'[c] = "nodes"
      /\ UNCHANGED <<root, tree>> /\ todo'[c] = Tail(todo[c])
      /\ errors'[c] = {} => phase[c] = "complete" /\ stage[c] = "done" /\ errors[c] = {}
  BY <1>1 DEF NodeDone, GoTo, WalkTypes
<1>3. Listed(todo[c]) = {Head(todo[c])} \cup Listed(Tail(todo[c]))
  BY <1>1, <1>2, ListedTail DEF WalkTypes, WalkFits
<1>4. errors'[c] = {} => Complete(Head(todo[c]))
  BY <1>2 DEF NodeFits, Owed, Complete
<1>5. errors'[c] = {} => \A p \in Included(root[c]) : Complete(p) \/ p \in Listed(todo'[c])
  BY <1>2, <1>3, <1>4 DEF MembersFit
<1>6. MembersFit(c)'
  BY <1>1, <1>2, <1>5 DEF MembersFit, Complete, Has, Wanted
<1>7. SnapshotHolds(c)'
  BY <1>1, <1>2 DEF SnapshotHolds, Has, Creating
<1> QED BY <1>2, <1>6, <1>7 DEF NodeFits, RootFits

LEMMA CheckTreeCreation ==
    ASSUME CInv, NEW c \in Coordinators, SnapshotHolds(c), CheckTree(c)
    PROVE  SnapshotHolds(c)' /\ MembersFit(c)' /\ NodeFits(c)' /\ RootFits(c)'
<1>1. WalkTypes
  BY DEF CInv
<1>2. /\ phase[c] = "read" /\ phase'[c] = "nodes" /\ todo'[c] = creationDataNodes(root[c])
      /\ tree' = tree /\ root' = root /\ avus' = avus
  BY <1>1 DEF CheckTree, GoTo, WalkTypes, catalog
<1>3. Listed(todo'[c]) = Included(root'[c])
  BY <1>2, CreationDataNodes
<1>4. SnapshotHolds(c)'
  BY <1>2 DEF SnapshotHolds, Has, Creating
<1> QED BY <1>2, <1>3, <1>4 DEF MembersFit, NodeFits, RootFits

LEMMA RootCreation ==
    ASSUME CInv, NEW c \in Coordinators, OneCoordinator(root[c]), CreationFits(c),
           WriteRootId(c) \/ WriteMarker(c)
    PROVE  SnapshotHolds(c)' /\ MembersFit(c)' /\ NodeFits(c)' /\ RootFits(c)'
<1>1. WalkTypes /\ WalkFits(c) /\ avus' = avus
  BY WriteRootIdMoves, WriteMarkerMoves DEF CInv
<1>2. /\ phase[c] \in {"nodes", "rootId"} /\ phase'[c] \in {"rootId", "marker"}
      /\ UNCHANGED <<root, tree, rootId>>
  BY <1>1 DEF WriteRootId, WriteMarker, GoTo, WalkTypes
<1>3. SnapshotHolds(c)'
  BY <1>1, <1>2 DEF CreationFits, SnapshotHolds, Has, Creating
<1>4. MembersComplete(root[c])
  <2>1. CASE WriteRootId(c)
    <3>1. phase[c] = "nodes" /\ errors[c] = {} /\ todo[c] = <<>>
      BY <2>1 DEF WriteRootId
    <3>2. Listed(todo[c]) = {}
      BY <3>1 DEF Listed
    <3> QED BY <3>1, <3>2 DEF CreationFits, MembersFit, MembersComplete
  <2>2. CASE WriteMarker(c)
    BY <2>2 DEF WriteMarker, CreationFits, MembersFit
  <2> QED BY <2>1, <2>2
<1>5. MembersFit(c)'
  BY <1>1, <1>2, <1>4 DEF MembersFit, MembersComplete, Complete, Has, Wanted
<1>6. RootFits(c)'
  <2>1. CASE WriteRootId(c)
    <3>1. phase'[c] = "rootId"
      BY <1>1, <2>1 DEF WriteRootId, GoTo, WalkTypes
    <3> QED BY <3>1 DEF RootFits
  <2>2. CASE WriteMarker(c)
    <3>1. /\ phase[c] = "rootId" /\ errors'[c] = UpsertErrors(c) /\ stage[c] \in {"done", "failed"}
      BY <1>1, <2>2 DEF WriteMarker, WalkTypes
    <3>2. ASSUME errors'[c] = {} PROVE IdsIn(avus[root[c]]) = {rootId[c]}
      <4>1. stage[c] = "done"
        BY <3>1, <3>2 DEF UpsertErrors
      <4>2. /\ job[c].op = "upsert" /\ job[c].path = root[c]
            /\ job[c].attr = DrsIdAvuAttrib /\ job[c].value = rootId[c]
        BY <1>1, <3>1, <4>1 DEF WalkFits, Calls
      <4>3. MetasOf(avus[root[c]], DrsIdAvuAttrib) = {DrsAvu(DrsIdAvuAttrib, rootId[c])}
        BY <4>1, <4>2 DEF CreationFits, UpsertFits
      <4>4. DrsAvu(DrsIdAvuAttrib, rootId[c]).value = rootId[c]
        BY DEF DrsAvu
      <4> QED BY <4>3, <4>4 DEF IdsIn, ValuesOf
    <3> QED BY <1>1, <1>2, <3>2 DEF RootFits
  <2> QED BY <2>1, <2>2
<1> QED BY <1>2, <1>3, <1>5, <1>6 DEF NodeFits

\* A creation that has ended without error has created its compound object.
LEMMA EndCompoundCreates ==
    ASSUME CInv, NEW c \in Coordinators, OneCoordinator(root[c]), CreationFits(c), EndCompound(c),
           UpsertErrors(c) = {}
    PROVE  /\ IdsIn(avus[root[c]]) = {rootId[c]} /\ IsManifest(avus[root[c]])
           /\ MembersComplete(root[c])
<1>1. WalkFits(c) /\ phase[c] = "marker" /\ stage[c] \in {"done", "failed"}
  BY DEF CInv, EndCompound
<1>2. stage[c] = "done" /\ errors[c] = {}
  BY <1>1 DEF UpsertErrors
<1>3. /\ job[c].op = "upsert" /\ job[c].path = root[c]
      /\ job[c].attr = DrsAvuCompoundManifestAttrib
  BY <1>1, <1>2 DEF WalkFits, Calls
<1>4. IsManifest(avus[root[c]])
  BY <1>2, <1>3 DEF CreationFits, UpsertFits, IsManifest
<1> QED BY <1>1, <1>2, <1>4 DEF CreationFits, RootFits, MembersFit

LEMMA AwayCreation ==
    ASSUME NEW c \in Coordinators, phase'[c] \notin Creating
    PROVE  SnapshotHolds(c)' /\ MembersFit(c)' /\ NodeFits(c)' /\ RootFits(c)'
BY DEF SnapshotHolds, MembersFit, NodeFits, RootFits, Creating

LEMMA WalkCreation ==
    ASSUME CInv, StripInv, NEW c \in Coordinators, Clients = {c}, CreationFits(c), WalkStep(c)
    PROVE  CreationFits(c)' /\ Created(c)'
<1>1. /\ WalkTypes /\ WalkFits(c) /\ avus' = avus /\ c \in Clients
      /\ OneCoordinator(root[c])
  BY WalkStepMoves, TreeIsTree DEF CInv, OneCoordinator
<1>2. SnapshotHolds(c) /\ MembersFit(c) /\ NodeFits(c) /\ UpsertFits(c) /\ RootFits(c)
  BY DEF CreationFits
<1>3. UpsertFits(c)'
  BY <1>1, <1>2, WalkUpsertFits
<1>4. SUFFICES (SnapshotHolds(c)' /\ MembersFit(c)' /\ NodeFits(c)' /\ RootFits(c)') /\ Created(c)'
  BY <1>3 DEF CreationFits
<1>5. ASSUME phase'[c] # "ended" PROVE Created(c)'
  BY <1>5 DEF Created
<1>6. CASE BeginCompound(c)
  <2>1. phase'[c] = "read" /\ tree'[c] = NoTree
    BY <1>1, <1>6 DEF BeginCompound, GoTo, WalkTypes
  <2>2. \A p \in DataObjects : tree'[c][p].ids = {}
    BY <2>1 DEF NoTree, NoNode, DataObjects
  <2>3. SnapshotHolds(c)'
    BY <2>2 DEF SnapshotHolds
  <2> QED BY <1>5, <2>1, <2>3 DEF MembersFit, NodeFits, RootFits
<1>7. CASE ReadNode(c)
  <2>1. phase'[c] # "ended"
    BY <1>7 DEF ReadNode
  <2> QED BY <1>2, <1>5, <1>7, <2>1, ReadNodeCreation
<1>8. CASE CheckTree(c)
  <2>1. phase'[c] # "ended"
    BY <1>1, <1>8 DEF CheckTree, GoTo, WalkTypes
  <2> QED BY <1>2, <1>5, <1>8, <2>1, CheckTreeCreation
<1>9. CASE WorkOnNode(c) \/ NodeCreated(c)
  <2>1. phase'[c] # "ended"
    BY <1>1, <1>9 DEF WorkOnNode, NodeCreated, GoTo, WalkTypes
  <2> QED BY <1>2, <1>5, <1>9, <2>1, NodeCallsCreation
<1>10. CASE NodeDone(c)
  <2>1. phase'[c] # "ended"
    BY <1>1, <1>10 DEF NodeDone, GoTo, WalkTypes
  <2> QED BY <1>2, <1>5, <1>10, <2>1, NodeDoneCreation
<1>11. CASE WriteRootId(c) \/ WriteMarker(c)
  <2>1. phase'[c] # "ended"
    BY <1>1, <1>11 DEF WriteRootId, WriteMarker, GoTo, WalkTypes
  <2> QED BY <1>1, <1>5, <1>11, <2>1, RootCreation
<1>12. CASE RefuseTree(c) \/ Die(c) \/ BeginStrip(c) \/ StripNext(c)
  <2>1. phase'[c] \notin Creating \cup {"ended"}
    BY <1>1, <1>12 DEF RefuseTree, Die, BeginStrip, StripNext, GoTo, WalkTypes, Creating
  <2> QED BY <1>5, <2>1, AwayCreation
<1>13. CASE EndWithErrors(c)
  <2>1. phase'[c] = "ended" /\ errors'[c] # {}
    BY <1>1, <1>13 DEF EndWithErrors, GoTo, WalkTypes
  <2>2. phase'[c] \notin Creating
    BY <2>1 DEF Creating
  <2> QED BY <2>1, <2>2, AwayCreation DEF Created
<1>14. CASE EndStrip(c)
  <2>1. /\ phase[c] = "strip" /\ phase'[c] \in {"ended", "failed"} /\ rootId' = rootId
    BY <1>1, <1>14 DEF EndStrip, GoTo, WalkTypes
  <2>2. rootId[c] = None
    BY <2>1 DEF StripInv
  <2>3. phase'[c] \notin Creating
    BY <2>1 DEF Creating
  <2> QED BY <2>1, <2>2, <2>3, AwayCreation DEF Created
<1>15. CASE EndCompound(c)
  <2>1. /\ phase'[c] = "ended" /\ errors'[c] = UpsertErrors(c) /\ UNCHANGED <<root, rootId>>
    BY <1>1, <1>15 DEF EndCompound, GoTo, WalkTypes
  <2>2. Created(c)'
    <3>1. UpsertErrors(c) = {} =>
             /\ IdsIn(avus[root[c]]) = {rootId[c]} /\ IsManifest(avus[root[c]])
             /\ MembersComplete(root[c])
      BY <1>1, <1>15, EndCompoundCreates
    <3> QED BY <1>1, <2>1, <3>1 DEF Created, MembersComplete, Complete, Has, Wanted
  <2>3. phase'[c] \notin Creating
    BY <2>1 DEF Creating
  <2> QED BY <2>2, <2>3, AwayCreation
<1> QED BY <1>6, <1>7, <1>8, <1>9, <1>10, <1>11, <1>12, <1>13, <1>14, <1>15 DEF WalkStep, Walk

LEMMA NextCreation == CInv /\ StripInv /\ CreationInv /\ [CNext]_cvars => CreationInv'
<1> SUFFICES ASSUME CInv, StripInv, CreationInv, [CNext]_cvars, NEW c \in Coordinators, Clients = {c}
             PROVE  CreationFits(c)' /\ Created(c)'
  BY DEF CreationInv
<1>1. /\ CreationFits(c) /\ Created(c) /\ Coordinators = {c} /\ c \in Clients
      /\ WalkTypes /\ WalkFits(c)
  BY TreeIsTree DEF CreationInv, CInv
<1>2. CASE UNCHANGED cvars
  <2>1. /\ UNCHANGED <<avus, stage, job, dels, adds>> /\ UNCHANGED walk
    BY <1>2 DEF cvars, vars, catalog, client
  <2>2. UpsertFits(c)'
    BY <1>1, <2>1, IdleUpsertFits DEF CreationFits
  <2>3. SnapshotHolds(c)' /\ MembersFit(c)'
    BY <1>1, <2>1 DEF CreationFits, SnapshotHolds, MembersFit, MembersComplete, Complete, Has,
                      Wanted, walk
  <2>4. NodeFits(c)' /\ RootFits(c)'
    BY <1>1, <2>1 DEF CreationFits, NodeFits, RootFits, Owed, ToAdd, Has, Wanted, walk
  <2>5. Created(c)'
    BY <1>1, <2>1 DEF Created, MembersComplete, Complete, Has, Wanted, walk
  <2> QED BY <2>2, <2>3, <2>4, <2>5 DEF CreationFits
<1>3. CASE OpStep(c) /\ UNCHANGED walk
  <2>1. CreationFits(c)'
    BY <1>1, <1>3, OpCreation
  <2>2. phase[c] # "ended" /\ phase'[c] # "ended"
    BY <1>1, <1>3, OpMoves DEF CInv, WalkFits, Resting, walk
  <2> QED BY <2>1, <2>2 DEF Created
<1>4. CASE WalkStep(c)
  BY <1>1, <1>4, WalkCreation
<1> QED BY <1>1, <1>2, <1>3, <1>4, NextSteps

\* A creation that nobody disturbed and that reported no error has given the
\* root the id in its result and the marker, and has registered and completed
\* every included data object.
THEOREM CreationsComplete == CSpec => []CompoundEffect
<1>1. CInit => CInv /\ StripInv /\ CreationInv
  <2> SUFFICES ASSUME CInit PROVE CInv /\ StripInv /\ CreationInv
    OBVIOUS
  <2>1. \A c \in Coordinators : phase[c] = "off"
    BY DEF CInit
  <2>2. StripInv
    BY <2>1 DEF StripInv, StripFits
  <2>3. \A c \in Coordinators : UpsertFits(c)
    BY InitGrants, TreeIsTree DEF GrantInv
  <2>4. \A c \in Coordinators : CreationFits(c) /\ Created(c)
    BY <2>1, <2>3 DEF CreationFits, SnapshotHolds, MembersFit, NodeFits, RootFits, Created, Creating
  <2> QED BY <2>2, <2>4, InitCInv DEF CreationInv
<1>2. (CInv /\ StripInv /\ CreationInv) /\ [CNext]_cvars => (CInv /\ StripInv /\ CreationInv)'
  BY NextCInv, NextStrip, NextCreation
<1>3. CreationInv => CompoundEffect
  <2> SUFFICES ASSUME CreationInv, NEW c \in Coordinators, Clients = {c}, phase[c] = "ended",
                      rootId[c] # None, errors[c] = {}
               PROVE  /\ IdsIn(avus[root[c]]) = {rootId[c]} /\ IsManifest(avus[root[c]])
                      /\ \A p \in Included(root[c]) :
                            /\ IdsIn(avus[p]) # {}
                            /\ MimeOf[p] # Blank => ValuesOf(avus[p], DrsAvuMimeTypeAttrib) # {}
                            /\ ChecksumOf[p] # Blank => ValuesOf(avus[p], DrsAvuVersionAttrib) # {}
    BY DEF CompoundEffect
  <2>1. /\ IdsIn(avus[root[c]]) = {rootId[c]} /\ IsManifest(avus[root[c]])
        /\ MembersComplete(root[c])
    BY DEF CreationInv, Created
  <2> QED BY <2>1 DEF MembersComplete, Complete, Has, Wanted, IdsIn
<1> QED BY <1>1, <1>2, <1>3, PTL DEF CSpec

----------------------------------------------------------------------------
(* What is not DRS metadata.                                               *)

LEMMA CompoundForeign ==
    ASSUME CInv, [CNext]_cvars, NEW p \in Paths
    PROVE  ForeignMetas(avus'[p]) = ForeignMetas(avus[p])
<1>1. ASSUME NEW c \in Clients, Touches(c, p)
      PROVE  ForeignMetas(avus'[p]) = ForeignMetas(avus[p])
  <2>1. \A meta \in dels[c] : isDrsMetadata(meta)
    BY DEF CInv, WorkInv, WritesFit
  <2>2. adds[c] # <<>> => isDrsMetadata(Head(adds[c]))
    BY NextWrite DEF CInv, DrsAvus
  <2> QED BY <1>1, <2>1, <2>2 DEF Touches, ForeignMetas
<1>2. CASE UNCHANGED cvars
  BY <1>2 DEF cvars, vars, catalog
<1>3. ASSUME NEW c \in Coordinators, WalkStep(c)
      PROVE  ForeignMetas(avus'[p]) = ForeignMetas(avus[p])
  BY <1>3, WalkStepMoves
<1>4. ASSUME NEW c \in Clients, OpStep(c)
      PROVE  ForeignMetas(avus'[p]) = ForeignMetas(avus[p])
  BY <1>1, <1>4, OpMoves DEF CInv
<1>5. ASSUME NEW c \in Clients, Start(c)
      PROVE  ForeignMetas(avus'[p]) = ForeignMetas(avus[p])
  BY <1>5, StartMoves DEF CInv
<1> QED BY <1>2, <1>3, <1>4, <1>5, NextSteps

\* Neither a creation nor a strip, nor what runs next to them, adds or removes
\* an AVU that is not DRS metadata.
THEOREM CompoundForeignUntouched == CSpec => ForeignUntouched
<1>1. CInv /\ [CNext]_cvars
         => [\A p \in Paths : ForeignMetas(avus'[p]) = ForeignMetas(avus[p])]_vars
  BY CompoundForeign
<1> QED BY <1>1, CompoundInvariance, PTL DEF CSpec, ForeignUntouched

=============================================================================
