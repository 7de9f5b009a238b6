----------------------- MODULE DrsRegistration_proofs -----------------------
(***************************************************************************)
(* Theorems about DrsRegistration, for every set of clients, paths, ids,   *)
(* jobs and initial catalogs.                                              *)
(*                                                                         *)
(* It keeps its invariants.  It implements PersistentIds: what the clients *)
(* do to the ids of the catalog, call by call and failure by failure, is   *)
(* to generate an id, to attach it once, to abandon it, or to remove it    *)
(* for good.  And an operation that returned without error, on a path that *)
(* no other client has written since its plan, has exactly the effect it   *)
(* promises.                                                               *)
(***************************************************************************)
EXTENDS DrsRegistration, Lists_proofs

----------------------------------------------------------------------------
(* What the operators of DrsMetadata return.                               *)

\* normalizedAliases returns the aliases that are not blank.
LEMMA NormalizedAliases ==
    ASSUME NEW aliases \in Seq(Texts \cup {Blank})
    PROVE  /\ normalizedAliases(aliases) \in Seq(Texts)
           /\ Listed(normalizedAliases(aliases)) = Listed(aliases) \ {Blank}
<1>1. (Texts \cup {Blank}) \ {Blank} = Texts
  BY BlankIsNoValue
<1> QED BY <1>1, KeptEntries DEF normalizedAliases

----------------------------------------------------------------------------
(* What the code writes.                                                   *)

\* An AVU the code writes is an AVU, and it is DRS metadata.
LEMMA DrsAvuIsDrs ==
    ASSUME NEW attrib \in DrsAttribs, NEW value \in Ids \cup Texts
    PROVE  /\ DrsAvu(attrib, value) \in AVU
           /\ isDrsMetadata(DrsAvu(attrib, value))
           /\ DrsAvu(attrib, value).name = attrib
           /\ DrsAvu(attrib, value).value = value
BY DEF DrsAvu, AVU, isDrsMetadata

\* An optional AVU is at most one AVU that describes.
LEMMA OptionalType ==
    ASSUME NEW attrib \in DrsAttribs \ {DrsIdAvuAttrib},
           NEW value \in Texts \cup {Blank}
    PROVE  Optional(attrib, value) \in Seq(Describing)
<1>1. CASE value = Blank
  BY <1>1 DEF Optional
<1>2. CASE value # Blank
  <2>1. DrsAvu(attrib, value) \in Describing
    BY <1>2, DrsAvuIsDrs DEF Describing, DrsAvus
  <2> QED BY <1>2, <2>1 DEF Optional
<1> QED BY <1>1, <1>2

\* The alias AVUs describe.
LEMMA AliasAvusType ==
    ASSUME NEW aliases \in Seq(Texts)
    PROVE  AliasAvus(aliases) \in Seq(Describing)
<1>1. \A i \in 1..Len(aliases) :
         DrsAvu(DrsAvuAliasAttrib, aliases[i]) \in Describing
  <2> SUFFICES ASSUME NEW i \in 1..Len(aliases)
               PROVE  DrsAvu(DrsAvuAliasAttrib, aliases[i]) \in Describing
    OBVIOUS
  <2>1. aliases[i] \in Texts
    OBVIOUS
  <2>2. DrsAvuAliasAttrib \in DrsAttribs /\ DrsAvuAliasAttrib # DrsIdAvuAttrib
    BY DEF DrsAttribs, DrsAvuAliasAttrib, DrsIdAvuAttrib
  <2> QED BY <2>1, <2>2, DrsAvuIsDrs DEF Describing, DrsAvus
<1> QED BY <1>1 DEF AliasAvus

\* The AVUs that describe an object are its id and then describing AVUs.
LEMMA MetadataForObject ==
    ASSUME NEW object,
           object.id \in Ids,
           object.version \in Texts \cup {Blank},
           object.mime \in Texts \cup {Blank},
           object.description \in Texts \cup {Blank},
           object.aliases \in Seq(Texts \cup {Blank})
    PROVE  /\ metadataForObject(object)
                = <<DrsAvu(DrsIdAvuAttrib, object.id)>> \o describingMetadata(object)
           /\ describingMetadata(object) \in Seq(Describing)
<1> DEFINE v == Optional(DrsAvuVersionAttrib, object.version)
           m == Optional(DrsAvuMimeTypeAttrib, object.mime)
           d == Optional(DrsAvuDescriptionAttrib, object.description)
           a == AliasAvus(normalizedAliases(object.aliases))
<1>1. /\ DrsAvuVersionAttrib \in DrsAttribs \ {DrsIdAvuAttrib}
      /\ DrsAvuMimeTypeAttrib \in DrsAttribs \ {DrsIdAvuAttrib}
      /\ DrsAvuDescriptionAttrib \in DrsAttribs \ {DrsIdAvuAttrib}
  BY DEF DrsAttribs, DrsAvuVersionAttrib, DrsAvuMimeTypeAttrib,
         DrsAvuDescriptionAttrib, DrsIdAvuAttrib
<1>2. v \in Seq(Describing) /\ m \in Seq(Describing) /\ d \in Seq(Describing)
  BY <1>1, OptionalType
<1>3. a \in Seq(Describing)
  BY NormalizedAliases, AliasAvusType
<1> HIDE DEF v, m, d, a
<1>4. /\ v \o m \in Seq(Describing)
      /\ v \o m \o d \in Seq(Describing)
      /\ v \o m \o d \o a \in Seq(Describing)
  BY <1>2, <1>3, ConcatProperties
<1> QED BY <1>4 DEF describingMetadata, metadataForObject, v, m, d, a

\* Nothing to add is a list of describing AVUs.
LEMMA EmptyIsDescribing == <<>> \in Seq(Describing)
OBVIOUS

\* A describing AVU is no ID AVU.
LEMMA DescribingIsNoId ==
    ASSUME NEW s \in Seq(Describing), s # <<>>
    PROVE  Head(s).name # DrsIdAvuAttrib
<1>1. Head(s) \in Describing
  BY HeadTailProperties
<1> QED BY <1>1 DEF Describing

----------------------------------------------------------------------------
(* What the code reads.                                                    *)

\* The ids of a set of AVUs when one AVU is taken out, or put in.
LEMMA IdsAfterDelete ==
    ASSUME NEW metas, NEW meta
    PROVE  /\ IdsIn(metas \ {meta}) \subseteq IdsIn(metas)
           /\ meta.name # DrsIdAvuAttrib => IdsIn(metas \ {meta}) = IdsIn(metas)
BY DEF IdsIn, ValuesOf, MetasOf, DrsMetas

\* Adding an AVU removes no id, and adds one only if it is an ID AVU.
LEMMA IdsAfterAdd ==
    ASSUME NEW metas, NEW meta
    PROVE  /\ IdsIn(metas) \subseteq IdsIn(metas \cup {meta})
           /\ meta.name # DrsIdAvuAttrib => IdsIn(metas \cup {meta}) = IdsIn(metas)
           /\ IdsIn(metas \cup {meta}) \subseteq IdsIn(metas) \cup {meta.value}
           /\ meta.name = DrsIdAvuAttrib /\ isDrsMetadata(meta)
                => IdsIn(metas \cup {meta}) = IdsIn(metas) \cup {meta.value}
BY DEF IdsIn, ValuesOf, MetasOf, DrsMetas

----------------------------------------------------------------------------
(* The inductive invariant holds initially and every step preserves it.    *)

\* A client without an operation holds one of its jobs.
LEMMA NoJobType == \A c \in Clients : NoJob(c) \in JobsOf[c] /\ NoJob(c) \in JobType
BY ClientsHaveJobs DEF NoJob

\* The inductive invariant holds of every initial catalog.
LEMMA InitIInv == Init => IInv
<1> SUFFICES ASSUME Init PROVE IInv
  OBVIOUS
<1>1. avus \in [Paths -> SUBSET AVU] /\ IdsInv
  BY InitialCatalogs DEF Init, IdsInv
<1>2. \A id \in Ids : owner[id] \in Paths \cup {None}
  BY DEF Init
<1>3. TypeOK
  BY <1>1, <1>2, NoJobType DEF Init, TypeOK, Stages
<1>4. PendingInv
  BY EmptyIsDescribing DEF Init, PendingInv
<1>5. JobInv
  BY NoJobType DEF Init, JobInv
<1>6. IdOnOnePath
  <2> SUFFICES ASSUME NEW id \in Ids, NEW p \in Paths, id \in IdsIn(avus[p])
               PROVE  owner[id] = p
    BY DEF IdOnOnePath
  <2>1. \A q \in Paths : id \in IdsIn(avus[q]) => q = p
    BY InitialCatalogs DEF Init
  <2>2. owner[id] = CHOOSE q \in Paths : id \in IdsIn(avus[q])
    BY DEF Init
  <2> QED BY <2>1, <2>2
<1> QED BY <1>1, <1>3, <1>4, <1>5, <1>6 DEF IInv

\* Asking for an operation preserves the inductive invariant,
LEMMA BeginIInv ==
    ASSUME IInv, NEW c \in Clients, NEW j \in JobType, Begin(c, j)
    PROVE  IInv'
<1> USE DEF Begin
<1>3. TypeOK'
  BY DEF IInv, TypeOK, Stages, FirstStage
<1>4. PendingInv'
  BY DEF IInv, TypeOK, PendingInv, FirstStage, Active
<1>5. JobInv'
  BY DEF IInv, TypeOK, JobInv, FirstStage, JobType, Readers, Resolvers, Updaters,
         Removers, Creators
<1>6. IdsInv' /\ IdOnOnePath'
  BY DEF IInv, IdsInv, IdOnOnePath
<1> QED BY <1>3, <1>4, <1>5, <1>6 DEF IInv

\* as does returning an error,
LEMMA RefuseIInv ==
    ASSUME IInv, NEW c \in Clients, Refuse(c)
    PROVE  IInv'
<1> USE DEF Refuse, GiveUp
<1>1. TypeOK'
  BY NoJobType DEF IInv, TypeOK, Stages
<1>2. PendingInv'
  BY EmptyIsDescribing DEF IInv, TypeOK, PendingInv
<1>3. JobInv'
  BY NoJobType DEF IInv, TypeOK, JobInv
<1>4. IdsInv' /\ IdOnOnePath'
  BY DEF IInv, IdsInv, IdOnOnePath
<1> QED BY <1>1, <1>2, <1>3, <1>4 DEF IInv

\* the search of GetDrsObjectByID,
LEMMA QueryIInv ==
    ASSUME IInv, NEW c \in Clients, Query(c)
    PROVE  IInv'
<1>1. CASE Refuse(c)
  BY <1>1, RefuseIInv
<1>2. CASE /\ \E p \in Paths : job' = [job EXCEPT ![c].path = p]
           /\ stage[c] = "query"
           /\ stage' = [stage EXCEPT ![c] = "load"]
           /\ UNCHANGED <<avus, dels, adds, seen, history>>
  <2> USE <1>2 DEF history
  <2>1. PICK p \in Paths : job' = [job EXCEPT ![c].path = p]
    OBVIOUS
  <2>2. job[c] \in JobType /\ job[c].op \in Readers
    BY DEF IInv, TypeOK, JobInv
  <2>3. /\ job'[c] = [job[c] EXCEPT !.path = p]
        /\ \A d \in Clients : d # c => job'[d] = job[d]
    BY <2>1 DEF IInv, TypeOK
  <2>4. job'[c] \in JobType /\ job'[c].op = job[c].op
    BY <2>2, <2>3 DEF JobType
  <2>5. TypeOK'
    BY <2>1, <2>3, <2>4 DEF IInv, TypeOK, Stages
  <2>6. PendingInv'
    BY <2>2, <2>3, <2>4 DEF IInv, TypeOK, PendingInv
  <2>7. JobInv'
    BY <2>2, <2>3, <2>4 DEF IInv, TypeOK, JobInv
  <2>8. IdsInv' /\ IdOnOnePath'
    BY DEF IInv, IdsInv, IdOnOnePath
  <2> QED BY <2>5, <2>6, <2>7, <2>8 DEF IInv
<1> QED BY <1>1, <1>2 DEF Query

\* the listing after the search,
LEMMA LoadIInv ==
    ASSUME IInv, NEW c \in Clients, Load(c)
    PROVE  IInv'
<1> USE DEF Load, history
<1>1. IdsIn(avus[job[c].path]) \subseteq Ids
  BY DEF IInv, TypeOK, JobType, IdsInv
<1>2. TypeOK'
  BY <1>1, ZenonT(60) DEF IInv, TypeOK, Stages
<1>3. PendingInv'
  BY DEF IInv, TypeOK, PendingInv
<1>4. JobInv'
  BY DEF IInv, TypeOK, JobInv
<1>5. IdsInv' /\ IdOnOnePath'
  BY DEF IInv, IdsInv, IdOnOnePath
<1> QED BY <1>2, <1>3, <1>4, <1>5 DEF IInv

\* the resolution of a path,
LEMMA ResolveIInv ==
    ASSUME IInv, NEW c \in Clients, Resolve(c)
    PROVE  IInv'
<1>1. CASE Refuse(c)
  BY <1>1, RefuseIInv
<1>2. CASE /\ stage[c] = "resolve"
           /\ job[c].op = "updateField" => job[c].attr \in FieldAttribs
           /\ stage' = [stage EXCEPT ![c] = "plan"]
           /\ UNCHANGED <<avus, job, dels, adds, seen, history>>
  <2> USE <1>2 DEF history
  <2>1. TypeOK'
    BY DEF IInv, TypeOK, Stages
  <2>2. PendingInv'
    BY DEF IInv, TypeOK, PendingInv
  <2>3. JobInv'
    BY DEF IInv, TypeOK, JobInv
  <2>4. IdsInv' /\ IdOnOnePath'
    BY DEF IInv, IdsInv, IdOnOnePath
  <2> QED BY <2>1, <2>2, <2>3, <2>4 DEF IInv
<1> QED BY <1>1, <1>2 DEF Resolve

\* and the return of an operation.
LEMMA FinishIInv ==
    ASSUME IInv, NEW c \in Clients, Finish(c)
    PROVE  IInv'
<1> USE DEF Finish
<1>1. TypeOK'
  BY DEF IInv, TypeOK, Stages
<1>2. PendingInv'
  BY DEF IInv, TypeOK, PendingInv
<1>3. JobInv'
  BY DEF IInv, TypeOK, JobInv
<1>4. IdsInv' /\ IdOnOnePath'
  BY DEF IInv, IdsInv, IdOnOnePath
<1> QED BY <1>1, <1>2, <1>3, <1>4 DEF IInv

\* A plan that neither draws an id nor adds one preserves it;
LEMMA PlanIInv ==
    ASSUME IInv, NEW c \in Clients, stage[c] = "plan", job[c].op # "create",
           NEW ds \in SUBSET AVU, NEW as \in Seq(Describing),
           Plan(c, ds, as), UNCHANGED <<owner, minted>>,
           \A meta \in ds :
              /\ isDrsMetadata(meta)
              /\ meta.name = DrsIdAvuAttrib => job[c].op \in Removers
    PROVE  IInv'
<1> USE DEF Plan
<1>1. Seq(Describing) \subseteq Seq(AVU)
  BY DEF Describing, DrsAvus
<1>2. avus[job[c].path] \in SUBSET AVU
  BY DEF IInv, TypeOK, JobType
<1>3. TypeOK'
  BY <1>1, <1>2 DEF IInv, TypeOK, Stages
<1>4. PendingInv'
  BY DEF IInv, TypeOK, PendingInv
<1>5. JobInv'
  BY DEF IInv, TypeOK, JobInv
<1>6. IdsInv' /\ IdOnOnePath'
  BY DEF IInv, IdsInv, IdOnOnePath
<1> QED BY <1>3, <1>4, <1>5, <1>6 DEF IInv

\* the plan of UpdateDrsObjectMetadataField is one,
LEMMA PlanUpdateFieldIInv ==
    ASSUME IInv, NEW c \in Clients, PlanUpdateField(c)
    PROVE  IInv'
<1> DEFINE ds == MetasOf(avus[job[c].path], job[c].attr)
           as == Optional(job[c].attr, job[c].value)
<1>1. /\ stage[c] = "plan" /\ job[c].op = "updateField"
      /\ Plan(c, ds, as) /\ UNCHANGED <<owner, minted>>
  BY DEF PlanUpdateField
<1>2. job[c] \in JobType /\ job[c].attr \in FieldAttribs
  BY <1>1 DEF IInv, TypeOK, JobInv
<1>3. job[c].attr \in DrsAttribs \ {DrsIdAvuAttrib}
  BY <1>2 DEF FieldAttribs, DrsAttribs, DrsIdAvuAttrib, DrsAvuVersionAttrib,
              DrsAvuMimeTypeAttrib, DrsAvuDescriptionAttrib
<1>4. as \in Seq(Describing)
  BY <1>2, <1>3, OptionalType DEF JobType
<1>5. /\ ds \in SUBSET AVU
      /\ \A meta \in ds : isDrsMetadata(meta) /\ meta.name # DrsIdAvuAttrib
  BY <1>2, <1>3 DEF IInv, TypeOK, JobType, MetasOf, DrsMetas
<1> HIDE DEF ds, as
<1> QED BY <1>1, <1>4, <1>5, PlanIInv

\* the plan of UpdateDrsObjectAliases is one,
LEMMA PlanUpdateAliasesIInv ==
    ASSUME IInv, NEW c \in Clients, PlanUpdateAliases(c)
    PROVE  IInv'
<1> DEFINE ds == MetasOf(avus[job[c].path], DrsAvuAliasAttrib)
           as == AliasAvus(normalizedAliases(job[c].aliases))
<1>1. /\ stage[c] = "plan" /\ job[c].op = "updateAliases"
      /\ Plan(c, ds, as) /\ UNCHANGED <<owner, minted>>
  BY DEF PlanUpdateAliases
<1>2. job[c] \in JobType
  BY DEF IInv, TypeOK
<1>3. as \in Seq(Describing)
  <2>1. normalizedAliases(job[c].aliases) \in Seq(Texts)
    BY <1>2, NormalizedAliases DEF JobType
  <2> QED BY <2>1, AliasAvusType
<1>4. /\ ds \in SUBSET AVU
      /\ \A meta \in ds : isDrsMetadata(meta) /\ meta.name # DrsIdAvuAttrib
  BY <1>2 DEF IInv, TypeOK, JobType, MetasOf, DrsMetas, DrsAvuAliasAttrib,
              DrsIdAvuAttrib
<1> HIDE DEF ds, as
<1> QED BY <1>1, <1>3, <1>4, PlanIInv

\* the plans of the removals are;
LEMMA PlanRemovalIInv ==
    ASSUME IInv, NEW c \in Clients, PlanRemoveSingle(c) \/ PlanStrip(c)
    PROVE  IInv'
<1>1. CASE Refuse(c)
  BY <1>1, RefuseIInv
<1>2. CASE /\ stage[c] = "plan" /\ job[c].op \in Removers
           /\ Plan(c, DrsMetas(avus[job[c].path]), <<>>)
           /\ UNCHANGED <<owner, minted>>
  <2>1. /\ DrsMetas(avus[job[c].path]) \in SUBSET AVU
        /\ \A meta \in DrsMetas(avus[job[c].path]) : isDrsMetadata(meta)
    BY DEF IInv, TypeOK, JobType, DrsMetas
  <2>2. job[c].op # "create"
    BY <1>2 DEF Removers
  <2> QED BY <1>2, <2>1, <2>2, EmptyIsDescribing, PlanIInv
<1> QED BY <1>1, <1>2 DEF PlanRemoveSingle, PlanStrip, Removers

\* and a create plans to add a fresh id, before anything else.
LEMMA PlanCreateIInv ==
    ASSUME IInv, NEW c \in Clients, PlanCreate(c)
    PROVE  IInv'
<1>1. CASE Refuse(c)
  BY <1>1, RefuseIInv
<1>2. ASSUME stage[c] = "plan", job[c].op = "create", IdsIn(avus[job[c].path]) = {},
             NEW drsID \in FreshIds,
             Plan(c, {}, metadataForObject(internalObject(job[c], drsID))),
             owner' = [owner EXCEPT ![drsID] = job[c].path],
             minted' = [minted EXCEPT ![c] = drsID]
      PROVE  IInv'
  <2> DEFINE object == internalObject(job[c], drsID)
             rest == describingMetadata(object)
             as == metadataForObject(object)
  <2>1. job[c] \in JobType
    BY DEF IInv, TypeOK
  <2>2. drsID \in Ids /\ owner[drsID] = None
    BY <1>2 DEF FreshIds
  <2>3. /\ object.id = drsID
        /\ object.version \in Texts \cup {Blank}
        /\ object.mime \in Texts \cup {Blank}
        /\ object.description \in Texts \cup {Blank}
        /\ object.aliases \in Seq(Texts \cup {Blank})
    BY <2>1, DerivedValues DEF internalObject, normalizedMimeType, JobType
  <2>4. as = <<DrsAvu(DrsIdAvuAttrib, drsID)>> \o rest /\ rest \in Seq(Describing)
    BY <2>1, <2>2, <2>3, MetadataForObject
  <2> HIDE DEF object, rest
  <2>5. DrsAvu(DrsIdAvuAttrib, drsID) \in DrsAvus
    BY <2>2, DrsAvuIsDrs DEF DrsAvus, DrsAttribs
  <2>6. /\ as \in Seq(AVU) /\ as # <<>>
        /\ Head(as) = DrsAvu(DrsIdAvuAttrib, drsID)
        /\ Tail(as) = rest
    <3>1. rest \in Seq(DrsAvus)
      BY <2>4 DEF Describing
    <3>2. <<DrsAvu(DrsIdAvuAttrib, drsID)>> \in Seq(DrsAvus)
      BY <2>5
    <3>3. as \in Seq(DrsAvus)
      BY <2>4, <3>1, <3>2, ConcatProperties
    <3>4. Seq(DrsAvus) \subseteq Seq(AVU)
      BY DEF DrsAvus
    <3>5. as # <<>> /\ Head(as) = DrsAvu(DrsIdAvuAttrib, drsID) /\ Tail(as) = rest
      BY <2>4, <2>5, <3>1
    <3> QED BY <3>3, <3>4, <3>5
  <2> HIDE DEF as
  <2>7. Plan(c, {}, as)
    BY <1>2 DEF as, object
  <2>8. avus[job[c].path] \in SUBSET AVU /\ job[c].path \in Paths
    BY <2>1 DEF IInv, TypeOK, JobType
  <2>9. TypeOK'
    <3>1. /\ owner' \in [Ids -> Paths \cup {None}]
          /\ minted' \in [Clients -> Ids \cup {None}]
      BY <1>2, <2>2, <2>8 DEF IInv, TypeOK
    <3>2. /\ dels' \in [Clients -> SUBSET AVU]
          /\ adds' \in [Clients -> Seq(AVU)]
          /\ before' \in [Clients -> SUBSET AVU]
      BY <2>6, <2>7, <2>8 DEF IInv, TypeOK, Plan
    <3>3. /\ avus' \in [Paths -> SUBSET AVU]
          /\ stage' \in [Clients -> Stages]
          /\ job' \in [Clients -> JobType]
          /\ seen' \in [Clients -> Ids \cup {None}]
          /\ published' \subseteq Ids \cup {None}
          /\ alone' \in [Clients -> BOOLEAN]
      BY <2>7 DEF IInv, TypeOK, Stages, Plan
    <3> QED BY <3>1, <3>2, <3>3 DEF TypeOK
  <2>10. PendingInv'
    <3> SUFFICES ASSUME NEW d \in Clients
                 PROVE  PendingInv!(d)'
      BY DEF PendingInv
    <3>1. CASE d = c
      <4>1. /\ stage'[c] = "write" /\ dels'[c] = {} /\ adds'[c] = as
            /\ job'[c] = job[c] /\ job[c].op = "create"
        BY <1>2, <2>7 DEF IInv, TypeOK, Plan
      <4>2. minted'[c] = drsID /\ owner'[drsID] = job[c].path
        BY <1>2, <2>2 DEF IInv, TypeOK
      <4> QED BY <2>2, <2>4, <2>6, <3>1, <4>1, <4>2
    <3>2. CASE d # c
      <4>1. /\ stage'[d] = stage[d] /\ dels'[d] = dels[d] /\ adds'[d] = adds[d]
            /\ minted'[d] = minted[d] /\ job'[d] = job[d]
        BY <1>2, <2>7, <3>2 DEF IInv, TypeOK, Plan
      <4>2. minted[d] \in Ids /\ owner[minted[d]] = job[d].path
              => owner'[minted[d]] = owner[minted[d]]
        <5>1. job[d].path \in Paths
          BY DEF IInv, TypeOK, JobType
        <5> QED BY <1>2, <2>2, <5>1, NoneIsNothing DEF IInv, TypeOK
      <4> QED BY <4>1, <4>2 DEF IInv, PendingInv
    <3> QED BY <3>1, <3>2
  <2>11. JobInv'
    BY <1>2, <2>7 DEF IInv, TypeOK, JobInv, Plan, Readers
  <2>12. IdsInv' /\ IdOnOnePath'
    BY <1>2, <2>2, <2>7, NoneIsNothing DEF IInv, TypeOK, IdsInv, IdOnOnePath, Plan
  <2> QED BY <2>9, <2>10, <2>11, <2>12 DEF IInv
<1> QED BY <1>1, <1>2 DEF PlanCreate

\* What client c may have on its mind when it adds.
LEMMA NextAdd ==
    ASSUME IInv, NEW c \in Clients, stage[c] = "write", adds[c] # <<>>
    PROVE  /\ Head(adds[c]) \in DrsAvus
           /\ Tail(adds[c]) \in Seq(Describing)
           /\ \/ Head(adds[c]) \in Describing /\ adds[c] \in Seq(Describing)
              \/ /\ Head(adds[c]) = DrsAvu(DrsIdAvuAttrib, minted[c])
                 /\ job[c].op = "create"
                 /\ minted[c] \in Ids
                 /\ owner[minted[c]] = job[c].path
<1>1. CASE adds[c] \in Seq(Describing)
  BY <1>1, HeadTailProperties DEF Describing
<1>2. CASE adds[c] \notin Seq(Describing)
  <2>1. /\ Head(adds[c]) = DrsAvu(DrsIdAvuAttrib, minted[c])
        /\ Tail(adds[c]) \in Seq(Describing)
        /\ job[c].op = "create"
        /\ minted[c] \in Ids
        /\ owner[minted[c]] = job[c].path
    BY <1>2 DEF IInv, PendingInv
  <2>2. DrsAvu(DrsIdAvuAttrib, minted[c]) \in DrsAvus
    BY <2>1, DrsAvuIsDrs DEF DrsAvus, DrsAttribs
  <2> QED BY <2>1, <2>2
<1> QED BY <1>1, <1>2

\* One write of client c, whatever becomes of c: a deletion of one of its AVUs,
\* or the addition of the next one.
DeletesOne(c, meta) ==
    meta \in dels[c] /\ Write(c, avus[job[c].path] \ {meta})
AddsOne(c) ==
    /\ dels[c] = {} /\ adds[c] # <<>>
    /\ Write(c, avus[job[c].path] \cup {Head(adds[c])})

\* A write keeps the catalog typed and every id on its own path.
LEMMA WriteKeepsIds ==
    ASSUME IInv, NEW c \in Clients, stage[c] = "write", owner' = owner,
           (\E meta \in dels[c] : DeletesOne(c, meta)) \/ AddsOne(c)
    PROVE  avus' \in [Paths -> SUBSET AVU] /\ IdsInv' /\ IdOnOnePath'
<1> DEFINE p == job[c].path
<1>1. p \in Paths /\ avus \in [Paths -> SUBSET AVU]
  BY DEF IInv, TypeOK, JobType
<1>2. CASE \E meta \in dels[c] : DeletesOne(c, meta)
  <2>1. PICK meta \in dels[c] : avus' = [avus EXCEPT ![p] = avus[p] \ {meta}]
    BY <1>2 DEF DeletesOne, Write
  <2>2. \A q \in Paths : IdsIn(avus'[q]) \subseteq IdsIn(avus[q])
    BY <1>1, <2>1, IdsAfterDelete
  <2>3. avus' \in [Paths -> SUBSET AVU]
    BY <1>1, <2>1
  <2> QED BY <2>2, <2>3 DEF IInv, IdsInv, IdOnOnePath
<1>3. CASE AddsOne(c)
  <2> DEFINE meta == Head(adds[c])
  <2>1. avus' = [avus EXCEPT ![p] = avus[p] \cup {meta}] /\ adds[c] # <<>>
    BY <1>3 DEF AddsOne, Write
  <2>2. meta \in DrsAvus
    BY <2>1, NextAdd
  <2>3. avus' \in [Paths -> SUBSET AVU]
    BY <1>1, <2>1, <2>2 DEF DrsAvus
  <2>4. \A q \in Paths : q # p => IdsIn(avus'[q]) = IdsIn(avus[q])
    BY <1>1, <2>1
  <2>5. \A id \in IdsIn(avus'[p]) :
           id \in IdsIn(avus[p]) \/ (id \in Ids /\ owner[id] = p)
    <3>1. avus'[p] = avus[p] \cup {meta}
      BY <1>1, <2>1
    <3>2. CASE meta \in Describing
      BY <3>1, <3>2, IdsAfterAdd DEF Describing
    <3>3. CASE meta \notin Describing
      <4>1. /\ meta = DrsAvu(DrsIdAvuAttrib, minted[c])
            /\ minted[c] \in Ids /\ owner[minted[c]] = p
        BY <2>1, <3>3, NextAdd
      <4>2. meta.value = minted[c]
        BY <4>1 DEF DrsAvu
      <4> QED BY <3>1, <4>1, <4>2, IdsAfterAdd
    <3> QED BY <3>2, <3>3
  <2>6. IdsInv'
    BY <2>4, <2>5 DEF IInv, IdsInv
  <2>7. IdOnOnePath'
    BY <2>4, <2>5 DEF IInv, IdOnOnePath
  <2> QED BY <2>3, <2>6, <2>7
<1> QED BY <1>2, <1>3

\* A deletion preserves the inductive invariant,
LEMMA DeleteNextIInv ==
    ASSUME IInv, NEW c \in Clients, DeleteNext(c)
    PROVE  IInv'
<1>1. PICK meta \in dels[c] :
         /\ DeletesOne(c, meta)
         /\ dels' = [dels EXCEPT ![c] = @ \ {meta}]
  BY DEF DeleteNext, DeletesOne
<1>2. /\ stage[c] = "write" /\ alone' = AloneAfter(c)
      /\ UNCHANGED <<stage, job, adds, seen, owner, minted, published, before>>
  BY DEF DeleteNext
<1>3. avus' \in [Paths -> SUBSET AVU] /\ IdsInv' /\ IdOnOnePath'
  BY <1>1, <1>2, WriteKeepsIds
<1>4. TypeOK'
  BY <1>1, <1>2, <1>3 DEF IInv, TypeOK, AloneAfter
<1>5. PendingInv'
  BY <1>1, <1>2 DEF IInv, TypeOK, PendingInv
<1>6. JobInv'
  BY <1>2 DEF IInv, TypeOK, JobInv
<1> QED BY <1>3, <1>4, <1>5, <1>6 DEF IInv

\* as does an addition,
LEMMA AddNextIInv ==
    ASSUME IInv, NEW c \in Clients, AddNext(c)
    PROVE  IInv'
<1>1. /\ stage[c] = "write" /\ AddsOne(c) /\ adds[c] # <<>>
      /\ adds' = [adds EXCEPT ![c] = Tail(@)]
      /\ alone' = AloneAfter(c)
      /\ UNCHANGED <<stage, job, dels, seen, owner, minted, published, before>>
  BY DEF AddNext, AddsOne
<1>2. avus' \in [Paths -> SUBSET AVU] /\ IdsInv' /\ IdOnOnePath'
  BY <1>1, WriteKeepsIds
<1>3. Tail(adds[c]) \in Seq(Describing)
  BY <1>1, NextAdd
<1>4. Seq(Describing) \subseteq Seq(AVU)
  BY DEF Describing, DrsAvus
<1>5. TypeOK'
  BY <1>1, <1>2, <1>3, <1>4 DEF IInv, TypeOK, AloneAfter
<1>6. PendingInv'
  BY <1>1, <1>3 DEF IInv, TypeOK, PendingInv
<1>7. JobInv'
  BY <1>1 DEF IInv, TypeOK, JobInv
<1> QED BY <1>2, <1>5, <1>6, <1>7 DEF IInv

\* and a write whose caller sees an error.
LEMMA FailAfterWriteIInv ==
    ASSUME IInv, NEW c \in Clients, FailAfterWrite(c)
    PROVE  IInv'
<1>1. /\ stage[c] = "write" /\ GiveUp(c)
      /\ (\E meta \in dels[c] : DeletesOne(c, meta)) \/ AddsOne(c)
      /\ alone' = [AloneAfter(c) EXCEPT ![c] = FALSE]
  BY DEF FailAfterWrite, DeletesOne, AddsOne
<1> USE DEF GiveUp
<1>2. avus' \in [Paths -> SUBSET AVU] /\ IdsInv' /\ IdOnOnePath'
  BY <1>1, WriteKeepsIds
<1>3. TypeOK'
  <2>1. AloneAfter(c) \in [Clients -> BOOLEAN]
    BY DEF IInv, TypeOK, AloneAfter
  <2>2. alone' \in [Clients -> BOOLEAN]
    BY <1>1, <2>1
  <2> QED BY <1>1, <1>2, <2>2, NoJobType DEF IInv, TypeOK, Stages
<1>4. PendingInv'
  BY <1>1, EmptyIsDescribing DEF IInv, TypeOK, PendingInv
<1>5. JobInv'
  BY <1>1, NoJobType DEF IInv, TypeOK, JobInv
<1> QED BY <1>2, <1>3, <1>4, <1>5 DEF IInv

\* The inductive invariant is inductive.
LEMMA NextIInv == IInv /\ [Next]_vars => IInv'
<1> SUFFICES ASSUME IInv, [Next]_vars PROVE IInv'
  OBVIOUS
<1>1. CASE UNCHANGED vars
  <2> USE <1>1 DEF vars, catalog, client, history
  <2>1. TypeOK'
    BY DEF IInv, TypeOK
  <2>2. PendingInv' /\ JobInv'
    BY DEF IInv, PendingInv, JobInv
  <2>3. IdsInv' /\ IdOnOnePath'
    BY DEF IInv, IdsInv, IdOnOnePath
  <2> QED BY <2>1, <2>2, <2>3 DEF IInv
<1>2. ASSUME NEW c \in Clients, Start(c) PROVE IInv'
  <2>1. PICK j \in JobsOf[c] : Begin(c, j)
    BY <1>2 DEF Start
  <2>2. j \in JobType
    BY ClientsHaveJobs
  <2> QED BY <2>1, <2>2, BeginIInv
<1>3. ASSUME NEW c \in Clients, Step(c) PROVE IInv'
  <2>1. CASE Query(c)
    BY <2>1, QueryIInv
  <2>2. CASE Load(c)
    BY <2>2, LoadIInv
  <2>3. CASE Resolve(c)
    BY <2>3, ResolveIInv
  <2>4. CASE PlanCreate(c)
    BY <2>4, PlanCreateIInv
  <2>5. CASE PlanUpdateField(c)
    BY <2>5, PlanUpdateFieldIInv
  <2>6. CASE PlanUpdateAliases(c)
    BY <2>6, PlanUpdateAliasesIInv
  <2>7. CASE PlanRemoveSingle(c) \/ PlanStrip(c)
    BY <2>7, PlanRemovalIInv
  <2>8. CASE DeleteNext(c)
    BY <2>8, DeleteNextIInv
  <2>9. CASE AddNext(c)
    BY <2>9, AddNextIInv
  <2>10. CASE Finish(c)
    BY <2>10, FinishIInv
  <2> QED BY <1>3, <2>1, <2>2, <2>3, <2>4, <2>5, <2>6, <2>7, <2>8, <2>9, <2>10
          DEF Step
<1>4. ASSUME NEW c \in Clients, Fail(c) PROVE IInv'
  BY <1>4, RefuseIInv DEF Fail
<1>5. ASSUME NEW c \in Clients, FailAfterWrite(c) PROVE IInv'
  BY <1>5, FailAfterWriteIInv
<1> QED BY <1>1, <1>2, <1>3, <1>4, <1>5 DEF Next

\* The inductive invariant is an invariant.
THEOREM Invariance == Spec => []IInv
<1>1. Init => IInv
  BY InitIInv
<1>2. IInv /\ [Next]_vars => IInv'
  BY NextIInv
<1> QED BY <1>1, <1>2, PTL DEF Spec

\* Every variable keeps its type.
THEOREM TypeCorrect == Spec => []TypeOK
<1>1. IInv => TypeOK
  BY DEF IInv
<1> QED BY <1>1, Invariance, PTL

\* An id is only ever on the path it was generated for.
THEOREM IdsStayHome == Spec => []IdOnOnePath
<1>1. IInv => IdOnOnePath
  BY DEF IInv
<1> QED BY <1>1, Invariance, PTL

----------------------------------------------------------------------------
(* What a step may do to the catalog.                                      *)

\* A step of a client changes the AVUs of a path only by a write of that client,
\* to the path its operation is about.
LEMMA CatalogStep ==
    ASSUME IInv, NEW c \in Clients, NEW p \in Paths,
           Start(c) \/ Step(c) \/ Fail(c) \/ FailAfterWrite(c)
    PROVE  \/ avus'[p] = avus[p]
           \/ /\ stage[c] = "write" /\ job[c].path = p
              /\ \/ \E meta \in dels[c] : avus'[p] = avus[p] \ {meta}
                 \/ /\ dels[c] = {} /\ adds[c] # <<>>
                    /\ avus'[p] = avus[p] \cup {Head(adds[c])}
<1>1. CASE UNCHANGED avus
  BY <1>1
<1>2. CASE /\ stage[c] = "write"
           /\ (\E meta \in dels[c] : DeletesOne(c, meta)) \/ AddsOne(c)
  <2>1. avus \in [Paths -> SUBSET AVU] /\ job[c].path \in Paths
    BY DEF IInv, TypeOK, JobType
  <2>2. ASSUME NEW metas, Write(c, metas)
        PROVE  avus'[p] = avus[p] \/ (job[c].path = p /\ avus'[p] = metas)
    BY <2>1, <2>2 DEF Write
  <2>3. CASE \E meta \in dels[c] : DeletesOne(c, meta)
    BY <1>2, <2>2, <2>3 DEF DeletesOne
  <2>4. CASE AddsOne(c)
    BY <1>2, <2>2, <2>4 DEF AddsOne
  <2> QED BY <1>2, <2>3, <2>4
<1>3. CASE DeleteNext(c) \/ AddNext(c) \/ FailAfterWrite(c)
  BY <1>2, <1>3 DEF DeleteNext, AddNext, FailAfterWrite, DeletesOne, AddsOne
<1>4. \/ UNCHANGED avus
      \/ DeleteNext(c) \/ AddNext(c) \/ FailAfterWrite(c)
  BY DEF Step, Start, Begin, Fail, Refuse, Query, Load, Resolve, PlanCreate,
         PlanUpdateField, PlanUpdateAliases, PlanRemoveSingle, PlanStrip, Plan,
         Finish
<1> QED BY <1>1, <1>3, <1>4

\* The same of any step of the specification.
LEMMA CatalogSteps ==
    ASSUME IInv, [Next]_vars, NEW p \in Paths
    PROVE  \/ avus'[p] = avus[p]
           \/ \E c \in Clients :
                /\ stage[c] = "write" /\ job[c].path = p
                /\ \/ \E meta \in dels[c] : avus'[p] = avus[p] \ {meta}
                   \/ /\ dels[c] = {} /\ adds[c] # <<>>
                      /\ avus'[p] = avus[p] \cup {Head(adds[c])}
BY CatalogStep DEF Next, vars, catalog

\* No step of any operation, failed or not, adds or removes an AVU that is not
\* DRS metadata.
THEOREM ForeignAvusUntouched == Spec => ForeignUntouched
<1>1. ASSUME IInv, [Next]_vars, NEW p \in Paths
      PROVE  ForeignMetas(avus'[p]) = ForeignMetas(avus[p])
  <2>1. CASE avus'[p] = avus[p]
    BY <2>1
  <2>2. ASSUME NEW c \in Clients, NEW meta \in dels[c],
               avus'[p] = avus[p] \ {meta}
        PROVE  ForeignMetas(avus'[p]) = ForeignMetas(avus[p])
    <3>1. isDrsMetadata(meta)
      BY <1>1 DEF IInv, PendingInv
    <3> QED BY <2>2, <3>1 DEF ForeignMetas
  <2>3. ASSUME NEW c \in Clients, stage[c] = "write", adds[c] # <<>>,
               avus'[p] = avus[p] \cup {Head(adds[c])}
        PROVE  ForeignMetas(avus'[p]) = ForeignMetas(avus[p])
    <3>1. isDrsMetadata(Head(adds[c]))
      BY <1>1, <2>3, NextAdd DEF DrsAvus
    <3> QED BY <2>3, <3>1 DEF ForeignMetas
  <2> QED BY <1>1, <2>1, <2>2, <2>3, CatalogSteps
<1>2. IInv /\ [Next]_vars
        => [\A p \in Paths : ForeignMetas(avus'[p]) = ForeignMetas(avus[p])]_vars
  BY <1>1
<1> QED BY <1>2, Invariance, PTL DEF Spec, ForeignUntouched

\* A step of one client leaves the operations of the others alone.
LEMMA OthersWait ==
    ASSUME IInv, NEW c \in Clients, NEW d \in Clients, c # d,
           Start(c) \/ Step(c) \/ Fail(c) \/ FailAfterWrite(c)
    PROVE  /\ stage'[d] = stage[d] /\ job'[d] = job[d] /\ adds'[d] = adds[d]
           /\ dels'[d] = dels[d] /\ minted'[d] = minted[d]
<1> USE DEF IInv, TypeOK
<1>1. CASE Start(c)
  BY <1>1 DEF Start, Begin
<1>2. CASE Refuse(c) \/ GiveUp(c)
  BY <1>2 DEF Refuse, GiveUp
<1>3. ASSUME NEW ds, NEW as, Plan(c, ds, as)
      PROVE  /\ stage'[d] = stage[d] /\ job'[d] = job[d]
             /\ adds'[d] = adds[d] /\ dels'[d] = dels[d]
  BY <1>3 DEF Plan
<1>4. CASE Query(c) \/ Load(c) \/ Resolve(c)
  BY <1>2, <1>4 DEF Query, Load, Resolve, history
<1>5. CASE PlanCreate(c)
  BY <1>2, <1>3, <1>5 DEF PlanCreate
<1>6. CASE PlanUpdateField(c) \/ PlanUpdateAliases(c)
  BY <1>3, <1>6 DEF PlanUpdateField, PlanUpdateAliases
<1>7. CASE PlanRemoveSingle(c) \/ PlanStrip(c)
  BY <1>2, <1>3, <1>7 DEF PlanRemoveSingle, PlanStrip
<1>8. CASE DeleteNext(c) \/ AddNext(c) \/ Finish(c)
  BY <1>8 DEF DeleteNext, AddNext, Finish
<1> QED
  BY <1>1, <1>2, <1>4, <1>5, <1>6, <1>7, <1>8 DEF Step, Fail, FailAfterWrite

----------------------------------------------------------------------------
(* Without removals.                                                       *)

\* The clients run their own jobs from the start,
LEMMA InitOwnJobs == Init => OwnJobs
BY NoJobType DEF Init, OwnJobs

\* and go on doing so.
LEMMA NextOwnJobs == IInv /\ OwnJobs /\ [Next]_vars => OwnJobs'
<1> SUFFICES ASSUME IInv, OwnJobs, [Next]_vars, NEW d \in Clients
             PROVE  job'[d].op \notin Readers => job'[d] \in JobsOf[d]
  BY DEF OwnJobs
<1>1. CASE job'[d] = job[d]
  BY <1>1 DEF OwnJobs
<1>2. CASE Start(d)
  BY <1>2, ClientsHaveJobs DEF Start, Begin, IInv, TypeOK
<1>3. CASE GiveUp(d)
  BY <1>3, NoJobType DEF GiveUp, IInv, TypeOK
<1>4. CASE Query(d) /\ ~GiveUp(d)
  <2>1. job[d] \in JobType /\ job[d].op \in Readers
    BY <1>4 DEF Query, IInv, TypeOK, JobInv
  <2>2. PICK p \in Paths : job' = [job EXCEPT ![d].path = p]
    BY <1>4 DEF Query, Refuse
  <2>3. job'[d] = [job[d] EXCEPT !.path = p]
    BY <2>2 DEF IInv, TypeOK
  <2> QED BY <2>1, <2>3 DEF JobType
<1>5. ASSUME NEW c \in Clients, c # d,
             Start(c) \/ Step(c) \/ Fail(c) \/ FailAfterWrite(c)
      PROVE  job'[d] = job[d]
  BY <1>5, OthersWait
<1>6. CASE \/ Load(d) \/ Resolve(d) \/ PlanCreate(d) \/ PlanUpdateField(d)
           \/ PlanUpdateAliases(d) \/ PlanRemoveSingle(d) \/ PlanStrip(d)
           \/ DeleteNext(d) \/ AddNext(d) \/ Finish(d)
  BY <1>1, <1>3, <1>6
     DEF Load, Resolve, PlanCreate, PlanUpdateField, PlanUpdateAliases,
         PlanRemoveSingle, PlanStrip, Plan, DeleteNext, AddNext, Finish, Refuse
<1>7. CASE Fail(d) \/ FailAfterWrite(d)
  BY <1>3, <1>7 DEF Fail, Refuse, FailAfterWrite
<1>8. CASE UNCHANGED vars
  BY <1>1, <1>8 DEF vars, client
<1> QED BY <1>1, <1>2, <1>3, <1>4, <1>5, <1>6, <1>7, <1>8 DEF Next, Step

\* While nobody removes, an id once on a path stays there.
LEMMA IdsKept ==
    ASSUME IInv, OwnJobs, NoRemovers, [Next]_vars, NEW p \in Paths
    PROVE  IdsIn(avus[p]) \subseteq IdsIn(avus'[p])
<1>1. ASSUME NEW c \in Clients, stage[c] = "write", NEW meta \in dels[c]
      PROVE  meta.name # DrsIdAvuAttrib
  <2>1. job[c].op \notin Readers
    BY <1>1 DEF IInv, JobInv
  <2>2. job[c].op \notin Removers
    BY <2>1 DEF OwnJobs, NoRemovers
  <2> QED BY <2>2 DEF IInv, PendingInv
<1>2. ASSUME NEW c \in Clients, stage[c] = "write", NEW meta \in dels[c],
             avus'[p] = avus[p] \ {meta}
      PROVE  IdsIn(avus'[p]) = IdsIn(avus[p])
  BY <1>1, <1>2, IdsAfterDelete
<1>3. ASSUME NEW meta, avus'[p] = avus[p] \cup {meta}
      PROVE  IdsIn(avus[p]) \subseteq IdsIn(avus'[p])
  BY <1>3, IdsAfterAdd
<1> QED BY <1>2, <1>3, CatalogSteps, ZenonT(60)

\* A path keeps the ids that are its own, and an id its owner.
LEMMA OwnerKept ==
    ASSUME IInv, [Next]_vars, NEW id \in Ids, owner[id] # None
    PROVE  owner'[id] = owner[id]
<1>1. CASE UNCHANGED owner
  BY <1>1
<1>2. ASSUME NEW c \in Clients, NEW drsID \in FreshIds,
             owner' = [owner EXCEPT ![drsID] = job[c].path]
      PROVE  owner'[id] = owner[id]
  BY <1>2 DEF IInv, TypeOK, FreshIds
<1> QED
  BY <1>1, <1>2, ZenonT(60) DEF Next, Step, Start, Begin, Fail, FailAfterWrite, Refuse, GiveUp,
     Query, Load, Resolve, PlanCreate, PlanUpdateField, PlanUpdateAliases,
     PlanRemoveSingle, PlanStrip, DeleteNext, AddNext, Finish, vars, history

\* The conclusion of KeptInv for one client.
Kept(c) ==
    /\ \/ stage[c] = "plan" /\ job[c].op \in Updaters
       \/ stage[c] = "write" /\ ~IdPending(c)
       => IdsIn(avus[job[c].path]) # {}
    /\ stage[c] = "write" /\ ~IdPending(c) /\ job[c].op = "create" =>
          minted[c] \in IdsIn(avus[job[c].path])

\* A step that leaves the operation of d alone keeps what KeptInv says of it.
LEMMA KeptByOthers ==
    ASSUME IInv, OwnJobs, NoRemovers, [Next]_vars, NEW d \in Clients, Kept(d),
           stage'[d] = stage[d], job'[d] = job[d], adds'[d] = adds[d],
           minted'[d] = minted[d]
    PROVE  Kept(d)'
<1>1. job[d].path \in Paths
  BY DEF IInv, TypeOK, JobType
<1>2. IdsIn(avus[job[d].path]) \subseteq IdsIn(avus'[job[d].path])
  BY <1>1, IdsKept
<1> QED BY <1>2 DEF Kept, IdPending

\* What a create plans to add begins with the id it generated.
LEMMA CreatePends ==
    ASSUME IInv, NEW c \in Clients, stage[c] = "plan", job[c].op = "create",
           NEW drsID \in FreshIds,
           Plan(c, {}, metadataForObject(internalObject(job[c], drsID)))
    PROVE  IdPending(c)'
<1> DEFINE object == internalObject(job[c], drsID)
<1>1. adds'[c] = <<DrsAvu(DrsIdAvuAttrib, drsID)>> \o describingMetadata(object)
  BY DEF Plan, IInv, TypeOK, metadataForObject, internalObject
<1>2. describingMetadata(object) \in Seq(Describing)
  <2>1. job[c] \in JobType
    BY DEF IInv, TypeOK
  <2>2. /\ object.id \in Ids
        /\ object.version \in Texts \cup {Blank}
        /\ object.mime \in Texts \cup {Blank}
        /\ object.description \in Texts \cup {Blank}
        /\ object.aliases \in Seq(Texts \cup {Blank})
    BY <2>1, DerivedValues
       DEF internalObject, normalizedMimeType, JobType, FreshIds
  <2> QED BY <2>1, <2>2, MetadataForObject
<1>3. adds'[c] # <<>> /\ Head(adds'[c]) = DrsAvu(DrsIdAvuAttrib, drsID)
  BY <1>1, <1>2
<1> QED BY <1>3 DEF IdPending, DrsAvu

\* KeptInv is preserved by every step.
LEMMA NextKept == IInv /\ OwnJobs /\ KeptInv /\ [Next]_vars => KeptInv'
<1> SUFFICES ASSUME IInv, OwnJobs, KeptInv, [Next]_vars, NoRemovers, NEW d \in Clients
             PROVE  Kept(d)'
  BY DEF KeptInv, Kept, NoRemovers
<1>1. Kept(d)
  BY DEF KeptInv, Kept
<1>2. IInv'
  BY NextIInv
<1>3. job[d] \in JobType /\ job[d].path \in Paths
  BY DEF IInv, TypeOK, JobType
<1>4. CASE UNCHANGED vars
  BY <1>1, <1>4, KeptByOthers DEF vars, client, history
<1>5. ASSUME NEW c \in Clients, c # d,
             Start(c) \/ Step(c) \/ Fail(c) \/ FailAfterWrite(c)
      PROVE  Kept(d)'
  BY <1>1, <1>5, OthersWait, KeptByOthers
<1>6. CASE stage'[d] \notin {"plan", "write"}
  BY <1>6 DEF Kept
<1>7. CASE Start(d)
  <2>1. PICK j \in JobsOf[d] : Begin(d, j)
    BY <1>7 DEF Start
  <2>2. stage'[d] = FirstStage(j.op) /\ job'[d] = j
    BY <2>1 DEF Begin, IInv, TypeOK
  <2> QED BY <2>2 DEF Kept, FirstStage, Resolvers
<1>8. CASE Refuse(d) \/ GiveUp(d)
  BY <1>6, <1>8 DEF Refuse, GiveUp, IInv, TypeOK
<1>9. CASE Query(d) \/ Load(d)
  <2>1. Refuse(d) \/ stage'[d] \notin {"plan", "write"}
    BY <1>9 DEF Query, Load, IInv, TypeOK
  <2> QED BY <1>6, <1>8, <2>1
<1>10. CASE Resolve(d)
  <2>1. CASE IdsIn(avus[job[d].path]) # {} /\ stage' = [stage EXCEPT ![d] = "plan"]
             /\ UNCHANGED <<avus, job, dels, adds, seen, history>>
    BY <2>1 DEF Kept, IInv, TypeOK
  <2> QED BY <1>8, <1>10, <2>1 DEF Resolve
<1>11. CASE PlanCreate(d)
  <2>1. CASE stage'[d] = "write"
    <3>1. PICK drsID \in FreshIds :
             Plan(d, {}, metadataForObject(internalObject(job[d], drsID)))
      BY <1>11, <2>1 DEF PlanCreate, Refuse, GiveUp, IInv, TypeOK
    <3>2. IdPending(d)'
      BY <1>11, <3>1, CreatePends DEF PlanCreate
    <3> QED BY <2>1, <3>2 DEF Kept
  <2>2. CASE stage'[d] # "write"
    <3>1. Refuse(d)
      BY <1>11, <2>2 DEF PlanCreate, Plan, IInv, TypeOK
    <3> QED BY <1>8, <3>1
  <2> QED BY <2>1, <2>2
<1>12. CASE PlanUpdateField(d) \/ PlanUpdateAliases(d)
  <2>1. IdsIn(avus[job[d].path]) # {}
    BY <1>1, <1>12 DEF Kept, PlanUpdateField, PlanUpdateAliases, Updaters
  <2>2. /\ avus' = avus /\ job' = job /\ stage'[d] = "write"
        /\ job[d].op # "create"
    BY <1>12 DEF PlanUpdateField, PlanUpdateAliases, Plan, IInv, TypeOK
  <2> QED BY <2>1, <2>2 DEF Kept
<1>13. CASE PlanRemoveSingle(d) \/ PlanStrip(d)
  <2>1. job[d].op \in Removers /\ job[d].op \notin Readers
    BY <1>13 DEF PlanRemoveSingle, PlanStrip, Removers, Readers
  <2>2. FALSE
    BY <2>1 DEF OwnJobs, NoRemovers
  <2> QED BY <2>2
<1>14. CASE DeleteNext(d)
  BY <1>1, <1>14, KeptByOthers DEF DeleteNext
<1>15. CASE AddNext(d)
  <2>1. /\ stage[d] = "write" /\ adds[d] # <<>>
        /\ avus'[job[d].path] = avus[job[d].path] \cup {Head(adds[d])}
        /\ job' = job /\ minted' = minted /\ stage' = stage
    BY <1>3, <1>15 DEF AddNext, Write, IInv, TypeOK
  <2>2. IdsIn(avus[job[d].path]) \subseteq IdsIn(avus'[job[d].path])
    BY <1>3, IdsKept
  <2>3. CASE Head(adds[d]) \in Describing
    <3>1. ~IdPending(d)
      BY <2>3 DEF IdPending, Describing
    <3> QED BY <1>1, <2>1, <2>2, <3>1 DEF Kept
  <2>4. CASE Head(adds[d]) = DrsAvu(DrsIdAvuAttrib, minted[d]) /\ minted[d] \in Ids
    <3>1. /\ isDrsMetadata(Head(adds[d]))
          /\ Head(adds[d]).name = DrsIdAvuAttrib
          /\ Head(adds[d]).value = minted[d]
      BY <2>4, DrsAvuIsDrs DEF DrsAttribs
    <3>2. minted[d] \in IdsIn(avus'[job[d].path])
      BY <2>1, <3>1, IdsAfterAdd
    <3> QED BY <2>1, <3>2 DEF Kept
  <2> QED BY <2>1, <2>3, <2>4, NextAdd
<1>16. CASE Finish(d)
  BY <1>6, <1>16 DEF Finish, IInv, TypeOK
<1>17. CASE Step(d)
  BY <1>9, <1>10, <1>11, <1>12, <1>13, <1>14, <1>15, <1>16, <1>17 DEF Step
<1>18. CASE Fail(d) \/ FailAfterWrite(d)
  BY <1>8, <1>18 DEF Fail, FailAfterWrite
<1> QED BY <1>4, <1>5, <1>7, <1>17, <1>18 DEF Next

\* KeptInv holds initially: nobody writes.
LEMMA InitKept == Init => KeptInv
<1> SUFFICES ASSUME Init, NEW c \in Clients PROVE Kept(c)
  BY DEF KeptInv, Kept
<1> QED BY DEF Init, Kept

\* NoOrphans is preserved by every step.
LEMMA NextNoOrphans ==
    ASSUME IInv, OwnJobs, KeptInv, NoOrphans, [Next]_vars
    PROVE  NoOrphans'
<1> SUFFICES ASSUME NoRemovers, NEW p \in Paths, DrsMetas(avus'[p]) # {}
             PROVE  IdsIn(avus'[p]) # {}
  BY DEF NoOrphans, NoRemovers
<1>1. IdsIn(avus[p]) \subseteq IdsIn(avus'[p])
  BY IdsKept
<1>2. CASE DrsMetas(avus[p]) # {}
  BY <1>1, <1>2 DEF NoOrphans
<1>3. CASE DrsMetas(avus[p]) = {}
  <2>1. PICK c \in Clients :
           /\ stage[c] = "write" /\ job[c].path = p /\ adds[c] # <<>>
           /\ avus'[p] = avus[p] \cup {Head(adds[c])}
    <3>1. ASSUME NEW meta, avus'[p] = avus[p] \ {meta}
          PROVE  FALSE
      BY <1>3, <3>1 DEF DrsMetas
    <3>2. avus'[p] # avus[p]
      BY <1>3
    <3> QED BY <3>1, <3>2, CatalogSteps
  <2>2. CASE Head(adds[c]) \in Describing
    <3>1. ~IdPending(c)
      BY <2>2 DEF IdPending, Describing
    <3> QED BY <1>1, <2>1, <3>1 DEF KeptInv
  <2>3. CASE Head(adds[c]) = DrsAvu(DrsIdAvuAttrib, minted[c]) /\ minted[c] \in Ids
    <3>1. /\ isDrsMetadata(Head(adds[c]))
          /\ Head(adds[c]).name = DrsIdAvuAttrib
      BY <2>3, DrsAvuIsDrs DEF DrsAttribs
    <3>2. Head(adds[c]).value \in IdsIn(avus'[p])
      BY <2>1, <3>1, IdsAfterAdd
    <3> QED BY <3>2
  <2> QED BY <2>1, <2>2, <2>3, NextAdd
<1> QED BY <1>2, <1>3

\* While nobody removes registrations, whatever fails and whenever, a path has
\* DRS metadata only together with an id.
THEOREM MetadataComesWithId == Spec => []NoOrphans
<1>1. Init => IInv /\ OwnJobs /\ KeptInv /\ NoOrphans
  <2>1. Init => NoOrphans
    BY InitialCatalogs DEF Init, NoOrphans
  <2> QED BY <2>1, InitIInv, InitOwnJobs, InitKept
<1>2. IInv /\ OwnJobs /\ KeptInv /\ NoOrphans /\ [Next]_vars
        => (IInv /\ OwnJobs /\ KeptInv /\ NoOrphans)'
  BY NextIInv, NextOwnJobs, NextKept, NextNoOrphans
<1> QED BY <1>1, <1>2, PTL DEF Spec

\* PublishedResolvable is preserved by every step.
LEMMA NextPublished ==
    ASSUME IInv, OwnJobs, KeptInv, PublishedResolvable, [Next]_vars
    PROVE  PublishedResolvable'
<1> SUFFICES ASSUME NoRemovers, NEW id \in published'
             PROVE  /\ id \in Ids /\ owner'[id] \in Paths
                    /\ id \in IdsIn(avus'[owner'[id]])
  BY DEF PublishedResolvable, NoRemovers
<1>1. ASSUME id \in Ids, owner[id] \in Paths, id \in IdsIn(avus[owner[id]])
      PROVE  /\ owner'[id] \in Paths
             /\ id \in IdsIn(avus'[owner'[id]])
  BY <1>1, OwnerKept, IdsKept, NoneIsNothing
<1>2. CASE id \in published
  BY <1>1, <1>2 DEF PublishedResolvable
<1>3. CASE id \notin published
  <2>1. PICK c \in Clients : Finish(c) /\ job[c].op = "create" /\ id = minted[c]
    BY <1>3, ZenonT(60) DEF Next, Step, Start, Begin, Fail, FailAfterWrite, Refuse, GiveUp,
       Query, Load, Resolve, PlanCreate, PlanUpdateField, PlanUpdateAliases,
       PlanRemoveSingle, PlanStrip, Plan, DeleteNext, AddNext, Finish, vars, history
  <2>2. /\ id \in Ids /\ owner[id] = job[c].path
        /\ job[c].path \in Paths
    BY <2>1 DEF Finish, IInv, TypeOK, JobType, PendingInv
  <2>3. ~IdPending(c) /\ stage[c] = "write"
    BY <2>1 DEF Finish, IdPending
  <2>4. id \in IdsIn(avus[job[c].path])
    BY <2>1, <2>3 DEF KeptInv
  <2> QED BY <1>1, <2>2, <2>4
<1> QED BY <1>2, <1>3

\* While nobody removes registrations, an id that a create returned stays on
\* the path it was created for.
THEOREM PublishedStays == Spec => []PublishedResolvable
<1>1. Init => IInv /\ OwnJobs /\ KeptInv /\ PublishedResolvable
  <2>1. Init => PublishedResolvable
    BY DEF Init, PublishedResolvable
  <2> QED BY <2>1, InitIInv, InitOwnJobs, InitKept
<1>2. IInv /\ OwnJobs /\ KeptInv /\ PublishedResolvable /\ [Next]_vars
        => (IInv /\ OwnJobs /\ KeptInv /\ PublishedResolvable)'
  BY NextIInv, NextOwnJobs, NextKept, NextPublished
<1> QED BY <1>1, <1>2, PTL DEF Spec

----------------------------------------------------------------------------
(* One registrar per path.                                                 *)

\* A step of a client adds an id to a path only when it is the next thing that
\* client has to write there, and then no other id.
LEMMA IdGrowth ==
    ASSUME IInv, NEW c \in Clients, NEW p \in Paths,
           Start(c) \/ Step(c) \/ Fail(c) \/ FailAfterWrite(c)
    PROVE  \/ IdsIn(avus'[p]) \subseteq IdsIn(avus[p])
           \/ /\ stage[c] = "write" /\ job[c].path = p /\ IdPending(c)
              /\ IdsIn(avus'[p])
                    \subseteq IdsIn(avus[p]) \cup {Head(adds[c]).value}
<1>1. ASSUME NEW meta, avus'[p] = avus[p] \ {meta}
      PROVE  IdsIn(avus'[p]) \subseteq IdsIn(avus[p])
  BY <1>1, IdsAfterDelete
<1>2. CASE /\ stage[c] = "write" /\ job[c].path = p /\ adds[c] # <<>>
           /\ avus'[p] = avus[p] \cup {Head(adds[c])}
  <2>1. CASE Head(adds[c]).name = DrsIdAvuAttrib
    <3>1. IdsIn(avus'[p]) \subseteq IdsIn(avus[p]) \cup {Head(adds[c]).value}
      BY <1>2, IdsAfterAdd
    <3> QED BY <1>2, <2>1, <3>1 DEF IdPending
  <2>2. CASE Head(adds[c]).name # DrsIdAvuAttrib
    <3>1. IdsIn(avus'[p]) = IdsIn(avus[p])
      BY <1>2, <2>2, IdsAfterAdd
    <3> QED BY <3>1
  <2> QED BY <2>1, <2>2
<1>3. CASE avus'[p] = avus[p]
  BY <1>3
<1>4. ASSUME stage[c] = "write", job[c].path = p,
             NEW meta \in dels[c], avus'[p] = avus[p] \ {meta}
      PROVE  IdsIn(avus'[p]) \subseteq IdsIn(avus[p])
  BY <1>1, <1>4
<1> QED BY <1>2, <1>3, <1>4, CatalogStep

\* A client that has an id to write is running a create.
LEMMA PendingCreate ==
    ASSUME IInv, NEW c \in Clients, IdPending(c)
    PROVE  job[c].op = "create"
<1>1. ~(adds[c] \in Seq(Describing))
  BY DescribingIsNoId DEF IdPending
<1> QED BY <1>1 DEF IInv, PendingInv

\* Whatever step is taken, a path with one registrar gets no second id.
LEMMA NextOneId ==
    ASSUME IInv, RegistrarInv, OneIdPerPath, [Next]_vars
    PROVE  OneIdPerPath'
<1> SUFFICES ASSUME NEW p \in Paths, OneRegistrar(p),
                    NEW x \in IdsIn(avus'[p]), NEW y \in IdsIn(avus'[p])
             PROVE  x = y
  BY DEF OneIdPerPath, OneRegistrar
<1>1. \A u, v \in IdsIn(avus[p]) : u = v
  BY DEF OneIdPerPath
<1>2. CASE IdsIn(avus'[p]) \subseteq IdsIn(avus[p])
  BY <1>1, <1>2
<1>3. ASSUME NEW c \in Clients, stage[c] = "write", job[c].path = p, IdPending(c),
             IdsIn(avus'[p]) \subseteq IdsIn(avus[p]) \cup {Head(adds[c]).value}
      PROVE  x = y
  <2>1. IdsIn(avus[p]) = {}
    BY <1>3 DEF RegistrarInv
  <2> QED BY <1>3, <2>1
<1>4. CASE UNCHANGED vars
  BY <1>2, <1>4 DEF vars, catalog
<1> QED BY <1>2, <1>3, <1>4, IdGrowth DEF Next

\* While the only registrar of a path has an id to write, no step puts an id
\* there.
LEMMA NextRegistrar ==
    ASSUME IInv, OwnJobs, RegistrarInv, [Next]_vars
    PROVE  RegistrarInv'
<1> SUFFICES ASSUME NEW d \in Clients, stage'[d] = "write", IdPending(d)',
                    OneRegistrar(job'[d].path)
             PROVE  IdsIn(avus'[job'[d].path]) = {}
  BY DEF RegistrarInv, OneRegistrar
<1>1. IInv' /\ OwnJobs'
  BY NextIInv, NextOwnJobs
<1>2. job'[d].op = "create" /\ job'[d] \in JobsOf[d] /\ job'[d].path \in Paths
  <2>1. ~(adds'[d] \in Seq(Describing))
    BY DescribingIsNoId DEF IdPending
  <2>2. job'[d].op = "create"
    BY <1>1, <2>1 DEF IInv, PendingInv
  <2> QED BY <1>1, <2>2 DEF IInv, TypeOK, JobType, OwnJobs, Readers
\* It was there to be written before the step, too.
<1>3. ASSUME UNCHANGED <<stage[d], job[d], adds[d]>>
      PROVE  IdsIn(avus[job'[d].path]) = {}
  <2>1. IdPending(d) /\ stage[d] = "write"
    BY <1>3 DEF IdPending
  <2> QED BY <1>3, <2>1 DEF RegistrarInv
<1>4. CASE UNCHANGED vars
  BY <1>3, <1>4 DEF vars, catalog, client
<1>5. ASSUME NEW c \in Clients, c # d,
             Start(c) \/ Step(c) \/ Fail(c) \/ FailAfterWrite(c)
      PROVE  IdsIn(avus'[job'[d].path]) = {}
  <2>1. IdsIn(avus[job'[d].path]) = {}
    BY <1>3, <1>5, OthersWait
  <2>2. ~(job[c].path = job'[d].path /\ IdPending(c))
    BY <1>2, <1>5, PendingCreate DEF OneRegistrar, OwnJobs, Readers
  <2>3. IdsIn(avus'[job'[d].path]) \subseteq IdsIn(avus[job'[d].path])
    BY <1>2, <1>5, <2>2, IdGrowth
  <2> QED BY <2>1, <2>3
<1>6. CASE Start(d)
  BY <1>6 DEF Start, Begin, FirstStage, IInv, TypeOK
<1>7. CASE Refuse(d) \/ GiveUp(d)
  BY <1>7 DEF Refuse, GiveUp, IInv, TypeOK
<1>8. CASE Query(d) \/ Load(d) \/ Resolve(d) \/ Finish(d)
  BY <1>7, <1>8 DEF Query, Load, Resolve, Finish, IInv, TypeOK
<1>9. CASE PlanCreate(d)
  <2>1. CASE IdsIn(avus[job[d].path]) = {} /\ UNCHANGED <<avus, job>>
    BY <2>1
  <2> QED BY <1>7, <1>9, <2>1 DEF PlanCreate, Plan
<1>10. CASE \/ PlanUpdateField(d) \/ PlanUpdateAliases(d)
            \/ PlanRemoveSingle(d) \/ PlanStrip(d)
  <2>1. CASE job' = job /\ job[d].op # "create"
    BY <1>2, <2>1
  <2> QED
    BY <1>7, <1>10, <2>1 DEF PlanUpdateField, PlanUpdateAliases,
       PlanRemoveSingle, PlanStrip, Plan
<1>11. CASE DeleteNext(d)
  <2>1. IdsIn(avus[job'[d].path]) = {}
    BY <1>3, <1>11 DEF DeleteNext
  <2>2. PICK meta \in dels[d] : Write(d, avus[job[d].path] \ {meta})
    BY <1>11 DEF DeleteNext
  <2>3. avus'[job'[d].path] = avus[job'[d].path] \ {meta}
    BY <1>2, <1>11, <2>2 DEF DeleteNext, Write, IInv, TypeOK
  <2> QED BY <2>1, <2>3, IdsAfterDelete
<1>12. CASE AddNext(d)
  <2>1. adds'[d] = Tail(adds[d]) /\ stage[d] = "write" /\ adds[d] # <<>>
    BY <1>12 DEF AddNext, IInv, TypeOK
  <2>2. adds'[d] \in Seq(Describing)
    BY <2>1, NextAdd
  <2> QED BY <2>2, DescribingIsNoId DEF IdPending
<1>13. CASE Step(d)
  BY <1>8, <1>9, <1>10, <1>11, <1>12, <1>13 DEF Step
<1>14. CASE Fail(d) \/ FailAfterWrite(d)
  BY <1>7, <1>14 DEF Fail, FailAfterWrite
<1> QED BY <1>4, <1>5, <1>6, <1>13, <1>14 DEF Next

\* A path that one client registers never has two ids, whatever fails and
\* whoever updates or removes meanwhile.
THEOREM OneIdPerRegistrar == Spec => []OneIdPerPath
<1>1. Init => IInv /\ OwnJobs /\ RegistrarInv /\ OneIdPerPath
  <2>1. Init => OneIdPerPath
    BY InitialCatalogs DEF Init, OneIdPerPath
  <2>2. Init => RegistrarInv
    BY DEF Init, RegistrarInv
  <2> QED BY <2>1, <2>2, InitIInv, InitOwnJobs
<1>2. IInv /\ OwnJobs /\ RegistrarInv /\ OneIdPerPath /\ [Next]_vars
        => (IInv /\ OwnJobs /\ RegistrarInv /\ OneIdPerPath)'
  BY NextIInv, NextOwnJobs, NextRegistrar, NextOneId
<1> QED BY <1>1, <1>2, PTL DEF Spec

----------------------------------------------------------------------------
(* Resolving an id.                                                        *)

\* Between the search and the listing, and after them, a client that resolves
\* an id is on the path the id was generated for; and so is the id it found.
ReadOwn(c) ==
    /\ stage[c] = "load" => owner[job[c].id] = job[c].path
    /\ stage[c] = "done" /\ job[c].op = "getById" =>
          /\ owner[job[c].id] = job[c].path
          /\ seen[c] \in Ids /\ owner[seen[c]] = job[c].path

ReadInv == \A c \in Clients : ReadOwn(c)

\* A step of one client leaves what another has seen alone.
LEMMA OthersSaw ==
    ASSUME IInv, NEW c \in Clients, NEW d \in Clients, c # d,
           Start(c) \/ Step(c) \/ Fail(c) \/ FailAfterWrite(c)
    PROVE  seen'[d] = seen[d]
BY DEF IInv, TypeOK, Start, Begin, Step, Fail, FailAfterWrite, Refuse, GiveUp, Query,
       Load, Resolve, PlanCreate, PlanUpdateField, PlanUpdateAliases,
       PlanRemoveSingle, PlanStrip, Plan, DeleteNext, AddNext, Finish

\* ReadInv is preserved by every step.
LEMMA NextRead == IInv /\ ReadInv /\ [Next]_vars => ReadInv'
<1> SUFFICES ASSUME IInv, ReadInv, [Next]_vars, NEW d \in Clients
             PROVE  ReadOwn(d)'
  BY DEF ReadInv
<1>1. ReadOwn(d)
  BY DEF ReadInv
<1>2. job[d] \in JobType /\ job[d].path \in Paths /\ job[d].id \in Ids
  BY DEF IInv, TypeOK, JobType
\* An id keeps its owner, whoever moves.
<1>3. ASSUME stage'[d] = stage[d], job'[d] = job[d], seen'[d] = seen[d]
      PROVE  ReadOwn(d)'
  BY <1>1, <1>2, <1>3, OwnerKept, NoneIsNothing DEF ReadOwn
<1>4. CASE UNCHANGED vars
  BY <1>3, <1>4 DEF vars, client
<1>5. ASSUME NEW c \in Clients, c # d,
             Start(c) \/ Step(c) \/ Fail(c) \/ FailAfterWrite(c)
      PROVE  ReadOwn(d)'
  BY <1>3, <1>5, OthersWait, OthersSaw
<1>6. CASE stage'[d] \notin {"load", "done"}
  BY <1>6 DEF ReadOwn
<1>7. CASE Query(d)
  <2>1. CASE Refuse(d)
    BY <1>6, <2>1 DEF Refuse, GiveUp, IInv, TypeOK
  <2>2. ASSUME NEW p \in Paths, job[d].id \in IdsIn(avus[p]),
               job' = [job EXCEPT ![d].path = p],
               stage' = [stage EXCEPT ![d] = "load"], owner' = owner
        PROVE  ReadOwn(d)'
    <3>1. owner[job[d].id] = p
      BY <1>2, <2>2 DEF IInv, IdOnOnePath
    <3>2. /\ stage'[d] = "load"
          /\ job'[d].path = p /\ job'[d].id = job[d].id
      BY <1>2, <2>2 DEF IInv, TypeOK, JobType
    <3> QED BY <2>2, <3>1, <3>2 DEF ReadOwn
  <2> QED BY <1>7, <2>1, <2>2 DEF Query, history
<1>8. CASE Load(d)
  <2>1. CASE stage' = [stage EXCEPT ![d] = "nil"]
    BY <1>6, <2>1 DEF IInv, TypeOK
  <2>2. ASSUME NEW id \in IdsIn(avus[job[d].path]), seen' = [seen EXCEPT ![d] = id],
               stage[d] = "load", UNCHANGED <<job, owner>>
        PROVE  ReadOwn(d)'
    <3>1. id \in Ids /\ owner[id] = job[d].path
      BY <1>2 DEF IInv, IdsInv, IdOnOnePath
    <3>2. seen'[d] = id
      BY <2>2 DEF IInv, TypeOK
    <3> QED BY <1>1, <2>2, <3>1, <3>2 DEF ReadOwn
  <2> QED BY <1>8, <2>1, <2>2 DEF Load, history
<1>9. CASE Finish(d)
  <2>1. job[d].op \notin Readers /\ job' = job /\ stage'[d] = "done"
    BY <1>9 DEF Finish, IInv, TypeOK, JobInv
  <2> QED BY <2>1 DEF ReadOwn, Readers
<1>10. CASE Start(d) \/ Fail(d) \/ FailAfterWrite(d)
  BY <1>6, <1>10 DEF Start, Begin, FirstStage, Fail, FailAfterWrite, Refuse, GiveUp,
     IInv, TypeOK
<1>11. CASE \/ Resolve(d) \/ PlanCreate(d) \/ PlanUpdateField(d)
            \/ PlanUpdateAliases(d) \/ PlanRemoveSingle(d) \/ PlanStrip(d)
            \/ DeleteNext(d) \/ AddNext(d)
  BY <1>6, <1>11 DEF Resolve, PlanCreate, PlanUpdateField, PlanUpdateAliases,
     PlanRemoveSingle, PlanStrip, Plan, Refuse, GiveUp, DeleteNext, AddNext,
     IInv, TypeOK
<1> QED BY <1>4, <1>5, <1>7, <1>8, <1>9, <1>10, <1>11 DEF Next, Step

\* The object getById returns is the one on the path the id was generated for,
\* even if it was removed or registered again between its two calls.
THEOREM ReadsResolveOwnPath == Spec => []ResolvesOwnPath
<1>1. Init => IInv /\ ReadInv
  <2>1. Init => ReadInv
    BY DEF Init, ReadInv, ReadOwn
  <2> QED BY <2>1, InitIInv
<1>2. IInv /\ ReadInv /\ [Next]_vars => (IInv /\ ReadInv)'
  BY NextIInv, NextRead
<1>3. ReadInv => ResolvesOwnPath
  BY DEF ReadInv, ReadOwn, ResolvesOwnPath
<1> QED BY <1>1, <1>2, <1>3, PTL DEF Spec

----------------------------------------------------------------------------
(* Compound manifests.                                                     *)

\* Only a strip is about to delete a compound marker.
MarkerSafe(c) ==
    \A meta \in dels[c] :
        meta.name = DrsAvuCompoundManifestAttrib => job[c].op \in {"strip", "drsrm"}

MarkerInv == \A c \in Clients : MarkerSafe(c)

\* MarkerInv is preserved by every step.
LEMMA NextMarker == IInv /\ MarkerInv /\ [Next]_vars => MarkerInv'
<1> SUFFICES ASSUME IInv, MarkerInv, [Next]_vars, NEW d \in Clients
             PROVE  MarkerSafe(d)'
  BY DEF MarkerInv
<1>1. MarkerSafe(d)
  BY DEF MarkerInv
<1>2. CASE dels'[d] \subseteq dels[d] /\ job'[d] = job[d]
  BY <1>1, <1>2 DEF MarkerSafe
<1>3. CASE UNCHANGED vars
  BY <1>2, <1>3 DEF vars, client
<1>4. ASSUME NEW c \in Clients, c # d,
             Start(c) \/ Step(c) \/ Fail(c) \/ FailAfterWrite(c)
      PROVE  MarkerSafe(d)'
  BY <1>2, <1>4, OthersWait
<1>5. CASE dels'[d] = {}
  BY <1>5 DEF MarkerSafe
<1>6. CASE Start(d)
  BY <1>5, <1>6 DEF Start, Begin, Active, IInv, PendingInv
<1>7. CASE Refuse(d) \/ GiveUp(d)
  BY <1>5, <1>7 DEF Refuse, GiveUp, IInv, TypeOK
<1>8. CASE Query(d) \/ Load(d) \/ Resolve(d) \/ Finish(d)
  BY <1>5, <1>7, <1>8 DEF Query, Load, Resolve, Finish, IInv, PendingInv
<1>9. CASE PlanCreate(d)
  BY <1>5, <1>7, <1>9 DEF PlanCreate, Plan, IInv, TypeOK
<1>10. ASSUME NEW attrib \in FieldAttribs \cup {DrsAvuAliasAttrib}, NEW as,
              Plan(d, MetasOf(avus[job[d].path], attrib), as)
       PROVE  MarkerSafe(d)'
  <2>1. attrib # DrsAvuCompoundManifestAttrib
    BY DEF FieldAttribs, DrsAvuCompoundManifestAttrib, DrsAvuVersionAttrib,
           DrsAvuMimeTypeAttrib, DrsAvuDescriptionAttrib, DrsAvuAliasAttrib
  <2>2. dels'[d] = MetasOf(avus[job[d].path], attrib)
    BY <1>10 DEF Plan, IInv, TypeOK
  <2> QED BY <2>1, <2>2 DEF MarkerSafe, MetasOf
<1>11. CASE PlanUpdateField(d)
  <2>1. job[d].attr \in FieldAttribs
    BY <1>11 DEF PlanUpdateField, IInv, JobInv
  <2> QED BY <1>10, <1>11, <2>1 DEF PlanUpdateField
<1>12. CASE PlanUpdateAliases(d)
  BY <1>10, <1>12 DEF PlanUpdateAliases
<1>13. CASE PlanRemoveSingle(d)
  <2>1. CASE /\ ~IsManifest(avus[job[d].path])
             /\ Plan(d, DrsMetas(avus[job[d].path]), <<>>)
    <3>1. dels'[d] = DrsMetas(avus[job[d].path])
      BY <2>1 DEF Plan, IInv, TypeOK
    <3> QED BY <2>1, <3>1 DEF MarkerSafe, IsManifest, MetasOf
  <2> QED BY <1>7, <1>13, <2>1 DEF PlanRemoveSingle
<1>14. CASE PlanStrip(d)
  BY <1>14 DEF PlanStrip, Plan, MarkerSafe
<1>15. CASE DeleteNext(d) \/ AddNext(d)
  BY <1>2, <1>15 DEF DeleteNext, AddNext, IInv, TypeOK
<1>16. CASE Fail(d) \/ FailAfterWrite(d)
  BY <1>7, <1>16 DEF Fail, FailAfterWrite
<1> QED
  BY <1>3, <1>4, <1>6, <1>8, <1>9, <1>11, <1>12, <1>13, <1>14, <1>15, <1>16
     DEF Next, Step

\* Only a strip takes the compound marker off a path, whatever other operations
\* found there when they planned.
THEOREM MarkersProtected == Spec => ManifestProtected
<1>1. Init => IInv /\ MarkerInv
  <2>1. Init => MarkerInv
    BY DEF Init, MarkerInv, MarkerSafe
  <2> QED BY <2>1, InitIInv
<1>2. IInv /\ MarkerInv /\ [Next]_vars => (IInv /\ MarkerInv)'
  BY NextIInv, NextMarker
<1>3. ASSUME IInv, MarkerInv, [Next]_vars, NEW p \in Paths,
             IsManifest(avus[p]), ~IsManifest(avus'[p])
      PROVE  \E c \in Clients : /\ stage[c] = "write" /\ job[c].path = p
                                /\ job[c].op \in {"strip", "drsrm"}
  <2>1. PICK mark \in avus[p] : /\ isDrsMetadata(mark) /\ mark \notin avus'[p]
                                /\ mark.name = DrsAvuCompoundManifestAttrib
    BY <1>3 DEF IsManifest, MetasOf, DrsMetas
  <2>2. PICK c \in Clients : /\ stage[c] = "write" /\ job[c].path = p
                             /\ \E meta \in dels[c] : avus'[p] = avus[p] \ {meta}
    BY <1>3, <2>1, CatalogSteps
  <2>3. mark \in dels[c]
    BY <2>1, <2>2
  <2> QED BY <1>3, <2>1, <2>2, <2>3 DEF MarkerInv, MarkerSafe
<1>4. IInv /\ MarkerInv /\ [Next]_vars
        => [\A p \in Paths : IsManifest(avus[p]) /\ ~IsManifest(avus'[p]) =>
              \E c \in Clients : /\ stage[c] = "write" /\ job[c].path = p
                                  /\ job[c].op \in {"strip", "drsrm"}]_vars
  BY <1>3
<1> QED BY <1>1, <1>2, <1>4, PTL DEF Spec, ManifestProtected

----------------------------------------------------------------------------
(* Who generated which id.                                                 *)

\* A step of client c, as it is in Next.
ClientStep(c) == Start(c) \/ Step(c) \/ Fail(c) \/ FailAfterWrite(c)

\* Every id was generated by one client, for a path.
MintedInv ==
    \A c \in Clients : minted[c] # None =>
        /\ owner[minted[c]] \in Paths
        /\ \A d \in Clients : minted[d] = minted[c] => d = c

\* Nobody has generated an id at first.
LEMMA InitMinted == Init => MintedInv
BY DEF Init, MintedInv

\* What a client remembers of the id it generated changes when it generates one,
\* which nobody has seen before, or is forgotten.
LEMMA MintedStep ==
    ASSUME IInv, NEW c \in Clients, ClientStep(c)
    PROVE  \/ UNCHANGED <<owner, minted>>
           \/ owner' = owner /\ minted' = [minted EXCEPT ![c] = None]
           \/ /\ PlanCreate(c) /\ avus' = avus
              /\ \E drsID \in FreshIds :
                    /\ Plan(c, {}, metadataForObject(internalObject(job[c], drsID)))
                    /\ owner' = [owner EXCEPT ![drsID] = job[c].path]
                    /\ minted' = [minted EXCEPT ![c] = drsID]
<1>1. CASE Start(c)
  BY <1>1 DEF Start, Begin
<1>2. CASE Refuse(c) \/ GiveUp(c)
  BY <1>2 DEF Refuse, GiveUp
<1>3. CASE Query(c) \/ Load(c) \/ Resolve(c)
  BY <1>2, <1>3 DEF Query, Load, Resolve, history
<1>4. CASE PlanCreate(c)
  BY <1>2, <1>4 DEF PlanCreate, Plan
<1>5. CASE PlanUpdateField(c) \/ PlanUpdateAliases(c)
  BY <1>5 DEF PlanUpdateField, PlanUpdateAliases
<1>6. CASE PlanRemoveSingle(c) \/ PlanStrip(c)
  BY <1>2, <1>6 DEF PlanRemoveSingle, PlanStrip
<1>7. CASE DeleteNext(c) \/ AddNext(c) \/ Finish(c)
  BY <1>7 DEF DeleteNext, AddNext, Finish
<1> QED
  BY <1>1, <1>2, <1>3, <1>4, <1>5, <1>6, <1>7
     DEF ClientStep, Step, Fail, FailAfterWrite

\* No step lets two clients have generated the same id.
LEMMA NextMinted == IInv /\ MintedInv /\ [Next]_vars => MintedInv'
<1> SUFFICES ASSUME IInv, MintedInv, [Next]_vars PROVE MintedInv'
  OBVIOUS
<1>1. CASE UNCHANGED <<owner, minted>>
  BY <1>1 DEF MintedInv
<1>2. ASSUME NEW c \in Clients, owner' = owner,
             minted' = [minted EXCEPT ![c] = None]
      PROVE  MintedInv'
  BY <1>2 DEF MintedInv, IInv, TypeOK
<1>3. ASSUME NEW c \in Clients, NEW drsID \in FreshIds,
             owner' = [owner EXCEPT ![drsID] = job[c].path],
             minted' = [minted EXCEPT ![c] = drsID]
      PROVE  MintedInv'
  <2>1. /\ drsID \in Ids /\ drsID # None /\ owner[drsID] = None
        /\ job[c].path \in Paths
    BY NoneIsNothing DEF FreshIds, IInv, TypeOK, JobType
  <2>2. \A d \in Clients : minted[d] # drsID
    BY <2>1, NoneIsNothing DEF MintedInv
  <2>3. \A d \in Clients : minted'[d] = IF d = c THEN drsID ELSE minted[d]
    BY <1>3 DEF IInv, TypeOK
  <2>4. \A id \in Ids : owner'[id] = IF id = drsID THEN job[c].path ELSE owner[id]
    BY <1>3, <2>1 DEF IInv, TypeOK
  <2>5. \A d \in Clients : minted[d] # None => minted[d] \in Ids
    BY DEF IInv, TypeOK
  <2> QED BY <2>1, <2>2, <2>3, <2>4, <2>5 DEF MintedInv
<1>4. CASE UNCHANGED vars
  BY <1>1, <1>4 DEF vars, history
<1>5. ASSUME NEW c \in Clients, ClientStep(c) PROVE MintedInv'
  BY <1>1, <1>2, <1>3, <1>5, MintedStep
<1> QED BY <1>4, <1>5 DEF Next, ClientStep

----------------------------------------------------------------------------
(* The ids that may still be attached.                                     *)

\* An id is pending when a client is about to add it: the id it generated.
PendingOf(id) == \E c \in Clients : IdPending(c) /\ minted[c] = id

LEMMA PendingIds == IInv => \A id \in Ids : Pending(id) <=> PendingOf(id)
<1> SUFFICES ASSUME IInv, NEW id \in Ids PROVE Pending(id) <=> PendingOf(id)
  OBVIOUS
<1>1. ASSUME NEW c \in Clients, IdPending(c), minted[c] = id
      PROVE  Pending(id)
  <2>1. /\ adds[c] # <<>> /\ adds[c] \in Seq(AVU)
        /\ Head(adds[c]) = DrsAvu(DrsIdAvuAttrib, minted[c])
    BY <1>1, DescribingIsNoId DEF IInv, TypeOK, PendingInv, IdPending
  <2>2. 1 \in DOMAIN adds[c] /\ adds[c][1] = Head(adds[c])
    BY <2>1
  <2> QED BY <1>1, <2>1, <2>2 DEF Pending, DrsAvu
<1>2. ASSUME NEW c \in Clients, NEW i \in DOMAIN adds[c],
             adds[c][i].name = DrsIdAvuAttrib, adds[c][i].value = id
      PROVE  IdPending(c) /\ minted[c] = id
  <2>1. adds[c] \in Seq(AVU) /\ adds[c] # <<>>
    BY <1>2 DEF IInv, TypeOK
  <2>2. adds[c] \notin Seq(Describing)
    <3>1. adds[c] \in Seq(Describing) => adds[c][i] \in Describing
      BY <1>2
    <3> QED BY <1>2, <3>1 DEF Describing
  <2>3. /\ Head(adds[c]) = DrsAvu(DrsIdAvuAttrib, minted[c])
        /\ Tail(adds[c]) \in Seq(Describing)
    BY <2>2 DEF IInv, PendingInv
  <2>4. i = 1
    <3>1. i # 1 => i - 1 \in DOMAIN Tail(adds[c]) /\ Tail(adds[c])[i - 1] = adds[c][i]
      BY <2>1
    <3>2. i # 1 => adds[c][i] \in Describing
      BY <2>3, <3>1
    <3> QED BY <1>2, <3>2 DEF Describing
  <2>5. adds[c][i] = DrsAvu(DrsIdAvuAttrib, minted[c])
    BY <2>1, <2>3, <2>4
  <2> QED BY <1>2, <2>1, <2>3, <2>5 DEF IdPending, DrsAvu
<1> QED BY <1>1, <1>2 DEF Pending, PendingOf

\* The same after a step.
LEMMA PendingIdsNext == (IInv => \A id \in Ids : Pending(id) <=> PendingOf(id))'
BY PendingIds, PTL

\* A client has an id to add only while it writes.
LEMMA PendingWrites ==
    ASSUME IInv, NEW c \in Clients, IdPending(c)
    PROVE  /\ stage[c] = "write" /\ job[c].op = "create"
           /\ minted[c] \in Ids /\ owner[minted[c]] = job[c].path
           /\ Head(adds[c]) = DrsAvu(DrsIdAvuAttrib, minted[c])
<1>1. adds[c] # <<>>
  BY DEF IdPending
<1>2. stage[c] = "write"
  BY <1>1 DEF IInv, PendingInv
<1> QED BY <1>1, <1>2, NextAdd, DescribingIsNoId DEF IdPending

\* A client that has an id to write runs a create, after a step as well.
LEMMA PendingCreateNext ==
    (IInv => \A c \in Clients : IdPending(c) => job[c].op = "create")'
<1>1. IInv => \A c \in Clients : IdPending(c) => job[c].op = "create"
  BY PendingCreate
<1> QED BY <1>1, PTL

\* A step of c lets no id become pending, or cease to be, but the one of c.
LEMMA PendingStep ==
    ASSUME IInv, IInv', MintedInv, NEW c \in Clients, ClientStep(c), NEW id \in Ids
    PROVE  Pending(id)' <=> \/ Pending(id) /\ ~(IdPending(c) /\ minted[c] = id)
                            \/ IdPending(c)' /\ minted'[c] = id
<1>1. \A d \in Clients : d # c => /\ IdPending(d)' <=> IdPending(d)
                                 /\ minted'[d] = minted[d]
  BY OthersWait DEF IdPending, ClientStep
<1>2. Pending(id)' <=> PendingOf(id)'
  BY PendingIdsNext
<1>3. \A d, e \in Clients : minted[d] = id /\ minted[e] = id => d = e
  BY NoneIsNothing DEF MintedInv
<1> QED BY <1>1, <1>2, <1>3, PendingIds DEF PendingOf

----------------------------------------------------------------------------
(* What a step of a client does to the catalog and to its own intentions:  *)
(* it leaves the catalog alone, generates an id, deletes an AVU, or adds   *)
(* one.                                                                    *)

Idles(c) ==
    /\ UNCHANGED <<avus, owner>>
    /\ IdPending(c)' => IdPending(c) /\ minted'[c] = minted[c]

Generates(c, drsID) ==
    /\ avus' = avus /\ IdPending(c)' /\ minted'[c] = drsID
    /\ owner' = [owner EXCEPT ![drsID] = job[c].path]

Deletes(c) ==
    /\ stage[c] = "write" /\ owner' = owner
    /\ \E meta \in dels[c] : DeletesOne(c, meta)
    /\ IdPending(c)' => IdPending(c) /\ minted'[c] = minted[c]

Adds(c) ==
    /\ stage[c] = "write" /\ AddsOne(c) /\ owner' = owner
    /\ ~IdPending(c)'

LEMMA StepKinds ==
    ASSUME IInv, IInv', NEW c \in Clients, ClientStep(c)
    PROVE  \/ Idles(c)
           \/ stage[c] = "plan" /\ \E drsID \in FreshIds : Generates(c, drsID)
           \/ Deletes(c) \/ Adds(c)
<1>1. stage'[c] # "write" => ~IdPending(c)'
  BY DEF IInv, PendingInv, IdPending
<1>2. CASE Start(c)
  BY <1>1, <1>2 DEF Start, Begin, Idles, FirstStage, IInv, TypeOK
<1>3. CASE Refuse(c)
  BY <1>1, <1>3 DEF Refuse, GiveUp, Idles, IInv, TypeOK
<1>4. CASE Query(c) \/ Load(c) \/ Resolve(c) \/ Finish(c)
  <2>1. \/ Refuse(c)
        \/ stage'[c] # "write" /\ UNCHANGED <<avus, owner>>
    BY <1>4 DEF Query, Load, Resolve, Finish, history, IInv, TypeOK
  <2> QED BY <1>1, <1>3, <2>1 DEF Idles
<1>5. CASE PlanCreate(c)
  <2>1. ASSUME NEW drsID \in FreshIds,
               Plan(c, {}, metadataForObject(internalObject(job[c], drsID))),
               owner' = [owner EXCEPT ![drsID] = job[c].path],
               minted' = [minted EXCEPT ![c] = drsID]
        PROVE  Generates(c, drsID)
    <3>1. IdPending(c)'
      BY <1>5, <2>1, CreatePends DEF PlanCreate
    <3> QED BY <2>1, <3>1 DEF Plan, Generates, IInv, TypeOK
  <2> QED BY <1>3, <1>5, <2>1 DEF PlanCreate
<1>6. CASE \/ PlanUpdateField(c) \/ PlanUpdateAliases(c)
           \/ PlanRemoveSingle(c) \/ PlanStrip(c)
  <2>1. CASE job[c].op # "create" /\ UNCHANGED <<avus, job, owner>>
    <3>1. ~IdPending(c)'
      BY <2>1, PendingCreateNext
    <3> QED BY <2>1, <3>1 DEF Idles
  <2> QED
    BY <1>3, <1>6, <2>1 DEF PlanUpdateField, PlanUpdateAliases,
       PlanRemoveSingle, PlanStrip, Plan
<1>7. CASE DeleteNext(c)
  BY <1>7 DEF DeleteNext, DeletesOne, Deletes, IdPending
<1>8. CASE AddNext(c)
  <2>1. stage[c] = "write" /\ adds[c] # <<>> /\ adds'[c] = Tail(adds[c])
    BY <1>8 DEF AddNext, IInv, TypeOK
  <2>2. ~IdPending(c)'
    BY <2>1, NextAdd, DescribingIsNoId DEF IdPending
  <2> QED BY <1>8, <2>2 DEF AddNext, AddsOne, Adds
<1>9. CASE FailAfterWrite(c)
  <2>1. ~IdPending(c)'
    BY <1>9 DEF FailAfterWrite, GiveUp, IdPending, IInv, TypeOK
  <2> QED BY <1>9, <2>1 DEF FailAfterWrite, GiveUp, DeletesOne, AddsOne, Deletes, Adds
<1> QED
  BY <1>2, <1>3, <1>4, <1>5, <1>6, <1>7, <1>8, <1>9 DEF ClientStep, Step, Fail

----------------------------------------------------------------------------
(* The refinement.                                                         *)

\* The paths that carry an id, and the pending ids: the catalog as the
\* abstract specification sees it.
Where      == [id \in Ids |-> {p \in Paths : id \in IdsIn(avus[p])}]
PendingSet == {id \in Ids : Pending(id)}

\* While nobody writes an id, abstractly nothing happens but that one is
\* abandoned.
LEMMA IdleRefines ==
    ASSUME IInv, IInv', MintedInv, NEW c \in Clients, ClientStep(c), Idles(c)
    PROVE  [Persistent!Next]_(Persistent!vars)
<1> USE DEF Persistent!vars, Persistent!Next, Persistent!Abandon
<1>1. Where' = Where /\ owner' = owner
  BY DEF Idles, Where
<1>2. CASE PendingSet' = PendingSet
  BY <1>1, <1>2 DEF Where, PendingSet
<1>3. CASE PendingSet' # PendingSet
  <2>1. /\ IdPending(c) /\ minted[c] \in Ids /\ Pending(minted[c])
        /\ PendingSet' = PendingSet \ {minted[c]}
    BY <1>3, PendingStep, PendingWrites, PendingIds DEF PendingSet, PendingOf, Idles
  <2>2. minted[c] \in PendingSet
    BY <2>1 DEF PendingSet
  <2>3. Persistent!Abandon(minted[c])
    BY <1>1, <2>1, <2>2 DEF Where, PendingSet
  <2> QED BY <2>1, <2>3
<1> QED BY <1>2, <1>3

\* A create that plans generates an id.
LEMMA GenerateRefines ==
    ASSUME IInv, IInv', MintedInv, NEW c \in Clients, ClientStep(c),
           stage[c] = "plan", NEW drsID \in FreshIds, Generates(c, drsID)
    PROVE  [Persistent!Next]_(Persistent!vars)
<1>1. drsID \in Ids /\ owner[drsID] = None
  BY DEF FreshIds
<1>2. job[c].path \in Paths
  BY DEF IInv, TypeOK, JobType
<1>3. ~IdPending(c)
  BY PendingWrites
<1>4. PendingSet' = PendingSet \cup {drsID}
  BY <1>1, <1>3, PendingStep DEF PendingSet, Generates
<1>5. Where' = Where
  BY DEF Where, Generates
<1>6. Persistent!Generate(drsID)
  BY <1>1, <1>2, <1>4, <1>5 DEF Persistent!Generate, Where, PendingSet, Generates
<1> QED BY <1>1, <1>6 DEF Persistent!Next

\* A deletion removes an id from the only path that carries it, or none, and
\* leaves the pending ids alone unless the deleting client gives up its own.
LEMMA DeleteRefines ==
    ASSUME IInv, IInv', MintedInv, NEW c \in Clients, ClientStep(c), Deletes(c)
    PROVE  [Persistent!Next]_(Persistent!vars)
<1> DEFINE p == job[c].path
<1>1. p \in Paths /\ avus \in [Paths -> SUBSET AVU]
  BY DEF IInv, TypeOK, JobType
<1>2. PICK meta \in dels[c] : avus' = [avus EXCEPT ![p] = avus[p] \ {meta}]
  BY DEF Deletes, DeletesOne, Write
<1>3. /\ avus'[p] = avus[p] \ {meta}
      /\ \A q \in Paths : q # p => avus'[q] = avus[q]
  BY <1>1, <1>2
<1>4. CASE Where' = Where
  <2> USE DEF Persistent!vars, Persistent!Next, Persistent!Abandon
  <2>2. CASE PendingSet' = PendingSet
    BY <1>4, <2>2 DEF Where, PendingSet, Deletes
  <2>3. CASE PendingSet' # PendingSet
    <3>1. /\ IdPending(c) /\ minted[c] \in Ids /\ Pending(minted[c])
          /\ PendingSet' = PendingSet \ {minted[c]}
      BY <2>3, PendingStep, PendingWrites, PendingIds DEF PendingSet, PendingOf, Deletes
    <3>2. minted[c] \in PendingSet
      BY <3>1 DEF PendingSet
    <3>3. Persistent!Abandon(minted[c])
      BY <1>4, <3>1, <3>2 DEF Where, PendingSet, Deletes
    <3> QED BY <3>1, <3>3
  <2> QED BY <2>2, <2>3
<1>5. CASE Where' # Where
  <2>1. meta.name = DrsIdAvuAttrib
    <3>1. meta.name # DrsIdAvuAttrib => IdsIn(avus'[p]) = IdsIn(avus[p])
      BY <1>3, IdsAfterDelete
    <3>2. meta.name # DrsIdAvuAttrib => \A q \in Paths : IdsIn(avus'[q]) = IdsIn(avus[q])
      BY <1>3, <3>1
    <3> QED BY <1>5, <3>2 DEF Where
  <2>2. ~IdPending(c)
    <3>1. job[c].op \in Removers
      BY <2>1 DEF IInv, PendingInv
    <3> QED BY <3>1, PendingWrites DEF Removers
  <2>3. PendingSet' = PendingSet
    BY <2>2, PendingStep DEF PendingSet, Deletes
  <2>4. PICK id \in Ids : id \in IdsIn(avus[p]) /\ id \notin IdsIn(avus'[p])
    <3>1. \E id \in Ids : Where'[id] # Where[id]
      BY <1>5 DEF Where
    <3>2. PICK id \in Ids, q \in Paths :
             ~(id \in IdsIn(avus[q]) <=> id \in IdsIn(avus'[q]))
      BY <3>1 DEF Where
    <3>3. q = p
      BY <1>3, <3>2
    <3> QED BY <1>3, <3>2, <3>3, IdsAfterDelete
  <2>5. \A x \in IdsIn(avus[p]) : x = id \/ x \in IdsIn(avus'[p])
    BY <1>3, <2>1, <2>4 DEF IdsIn, ValuesOf, MetasOf, DrsMetas
  <2>6. \A q \in Paths : id \in IdsIn(avus[q]) => q = p
    BY <1>1, <2>4 DEF IInv, IdOnOnePath
  <2>7. IdsIn(avus'[p]) \subseteq IdsIn(avus[p])
    BY <1>3, IdsAfterDelete
  <2>8. Where' = [Where EXCEPT ![id] = {}]
    <3>1. \A q \in Paths : id \notin IdsIn(avus'[q])
      BY <1>3, <2>4, <2>6
    <3>2. \A x \in Ids : x # id =>
             \A q \in Paths : x \in IdsIn(avus'[q]) <=> x \in IdsIn(avus[q])
      BY <1>3, <2>5, <2>7
    <3>3. Where'[id] = {}
      BY <3>1 DEF Where
    <3>4. \A x \in Ids : x # id => Where'[x] = Where[x]
      BY <3>2 DEF Where
    <3> QED BY <3>3, <3>4 DEF Where
  <2>9. Where[id] # {}
    BY <1>1, <2>4 DEF Where
  <2>10. Persistent!Remove(id)
    BY <2>3, <2>8, <2>9 DEF Persistent!Remove, Where, PendingSet, Deletes
  <2> QED BY <2>10 DEF Persistent!Next
<1> QED BY <1>4, <1>5

\* An addition attaches the pending id of the client to the path it was
\* generated for, or no id.
LEMMA AddRefines ==
    ASSUME IInv, IInv', MintedInv, NEW c \in Clients, ClientStep(c), Adds(c)
    PROVE  [Persistent!Next]_(Persistent!vars)
<1> DEFINE p == job[c].path
           id == minted[c]
<1>1. p \in Paths /\ avus \in [Paths -> SUBSET AVU]
  BY DEF IInv, TypeOK, JobType
<1>2. /\ adds[c] # <<>>
      /\ avus' = [avus EXCEPT ![p] = avus[p] \cup {Head(adds[c])}]
  BY DEF Adds, AddsOne, Write
<1>3. /\ avus'[p] = avus[p] \cup {Head(adds[c])}
      /\ \A q \in Paths : q # p => avus'[q] = avus[q]
  BY <1>1, <1>2
<1>4. CASE IdPending(c)
  <2>1. /\ id \in Ids /\ owner[id] = p
        /\ Head(adds[c]) = DrsAvu(DrsIdAvuAttrib, id)
    BY <1>4, PendingWrites
  <2>2. IdsIn(avus'[p]) = IdsIn(avus[p]) \cup {id}
    <3>1. /\ isDrsMetadata(Head(adds[c]))
          /\ Head(adds[c]).name = DrsIdAvuAttrib
          /\ Head(adds[c]).value = id
      BY <2>1, DrsAvuIsDrs DEF DrsAttribs
    <3> QED BY <1>3, <3>1, IdsAfterAdd
  <2>3. \A q \in Paths : id \in IdsIn(avus[q]) => q = p
    BY <2>1 DEF IInv, IdOnOnePath
  <2>4. Where' = [Where EXCEPT ![id] = {owner[id]}]
    <3>1. \A q \in Paths : id \in IdsIn(avus'[q]) <=> q = p
      BY <1>3, <2>2, <2>3
    <3>2. \A x \in Ids : x # id =>
             \A q \in Paths : x \in IdsIn(avus'[q]) <=> x \in IdsIn(avus[q])
      BY <1>3, <2>2
    <3>3. Where'[id] = {owner[id]}
      BY <1>1, <2>1, <3>1 DEF Where
    <3>4. \A x \in Ids : x # id => Where'[x] = Where[x]
      BY <3>2 DEF Where
    <3> HIDE DEF id
    <3> QED BY <2>1, <3>3, <3>4 DEF Where
  <2>5. PendingSet' = PendingSet \ {id} /\ id \in PendingSet
    BY <1>4, <2>1, PendingStep, PendingIds DEF PendingSet, PendingOf, Adds
  <2>6. Persistent!Attach(id)
    BY <2>4, <2>5 DEF Persistent!Attach, Where, PendingSet, Adds
  <2> QED BY <2>1, <2>6 DEF Persistent!Next
<1>5. CASE ~IdPending(c)
  <2>1. Head(adds[c]).name # DrsIdAvuAttrib
    BY <1>2, <1>5 DEF IdPending
  <2>2. \A q \in Paths : IdsIn(avus'[q]) = IdsIn(avus[q])
    BY <1>3, <2>1, IdsAfterAdd
  <2>3. Where' = Where
    BY <2>2 DEF Where
  <2>4. PendingSet' = PendingSet
    BY <1>5, PendingStep DEF PendingSet, Adds
  <2> QED BY <2>3, <2>4 DEF Persistent!vars, Where, PendingSet, Adds
<1> QED BY <1>4, <1>5

\* Every step maps to a step of PersistentIds, or to none.
LEMMA NextRefines ==
    IInv /\ IInv' /\ MintedInv /\ [Next]_vars
        => [Persistent!Next]_(Persistent!vars)
<1> SUFFICES ASSUME IInv, IInv', MintedInv, [Next]_vars
             PROVE  [Persistent!Next]_(Persistent!vars)
  OBVIOUS
<1>1. CASE UNCHANGED vars
  <2>1. UNCHANGED <<avus, adds, owner>>
    BY <1>1 DEF vars, catalog, client, history
  <2>2. Where' = Where /\ PendingSet' = PendingSet
    BY <2>1 DEF Where, PendingSet, Pending
  <2> QED BY <2>1, <2>2 DEF Persistent!vars, Where, PendingSet
<1>2. ASSUME NEW c \in Clients, ClientStep(c)
      PROVE  [Persistent!Next]_(Persistent!vars)
  BY <1>2, StepKinds, IdleRefines, GenerateRefines, DeleteRefines, AddRefines
<1> QED BY <1>1, <1>2 DEF Next, ClientStep

\* The initial catalogs are initial states of PersistentIds.
LEMMA InitRefines == Init => Persistent!Init
<1> SUFFICES ASSUME Init PROVE Persistent!Init
  OBVIOUS
<1>1. PendingSet = {}
  BY DEF Init, PendingSet, Pending
<1>2. owner \in [Ids -> Paths \cup {None}]
  BY InitIInv DEF IInv, TypeOK
<1>3. ASSUME NEW id \in Ids
      PROVE  Where[id] = IF owner[id] = None THEN {} ELSE {owner[id]}
  <2>1. CASE \E p \in Paths : id \in IdsIn(avus[p])
    <3>1. PICK p \in Paths : id \in IdsIn(avus[p])
      BY <2>1
    <3>2. \A q \in Paths : id \in IdsIn(avus[q]) => q = p
      BY <3>1, InitialCatalogs DEF Init
    <3>3. owner[id] = p
      BY <3>1, InitIInv DEF IInv, IdOnOnePath
    <3> QED BY <3>1, <3>2, <3>3, NoneIsNothing DEF Where
  <2>2. CASE ~\E p \in Paths : id \in IdsIn(avus[p])
    <3>1. owner[id] = None
      BY <2>2 DEF Init
    <3> QED BY <2>2, <3>1 DEF Where
  <2> QED BY <2>1, <2>2
<1>4. Where = [id \in Ids |-> IF owner[id] = None THEN {} ELSE {owner[id]}]
  BY <1>3 DEF Where
<1> QED BY <1>1, <1>2, <1>4 DEF Persistent!Init, Where, PendingSet

\* Registration implements persistent ids: an id is generated once, for one
\* path, attached there at most once, and never comes back after its removal,
\* whichever calls of whichever operations fail or interleave.
THEOREM RegistrationImplementsPersistentIds == Spec => IdsPersist
<1>1. Init => IInv /\ MintedInv /\ Persistent!Init
  BY InitIInv, InitMinted, InitRefines
<1>2. IInv /\ MintedInv /\ [Next]_vars => (IInv /\ MintedInv)'
  BY NextIInv, NextMinted
<1>3. IInv /\ IInv' /\ MintedInv /\ [Next]_vars
        => [Persistent!Next]_(Persistent!vars)
  BY NextRefines
<1> QED BY <1>1, <1>2, <1>3, PTL DEF Spec, IdsPersist, Persistent!Spec

----------------------------------------------------------------------------
(* Sets of AVUs, and the lists the code writes as sets.                    *)

\* The AVUs that give attribute attrib these values.
Avus(attrib, values) == {DrsAvu(attrib, value) : value \in values}

\* A set of AVUs with those put in.
PutOn(metas, attrib, values) == metas \cup Avus(attrib, values)

\* What is read of the AVUs that are put in.
LEMMA AvusRead ==
    ASSUME NEW attrib \in DrsAttribs, NEW values
    PROVE  /\ \A meta \in Avus(attrib, values) :
                 isDrsMetadata(meta) /\ meta.name = attrib /\ meta.value \in values
           /\ {meta.value : meta \in Avus(attrib, values)} = values
<1>1. \A value \in values : /\ isDrsMetadata(DrsAvu(attrib, value))
                            /\ DrsAvu(attrib, value).name = attrib
                            /\ DrsAvu(attrib, value).value = value
  BY DEF DrsAvu, isDrsMetadata
<1>2. \A meta \in Avus(attrib, values) :
         isDrsMetadata(meta) /\ meta.name = attrib /\ meta.value \in values
  BY <1>1 DEF Avus
<1>3. \A value \in values : DrsAvu(attrib, value) \in Avus(attrib, values)
  BY DEF Avus
<1> QED BY <1>1, <1>2, <1>3

\* What putting AVUs in adds to a set of AVUs,
LEMMA PutMetas ==
    ASSUME NEW metas, NEW attrib \in DrsAttribs, NEW values
    PROVE  /\ ForeignMetas(PutOn(metas, attrib, values)) = ForeignMetas(metas)
           /\ DrsMetas(PutOn(metas, attrib, values))
                 = DrsMetas(metas) \cup Avus(attrib, values)
           /\ MetasOf(PutOn(metas, attrib, values), attrib)
                 = MetasOf(metas, attrib) \cup Avus(attrib, values)
BY AvusRead DEF PutOn, ForeignMetas, DrsMetas, MetasOf

\* and to the values of any attribute: they are those of the one put in.
LEMMA PutValues ==
    ASSUME NEW metas, NEW attrib \in DrsAttribs, NEW values, NEW other
    PROVE  ValuesOf(PutOn(metas, attrib, values), other)
              = ValuesOf(metas, other) \cup (IF other = attrib THEN values ELSE {})
<1>1. CASE other = attrib
  <2>1. MetasOf(PutOn(metas, attrib, values), other)
           = MetasOf(metas, other) \cup Avus(attrib, values)
    BY <1>1, PutMetas
  <2> QED BY <1>1, <2>1, AvusRead DEF ValuesOf
<1>2. CASE other # attrib
  <2>1. MetasOf(PutOn(metas, attrib, values), other) = MetasOf(metas, other)
    BY <1>2, AvusRead DEF PutOn, MetasOf, DrsMetas
  <2> QED BY <1>2, <2>1 DEF ValuesOf
<1> QED BY <1>1, <1>2

\* An optional AVU gives its attribute the value, unless that is blank.
LEMMA ListedOptional ==
    ASSUME NEW attrib, NEW value
    PROVE  Listed(Optional(attrib, value)) = Avus(attrib, NonBlank({value}))
<1>1. CASE value = Blank
  BY <1>1 DEF Optional, Listed, Avus, NonBlank
<1>2. CASE value # Blank
  <2>1. Listed(<<DrsAvu(attrib, value)>>) = {DrsAvu(attrib, value)}
    BY DEF Listed
  <2> QED BY <1>2, <2>1 DEF Optional, Avus, NonBlank
<1> QED BY <1>1, <1>2

\* The alias AVUs give the alias attribute the aliases.
LEMMA ListedAliasAvus ==
    ASSUME NEW aliases \in Seq(Texts)
    PROVE  Listed(AliasAvus(aliases)) = Avus(DrsAvuAliasAttrib, Listed(aliases))
<1>1. DOMAIN aliases = 1..Len(aliases)
  OBVIOUS
<1> QED BY <1>1 DEF Listed, AliasAvus, Avus

\* The AVUs that describe an object, attribute by attribute.
LEMMA ListedMetadata ==
    ASSUME NEW object,
           object.id \in Ids,
           object.version \in Texts \cup {Blank},
           object.mime \in Texts \cup {Blank},
           object.description \in Texts \cup {Blank},
           object.aliases \in Seq(Texts \cup {Blank})
    PROVE  Listed(metadataForObject(object))
              = Avus(DrsIdAvuAttrib, {object.id})
                   \cup Avus(DrsAvuVersionAttrib, NonBlank({object.version}))
                   \cup Avus(DrsAvuMimeTypeAttrib, NonBlank({object.mime}))
                   \cup Avus(DrsAvuDescriptionAttrib, NonBlank({object.description}))
                   \cup Avus(DrsAvuAliasAttrib, NonBlank(Listed(object.aliases)))
<1> DEFINE i == <<DrsAvu(DrsIdAvuAttrib, object.id)>>
           v == Optional(DrsAvuVersionAttrib, object.version)
           m == Optional(DrsAvuMimeTypeAttrib, object.mime)
           d == Optional(DrsAvuDescriptionAttrib, object.description)
           a == AliasAvus(normalizedAliases(object.aliases))
<1>1. /\ DrsAvuVersionAttrib \in DrsAttribs \ {DrsIdAvuAttrib}
      /\ DrsAvuMimeTypeAttrib \in DrsAttribs \ {DrsIdAvuAttrib}
      /\ DrsAvuDescriptionAttrib \in DrsAttribs \ {DrsIdAvuAttrib}
      /\ DrsIdAvuAttrib \in DrsAttribs
  BY DEF DrsAttribs, DrsAvuVersionAttrib, DrsAvuMimeTypeAttrib,
         DrsAvuDescriptionAttrib, DrsIdAvuAttrib
<1>2. v \in Seq(Describing) /\ m \in Seq(Describing) /\ d \in Seq(Describing)
  BY <1>1, OptionalType
<1>3. a \in Seq(Describing)
  BY NormalizedAliases, AliasAvusType
<1>4. Seq(Describing) \subseteq Seq(AVU)
  BY DEF Describing, DrsAvus
<1>5. i \in Seq(AVU)
  <2>1. DrsAvu(DrsIdAvuAttrib, object.id) \in AVU
    BY <1>1, DrsAvuIsDrs
  <2> QED BY <2>1
<1>6. /\ Listed(i) = Avus(DrsIdAvuAttrib, {object.id})
      /\ Listed(v) = Avus(DrsAvuVersionAttrib, NonBlank({object.version}))
      /\ Listed(m) = Avus(DrsAvuMimeTypeAttrib, NonBlank({object.mime}))
      /\ Listed(d) = Avus(DrsAvuDescriptionAttrib, NonBlank({object.description}))
  <2>1. Listed(i) = {DrsAvu(DrsIdAvuAttrib, object.id)}
    BY DEF Listed
  <2>2. Listed(i) = Avus(DrsIdAvuAttrib, {object.id})
    BY <2>1 DEF Avus
  <2> QED BY <2>2, ListedOptional
<1>7. Listed(a) = Avus(DrsAvuAliasAttrib, NonBlank(Listed(object.aliases)))
  BY NormalizedAliases, ListedAliasAvus DEF NonBlank
<1>8. metadataForObject(object) = i \o (v \o m \o d \o a)
  BY DEF metadataForObject, describingMetadata
<1> HIDE DEF i, v, m, d, a
<1>9. v \in Seq(AVU) /\ m \in Seq(AVU) /\ d \in Seq(AVU) /\ a \in Seq(AVU)
  BY <1>2, <1>3, <1>4
<1> DEFINE vm == v \o m
           vmd == vm \o d
           vmda == vmd \o a
<1>10. vm \in Seq(AVU) /\ Listed(vm) = Listed(v) \cup Listed(m)
  BY <1>9, ListedConcat, ConcatProperties
<1> HIDE DEF vm
<1>11. vmd \in Seq(AVU) /\ Listed(vmd) = Listed(vm) \cup Listed(d)
  BY <1>9, <1>10, ListedConcat, ConcatProperties
<1> HIDE DEF vmd
<1>12. vmda \in Seq(AVU) /\ Listed(vmda) = Listed(vmd) \cup Listed(a)
  BY <1>9, <1>11, ListedConcat, ConcatProperties
<1> HIDE DEF vmda
<1>13. Listed(i \o vmda) = Listed(i) \cup Listed(vmda)
  BY <1>5, <1>12, ListedConcat
<1>14. metadataForObject(object) = i \o vmda
  BY <1>8 DEF vm, vmd, vmda
<1> QED BY <1>6, <1>7, <1>10, <1>11, <1>12, <1>13, <1>14

----------------------------------------------------------------------------
(* The outcomes of the plans.                                              *)

\* What an update of one attribute promises is what its plan comes to.
LEMMA ReplaceEffect ==
    ASSUME NEW pre, NEW attrib \in DrsAttribs, NEW values,
           NEW post, post = PutOn(pre \ MetasOf(pre, attrib), attrib, values)
    PROVE  /\ ForeignMetas(post) = ForeignMetas(pre)
           /\ ValuesOf(post, attrib) = values
           /\ DrsMetas(post) \ MetasOf(post, attrib)
                 = DrsMetas(pre) \ MetasOf(pre, attrib)
<1> DEFINE rest == pre \ MetasOf(pre, attrib)
<1>1. /\ ForeignMetas(rest) = ForeignMetas(pre)
      /\ MetasOf(rest, attrib) = {}
      /\ DrsMetas(rest) = DrsMetas(pre) \ MetasOf(pre, attrib)
  BY DEF ForeignMetas, MetasOf, DrsMetas
<1>2. ValuesOf(rest, attrib) = {}
  BY <1>1 DEF ValuesOf
<1>3. \A meta \in rest : meta \notin MetasOf(rest, attrib)
  BY <1>1
<1> HIDE DEF rest
<1>4. post = PutOn(rest, attrib, values)
  BY DEF rest
<1>5. /\ ForeignMetas(post) = ForeignMetas(rest)
      /\ ValuesOf(post, attrib) = ValuesOf(rest, attrib) \cup values
      /\ DrsMetas(post) = DrsMetas(rest) \cup Avus(attrib, values)
      /\ MetasOf(post, attrib) = MetasOf(rest, attrib) \cup Avus(attrib, values)
  <2>1. /\ ForeignMetas(PutOn(rest, attrib, values)) = ForeignMetas(rest)
        /\ ValuesOf(PutOn(rest, attrib, values), attrib)
              = ValuesOf(rest, attrib) \cup values
        /\ DrsMetas(PutOn(rest, attrib, values))
              = DrsMetas(rest) \cup Avus(attrib, values)
        /\ MetasOf(PutOn(rest, attrib, values), attrib)
              = MetasOf(rest, attrib) \cup Avus(attrib, values)
    BY PutMetas, PutValues
  <2> QED BY <1>4, <2>1
<1>6. DrsMetas(rest) \cap Avus(attrib, values) = {}
  BY <1>1 DEF rest, MetasOf, DrsMetas, Avus, DrsAvu
<1> QED BY <1>1, <1>2, <1>5, <1>6

\* What a create promises is what its plan comes to, on a path that carries no
\* id and is no compound manifest.
LEMMA CreateEffect ==
    ASSUME NEW j \in JobType, NEW drsID \in Ids, NEW pre,
           j.op = "create", IdsIn(pre) = {}, ~IsManifest(pre),
           NEW post, post = pre \cup Listed(metadataForObject(internalObject(j, drsID)))
    PROVE  Promise(j, drsID, pre, post)
<1> DEFINE object == internalObject(j, drsID)
           mime == normalizedMimeType(j.path, j.mime)
           V == NonBlank({ChecksumOf[j.path]})
           M == NonBlank({mime})
           D == NonBlank({j.value})
           A == NonBlank(Listed(j.aliases))
           s1 == PutOn(pre, DrsIdAvuAttrib, {drsID})
           s2 == PutOn(s1, DrsAvuVersionAttrib, V)
           s3 == PutOn(s2, DrsAvuMimeTypeAttrib, M)
           s4 == PutOn(s3, DrsAvuDescriptionAttrib, D)
           s5 == PutOn(s4, DrsAvuAliasAttrib, A)
<1>1. /\ object.id = drsID
      /\ object.version = ChecksumOf[j.path]
      /\ object.version \in Texts \cup {Blank}
      /\ object.mime = mime
      /\ object.mime \in Texts \cup {Blank}
      /\ object.description = j.value
      /\ object.description \in Texts \cup {Blank}
      /\ object.aliases = j.aliases
      /\ object.aliases \in Seq(Texts \cup {Blank})
  BY DerivedValues DEF internalObject, normalizedMimeType, JobType
<1>2. post = s5
  BY <1>1, ListedMetadata DEF PutOn
<1> HIDE DEF object, V, M, D, A
<1>3. /\ DrsIdAvuAttrib \in DrsAttribs /\ DrsAvuVersionAttrib \in DrsAttribs
      /\ DrsAvuMimeTypeAttrib \in DrsAttribs /\ DrsAvuAliasAttrib \in DrsAttribs
      /\ DrsAvuDescriptionAttrib \in DrsAttribs
  BY DEF DrsAttribs
<1>4. /\ ForeignMetas(s1) = ForeignMetas(pre)
      /\ ForeignMetas(s2) = ForeignMetas(s1)
      /\ ForeignMetas(s3) = ForeignMetas(s2)
      /\ ForeignMetas(s4) = ForeignMetas(s3)
      /\ ForeignMetas(s5) = ForeignMetas(s4)
  BY <1>3, PutMetas
<1>5. ASSUME NEW attrib,
             attrib \in {DrsIdAvuAttrib, DrsAvuVersionAttrib, DrsAvuMimeTypeAttrib,
                         DrsAvuDescriptionAttrib, DrsAvuAliasAttrib,
                         DrsAvuCompoundManifestAttrib}
      PROVE  ValuesOf(s5, attrib)
                = ValuesOf(pre, attrib)
                     \cup (IF attrib = DrsIdAvuAttrib THEN {drsID}
                           ELSE IF attrib = DrsAvuVersionAttrib THEN V
                           ELSE IF attrib = DrsAvuMimeTypeAttrib THEN M
                           ELSE IF attrib = DrsAvuDescriptionAttrib THEN D
                           ELSE IF attrib = DrsAvuAliasAttrib THEN A
                           ELSE {})
  <2>1. ValuesOf(s1, attrib)
           = ValuesOf(pre, attrib)
                \cup (IF attrib = DrsIdAvuAttrib THEN {drsID} ELSE {})
    BY <1>3, PutValues
  <2>2. ValuesOf(s2, attrib)
           = ValuesOf(s1, attrib)
                \cup (IF attrib = DrsAvuVersionAttrib THEN V ELSE {})
    BY <1>3, PutValues
  <2>3. ValuesOf(s3, attrib)
           = ValuesOf(s2, attrib)
                \cup (IF attrib = DrsAvuMimeTypeAttrib THEN M ELSE {})
    BY <1>3, PutValues
  <2>4. ValuesOf(s4, attrib)
           = ValuesOf(s3, attrib)
                \cup (IF attrib = DrsAvuDescriptionAttrib THEN D ELSE {})
    BY <1>3, PutValues
  <2>5. ValuesOf(s5, attrib)
           = ValuesOf(s4, attrib)
                \cup (IF attrib = DrsAvuAliasAttrib THEN A ELSE {})
    BY <1>3, PutValues
  <2> HIDE DEF s1, s2, s3, s4, s5
  <2> USE DEF DrsIdAvuAttrib, DrsAvuVersionAttrib, DrsAvuMimeTypeAttrib,
              DrsAvuDescriptionAttrib, DrsAvuAliasAttrib,
              DrsAvuCompoundManifestAttrib
  <2> QED BY <1>5, <2>1, <2>2, <2>3, <2>4, <2>5
<1> USE DEF DrsIdAvuAttrib, DrsAvuVersionAttrib, DrsAvuMimeTypeAttrib,
            DrsAvuDescriptionAttrib, DrsAvuAliasAttrib, DrsAvuCompoundManifestAttrib
<1> HIDE DEF s1, s2, s3, s4, s5
<1>6. ForeignMetas(post) = ForeignMetas(pre)
  BY <1>2, <1>4
<1>7. IdsIn(post) = {drsID}
  BY <1>2, <1>5 DEF IdsIn
<1>8. ASSUME DrsMetas(pre) = {}
      PROVE  /\ ValuesOf(post, DrsAvuVersionAttrib) = V
             /\ ValuesOf(post, DrsAvuMimeTypeAttrib) = M
             /\ ValuesOf(post, DrsAvuDescriptionAttrib) = D
             /\ ValuesOf(post, DrsAvuAliasAttrib) = A
  <2>1. \A attrib : ValuesOf(pre, attrib) = {}
    BY <1>8 DEF ValuesOf, MetasOf
  <2> QED BY <1>2, <1>5, <2>1
<1>9. ~IsManifest(post)
  <2>1. ValuesOf(post, DrsAvuCompoundManifestAttrib) = {}
    <3>1. ValuesOf(pre, DrsAvuCompoundManifestAttrib) = {}
      BY DEF IsManifest, ValuesOf
    <3> QED BY <1>2, <1>5, <3>1
  <2> QED BY <2>1 DEF IsManifest, ValuesOf
<1> QED BY <1>6, <1>7, <1>8, <1>9
        DEF Promise, V, M, D, A, Listed, Removers

\* What the update of a field promises is what its plan comes to,
LEMMA UpdateFieldEffect ==
    ASSUME NEW j \in JobType, NEW drsID, NEW pre,
           j.op = "updateField", j.attr \in FieldAttribs,
           NEW post,
           post = (pre \ MetasOf(pre, j.attr)) \cup Listed(Optional(j.attr, j.value))
    PROVE  Promise(j, drsID, pre, post)
<1>1. j.attr \in DrsAttribs
  BY DEF FieldAttribs, DrsAttribs
<1>2. post = PutOn(pre \ MetasOf(pre, j.attr), j.attr, NonBlank({j.value}))
  BY ListedOptional DEF PutOn
<1>3. /\ ForeignMetas(post) = ForeignMetas(pre)
      /\ ValuesOf(post, j.attr) = NonBlank({j.value})
      /\ DrsMetas(post) \ MetasOf(post, j.attr)
            = DrsMetas(pre) \ MetasOf(pre, j.attr)
  BY <1>1, <1>2, ReplaceEffect, ZenonT(60)
<1> QED BY <1>3 DEF Promise, Removers

\* and so it is with the update of the aliases
LEMMA UpdateAliasesEffect ==
    ASSUME NEW j \in JobType, NEW drsID, NEW pre, j.op = "updateAliases",
           NEW post,
           post = (pre \ MetasOf(pre, DrsAvuAliasAttrib))
                     \cup Listed(AliasAvus(normalizedAliases(j.aliases)))
    PROVE  Promise(j, drsID, pre, post)
<1> DEFINE values == NonBlank({j.aliases[i] : i \in DOMAIN j.aliases})
<1>1. DrsAvuAliasAttrib \in DrsAttribs
  BY DEF DrsAttribs
<1>2. /\ normalizedAliases(j.aliases) \in Seq(Texts)
      /\ Listed(normalizedAliases(j.aliases)) = values
  BY NormalizedAliases DEF JobType, NonBlank, Listed
<1>3. post = PutOn(pre \ MetasOf(pre, DrsAvuAliasAttrib), DrsAvuAliasAttrib, values)
  BY <1>2, ListedAliasAvus DEF PutOn
<1> HIDE DEF values
<1>4. /\ ForeignMetas(post) = ForeignMetas(pre)
      /\ ValuesOf(post, DrsAvuAliasAttrib) = values
      /\ DrsMetas(post) \ MetasOf(post, DrsAvuAliasAttrib)
            = DrsMetas(pre) \ MetasOf(pre, DrsAvuAliasAttrib)
  BY <1>1, <1>3, ReplaceEffect, ZenonT(60)
<1> QED BY <1>4 DEF values, Promise, Removers

\* and with a removal.
LEMMA RemovalEffect ==
    ASSUME NEW j \in JobType, NEW drsID, NEW pre, j.op \in Removers,
           NEW post, post = pre \ DrsMetas(pre)
    PROVE  Promise(j, drsID, pre, post)
<1>1. ForeignMetas(post) = ForeignMetas(pre) /\ DrsMetas(post) = {}
  BY DEF ForeignMetas, DrsMetas
<1> QED BY <1>1 DEF Promise, Removers

----------------------------------------------------------------------------
(* The inductive invariant.                                                *)

\* What c's path holds when c has written what it has left, if nobody else
\* writes it.
Outcome(c) == (avus[job[c].path] \ dels[c]) \cup Listed(adds[c])

\* An operation that is alone on its path will have kept its promise then.
Keeps(c) ==
    alone[c] => /\ stage[c] \in {"write", "done"}
                /\ Promise(job[c], minted[c], before[c], Outcome(c))

EffectInv == \A c \in Clients : Keeps(c)

\* Making a plan establishes it,
LEMMA PlanKeeps ==
    ASSUME IInv, NEW c \in Clients, NEW ds, NEW as, Plan(c, ds, as),
           Promise(job[c], minted'[c], avus[job[c].path],
                   (avus[job[c].path] \ ds) \cup Listed(as))
    PROVE  Keeps(c)'
<1>1. /\ stage'[c] = "write" /\ dels'[c] = ds /\ adds'[c] = as
      /\ before'[c] = avus[job[c].path] /\ avus' = avus /\ job' = job
  BY DEF Plan, IInv, TypeOK
<1>2. Outcome(c)' = (avus[job[c].path] \ ds) \cup Listed(as)
  BY <1>1 DEF Outcome
<1> QED BY <1>1, <1>2 DEF Keeps

\* giving up gives up the promise,
LEMMA GiveUpKeeps ==
    ASSUME IInv, NEW c \in Clients, alone'[c] = FALSE
    PROVE  Keeps(c)'
BY DEF Keeps

\* and what leaves the operation and its path alone keeps it.
LEMMA SameKeeps ==
    ASSUME NEW c \in Clients, Keeps(c), alone'[c] => alone[c],
           stage'[c] \in {"write", "done"} \/ stage'[c] = stage[c],
           job'[c] = job[c], minted'[c] = minted[c], before'[c] = before[c],
           alone'[c] => Outcome(c)' = Outcome(c)
    PROVE  Keeps(c)'
BY DEF Keeps

\* A step of one client leaves the promise of the others alone, or they are no
\* longer alone.
LEMMA OthersKeep ==
    ASSUME IInv, NEW c \in Clients, NEW d \in Clients, c # d, Keeps(d),
           Start(c) \/ Step(c) \/ Fail(c) \/ FailAfterWrite(c)
    PROVE  Keeps(d)'
<1>1. /\ stage'[d] = stage[d] /\ job'[d] = job[d] /\ adds'[d] = adds[d]
      /\ dels'[d] = dels[d] /\ minted'[d] = minted[d]
  BY OthersWait
<1>2. before'[d] = before[d]
  BY DEF IInv, TypeOK, Start, Begin, Step, Fail, FailAfterWrite, Refuse, GiveUp,
         Query, Load, Resolve, PlanCreate, PlanUpdateField, PlanUpdateAliases,
         PlanRemoveSingle, PlanStrip, Plan, DeleteNext, AddNext, Finish, history
<1>3. job[d].path \in Paths
  BY DEF IInv, TypeOK, JobType
<1>4. CASE UNCHANGED avus /\ alone'[d] = alone[d]
  BY <1>1, <1>2, <1>4, SameKeeps DEF Outcome
<1>5. CASE Start(c) \/ Fail(c)
  BY <1>4, <1>5 DEF Start, Begin, Fail, Refuse, IInv, TypeOK
<1>6. CASE Query(c) \/ Load(c) \/ Resolve(c) \/ Finish(c)
  BY <1>4, <1>6 DEF Query, Load, Resolve, Finish, Refuse, history, IInv, TypeOK
<1>7. CASE \/ PlanCreate(c) \/ PlanUpdateField(c) \/ PlanUpdateAliases(c)
           \/ PlanRemoveSingle(c) \/ PlanStrip(c)
  BY <1>4, <1>7 DEF PlanCreate, PlanUpdateField, PlanUpdateAliases,
     PlanRemoveSingle, PlanStrip, Plan, Refuse, IInv, TypeOK
<1>8. CASE DeleteNext(c) \/ AddNext(c) \/ FailAfterWrite(c)
  <2>1. alone'[d] = (alone[d] /\ job[d].path # job[c].path)
    BY <1>8 DEF DeleteNext, AddNext, FailAfterWrite, AloneAfter
  <2>2. \/ avus'[job[d].path] = avus[job[d].path]
        \/ job[c].path = job[d].path
    BY <1>3, CatalogStep
  <2> QED BY <1>1, <1>2, <2>1, <2>2, SameKeeps DEF Outcome
<1> QED BY <1>5, <1>6, <1>7, <1>8 DEF Step

\* EffectInv is preserved by every step.
LEMMA NextEffect == IInv /\ EffectInv /\ [Next]_vars => EffectInv'
<1> SUFFICES ASSUME IInv, EffectInv, [Next]_vars, NEW d \in Clients
             PROVE  Keeps(d)'
  BY DEF EffectInv
<1>1. Keeps(d)
  BY DEF EffectInv
<1>2. job[d] \in JobType /\ job[d].path \in Paths /\ avus[job[d].path] \in SUBSET AVU
  BY DEF IInv, TypeOK, JobType
<1>3. CASE UNCHANGED vars
  BY <1>1, <1>3, SameKeeps DEF vars, catalog, client, history, Outcome
<1>4. ASSUME NEW c \in Clients, c # d,
             Start(c) \/ Step(c) \/ Fail(c) \/ FailAfterWrite(c)
      PROVE  Keeps(d)'
  BY <1>1, <1>4, OthersKeep
<1>5. CASE Start(d) \/ Refuse(d) \/ FailAfterWrite(d)
  BY <1>5, GiveUpKeeps DEF Start, Begin, Refuse, FailAfterWrite, AloneAfter,
     IInv, TypeOK
<1>6. CASE Query(d) \/ Load(d) \/ Resolve(d)
  <2>1. stage[d] \notin {"write", "done"} /\ (Refuse(d) \/ alone' = alone)
    BY <1>6 DEF Query, Load, Resolve, history
  <2>2. ~alone[d]
    BY <1>1, <2>1 DEF Keeps
  <2> QED BY <1>5, <2>1, <2>2, GiveUpKeeps DEF IInv, TypeOK
<1>7. CASE PlanCreate(d)
  <2>1. ASSUME NEW drsID \in FreshIds,
               Plan(d, {}, metadataForObject(internalObject(job[d], drsID))),
               minted' = [minted EXCEPT ![d] = drsID],
               job[d].op = "create",
               IdsIn(avus[job[d].path]) = {}, ~IsManifest(avus[job[d].path])
        PROVE  Keeps(d)'
    <3>1. minted'[d] = drsID /\ drsID \in Ids
      BY <2>1 DEF IInv, TypeOK, FreshIds
    <3>2. Promise(job[d], drsID, avus[job[d].path],
                  (avus[job[d].path] \ {})
                     \cup Listed(metadataForObject(internalObject(job[d], drsID))))
      BY <1>2, <2>1, <3>1, CreateEffect
    <3> QED BY <2>1, <3>1, <3>2, PlanKeeps
  <2> QED BY <1>5, <1>7, <2>1 DEF PlanCreate
<1>8. CASE PlanUpdateField(d)
  <2>1. job[d].attr \in FieldAttribs
    BY <1>8 DEF PlanUpdateField, IInv, JobInv
  <2>2. Promise(job[d], minted'[d], avus[job[d].path],
                (avus[job[d].path] \ MetasOf(avus[job[d].path], job[d].attr))
                   \cup Listed(Optional(job[d].attr, job[d].value)))
    BY <1>2, <1>8, <2>1, UpdateFieldEffect DEF PlanUpdateField
  <2> QED BY <1>8, <2>2, PlanKeeps DEF PlanUpdateField
<1>9. CASE PlanUpdateAliases(d)
  <2>1. Promise(job[d], minted'[d], avus[job[d].path],
                (avus[job[d].path] \ MetasOf(avus[job[d].path], DrsAvuAliasAttrib))
                   \cup Listed(AliasAvus(normalizedAliases(job[d].aliases))))
    BY <1>2, <1>9, UpdateAliasesEffect DEF PlanUpdateAliases
  <2> QED BY <1>9, <2>1, PlanKeeps DEF PlanUpdateAliases
<1>10. CASE PlanRemoveSingle(d) \/ PlanStrip(d)
  <2>1. CASE Plan(d, DrsMetas(avus[job[d].path]), <<>>)
    <3>1. job[d].op \in Removers
      BY <1>10 DEF PlanRemoveSingle, PlanStrip, Removers
    <3>2. Listed(<<>>) = {}
      BY DEF Listed
    <3>3. Promise(job[d], minted'[d], avus[job[d].path],
                  (avus[job[d].path] \ DrsMetas(avus[job[d].path])) \cup Listed(<<>>))
      BY <1>2, <3>1, <3>2, RemovalEffect
    <3> QED BY <2>1, <3>3, PlanKeeps
  <2> QED BY <1>5, <1>10, <2>1 DEF PlanRemoveSingle, PlanStrip
<1>11. CASE DeleteNext(d)
  <2>1. PICK meta \in dels[d] :
           /\ avus'[job[d].path] = avus[job[d].path] \ {meta}
           /\ dels'[d] = dels[d] \ {meta}
    BY <1>2, <1>11 DEF DeleteNext, Write, IInv, TypeOK
  <2>2. /\ alone'[d] = alone[d]
        /\ UNCHANGED <<stage, job, adds, minted, before>>
    BY <1>11 DEF DeleteNext, AloneAfter, IInv, TypeOK
  <2>3. Outcome(d)' = Outcome(d)
    BY <2>1, <2>2 DEF Outcome
  <2> QED BY <1>1, <2>2, <2>3, SameKeeps
<1>12. CASE AddNext(d)
  <2>1. /\ dels[d] = {} /\ dels' = dels /\ adds[d] # <<>> /\ adds[d] \in Seq(AVU)
        /\ avus'[job[d].path] = avus[job[d].path] \cup {Head(adds[d])}
        /\ adds'[d] = Tail(adds[d])
    BY <1>2, <1>12 DEF AddNext, Write, IInv, TypeOK
  <2>2. /\ alone'[d] = alone[d]
        /\ UNCHANGED <<stage, job, minted, before>>
    BY <1>12 DEF AddNext, AloneAfter, IInv, TypeOK
  <2>3. Listed(adds[d]) = {Head(adds[d])} \cup Listed(Tail(adds[d]))
    BY <2>1, ListedTail
  <2>4. Outcome(d)' = Outcome(d)
    BY <2>1, <2>2, <2>3 DEF Outcome
  <2> QED BY <1>1, <2>2, <2>4, SameKeeps
<1>13. CASE Finish(d)
  <2>1. /\ stage'[d] = "done"
        /\ UNCHANGED <<avus, job, dels, adds, minted, before, alone>>
    BY <1>13 DEF Finish, IInv, TypeOK
  <2> QED BY <1>1, <2>1, SameKeeps DEF Outcome
<1>14. CASE Step(d)
  BY <1>6, <1>7, <1>8, <1>9, <1>10, <1>11, <1>12, <1>13, <1>14 DEF Step
<1> QED BY <1>3, <1>4, <1>5, <1>14 DEF Next, Fail

\* An operation that returned without error, on a path no other client has
\* written since its plan, has exactly the effect it promises.
THEOREM OperationsKeepPromises == Spec => []UndisturbedEffect
<1>1. Init => IInv /\ EffectInv
  <2>1. Init => EffectInv
    BY DEF Init, EffectInv, Keeps
  <2> QED BY <2>1, InitIInv
<1>2. IInv /\ EffectInv /\ [Next]_vars => (IInv /\ EffectInv)'
  BY NextIInv, NextEffect
<1>3. IInv /\ EffectInv => UndisturbedEffect
  <2> SUFFICES ASSUME IInv, EffectInv, NEW c \in Clients, stage[c] = "done", alone[c]
               PROVE  Promise(job[c], minted[c], before[c], avus[job[c].path])
    BY DEF UndisturbedEffect
  <2>1. dels[c] = {} /\ adds[c] = <<>>
    BY DEF IInv, PendingInv
  <2>2. Outcome(c) = avus[job[c].path]
    BY <2>1 DEF Outcome, Listed
  <2> QED BY <2>2 DEF EffectInv, Keeps
<1> QED BY <1>1, <1>2, <1>3, PTL DEF Spec
=============================================================================
