# irods-go-drs in TLA+

This directory is a model of the DRS server and its console tool: TLA+ modules
translated from the Go code under `src/`, TLC configurations that check them on
small instances, and proofs of the main safety properties, checked by TLAPS.
`PROJECT.json` maps every definition to the lines it models.

    tlc -workers 2 -config RegisterRemove.cfg MCDrsRegistration    # one run
    tlapm DrsRegistration_proofs.tla                               # the proofs

## 1. The system

irods-go-drs publishes data that iRODS stores as GA4GH DRS objects. All of its
durable state is metadata (AVUs: attribute, value, unit) on iRODS paths; a data
object or collection is a DRS object when it carries an AVU `iRODS:DRS:ID` in
the unit `iRODS:DRS` (or none). Nothing locks and nothing is transactional: the
server and any number of `drscmd` processes meet in the iRODS catalog only, one
call at a time.

| Component (source) | State it keeps | Operations | Modelled by |
|---|---|---|---|
| Registration of data objects (`drs-support/drs_to_irods_service.go`, `drs_strip.go`) | AVUs of a path | `CreateDrsObjectFromDataObject`, `GetDrsObjectByID`, `GetDrsObjectByIRODSPath`, `UpdateDrsObjectMetadataField`, `UpdateDrsObjectAliases`, `RemoveSingleDrsObjectFromDataObject`, `StripDrsSemantics` | `DrsMetadata`, `DrsRegistration` |
| Compound objects (`compound_create.go`, `drs_strip.go`) | AVUs of a collection and of all that it includes; the `.drsignore` file | `CreateCompoundDrsObjectFromCollection`, `PreflightCompound...`, strip of a tree; runtime manifest; ignore template | `CompoundCreate`, `CompoundManifest` (all but the ignore template) |
| Listing (`drs_to_irods_service.go`) | none; cursors during one call | `ListDrsObjectsUnderCollectionPage`, `...PageFast`, `ListDrsObjects` | `DrsListing` |
| Service-info sampler (`internal/service_info_sampler.go`, `api_service_info.go`, `main.go`) | the published snapshot, under a RW lock; a goroutine and its ticker | `Start` with retries, `sample`, `Snapshot`, `GetServiceInfo` | `ServiceInfoSampler` |
| Catalog summary (`drs_object_summary.go`) | none; cursor and rows seen during one call | `QueryDrsDataObjectSummary`: paged rows to counts | `ServiceInfoSampler` |
| Object API (`internal/api_objects.go`, `routers.go`) | none that outlives a request | GET and OPTIONS on objects, access URLs with tickets, compound manifests, OPTIONS on a bulk of ids; the other routes answer that they are not supported | `DrsRequests` |
| Access methods (`access_methods.go`) | none | access methods and access ids from configuration and replicas, and back | `AccessMethods` |
| Authentication and request context (`internal/`) | none that outlives a request | which requests pass, and with which account | `DrsRequests`, in part |
| Validator (`drs_manifest.go`, `drs_validator.go`) | none | walk over referenced objects, with cycles | not modelled, see section 8 |
| Mime types (`mime_type_support.go`) | none | mime type from the name | the constant `MimeOf` |
| Log, configuration, generated models, certification tool | none that outlives the start | | not modelled, see section 8 |
| Console (`tools/drs-console/drscmd.go`) | iRODS environment | calls the operations above | `drsrm`, `drsls`; `drsinfo`, `drsupdate`, `drsrm` by id in `DrsRequests` |

How they interact: API handlers and `drscmd` call the functions of `drs-support`,
each with an iRODS connection of its own. `CreateCompound...` calls the creation
of a data object for each of its members. `main` calls `Start` of the sampler
and listens only after it has returned; handlers read its snapshot.

What is hard, and so what the properties are about:

* **Interleaving without transactions.** Every operation is a `ListMetadata`
  followed by deletions and additions that were decided from it. Between any two
  calls other clients may write the same path.
* **Failure half-way.** A call fails, fails after it took effect, or the process
  dies; no operation undoes anything, and a retry meets what is left.
* **Decisions on old snapshots.** Compound creation decides on a snapshot of a
  whole tree and works on it for a long time.
* **Order.** The id is the first AVU written by a creation and may be the first
  one deleted by a strip; the marker is the last one written on a compound.
* **Portions.** Listings combine bounded queries for two kinds of entries.
* **Ids, then paths.** Handlers and commands look an id up with one call and act on
  the path they found with later ones.
* **Answers put together from many calls.** A manifest, a page, a bulk answer and a
  summary are assembled while the catalog changes; each has to be true of something.
* **Names inside names.** An access id is cut at dashes, which resource names have too.
* **Time.** The sampler's startup deadline, outages, cancellation, ticks.

What makes each component correct: an id denotes one path forever; a returned
id keeps resolving until someone removes it; metadata of users is never touched;
what a failed registration or update leaves has an id to be found by; a compound's marker implies
registered members; a page is the window it says it is; a manifest is a tree and
shows what was registered; what a request answers was so while it ran, and an
access method that was offered can be used; a server that listens
always has a service-info to answer with.

## 2. Modules

    Lists                 the loop that the code goes through its lists with
      Lists_proofs          what it leaves of a list, and where
      DrsMetadata           AVUs and the pure functions on them
        DrsRegistration       clients and their operations on single paths
          DrsRegistration_proofs   theorems, among them that it implements
                                   PersistentIds
          MCDrsRegistration        instances for TLC
          CompoundCreate         coordinators that walk over trees
            CompoundCreate_proofs  theorems
            MCCompoundCreate       instances
            CompoundManifest       viewers that build manifests of them
              CompoundManifest_proofs  theorems, with those of CompoundCreate
              MCCompoundManifest     instance
          DrsRequests            handlers of the API and commands by id, with
                                 AccessMethods
            DrsRequests_proofs     theorems, with those of DrsRegistration and
                                   the lemmas of AccessMethods
            MCDrsRequests          instances
      AccessMethods         access methods and access ids
        AccessMethods_proofs  lemmas about them
      DrsListing            listings, page by page
        DrsListing_proofs     theorems
        MCDrsListing          instances
    PersistentIds         what ids promise; implemented by DrsRegistration
    ServiceInfoSampler    the sampler, its query and the requests that read it
      ServiceInfoSampler_proofs  theorems
      MCServiceInfoSampler  instance

**Lists.** `Without(list, dropped)` is a loop over a list that passes over some of
its entries: blank aliases and ids, rows that no query matches, paths that were not
found, affinity entries without a host. Sorting is the same loop over all paths in
their order.

**DrsMetadata.** An AVU is a record of name, value and unit. Units are only told
apart as far as the code does: `iRODS:DRS`, none, or foreign (`isDrsMetadata`).
Values are ids, texts or `Blank`, which is what trimming makes of white space.
`metadataForObject`, `normalizedAliases`, `Optional` are the code's functions.

**DrsRegistration.** `avus[p]` is the catalog. A client runs one operation at a
time through the stages `query`/`load` (getById), `resolve`, `plan` (the
`ListMetadata` that decides), `write` (the deletions `dels` in any order, since
listings have none, then the additions `adds` in the order of the code). Every
iRODS call is one step. `Fail` is a failing call or a death between calls,
`FailAfterWrite` a write that took effect although its caller does not learn of
it. Both leave the client as the code leaves it, ready for another operation.
`owner`, `minted`, `published`, `before`, `alone` are history for the properties.
`newGUID` picks an id that was never used (`FreshIds`); when the instance's
ids are used up it fails, as the code's `newGUID` may. The search of `getById` is one
step, although the code pages through matches a hundred at a time: an id has few, and
the copies of it in other units are dropped from every page.

**CompoundCreate** extends it: a coordinator's walk is a program that calls the
operations of a client on one path at a time (`Call`), and goes on when the call
is `done` or `failed`. Reading the tree takes one step per node, so that the
snapshot is as inconsistent as it can be. Next to `create` it calls `complete`
(`ensureDataObjectDrsCompleteness`) and `upsert` (`upsertDrsMetadata`, which
deletes the same value before it adds it). `BeginStrip` is `drsrm` on a tree.
The preflight of the same collection is a function of a snapshot: the nodes that
`preflightNodes` keeps and the announcement (`WillAssign`) it makes of each. The
rules of a `.drsignore` are the constant `Ignored`; the file itself is in
`IgnoreFiles` and always excluded.

**CompoundManifest** extends that: a viewer lists the root, queries the collections
and then the data objects below it page by page, and draws the entries it found,
and the collections that lead to them, in path order. Each call is one step, and
clients register and strip in between. A node that has no parent to hang from is
an error in the code, the stage `orphaned` here. The cursor of a query is an
offset into its rows, sorted by path, as in `DrsListing`; with a cursor that
remembers the last row the properties hold all the more. `carried`, `steady` and
`shifted` are what the properties remember of the catalog during a build.

**AccessMethods** has the pure functions of the configuration and of what iRODS
knows of an object: the distinct resources of its replicas, the HTTPS, iRODS, S3
and local methods, the access ids, `ParseHTTPSAccessID`, and the host that serves
a resource. Names and access ids are the sequences of their parts between dashes.

**DrsRequests.** A handler serves one request after the other, as a client of
`DrsRegistration`: its lookup is that module's `getById`, with its two calls, and
`drsupdate` and `drsrm` call that module's operations on the path found. `Refusal`
is what is decided before iRODS is asked (credentials, routes without an
implementation, blank ids, the configured provider). `found` is the outcome of a
lookup: an object, a manifest, `nil` (neither object nor error), or an error by
what its message says, since statuses are chosen by words in messages. Every
request is served under one configuration, read once. After an object was shown,
`Arrive` may ask for any access id it offered.

Some things that are one step there, or left out: `BuildManifest` is one step
(`CompoundManifest` has its steps, and that a compound's checksum is computed from
its manifest is part of the lookup); making a ticket is one call of the iRODS
library; without OIDC no credentials are looked at and routes behind the service
context answer 401; net/http recovers a panic for its request only; `drsrm` by id
works on one path here, on trees in `CompoundCreate`; the 400 that
`OptionsObject` has for a message with "required" cannot occur after its check for
blank ids, nor the 500 of an irods URL that is incomplete, where host, port and zone
are configured and the path of an object is not blank; and an access id that ends in a blank resource (`irods-go-rest-https-`),
which no method has and which is answered with 404, is not asked for.

**PersistentIds** is the abstract promise: an id is generated once, for one
path (`home`), is attached there at most once and, removed, never comes back.

**DrsListing.** A path is its rank in path order; `carries[p]` says whether it
has an id and whether it has a marker (other DRS metadata, on a data object).
`order` is the order in which iRODS returns matches, `Outside` the paths that
the SQL pattern matches and `drsListingEntryWithinScope` drops. One step is one
`QueryMetadataEntries`; `Page` filters, sorts and cuts. The user turns pages
while `HasMore` says so. The catalog does not change during a listing.

**ServiceInfoSampler.** `phase` is the control of `Start` and of its goroutine,
`clock` the time since `Start`. A sample is a query, read page by page:
a row is a replica's size, or an AVU that does not count, of a data object, and an
object may have several rows on several pages. The catalog goes through the
constant `Versions`; the pages of one query belong to the version it began with.
`Counted` drops rows of objects already seen, as the code's map does. `up` stands
for everything a page needs: iRODS answers, and its rows are well-formed.
`GetServiceInfo` is two steps, since it reads the snapshot twice.

## 3. Runs

| Run | Instance | Checks |
|---|---|---|
| `RegisterShared` | 2 clients create and update the same path and read it; 4 ids; bare or registered catalog | `TypeOK`, `NoOrphans`, `PublishedResolvable` |
| `RegisterRemove` | 2 clients; creates, updates, strip, removal and `drsrm` of a plain path and of a compound; 3 ids | `IdOnOnePath`, `ResolvesOwnPath`, `ForeignUntouched`, `ManifestProtected`, and that the whole implements `PersistentIds` (`IdsPersist`) |
| `RegisterAlone` | 1 client creates, the other updates and removes | `OneIdPerPath`, `UndisturbedEffect`, `EveryOperationEnds` |
| `CompoundMembers` | collections r > s, data objects a, b; a coordinator creates r again and again while a client creates b | `MembersRegistered`, `GrantedIdStays` |
| `CompoundAlone` | r > s, a, x, which is ignored, and g, its `.drsignore`; creation and strip, with failures at every call, from an empty or a partly registered tree | `CompoundTypeOK`, `CompoundEffect`, `PreflightTells`, `StripEffect`, `WalkEnds` |
| `Manifests` | r > s > u, data objects a, d, g, on three levels; one viewer, and one client that strips a and d and registers d again; pages of 1 row | `ManifestTypeOK`, `ManifestIsTree`, `ManifestSound`, `ManifestEnds` |
| `Requests` | one handler with every kind of request, one client that strips and registers the object again, a compound, 4 configurations | `ApiTypeOK`, `WorksOnOwner`, `AnswersTrue`, `OfferedHonoured`, `RequestEnds` |
| `Sampler` | 2 requests, one outage, 3 versions of the catalog with pages of 2 rows, cancellation at any time, retries every 2 until 5 | `TypeOK`, `NeverUnavailable`, `AttemptsBounded`, `SummaryExact`, `AnswersAdvance`, `StartReturns`, `CancelStops`, `CatchesUp` |
| `Listing` | every catalog of 4 collections and 1 data object, 2 orders of the query, 3 scopes, page sizes 1 and 2, queries of at most 3 | `TypeOK`, `ExactPages`, `FastPages`, `PagesSound`, `ListingEnds` |
| `RequestPanics` | a GET and a strip of the same object | violates `NoPanic` |
| `CompoundWithoutId` | one creation with a failing upsert | violates `MarkedHasId` |
| `FastListing` | as `Listing` | violates `WindowShown` |

What the runs of requests and manifests say:

* `AnswersTrue`: an id answered with an object was registered at some time during
  the request, one answered as not found was not, unless a call to iRODS failed;
  a bulk answer accounts for every id as often as it was asked.
* `OfferedHonoured`: an access id that GetObject offered leads to a URL, of the host
  that serves the region of the method best, as long as the object stays registered
  and iRODS does not fail. Access ids that look like one of the older form are
  excepted (`RetiredAccessID`, see section 5).
* `WorksOnOwner`: tickets, updates and removals by id act on the path the id was
  generated for, also when the object went away after the lookup. The object
  answered with may by then carry another id than the one asked for.
* `ManifestIsTree`: the error for a node without a parent never occurs.
* `ManifestSound`: no id is shown on a path that did not carry it during the build,
  and no path is missing that kept its id, unless a row of the queries went away
  between two pages.

Each property of a passing run has a mutant: a definition of the code changed the
way a bug would change it, under which TLC finds the property violated. The
faulty definitions stand before the ones they replace, marked `Faulty`.

**Bounds.** Two clients are enough for each pair of operations to meet in every
order, and operations of more clients on one path interact through pairs: each
reads once and writes what it decided then. Each client works through any
sequence of its jobs, so failures and retries need no bound. `Ids` bounds the
number of creations that get as far as an id; 2 to 4 ids allow a creation after a
removal, and two creations at once. A creation writes an id and up to
three more attributes, enough to stop it between any two. The trees have depth 2, the
smallest in which a marker, an id or a strip can be missed below a child. In
`Listing`, 5 paths with a query limit of 3 make the listing of one kind take two
queries, and fast pages want fewer, as many and more entries than one query
gives (the code's limit is 500). The sampler's `clock` stops one wait after the
deadline, since nothing distinguishes later times. `RegisterShared` uses symmetry on
the two ids that no job and no initial catalog names; it checks no liveness.

`Versions` and `MaxOutages` bound the catalog and iRODS, not the sampler; the second
version has an object with two rows on two pages and a row that does not count, the
third one an object with its id under two units. In `Manifests` a path on the third level has collections with
and without an id above it, pages of one row put a call between any two rows, and
one client can make every path of a branch come and go. In `Requests` one handler is
enough, since handlers share nothing but the catalog; the other client changes it
between any two calls of the request. The configurations prefer hosts by resource
or not, with tickets or not, with OIDC or not, with a provider that is unknown, and
with HTTPS access off; one resource comes twice and has a host of its own, another has
none and is named like a retired access id.

`Sampler` and `Listing` do not check for deadlock: a server whose `Start` failed
and a listing without a next page stop. All others cannot stop.

**Fairness.** `DrsRegistration` and `CompoundCreate`: a client that has begun an
operation makes its next call, and a call returns or fails (weak fairness of
`Step` per client), since the code has no waits of its own and the iRODS client
times out. Nothing forces clients to begin, and failures are never forced.
`ServiceInfoSampler`: weak fairness of the goroutines, of time and of the ticker;
strong fairness of `Stop` only, as Go's `select` picks at random among the ready
cases and so does not pass over a done context for ever. Nothing makes iRODS come
up or stay up: `CatchesUp` has that as its premise. `CompoundManifest`: a viewer that
has begun makes its next call (weak fairness of `View`); failures are not forced.
`DrsRequests`: a request that has arrived is served (weak fairness per handler, which
is a goroutine per request in net/http); none is forced to arrive. `DrsListing`: queries return
and the user turns pages.

## 4. Proofs

Eight modules hold theorems. Each theorem holds for all values of the constants that
meet the named assumptions of the modules: any number of clients, coordinators, viewers,
paths and ids, any tree, any page size.

| Module | Theorem | States |
|---|---|---|
| `Lists_proofs` | `KeptEntries` | what the loop leaves has every other value as often as it was given, for lists of any length |
| | `KeptLater` | when it drops less, what it left before comes no earlier |
| `DrsRegistration_proofs` | `Invariance`, `TypeCorrect` | `Spec => []IInv`, `Spec => []TypeOK` |
| | `IdsStayHome` | `[]IdOnOnePath`: an id is only on the path it was generated for |
| | `ForeignAvusUntouched` | `ForeignUntouched`: no step changes other people's metadata |
| | `MarkersProtected` | `ManifestProtected`: only a strip takes the marker of a compound off |
| | `ReadsResolveOwnPath` | `[]ResolvesOwnPath`: a lookup that returns an object returns the owner of the id |
| | `MetadataComesWithId`, `PublishedStays` | `[]NoOrphans`, `[]PublishedResolvable`, while nobody removes |
| | `OneIdPerRegistrar` | `[]OneIdPerPath`, for paths with one registrar |
| | `RegistrationImplementsPersistentIds` | `Spec => IdsPersist`: the refinement of `PersistentIds` |
| | `OperationsKeepPromises` | `[]UndisturbedEffect`: an undisturbed operation did all that it promises, and nothing else |
| `CompoundCreate_proofs` | `CompoundInvariance`, `CompoundTypes` | `CSpec => []CInv`, `CSpec => []CompoundTypeOK` |
| | `CompoundIdsStayHome`, `CompoundForeignUntouched` | the properties of registration, with creations and strips next to the clients |
| | `PreflightAgrees` | `[]PreflightTells`: the preflight announces what a creation assigns |
| | `CompoundsHaveMembers` | `[]MembersRegistered`: the marker implies registered members |
| | `GrantsStay` | `[]GrantedIdStays`: the id that a creation returned stays on its collection |
| | `StripsLeaveNothing` | `[]StripEffect`: a strip without error has emptied the tree |
| | `CreationsComplete` | `[]CompoundEffect`: a creation without error has completed every member |
| `CompoundManifest_proofs` | `ManifestInvariance`, `ManifestTypes` | `MSpec => []MInv`, `MSpec => []ManifestTypeOK` |
| | `ManifestsAreTrees` | `[]ManifestIsTree`: no node is without its parent |
| | `ManifestsAreSound` | `[]ManifestSound`: a manifest shows what was registered |
| | `ViewersOnlyLook` | `MSpec => CSpec`: what holds of compounds holds next to viewers |
| `DrsListing_proofs` | `ListingInvariance`, `ListingTypes` | `Spec => []LInv`, `Spec => []TypeOK` |
| | `ExactPagesAreWindows` | `[]ExactPages`: an exact page is the window that offset and limit describe |
| | `FastPagesAreWindows` | `[]FastPages`: so is a fast one, under the conditions named there |
| | `PagesAreSound` | `[]PagesSound`: any page shows objects of the listing, in order, once |
| `ServiceInfoSampler_proofs` | `SamplerTypes` | `[]TypeOK` |
| | `SamplerReady` | `[]NeverUnavailable` |
| | `StartGivesUp` | `[]AttemptsBounded` |
| | `AnswersNeverOlder` | `AnswersAdvance` |
| | `SummariesExact` | `[]SummaryExact`, for any rows and page size |
| `DrsRequests_proofs` | `RequestInvariance`, `RequestsTypeCorrect` | `RSpec => []RInv`, `RSpec => []ApiTypeOK` |
| | `RequestsWorkOnOwner` | `[]WorksOnOwner`: what is done by id is done to the owner of the id |
| | `AnswersAreTrue` | `AnswersTrue`: what an answer says of an id was so during the request |
| | `OffersAreHonoured` | `OfferedHonoured`: an offered access id leads to the host that serves its region best |
| `AccessMethods_proofs` | `AffinityHost` | the host of a resource is that of the first entry that names it, or of the first default one |
| | `ReadBack` | an access id is read back as what it was made of |

**Assumptions.** `DrsMetadata` and `DrsRegistration`: `BlankIsNoValue`,
`IdsAreNotTexts`, `ClientsHaveJobs`, `NoneIsNothing`, `DerivedValues`,
`InitialCatalogs` (ids are unique at the start and no DRS metadata lies about
without an id). `CompoundCreate`: `TreeIsTree` (only collections have paths below
them, and what is below those is below them), `CreatesNameDataObjects` (a creation of a
single object is refused for collections, by its `StatFile`), `MarkerHasValue`, and
`InitialCompounds` (where nobody removes, the compounds there are at the start have
registered members). `CompoundManifest`: `ViewersSeeATree` (path order puts a
collection before what is below it, and of two collections above one path one is
above the other). `DrsListing`: `ListingNumbers` (queries return every path that
matches once, limits are not 0). `DrsRequests`: `HandlersAsk` (handlers
are clients, what they are asked has its type, all but bulk requests name one id, and
the job of a command is an update or a strip) and `ServersAreConfigured` (configured
URLs and replicas have their types, and an affinity host is a URL with a host or
none at all, see section 6). `ServiceInfoSampler`: `RetryNumbers`, `VersionsAreRows`. TLC
evaluates each of them in the runs that use its module.

**Registration.** None of the properties is inductive alone. The invariant is

    IInv == TypeOK /\ PendingInv /\ JobInv /\ IdsInv /\ IdOnOnePath

`PendingInv` says what a client may still write: DRS metadata only; ids are
deleted by removals only; an id to be added is the first addition, that of a
create, and was generated for its path. `JobInv` ties stages to operations, for
instance that an update planned for a field that exists and is not the id.
`IdsInv` keeps values of ids among the ids. Its proof has one lemma per action,
with the two writes sharing `WriteKeepsIds`. On top of it stand

* `ReadInv`: what a lookup found carried the id, and so is its owner, although the
  second call reads whatever the path carries by then; for `ReadsResolveOwnPath`.
* `MarkerInv`: only a removal that planned with the marker in its list deletes
  markers; for `MarkersProtected`.
* `OwnJobs`, that a client only ever works on one of its jobs, and then `KeptInv`
  (whoever writes, and has no id still to add, has one on its path) for runs without
  removals, and `RegistrarInv` (a path with a single registrar has no id while that
  client has one to add) for paths with one.
* `EffectInv`, for the effects: as long as no other client has written the path, what
  it carries plus what is still to be written is what the plan read plus what the
  operation promises. The pure part, one lemma per operation (`CreateEffect` and so on),
  says that the deletions and additions of a plan make the promise.

**Refinement.** A generated id is pending in `PersistentIds` while its creator has it
among its additions (`PendingIds`). `StepKinds` sorts the actions of a client into four
kinds by what they do to ids: nothing, generate one, delete AVUs, add one; each kind
has a lemma that maps it to a step of the abstract catalog or a stutter. A failure
between the generation and the first write abandons the id.
`MintedInv` (an id was generated once) makes generated ids new to the abstraction.

**Compounds.** `IInv` does not carry over: an upsert of an id that is already there
deletes it before it adds it, and so an id may be pending that was not generated for
this operation. `WorkInv` takes its place. What is left to add is plain metadata, or
begins with the id of a create (`AddsId`), or is the id or marker of an upsert
(`AddsKey`), which only a coordinator writes, on a root of its own, with an id that was
generated for this root (`Proper`). Ids and markers are deleted by removals and by the
upsert that replaces them only. Around it,

    CInv == WorkInv /\ WalkTypes /\ \A c \in Coordinators : WalkFits(c)

says where each walk stands between its calls. The proof has two kinds of steps: of an
operation, which leaves all walks alone (`OpMoves`), and of a walk, which starts or
awaits the operation of its coordinator (`CallMoves`). On top of it stand

* `MembersInv`: while nobody removes, every member that is behind the walk and not among
  its errors has an id, and so have the members of any collection that carries the marker
  or is about to; for `MembersRegistered`.
* `GrantInv`: on a collection with one coordinator, the id of an upsert and the id that
  was granted are one, and once the marker is there no walk gets past its check; for
  `GrantedIdStays`.
* `StripInv` and `CreationInv`, for a coordinator alone with its tree: what is behind the
  walk is empty, or complete, as long as there is no error. A call that is refused
  leaves its node in the errors, so that success means that none was.

**Manifests.** For each viewer `TreeFits` says that the collections above what is drawn
are drawn, `IdsFit` that what is drawn was carried at some time since the build began,
and `RowsFit` that what kept its id is found already or in a row that is still ahead of
the cursor, unless a path has left the rows. That rows which appear
meanwhile only push others away from the cursor is `KeptLater`. The parent of a node
is the innermost collection above it (`ParentLeads`, by the least place from the end of
the path order), which `TreeFits` has drawn. `ViewersOnlyLook` spares the viewers a
second proof about the catalog.

**Listings.** `FoundFits` says that what is found is of the collection and of a kind that
is asked for, and that a query is left with more only when the page and one entry more
are there; `SeenFits`, that nothing before the cursor is missing, and nothing of the
kinds before it unless a query was left with more. Pages are cut from what was found in
path order, so `ExactPages` is an equality of two sets, and `PagesSound` that a part of a
list in order is in order and, by `KeptLater`, comes no earlier in the whole. For
`FastPages` each kind takes one query (`OneQuery`): the n-th object of the listing, n no
more than `offset + limit + 1`, is among the first n of its kind (`FirstAreFound`), and so
two lists in ascending order begin alike (`SameStart`).

**Sampler.** `PhaseInv` and `TimerInv` tie the stage of `Start` to the snapshot, its
error and its clock, which gives `NeverUnavailable` and, since every attempt but the
first waited `Wait`, `AttemptsBounded`. `VersionsInv` says that answers are no newer
than the snapshot, the snapshot than the query and that than the catalog. `SummaryInv`
is about a summary half-way through its pages: it counts each object of the rows
read so far once, and what is left to read are the other rows of its version.

**Requests.** `RInv` is `IInv` and `ReadInv`, carried over since every step of a request
is a step of its client or moves nothing in the catalog (`RequestMoves`), together
with what holds of each handler: the stage fits the operation that is under
way, and the path found is the owner of the id. `WorksOnOwner` follows. `AnswersTrue` needs history, `HistoryInv`: what a
request may say of an id that it looked up was so at some time since the request came
(`SawInv`), and the ids still to look up, with those already sorted into the answer,
are the ids asked for, each as often (`CountInv`, an induction over the ids with
`KeptEntries` at its start). `OfferedHonoured` needs `ShowsInv`: what was offered are
the methods of the path that owns the id, and while the id has been registered ever
since, a lookup finds it, by the search as on the path. The rest is about
`AccessMethods`: a method without a URL is an HTTPS one or the iRODS one
(`MethodsBuilt`); the id of an HTTPS method is read back as its provider and resource
(`ReadBack`) and is no other method's, having two parts at least; the lookup of the
region, which drops entries and blank names first, comes upon the entry that `HostFor`
describes on the whole list (`AffinityHost`, by `KeptFirst`: what is left after the loop
begins with what came first); and `BaseURL` puts its host into the URL.

**Induction over data.** Some facts about lists of any length are proved: `KeptEntries`,
`KeptLater`, `KeptFirst`, that the loop keeps an ascending list ascending (`KeptGrows`), and that the
sampler's fold counts row by row and its sums are those of the set of objects. The
library's induction theorems take an operator and cannot be used, so each goes by a set
of natural numbers: the set of lengths up to which the fact holds has no least element
outside (`NatSetInduction`, from `LeastNat`).

Only model-checked is liveness, which this prover does not reach: `EveryOperationEnds`,
`WalkEnds`, `ManifestEnds`, `RequestEnds`, `ListingEnds`, `StartReturns`, `CancelStops`,
`CatchesUp`. All other properties of the passing runs are proved.

## 5. Findings

* **A panic instead of a 404** (`RequestPanics`). When an object is stripped between
  the two calls of `GetDrsObjectByID`, the function returns neither an object nor an
  error, and the handlers that look into the object panic. Its sibling by path
  returns an error.
* **A compound without an id** (`CompoundWithoutId`). After a failed upsert of
  the root's id the marker is written nevertheless.
* **A compound on no page** (`FastListing`). The fast listing stops at a number of
  entries with an id, then drops the collections among them that are no
  compound. Pages may be empty whose window is not. `FastPages` states the
  conditions under which fast pages are right: matched entries are all objects,
  the query returns them in path order, and `offset + limit + 1` fits into a query.

Met while modelling, and stated without a run:

* **Aliases that repeat.** The comment of `UpdateDrsObjectAliases` says that duplicates
  are ignored; only blank ones are.
* **A stripped member in a manifest.** The design says that only data objects with an
  id are emitted; one that is stripped after the query is emitted without one, with
  the announcement that an id will be assigned. `ManifestSound` is stated accordingly.
* **Access ids of resources named `affinity-...`** are offered and then refused as
  being of an older form.
* **`S3ResourceAffinity`** is documented as choosing the host of S3 URLs; the code does
  not look at it.

## 6. Known limits of the system, not stated as properties

* Two concurrent creations of one path give it two ids (`OneIdPerPath` is stated
  for one registrar); `GrantedIdStays` likewise for one coordinator.
* Creation of a compound looks for markers below the root, not above it.
* A strip that fails after it has deleted the id cannot be resumed by `drsrm`; nothing
  promises that it can.
* The pages of a listing are not a snapshot: a change between two pages shifts
  the offsets. In the same way a strip during a manifest may hide another member.
* Statuses follow words in error messages: an error of iRODS that says "not found" is
  answered with 404, and reported as a missing id in a bulk answer.
* OPTIONS reports an object that was stripped during its lookup as resolved.
* S3 methods are left out, without an error, when the buckets cannot be listed.
* An affinity host that is written without a scheme parses as a URL without a host:
  it is passed over when the URL is made, and yet hides the entries after it. The
  configuration notes show hosts with their scheme, and `ServersAreConfigured` says so.
* The checksum of a manifest depends on the order in which iRODS lists the metadata
  of its nodes, which nothing sorts: it may differ between two calls.

## 7. Plan

Done: registration, compounds (creation, strip, preflight, runtime manifest),
listing, sampler with the catalog summary, requests with access methods. Proved: the
safety properties of registration with its refinement, of compounds and their
manifests, of listings, of the sampler and of the requests.

Next, in this order:

1. The refinement of `PersistentIds` by `CompoundCreate`, where an upsert takes an id off
   a collection and puts it back.
2. A listing next to clients that register: what a page may then miss.

## 8. Not modelled

* The validator of manifests: nothing in the program calls it, and it works on a
  resolver that only its tests provide.
* The ignore template: a stat, a create and a write of one file, whose contents no
  other operation reads; what the rules of a `.drsignore` exclude is a constant.
* Configuration (read once at the start; a configuration is a constant, although
  OPTIONS reads it again), the request log, the API documentation, generated models,
  and the certification tool (it drives the operations above against an external
  suite).
* What Keycloak makes of a token: one call per request, without state. Which requests
  need credentials is part of `DrsRequests`.
* The layout of answers, paths and timestamps, the contents of data objects,
  permissions, and iRODS itself beyond the atomicity of single calls.
