---------------------------- MODULE DrsRequests ----------------------------
(***************************************************************************)
(* The requests of the HTTP API about objects, and the commands of drscmd  *)
(* that name an object by its id.  Every one of them looks ids up with     *)
(* GetDrsObjectByID, the getById of DrsRegistration, and then goes on from *)
(* what it found: it answers, creates a ticket for the path of the object, *)
(* or calls an operation on that path.                                     *)
(*                                                                         *)
(* A handler is a client of DrsRegistration that serves one request after  *)
(* another:                                                                *)
(*     idle -> connect -> look -> (ticket | build | write) -> answered     *)
(* and is refused, or fails, on the way.  The other clients register and   *)
(* remove objects meanwhile.                                               *)
(***************************************************************************)
EXTENDS DrsRegistration, AccessMethods

CONSTANTS
    Handlers,       \* the clients that serve requests
    Configs,        \* the configurations the server may have been started with
    AsksOf,         \* AsksOf[h]: the requests that h may be sent
    Storage         \* Storage[p]: the replicas of p, its resource, and the
                    \* buckets of the collections above it

Asks      == UNION {AsksOf[h] : h \in Handlers}
Views     == {"object", "access", "compound"}
Options   == {"options", "bulk"}
Commands  == {"drsinfo", "drsupdate", "drsrm"}
\* Names, as AccessMethods writes them.
AccessIds == Seq(STRING)
\* Registered as routes, and not implemented.
Unsupported == {"index", "postObject", "postAccess", "bulkObjects", "bulkAccess"}

ASSUME HandlersAsk ==
    /\ Handlers \subseteq Clients
    /\ \A a \in Asks :
          /\ a \in [kind : Views \cup Options \cup Commands \cup Unsupported,
                    ids : Seq(Ids \cup {None}), access : AccessIds,
                    cred : {"basic", "bearer", "none"}, job : JobType]
          /\ a.kind # "bulk" => Len(a.ids) = 1
          /\ a.kind = "drsupdate" => a.job.op \in Updaters
          /\ a.kind = "drsrm" => a.job.op = "strip"

\* What a server is configured with, and what iRODS knows of an object.  The
\* hosts of the resource affinities are URLs with a host.
ASSUME ServersAreConfigured ==
    /\ \A c \in Configs :
          /\ c.base \in URLs
          /\ c.affinities \in Seq([host : URLs, resources : SUBSET AccessIds])
          /\ \A i \in DOMAIN c.affinities :
                c.affinities[i].host.host = "" => c.affinities[i].host = NoURL
    /\ \A p \in Paths :
          Storage[p].replicas \in Seq(AccessIds) /\ Storage[p].resource \in AccessIds

VARIABLES
    cfg,        \* the configuration of the server
    http,       \* http[h]: where h is in its request
    ask,        \* ask[h]: the request of h
    todo,       \* todo[h]: the ids h has still to answer for
    found,      \* found[h]: what the last lookup of h came to
    answer,     \* answer[h]: the status h answered with, the ids it reported as
                \* resolved and missing, the URL, and the path of the ticket
    \* History, read by the properties only.
    offer,      \* offer[h]: the object h showed last, with its methods
    kept,       \* kept[h]: its id has been registered ever since
    had,        \* had[h]: the ids registered at some time during h's request
    lacked,     \* lacked[h]: the ids not registered at some time during it
    erred       \* erred[h]: a call to iRODS failed during it

serving  == <<http, ask, todo, found, answer>>
observed == <<offer, kept, had, lacked, erred>>
rvars    == <<vars, cfg, serving, observed>>

Running   == {"connect", "look", "ticket", "build", "write"}
HttpStages == Running \cup {"idle", "answered", "panicked"}

\* What a lookup comes to: an object, none at all, or an error, by what its
\* message says.
Objects  == {"object", "manifest"}
CallErrors == {"auth", "denied", "missing", "other"}
Errors   == CallErrors \cup {"absent", "multiple"}
Findings == Objects \cup Errors \cup {"none", "nil"}

NoAsk    == CHOOSE a \in Asks : TRUE
NoAnswer == [status |-> 0, resolved |-> <<>>, missing |-> <<>>, url |-> NoURL,
             ticket |-> None]
NoOffer  == [id |-> None, path |-> None, methods |-> <<>>]

RegisteredIn(cat) == UNION {IdsIn(cat[p]) : p \in Paths}

RInit ==
    /\ Init
    /\ cfg \in Configs
    /\ http = [h \in Handlers |-> "idle"]
    /\ ask = [h \in Handlers |-> NoAsk]
    /\ todo = [h \in Handlers |-> <<>>]
    /\ found = [h \in Handlers |-> "none"]
    /\ answer = [h \in Handlers |-> NoAnswer]
    /\ offer = [h \in Handlers |-> NoOffer]
    /\ kept = [h \in Handlers |-> FALSE]
    /\ had = [h \in Handlers |-> {}]
    /\ lacked = [h \in Handlers |-> {}]
    /\ erred = [h \in Handlers |-> FALSE]

\* What a step does to the history: the requests under way, and the objects
\* shown, have seen the catalog as the step leaves it.
Observe ==
    LET now == RegisteredIn(avus')
        Since(h, past, new) == IF http'[h] \in Running THEN past \cup new ELSE {}
        Shown(h) == http[h] = "look" /\ http'[h] = "answered" /\ ask[h].kind = "object"
    IN  /\ had' = [h \in Handlers |-> Since(h, had[h], now)]
        /\ lacked' = [h \in Handlers |-> Since(h, lacked[h], Ids \ now)]
        /\ kept' = [h \in Handlers |-> (kept[h] \/ Shown(h)) /\ offer'[h].id \in now]

GoOn(h, where) == http' = [http EXCEPT ![h] = where]

\* The request is over, and with it the operation it called.
Leave(h, where, failed) ==
    /\ GoOn(h, where)
    /\ todo' = [todo EXCEPT ![h] = <<>>]
    /\ found' = [found EXCEPT ![h] = "none"]
    /\ stage' = [stage EXCEPT ![h] = "idle"]
    /\ job' = [job EXCEPT ![h] = NoJob(h)]
    /\ seen' = [seen EXCEPT ![h] = None]
    /\ before' = [before EXCEPT ![h] = {}]
    /\ alone' = [alone EXCEPT ![h] = FALSE]
    /\ erred' = [erred EXCEPT ![h] = failed]
    /\ UNCHANGED <<avus, dels, adds, owner, minted, published, cfg, ask>>

Answer(h, status) ==
    /\ Leave(h, "answered", FALSE)
    /\ answer' = [answer EXCEPT ![h].status = status]

\* A call failed, and the request with it.
AnswerFailure(h, status) ==
    /\ Leave(h, "answered", TRUE)
    /\ answer' = [answer EXCEPT ![h].status = status]

----------------------------------------------------------------------------
(* The request comes in.                                                   *)

\* The routes behind the two middlewares; a command has an account of its own.
RequiresAuth(a) == a.kind \in Views \cup (Unsupported \ {"index"})

\* The authentication middleware, which is absent without OIDC, lets a request
\* with valid credentials pass and notes their scheme.
PassesAuthentication(a) == cfg.oidc => a.cred # "none"
AuthScheme(a) == IF cfg.oidc THEN a.cred ELSE "none"

\* The service context is an iRODS account for a request with a scheme.
HasServiceContext(a) == AuthScheme(a) # "none"

Authenticated(a) ==
    RequiresAuth(a) => PassesAuthentication(a) /\ HasServiceContext(a)

\* Faulty: blank ids are looked up like the others.
AnyBulkObjectIDs(ids) == ids

normalizedBulkObjectIDs(ids) == Without(ids, {None})

validateConfiguredHTTPSProvider ==
    cfg.https => IsSupportedHTTPSAccessProvider(
                     EffectiveHTTPSAccessProvider(cfg.provider))

CompoundAccessID == <<"irods-compound-https">>

\* The configured provider is looked at before iRODS is asked.
NeedsProvider(a) ==
    \/ a.kind \in Options
    \/ a.kind = "access" /\ a.access # CompoundAccessID

\* The status with which a is refused before iRODS is asked, or 0.
Refusal(a) ==
    LET blank == normalizedBulkObjectIDs(a.ids) = <<>>
                 \/ (a.kind = "access" /\ a.access = NoName)
    IN  IF ~Authenticated(a) THEN 401
        ELSE IF a.kind \in Unsupported THEN 501
        ELSE IF a.kind \in Options
             THEN IF ~validateConfiguredHTTPSProvider THEN 501
                  ELSE IF blank THEN 400 ELSE 0
             ELSE IF blank THEN 400
                  ELSE IF NeedsProvider(a) /\ ~validateConfiguredHTTPSProvider
                       THEN 501 ELSE 0

AskFor(a, id, access) == [a EXCEPT !.ids = <<id>>, !.access = access]

\* What h may be sent next: a request of its own, or one for an access id that
\* it has offered.
NextAsks(h) ==
    AsksOf[h] \cup
    {AskFor(a, offer[h].id, offer[h].methods[i].id) :
        a \in {b \in AsksOf[h] : b.kind = "access"}, i \in DOMAIN offer[h].methods}

Arrive(h) ==
    /\ http[h] \notin Running
    /\ \E a \in NextAsks(h) :
          /\ ask' = [ask EXCEPT ![h] = a]
          /\ todo' = [todo EXCEPT ![h] = normalizedBulkObjectIDs(a.ids)]
          /\ GoOn(h, IF Refusal(a) = 0 THEN "connect" ELSE "answered")
          /\ answer' = [answer EXCEPT ![h] = [NoAnswer EXCEPT !.status = Refusal(a)]]
    /\ found' = [found EXCEPT ![h] = "none"]
    /\ erred' = [erred EXCEPT ![h] = FALSE]
    /\ UNCHANGED <<vars, cfg, offer>>

\* GetDrsObjectByID is called for the next id.
LookUp(h, id) ==
    /\ Begin(h, [NoJob(h) EXCEPT !.op = "getById", !.id = id])
    /\ found' = [found EXCEPT ![h] = "none"]

\* The iRODS connection of the request.
Connect(h) ==
    /\ http[h] = "connect"
    /\ LookUp(h, Head(todo[h]))
    /\ GoOn(h, "look")
    /\ UNCHANGED <<cfg, offer, ask, todo, answer, erred>>

\* The status that an error is turned into, by words in its message: the
\* error may be about the object, or about a call to iRODS.
routeErrorStatus(error) ==
    CASE error = "auth" -> 401
      [] error = "denied" -> 403
      [] error \in {"absent", "missing"} -> 404
      [] OTHER -> 500

optionsErrorStatus(error) == IF error \in {"absent", "missing"} THEN 404 ELSE 500

ConnectFails(h) ==
    /\ http[h] = "connect"
    /\ \E error \in {"auth", "denied", "other"} :
          AnswerFailure(h, IF ask[h].kind \in Options THEN 500
                                                     ELSE routeErrorStatus(error))
    /\ UNCHANGED offer

----------------------------------------------------------------------------
(* The lookup: the steps of getById, and what they came to.                *)

QueryFinding(h) ==
    LET matches == {p \in Paths : job[h].id \in IdsIn(avus[p])}
    IN  IF stage'[h] = "load" THEN "none"
        ELSE IF matches = {} THEN "absent" ELSE "multiple"

LoadFinding(h) ==
    LET metas == avus[job[h].path]
    IN  IF IdsIn(metas) = {} THEN "nil"
        ELSE IF IsManifest(metas) THEN "manifest" ELSE "object"

Lookup(h) ==
    /\ http[h] = "look"
    /\ \/ Query(h) /\ found' = [found EXCEPT ![h] = QueryFinding(h)]
       \/ Load(h) /\ found' = [found EXCEPT ![h] = LoadFinding(h)]
    /\ UNCHANGED <<cfg, offer, http, ask, todo, answer, erred>>

LookupFails(h) ==
    /\ http[h] = "look" /\ Fail(h)
    /\ \E error \in CallErrors : found' = [found EXCEPT ![h] = error]
    /\ erred' = [erred EXCEPT ![h] = TRUE]
    /\ UNCHANGED <<cfg, offer, http, ask, todo, answer>>

Looked(h, kinds, findings) ==
    http[h] = "look" /\ ask[h].kind \in kinds /\ found[h] \in findings

----------------------------------------------------------------------------
(* What is made of it.                                                     *)

AnswerError(h) ==
    /\ Looked(h, Views \cup Commands \cup {"options"}, Errors)
    /\ Answer(h, IF ask[h].kind = "options" THEN optionsErrorStatus(found[h])
                                            ELSE routeErrorStatus(found[h]))
    /\ UNCHANGED offer

\* The handler looks into an object that is not there.
Panic(h) ==
    /\ Looked(h, {"object", "compound"} \cup Commands, {"nil"})
    /\ Leave(h, "panicked", FALSE)
    /\ UNCHANGED <<offer, answer>>

\* The methods of the object of path; reading the buckets may fail, which
\* leaves out the S3 methods.
MethodsOf(path) ==
    {BuildAccessMethodsWithFilesystem(cfg, Storage[path], buckets) :
        buckets \in {Storage[path].buckets, <<>>}}

ManifestURL == [host |-> "public", path |-> <<"compound">>]

\* The only method of a compound: the URL of its manifest.
CompoundManifestAccessMethod(path) ==
    Method("https", NoName, Storage[path].resource, ManifestURL)

\* GetObject.
AnswerObject(h) ==
    /\ Looked(h, {"object"}, Objects)
    /\ LET served == found[h] = "object" => validateConfiguredHTTPSProvider
       IN  \/ ~served /\ Answer(h, 501) /\ UNCHANGED offer
           \/ served /\ ~cfg.public /\ Answer(h, 500) /\ UNCHANGED offer
           \/ /\ served /\ cfg.public /\ Answer(h, 200)
              /\ \E methods \in IF found[h] = "object" THEN MethodsOf(job[h].path)
                               ELSE {<<CompoundManifestAccessMethod(job[h].path)>>} :
                    offer' = [offer EXCEPT ![h] = [id |-> seen[h], path |-> job[h].path,
                                                   methods |-> methods]]

\* The parsed id names a resource, or stands for the primary one.
AccessResource(parsed, path) ==
    IF parsed.resource = NoName THEN primaryReplicaResourceName(Storage[path])
                                ELSE parsed.resource

AccessBaseURL(parsed, path) ==
    LET resource == AccessResource(parsed, path)
    IN  ResolveHTTPSAccessBaseURL(cfg.base,
            IF resource = NoName THEN NoURL
                                 ELSE ResolveAffinityHostForResource(cfg, resource))

IsMethodId(id, methods) == \E i \in DOMAIN methods : methods[i].id = id

IrodsURL    == [host |-> "irods", path |-> <<"path">>]

\* The statuses accessURLForObject may return, 0 when a ticket is to be made.
accessURLForObject(h) ==
    LET id     == ask[h].access
        parsed == ParseHTTPSAccessID(id)
    IN  IF found[h] = "nil" THEN {500}
        ELSE IF id = CompoundAccessID
             THEN IF found[h] # "manifest" THEN {404}
                  ELSE IF cfg.public THEN {200} ELSE {500}
        ELSE IF id = IrodsAccessID
             THEN IF cfg.irods THEN {0} ELSE {501}
        ELSE IF parsed # NotParsed
             THEN IF ~cfg.https THEN {501}
                  ELSE IF parsed.provider # EffectiveHTTPSAccessProvider(cfg.provider)
                       THEN {404}
                  ELSE IF AccessBaseURL(parsed, job[h].path) = NoURL THEN {500}
                  ELSE IF cfg.ticket THEN {0} ELSE {200}
        ELSE {IF IsMethodId(id, methods) THEN 501 ELSE 404 :
                 methods \in MethodsOf(job[h].path)}

\* The URL of a positive answer.
AccessURL(h) ==
    CASE ask[h].access = CompoundAccessID -> ManifestURL
      [] ask[h].access = IrodsAccessID -> IrodsURL
      [] OTHER -> AccessBaseURL(ParseHTTPSAccessID(ask[h].access), job[h].path)

AnswerURL(h, ticket) ==
    /\ Leave(h, "answered", FALSE)
    /\ answer' = [answer EXCEPT ![h].status = 200, ![h].url = AccessURL(h),
                                ![h].ticket = ticket]

\* GetAccessURL.
AnswerAccess(h) ==
    /\ Looked(h, {"access"}, Objects \cup {"nil"})
    /\ \E status \in accessURLForObject(h) :
          \/ /\ status = 0 /\ GoOn(h, "ticket")
             /\ UNCHANGED <<vars, cfg, ask, todo, found, answer, erred>>
          \/ status = 200 /\ AnswerURL(h, None)
          \/ status \notin {0, 200} /\ Answer(h, status)
    /\ UNCHANGED offer

\* The ticket for the path the lookup came upon.
MakeTicket(h) ==
    /\ http[h] = "ticket"
    /\ AnswerURL(h, job[h].path)
    /\ UNCHANGED offer

TicketFails(h) ==
    /\ http[h] = "ticket"
    /\ \E error \in CallErrors : AnswerFailure(h, routeErrorStatus(error))
    /\ UNCHANGED offer

\* GetCompoundManifestExt, and drsinfo, which shows the manifest of a compound.
AnswerCompound(h) ==
    /\ Looked(h, {"compound", "drsinfo"}, Objects)
    /\ \/ /\ found[h] = "manifest" /\ GoOn(h, "build")
          /\ UNCHANGED <<vars, cfg, ask, todo, found, answer, erred>>
       \/ /\ found[h] = "object"
          /\ Answer(h, IF ask[h].kind = "compound" THEN 400 ELSE 200)
    /\ UNCHANGED offer

\* BuildCompoundRuntimeManifest, whose steps are those of CompoundManifest.
BuildManifest(h) ==
    /\ http[h] = "build"
    /\ Answer(h, 200) \/ AnswerFailure(h, 500)
    /\ UNCHANGED offer

\* OptionsObject asks no more than that the lookup returned without an error.
AnswerOptions(h) ==
    /\ Looked(h, {"options"}, Objects \cup {"nil"})
    /\ Answer(h, 200)
    /\ UNCHANGED offer

----------------------------------------------------------------------------
(* OptionsBulkObject: one id after the other.                              *)

BulkError(h) ==
    /\ Looked(h, {"bulk"}, Errors \ {"absent", "missing"})
    /\ Answer(h, 500)
    /\ UNCHANGED offer

\* Faulty: an id that is not found is passed over.
SortedAlone(h) ==
    IF found[h] \in Objects \cup {"nil"}
    THEN [answer[h] EXCEPT !.resolved = Append(@, Head(todo[h]))]
    ELSE answer[h]

\* The id just looked up is resolved or, if the error says "not found", missing.
Sorted(h) ==
    IF found[h] \in Objects \cup {"nil"}
    THEN [answer[h] EXCEPT !.resolved = Append(@, Head(todo[h]))]
    ELSE [answer[h] EXCEPT !.missing = Append(@, Head(todo[h]))]

BulkIds == Objects \cup {"nil", "absent", "missing"}

\* Faulty: the same id is looked up again.
BulkAgain(h) ==
    /\ Looked(h, {"bulk"}, BulkIds) /\ Len(todo[h]) > 1
    /\ LookUp(h, Head(todo[h]))
    /\ UNCHANGED <<cfg, offer, http, ask, todo, answer, erred>>

BulkNext(h) ==
    /\ Looked(h, {"bulk"}, BulkIds) /\ Len(todo[h]) > 1
    /\ LookUp(h, todo[h][2])
    /\ answer' = [answer EXCEPT ![h] = Sorted(h)]
    /\ todo' = [todo EXCEPT ![h] = Tail(@)]
    /\ UNCHANGED <<cfg, offer, http, ask, erred>>

AnswerBulk(h) ==
    /\ Looked(h, {"bulk"}, BulkIds) /\ Len(todo[h]) = 1
    /\ Leave(h, "answered", FALSE)
    /\ answer' = [answer EXCEPT ![h] = [Sorted(h) EXCEPT !.status = 200]]
    /\ UNCHANGED offer

----------------------------------------------------------------------------
(* drsupdate and drsrm call their operation on the path they found.        *)

CallCommand(h) ==
    /\ Looked(h, {"drsupdate", "drsrm"}, Objects)
    /\ Begin(h, [ask[h].job EXCEPT !.path = job[h].path])
    /\ GoOn(h, "write")
    /\ UNCHANGED <<cfg, offer, ask, todo, found, answer, erred>>

CommandDone(h) ==
    /\ http[h] = "write" /\ stage[h] \in {"done", "failed"}
    /\ Answer(h, IF stage[h] = "done" THEN 200 ELSE 500)
    /\ UNCHANGED offer

----------------------------------------------------------------------------
Serve(h) ==
    \/ Connect(h) \/ Lookup(h) \/ AnswerError(h) \/ Panic(h)
    \/ AnswerObject(h) \/ AnswerAccess(h) \/ MakeTicket(h)
    \/ AnswerCompound(h) \/ BuildManifest(h) \/ AnswerOptions(h)
    \/ BulkError(h) \/ BulkNext(h) \/ AnswerBulk(h)
    \/ CallCommand(h) \/ CommandDone(h)

\* A step of the operation that a command called, or that a client runs.
Operate(c) ==
    /\ c \in Handlers => http[c] = "write"
    /\ Step(c)
    /\ UNCHANGED <<cfg, serving, offer, erred>>

OperationFails(c) ==
    /\ c \in Handlers => http[c] = "write"
    /\ Fail(c) \/ FailAfterWrite(c)
    /\ UNCHANGED <<cfg, serving, offer, erred>>

RNext ==
    \/ \E h \in Handlers : Arrive(h) /\ Observe
    \/ \E h \in Handlers : Serve(h) /\ Observe
    \/ \E h \in Handlers : ConnectFails(h) /\ Observe
    \/ \E h \in Handlers : LookupFails(h) /\ Observe
    \/ \E h \in Handlers : TicketFails(h) /\ Observe
    \/ \E c \in Clients : Operate(c) /\ Observe
    \/ \E c \in Clients : OperationFails(c) /\ Observe
    \/ \E c \in Clients \ Handlers :
          Start(c) /\ UNCHANGED <<cfg, serving, offer, erred>> /\ Observe

RSpec == RInit /\ [][RNext]_rvars

\* The server runs every request in a goroutine of its own, and its calls
\* return or fail.
RFairSpec ==
    RSpec /\ \A h \in Handlers : WF_rvars((Serve(h) \/ Operate(h)) /\ Observe)

----------------------------------------------------------------------------
(* Properties.                                                             *)

Statuses == {0, 200, 400, 401, 403, 404, 500, 501}

\* The types of the variables; a lookup is only made for an id.
ApiTypeOK ==
    /\ stage \in [Clients -> Stages]
    /\ job \in [Clients -> JobType]
    /\ cfg \in Configs
    /\ http \in [Handlers -> HttpStages]
    /\ \A h \in Handlers :
          /\ todo[h] \in Seq(Ids)
          /\ answer[h].status \in Statuses
          /\ answer[h].resolved \in Seq(Ids) /\ answer[h].missing \in Seq(Ids)
    /\ found \in [Handlers -> Findings]

Times(id, ids) == Cardinality({i \in DOMAIN ids : ids[i] = id})
Answered(h, kinds, status) ==
    http[h] = "answered" /\ ask[h].kind \in kinds /\ answer[h].status = status

\* h answers in this step.
Answers(h) == http[h] \in Running /\ http'[h] = "answered"

\* What the answer of h says, with what was so meanwhile.
AnswerTrue(h) ==
    LET asked   == ask[h].ids[1]
        was     == had[h] \cup RegisteredIn(avus')
        was_not == lacked[h] \cup (Ids \ RegisteredIn(avus'))
        excused == erred[h]
    IN  /\ Answered(h, Views \cup {"options"} \cup Commands, 200)' => asked \in was
        /\ Answered(h, {"object", "compound", "options"} \cup Commands, 404)' =>
              asked \in was_not \/ excused
        /\ Answered(h, {"bulk"}, 200)' =>
              \A id \in Ids :
                  LET resolved == Times(id, answer'[h].resolved)
                      missing  == Times(id, answer'[h].missing)
                  IN  /\ resolved + missing = Times(id, ask[h].ids)
                      /\ resolved > 0 => id \in was
                      /\ missing > 0 => id \in was_not \/ excused

\* What an answer says about ids was so at some time during the request: an id
\* answered with an object was registered, and one reported as not found was
\* not, unless a call to iRODS failed.  A bulk answer says it of every id as
\* often as it was asked.
AnswersTrue == [][\A h \in Handlers : Answers(h) => AnswerTrue(h)]_rvars

\* The host that is to serve a region: that of the first entry which names it,
\* or else of the first default entry, or else the configured one.
HostFor(region) ==
    LET entries == {i \in DOMAIN cfg.affinities : cfg.affinities[i].host.host # ""}
        Naming  == {i \in entries : region \in cfg.affinities[i].resources \ {Wildcard}}
        Default == {i \in entries : \/ Wildcard \in cfg.affinities[i].resources
                                    \/ cfg.affinities[i].resources \subseteq {NoName}}
        First(S) == CHOOSE i \in S : \A k \in S : i <= k
    IN  IF Naming # {} THEN cfg.affinities[First(Naming)].host.host
        ELSE IF Default # {} THEN cfg.affinities[First(Default)].host.host
        ELSE cfg.base.host

\* h answers about the access id of a method that it offered; the object has been
\* registered ever since, and no call failed.
AnswersOffer(h, method) ==
    /\ Answers(h) /\ ask[h].kind = "access"
    /\ ask[h].ids[1] = offer[h].id /\ ask[h].access = method.id
    /\ method.url = NoURL
    /\ kept[h] /\ ~erred[h] /\ ~erred'[h]

\* With a URL of the host that serves the region of the method best.
Honours(h, method) ==
    /\ answer'[h].status = 200
    /\ method.type = "https" => answer'[h].url.host = HostFor(method.region)

\* An access id that GetObject offered is honoured as long as the object stays
\* registered and iRODS does not fail.  (An id that looks like one of the older
\* form is refused although it was offered.)
OfferedHonoured ==
    [][\A h \in Handlers : \A i \in DOMAIN offer[h].methods :
          AnswersOffer(h, offer[h].methods[i]) /\ ~RetiredAccessID(offer[h].methods[i].id)
             => Honours(h, offer[h].methods[i])]_rvars

\* What a request does to a path, it does to the path its id was generated for:
\* the ticket it creates, the update or the removal that it calls, even if the
\* object was removed or registered again since the lookup.
WorksOnOwner ==
    \A h \in Handlers :
        /\ http[h] = "answered" /\ answer[h].ticket # None =>
              owner[ask[h].ids[1]] = answer[h].ticket
        /\ http[h] = "write" /\ stage[h] \in Active =>
              owner[ask[h].ids[1]] = job[h].path

\* Every request is answered, if only with an error, or its handler panics.
RequestEnds == \A h \in Handlers : http[h] \in Running ~> http[h] \notin Running

----------------------------------------------------------------------------
(* The inductive invariant from which the safety properties follow.        *)

\* The fields of an answer; nothing is said of a URL or a ticket here.
AnswerTyped(a) ==
    a \in [status : Statuses, resolved : Seq(Ids), missing : Seq(Ids),
          url : {a.url}, ticket : {a.ticket}]

\* There is a ticket only in an answer that was given, for the path of the id.
AnswerInv(h) ==
    /\ AnswerTyped(answer[h])
    /\ answer[h].ticket # None =>
          /\ http[h] = "answered"
          /\ ask[h].ids[1] \in Ids /\ owner[ask[h].ids[1]] = answer[h].ticket

\* A request under way has an id left to answer for, the one it is at first.
AskInv(h) ==
    http[h] \in Running =>
        /\ ask[h].kind \in Views \cup Options \cup Commands
        /\ todo[h] # <<>>
        /\ ask[h].kind # "bulk" => Len(todo[h]) = 1 /\ ask[h].ids[1] = Head(todo[h])
        /\ ask[h].job \in JobType
        /\ ask[h].kind \in {"drsupdate", "drsrm"} => ask[h].job.op \notin Readers

\* What the operation of h is at while h serves its request: only a lookup, or
\* the operation of a command on the path of its id, is under way.
ServeInv(h) ==
    /\ http[h] \notin {"look", "ticket", "build", "write"} => stage[h] \notin Active
    /\ http[h] = "look" =>
          /\ stage[h] \in {"query", "load", "done", "nil", "failed"}
          /\ stage[h] # "failed" => job[h].op = "getById" /\ job[h].id = Head(todo[h])
          /\ stage[h] \in {"query", "load"} => found[h] = "none"
          /\ stage[h] = "done" => found[h] \in Objects
          /\ stage[h] = "nil" => found[h] = "nil"
          /\ stage[h] = "failed" => found[h] \in Errors
    /\ http[h] \in {"ticket", "build"} =>
          stage[h] = "done" /\ job[h].op = "getById" /\ job[h].id = Head(todo[h])
    /\ http[h] = "ticket" => ask[h].kind = "access"
    /\ http[h] = "build" => ask[h].kind \in {"compound", "drsinfo"}
    /\ http[h] = "write" =>
          /\ ask[h].kind \in {"drsupdate", "drsrm"}
          /\ stage[h] \in {"resolve", "plan", "write", "done", "failed"}
          /\ stage[h] \in Active => owner[Head(todo[h])] = job[h].path

\* What the history says of the id that h is at, and of the ids it is done with.
SawInv(h) ==
    /\ \/ http[h] = "look" /\ stage[h] \in {"load", "done", "nil"}
       \/ http[h] \in {"ticket", "build", "write"}
       => Head(todo[h]) \in had[h]
    /\ http[h] = "look" /\ found[h] = "absent" => Head(todo[h]) \in lacked[h]
    /\ http[h] = "look" /\ found[h] \in CallErrors => erred[h]

CountInv(h) ==
    http[h] \in Running =>
        \A id \in Ids :
            LET resolved == Times(id, answer[h].resolved)
                missing  == Times(id, answer[h].missing)
            IN  /\ resolved + missing + Times(id, todo[h]) = Times(id, ask[h].ids)
                /\ resolved > 0 => id \in had[h]
                /\ missing > 0 => id \in lacked[h] \/ erred[h]

HandlerInv == \A h \in Handlers : AnswerInv(h) /\ AskInv(h) /\ ServeInv(h)
HistoryInv == \A h \in Handlers : SawInv(h) /\ CountInv(h)

\* An offer comes from a lookup.
OfferInv == \A h \in Handlers : offer[h].id \in Ids \cup {None}

\* What h has offered are the methods of the path of the id.  While that id has
\* been registered ever since, a lookup of h finds it.
ShownInv(h) ==
    /\ offer[h] # NoOffer =>
          /\ offer[h].id \in Ids /\ offer[h].path \in Paths
          /\ owner[offer[h].id] = offer[h].path
          /\ \/ offer[h].methods \in MethodsOf(offer[h].path)
             \/ offer[h].methods = <<CompoundManifestAccessMethod(offer[h].path)>>
    /\ kept[h] => offer[h].id \in RegisteredIn(avus)
    /\ kept[h] /\ Looked(h, {"access"}, Findings) /\ ask[h].ids[1] = offer[h].id
          => found[h] \notin {"absent", "multiple", "nil"}

ShowsInv == \A h \in Handlers : ShownInv(h)

----------------------------------------------------------------------------
(* What the documents say and the code does not do.                        *)

\* "The requested `DrsObject` wasn't found": there is an answer for an object
\* that is not, or no longer, registered.
NoPanic == \A h \in Handlers : http[h] # "panicked"
=============================================================================
