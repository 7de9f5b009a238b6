------------------------- MODULE DrsRequests_proofs -------------------------
(***************************************************************************)
(* Theorems about DrsRequests, for every set of handlers and clients, every *)
(* configuration and all requests.                                         *)
(***************************************************************************)
EXTENDS DrsRequests, DrsRegistration_proofs, AccessMethods_proofs

----------------------------------------------------------------------------
(* What a request does to the registration.                                *)

\* The operation that a request called is forgotten.
Over(h) ==
    /\ stage' = [stage EXCEPT ![h] = "idle"]
    /\ job' = [job EXCEPT ![h] = NoJob(h)]
    /\ seen' = [seen EXCEPT ![h] = None]
    /\ before' = [before EXCEPT ![h] = {}]
    /\ alone' = [alone EXCEPT ![h] = FALSE]
    /\ UNCHANGED <<avus, dels, adds, owner, minted, published>>

\* A client steps, or is asked for an operation, or an operation is over.
Moves(c) ==
    \/ Start(c) \/ Step(c) \/ Fail(c) \/ FailAfterWrite(c)
    \/ \E j \in JobType : Begin(c, j)
    \/ stage[c] # "write" /\ Over(c)

\* Forgetting an operation that writes no more preserves the inductive invariant.
LEMMA OverIInv ==
    ASSUME IInv, NEW c \in Clients, stage[c] # "write", Over(c)
    PROVE  IInv'
<1> USE DEF Over
<1>1. TypeOK'
  BY NoJobType DEF IInv, TypeOK, Stages
<1>2. PendingInv'
  BY EmptyIsDescribing DEF IInv, TypeOK, PendingInv
<1>3. JobInv'
  BY NoJobType DEF IInv, TypeOK, JobInv
<1>4. IdsInv' /\ IdOnOnePath'
  BY DEF IInv, IdsInv, IdOnOnePath
<1> QED BY <1>1, <1>2, <1>3, <1>4 DEF IInv

\* What a move of one client leaves as it is: the operations of the others, and
\* the owner of an id that has one.
LEMMA MovesApart ==
    ASSUME IInv, NEW c \in Clients, Moves(c)
    PROVE  /\ \A d \in Clients : d # c =>
                 stage'[d] = stage[d] /\ job'[d] = job[d] /\ seen'[d] = seen[d]
           /\ \A id \in Ids : owner[id] # None => owner'[id] = owner[id]
<1>1. CASE Start(c) \/ Step(c) \/ Fail(c) \/ FailAfterWrite(c)
  <2>1. [Next]_vars
    BY <1>1 DEF Next
  <2> QED BY <1>1, <2>1, OthersWait, OthersSaw, OwnerKept
<1>2. CASE \E j \in JobType : Begin(c, j)
  BY <1>2 DEF Begin, IInv, TypeOK
<1>3. CASE Over(c)
  BY <1>3 DEF Over, IInv, TypeOK
<1> QED BY <1>1, <1>2, <1>3 DEF Moves

\* The inductive invariant, and that of the lookups, are preserved by a move.
LEMMA MovesIInv ==
    ASSUME IInv, ReadInv, NEW c \in Clients, Moves(c)
    PROVE  IInv' /\ ReadInv'
<1>1. CASE Start(c) \/ Step(c) \/ Fail(c) \/ FailAfterWrite(c)
  <2>1. [Next]_vars
    BY <1>1 DEF Next
  <2> QED BY <2>1, NextIInv, NextRead
<1>2. IInv'
  <2>1. CASE \E j \in JobType : Begin(c, j)
    BY <2>1, BeginIInv
  <2>2. CASE stage[c] # "write" /\ Over(c)
    BY <2>2, OverIInv
  <2> QED BY <1>1, <2>1, <2>2 DEF Moves
<1>3. CASE (\E j \in JobType : Begin(c, j)) \/ Over(c)
  <2> SUFFICES ASSUME NEW d \in Clients PROVE ReadOwn(d)'
    BY <1>2 DEF ReadInv
  <2>1. CASE d = c
    BY <1>3, <2>1 DEF Begin, Over, FirstStage, IInv, TypeOK, ReadOwn
  <2>2. CASE d # c
    BY <1>3, <2>2, MovesApart DEF Begin, Over, ReadInv, ReadOwn, Moves, IInv, TypeOK
  <2> QED BY <2>1, <2>2
<1> QED BY <1>1, <1>2, <1>3 DEF Moves

----------------------------------------------------------------------------
(* The requests that may come in.                                          *)

AskTyped(a) ==
    /\ a.kind \in Views \cup Options \cup Commands \cup Unsupported
    /\ a.ids \in Seq(Ids \cup {None})
    /\ a.kind # "bulk" => Len(a.ids) = 1
    /\ a.job \in JobType
    /\ a.kind \in {"drsupdate", "drsrm"} => a.job.op \notin Readers

\* A request asks for ids, an offered one too.
LEMMA AsksTyped ==
    ASSUME OfferInv, NEW h \in Handlers, NEW a \in NextAsks(h)
    PROVE  AskTyped(a)
<1>1. ASSUME NEW b \in AsksOf[h] PROVE AskTyped(b)
  <2>1. b \in Asks
    BY DEF Asks
  <2> QED BY <2>1, HandlersAsk DEF AskTyped, Updaters, Readers
<1>2. ASSUME NEW b \in AsksOf[h], b.kind = "access", NEW id \in Ids \cup {None},
             NEW access, a = AskFor(b, id, access)
      PROVE  AskTyped(a)
  <2>1. b \in Asks
    BY DEF Asks
  <2>2. /\ a.kind = "access" /\ a.ids = <<id>> /\ a.job = b.job
    BY <1>2, <2>1, HandlersAsk DEF AskFor
  <2> QED BY <1>1, <2>2 DEF AskTyped, Views
<1>3. offer[h].id \in Ids \cup {None}
  BY DEF OfferInv
<1>4. CASE a \notin AsksOf[h]
  <2>1. PICK b \in {x \in AsksOf[h] : x.kind = "access"}, i \in DOMAIN offer[h].methods :
           a = AskFor(b, offer[h].id, offer[h].methods[i].id)
    BY <1>4 DEF NextAsks
  <2> QED BY <1>2, <1>3, <2>1
<1> QED BY <1>1, <1>4

\* The ids of a request that are looked up are those that are not blank, each as
\* often as it was asked.
LEMMA NormalizedIds ==
    ASSUME NEW ids \in Seq(Ids \cup {None})
    PROVE  /\ normalizedBulkObjectIDs(ids) \in Seq(Ids)
           /\ Listed(normalizedBulkObjectIDs(ids)) = Listed(ids) \ {None}
           /\ \A id \in Ids : Times(id, normalizedBulkObjectIDs(ids)) = Times(id, ids)
<1> DEFINE left == Without(ids, {None})
<1> HIDE DEF left
<1>1. left \in Seq(Ids) /\ Listed(left) = Listed(ids) \ {None}
  <2>1. (Ids \cup {None}) \ {None} = Ids
    BY NoneIsNothing
  <2> QED BY <2>1, KeptEntries DEF left
<1>2. ASSUME NEW id, id # None
      PROVE  Cardinality(Places(id, left)) = Cardinality(Places(id, ids))
  <2>1. AsOften(id, left, ids)
    BY <1>2, KeptEntries DEF left
  <2> QED BY <2>1 DEF AsOften
<1>3. \A id, list : Times(id, list) = Cardinality(Places(id, list))
  BY DEF Times, Places
<1> QED BY <1>1, <1>2, <1>3, NoneIsNothing DEF left, normalizedBulkObjectIDs

----------------------------------------------------------------------------
(* What a request does to its own state.                                   *)

RequestStep(h) ==
    Arrive(h) \/ Serve(h) \/ ConnectFails(h) \/ LookupFails(h) \/ TicketFails(h)

\* The steps with which a request ends.
EndStep(h) ==
    \/ ConnectFails(h) \/ TicketFails(h) \/ AnswerError(h) \/ Panic(h)
    \/ AnswerObject(h) \/ (AnswerAccess(h) /\ http'[h] # "ticket") \/ MakeTicket(h)
    \/ (AnswerCompound(h) /\ http'[h] # "build") \/ BuildManifest(h)
    \/ AnswerOptions(h) \/ BulkError(h) \/ AnswerBulk(h) \/ CommandDone(h)

\* An object that was found is shown to a handler that goes on with it.
GoOnStep(h) ==
    /\ http[h] = "look" /\ found[h] \in Objects
    /\ \/ ask[h].kind = "access" /\ GoOn(h, "ticket")
       \/ ask[h].kind \in {"compound", "drsinfo"} /\ GoOn(h, "build")
    /\ UNCHANGED <<vars, cfg, ask, todo, found, answer, erred, offer>>

\* The variables of the requests are functions of the handlers.
RequestsTyped ==
    /\ cfg \in Configs
    /\ http \in [Handlers -> HttpStages]
    /\ ask = [h \in Handlers |-> ask[h]]
    /\ todo \in [Handlers -> Seq(Ids)]
    /\ found \in [Handlers -> Findings]
    /\ answer = [h \in Handlers |-> answer[h]]
    /\ offer = [h \in Handlers |-> offer[h]]
    /\ erred \in [Handlers -> BOOLEAN]

RInv ==
    /\ IInv /\ ReadInv /\ RequestsTyped
    /\ HandlerInv /\ OfferInv

\* A request that ends leaves an answer of its own: a typed one, without a
\* ticket but when it was to be made.
Ends(h, a) ==
    /\ \E where \in {"answered", "panicked"}, failed \in BOOLEAN : Leave(h, where, failed)
    /\ answer' = [answer EXCEPT ![h] = a]
    /\ offer' = [offer EXCEPT ![h] = offer'[h]]
    /\ offer'[h].id \in Ids \cup {None}
    /\ AnswerTyped(a)
    /\ a.ticket = None \/ (http[h] = "ticket" /\ a.ticket = job[h].path)

\* A status is one of those the API answers with, or asks for a ticket.
LEMMA AccessStatuses ==
    ASSUME NEW h \in Handlers, NEW status \in accessURLForObject(h)
    PROVE  /\ status \in Statuses
           /\ found[h] = "nil" => status = 500
<1>1. CASE found[h] = "nil"
  BY <1>1 DEF accessURLForObject, Statuses
<1>2. CASE found[h] # "nil" /\ ask[h].access = CompoundAccessID
  BY <1>2 DEF accessURLForObject, Statuses
<1>3. CASE found[h] # "nil" /\ ask[h].access # CompoundAccessID
  BY <1>3 DEF accessURLForObject, Statuses
<1> QED BY <1>1, <1>2, <1>3

\* The id a request is at.
LEMMA HeadOfTodo ==
    ASSUME RInv, NEW h \in Handlers, http[h] \in Running
    PROVE  todo[h] \in Seq(Ids) /\ todo[h] # <<>> /\ Head(todo[h]) \in Ids
<1>1. todo[h] \in Seq(Ids) /\ todo[h] # <<>>
  BY DEF RInv, RequestsTyped, HandlerInv, AskInv
<1> QED BY <1>1, HeadTailProperties

\* Sorting it keeps an answer typed.
LEMMA SortedTyped ==
    ASSUME RInv, NEW h \in Handlers, http[h] \in Running
    PROVE  AnswerTyped(Sorted(h)) /\ Sorted(h).ticket = answer[h].ticket
<1>1. AnswerTyped(answer[h]) /\ Head(todo[h]) \in Ids
  BY HeadOfTodo DEF RInv, HandlerInv, AnswerInv
<1>2. /\ Append(answer[h].resolved, Head(todo[h])) \in Seq(Ids)
      /\ Append(answer[h].missing, Head(todo[h])) \in Seq(Ids)
  BY <1>1, AppendProperties DEF AnswerTyped
<1> QED BY <1>1, <1>2 DEF AnswerTyped, Sorted

\* What an answer is whose status, URL and ticket are set.
WithURL(a, status, url, ticket) ==
    [a EXCEPT !.status = status, !.url = url, !.ticket = ticket]

LEMMA AnswerWithURL ==
    ASSUME NEW a, AnswerTyped(a), NEW status \in Statuses, NEW url, NEW ticket
    PROVE  /\ AnswerTyped(WithURL(a, status, url, ticket))
           /\ WithURL(a, status, url, ticket).status = status
           /\ WithURL(a, status, url, ticket).url = url
           /\ WithURL(a, status, url, ticket).ticket = ticket
<1> DEFINE b1 == [a EXCEPT !.status = status]
           b2 == [b1 EXCEPT !.url = url]
           b3 == [b2 EXCEPT !.ticket = ticket]
<1>1. AnswerTyped(b1) /\ b1.status = status
  BY DEF AnswerTyped
<1> HIDE DEF b1
<1>2. AnswerTyped(b2) /\ b2.status = status /\ b2.url = url
  BY <1>1 DEF AnswerTyped
<1> HIDE DEF b2
<1>3. AnswerTyped(b3) /\ b3.status = status /\ b3.url = url /\ b3.ticket = ticket
  BY <1>2 DEF AnswerTyped
<1> QED BY <1>3 DEF b1, b2, WithURL

\* A step with which a request ends is one of the kind above.
LEMMA EndSteps ==
    ASSUME RInv, NEW h \in Handlers, EndStep(h)
    PROVE  \E a : Ends(h, a)
<1>1. /\ AnswerTyped(answer[h])
      /\ http[h] \in Running => answer[h].ticket = None
      /\ answer = [g \in Handlers |-> answer[g]] /\ offer = [g \in Handlers |-> offer[g]]
      /\ offer[h].id \in Ids \cup {None}
  BY DEF RInv, RequestsTyped, HandlerInv, AnswerInv, OfferInv, AnswerTyped, Running
<1>2. UNCHANGED offer => offer' = [offer EXCEPT ![h] = offer'[h]] /\ offer'[h].id \in Ids \cup {None}
  BY <1>1
<1>3. ASSUME http[h] \in Running, UNCHANGED offer, NEW status \in Statuses,
             Answer(h, status) \/ AnswerFailure(h, status)
      PROVE  \E a : Ends(h, a)
  <2> DEFINE a == [answer[h] EXCEPT !.status = status]
  <2>1. AnswerTyped(a) /\ a.ticket = None
    BY <1>1, <1>3 DEF AnswerTyped
  <2>2. answer' = [answer EXCEPT ![h] = a]
    BY <1>1, <1>3 DEF Answer, AnswerFailure
  <2>3. \E where \in {"answered", "panicked"}, failed \in BOOLEAN : Leave(h, where, failed)
    BY <1>3 DEF Answer, AnswerFailure
  <2> HIDE DEF a
  <2> QED BY <1>2, <1>3, <2>1, <2>2, <2>3 DEF Ends
<1>4. CASE ConnectFails(h) \/ TicketFails(h) \/ AnswerError(h)
  BY <1>3, <1>4 DEF ConnectFails, TicketFails, AnswerError, routeErrorStatus,
     optionsErrorStatus, Statuses, Looked, Running
<1>5. CASE Panic(h)
  <2>1. answer' = [answer EXCEPT ![h] = answer[h]]
    BY <1>1, <1>5 DEF Panic
  <2> QED BY <1>1, <1>2, <1>5, <2>1 DEF Panic, Looked, Running, Ends
<1>6. CASE BuildManifest(h) \/ AnswerOptions(h) \/ BulkError(h) \/ CommandDone(h)
  BY <1>3, <1>6 DEF BuildManifest, AnswerOptions, BulkError, CommandDone, Statuses,
     Looked, Running
<1>7. CASE AnswerCompound(h) /\ http'[h] # "build"
  <2>1. ~GoOn(h, "build")
    BY <1>7 DEF GoOn, RInv, RequestsTyped
  <2> QED BY <1>3, <1>7, <2>1 DEF AnswerCompound, Statuses, Looked, Running
<1>8. CASE AnswerObject(h)
  <2>1. ASSUME NEW status \in {200, 500, 501}, Answer(h, status),
               offer' = [offer EXCEPT ![h] = offer'[h]],
               offer'[h].id \in Ids \cup {None}
        PROVE  \E a : Ends(h, a)
    <3> DEFINE a == [answer[h] EXCEPT !.status = status]
    <3>1. AnswerTyped(a) /\ a.ticket = None
      <4>1. answer[h].ticket = None
        BY <1>1, <1>8 DEF AnswerObject, Looked, Running
      <4>2. AnswerTyped(a) /\ a.ticket = answer[h].ticket
        BY <1>1 DEF AnswerTyped, Statuses
      <4> QED BY <4>1, <4>2
    <3>2. answer' = [answer EXCEPT ![h] = a]
      BY <1>1, <2>1 DEF Answer
    <3>3. \E where \in {"answered", "panicked"}, failed \in BOOLEAN :
             Leave(h, where, failed)
      BY <2>1 DEF Answer
    <3> HIDE DEF a
    <3> QED BY <2>1, <3>1, <3>2, <3>3 DEF Ends
  <2>2. ASSUME NEW methods,
               offer' = [offer EXCEPT ![h] = [id |-> seen[h], path |-> job[h].path,
                                              methods |-> methods]]
        PROVE  /\ offer' = [offer EXCEPT ![h] = offer'[h]]
               /\ offer'[h].id \in Ids \cup {None}
    BY <1>1, <2>2, HandlersAsk DEF RInv, IInv, TypeOK
  <2> QED BY <1>2, <1>8, <2>1, <2>2 DEF AnswerObject
<1>9. ASSUME http[h] \in Running, UNCHANGED offer, NEW ticket, AnswerURL(h, ticket),
             ticket = None \/ (http[h] = "ticket" /\ ticket = job[h].path)
      PROVE  \E a : Ends(h, a)
  <2> DEFINE a == WithURL(answer[h], 200, AccessURL(h), ticket)
  <2>1. AnswerTyped(a) /\ a.ticket = ticket
    BY <1>1, AnswerWithURL DEF Statuses
  <2>2. answer' = [answer EXCEPT ![h] = a]
    <3>1. answer' = [answer EXCEPT ![h].status = 200, ![h].url = AccessURL(h),
                                   ![h].ticket = ticket]
      BY <1>9 DEF AnswerURL
    <3> QED BY <1>1, <3>1 DEF WithURL
  <2>3. \E where \in {"answered", "panicked"}, failed \in BOOLEAN :
           Leave(h, where, failed)
    BY <1>9 DEF AnswerURL
  <2> HIDE DEF a
  <2> QED BY <1>2, <1>9, <2>1, <2>2, <2>3 DEF Ends
<1>10. CASE MakeTicket(h)
  BY <1>9, <1>10 DEF MakeTicket, Running
<1>11. CASE AnswerAccess(h) /\ http'[h] # "ticket"
  <2>1. ~GoOn(h, "ticket")
    BY <1>11 DEF GoOn, RInv, RequestsTyped
  <2>2. PICK status \in accessURLForObject(h) :
           \/ status = 200 /\ AnswerURL(h, None)
           \/ Answer(h, status)
    BY <1>11, <2>1 DEF AnswerAccess
  <2>3. status \in Statuses /\ http[h] \in Running /\ UNCHANGED offer
    BY <1>11, AccessStatuses DEF AnswerAccess, Looked, Running
  <2> QED BY <1>3, <1>9, <2>2, <2>3
<1>12. CASE AnswerBulk(h)
  <2> DEFINE a == [Sorted(h) EXCEPT !.status = 200]
  <2>1. AnswerTyped(Sorted(h)) /\ Sorted(h).ticket = answer[h].ticket
    BY <1>12, SortedTyped DEF AnswerBulk, Looked, Running
  <2>3. AnswerTyped(a) /\ a.ticket = None
    <3>1. answer[h].ticket = None
      BY <1>1, <1>12 DEF AnswerBulk, Looked, Running
    <3>2. AnswerTyped(a) /\ a.ticket = Sorted(h).ticket
      BY <2>1 DEF AnswerTyped, Statuses
    <3> QED BY <2>1, <3>1, <3>2
  <2>4. answer' = [answer EXCEPT ![h] = a]
    BY <1>12 DEF AnswerBulk
  <2>5. \E where \in {"answered", "panicked"}, failed \in BOOLEAN :
           Leave(h, where, failed)
    BY <1>12 DEF AnswerBulk
  <2>6. UNCHANGED offer
    BY <1>12 DEF AnswerBulk
  <2> HIDE DEF a
  <2> QED BY <1>2, <2>3, <2>4, <2>5, <2>6 DEF Ends
<1> QED
  BY <1>4, <1>5, <1>6, <1>7, <1>8, <1>10, <1>11, <1>12 DEF EndStep

\* Every other step of a request is one of these.
LEMMA RequestSteps ==
    ASSUME RInv, NEW h \in Handlers, RequestStep(h)
    PROVE  \/ Arrive(h) \/ Connect(h) \/ Lookup(h) \/ LookupFails(h)
           \/ BulkNext(h) \/ CallCommand(h) \/ GoOnStep(h) \/ EndStep(h)
<1>1. CASE AnswerAccess(h) /\ http'[h] = "ticket"
  <2>1. ~(\E where : where = "answered" /\ GoOn(h, where))
    BY <1>1 DEF GoOn, RInv, RequestsTyped
  <2>2. ~AnswerURL(h, None) /\ \A status : ~Answer(h, status)
    BY <2>1 DEF AnswerURL, Answer, Leave
  <2>3. PICK status \in accessURLForObject(h) : status = 0
    BY <1>1, <2>2 DEF AnswerAccess
  <2>4. found[h] # "nil"
    BY <2>3, AccessStatuses
  <2> QED BY <1>1, <2>2, <2>4 DEF AnswerAccess, GoOnStep, Looked
<1>2. CASE AnswerCompound(h) /\ http'[h] = "build"
  <2>1. ~GoOn(h, "answered")
    BY <1>2 DEF GoOn, RInv, RequestsTyped
  <2>2. \A status : ~Answer(h, status)
    BY <2>1 DEF Answer, Leave
  <2> QED BY <1>2, <2>2 DEF AnswerCompound, GoOnStep, Looked
<1> QED BY <1>1, <1>2 DEF RequestStep, Serve, EndStep

\* A step of a request is a move of its handler, or leaves the operations alone.
LEMMA RequestMoves ==
    ASSUME RInv, NEW h \in Handlers, RequestStep(h)
    PROVE  UNCHANGED vars \/ Moves(h)
<1>1. h \in Clients
  BY HandlersAsk
<1>2. ASSUME NEW id \in Ids, LookUp(h, id) PROVE Moves(h)
  <2>1. [NoJob(h) EXCEPT !.op = "getById", !.id = id] \in JobType
    BY <1>1, NoJobType DEF JobType, Readers
  <2> QED BY <1>2, <2>1 DEF LookUp, Moves
<1>3. CASE Arrive(h) \/ GoOnStep(h)
  BY <1>3 DEF Arrive, GoOnStep
<1>4. CASE Connect(h)
  BY <1>2, <1>4, HeadOfTodo DEF Connect, Running
<1>5. CASE BulkNext(h)
  <2>1. todo[h] \in Seq(Ids) /\ Len(todo[h]) > 1
    BY <1>5, HeadOfTodo DEF BulkNext, Looked, Running
  <2>2. todo[h][2] \in Ids
    BY <2>1
  <2> QED BY <1>2, <1>5, <2>2 DEF BulkNext
<1>6. CASE Lookup(h)
  BY <1>6 DEF Lookup, Moves, Step
<1>7. CASE LookupFails(h)
  BY <1>7 DEF LookupFails, Moves
<1>8. CASE CallCommand(h)
  <2>1. ask[h].job \in JobType /\ job[h].path \in Paths
    BY <1>1, <1>8 DEF CallCommand, Looked, Running, RInv, HandlerInv, AskInv, IInv,
       TypeOK, JobType
  <2>2. [ask[h].job EXCEPT !.path = job[h].path] \in JobType
    BY <2>1 DEF JobType
  <2> QED BY <1>8, <2>2 DEF CallCommand, Moves
<1>9. CASE EndStep(h)
  <2>1. stage[h] # "write"
    BY <1>9 DEF RInv, HandlerInv, ServeInv, EndStep, ConnectFails, TicketFails,
       AnswerError, Panic, AnswerObject, AnswerAccess, MakeTicket, AnswerCompound,
       BuildManifest, AnswerOptions, BulkError, AnswerBulk, CommandDone, Looked, Active
  <2>2. PICK a : Ends(h, a)
    BY <1>9, EndSteps
  <2> QED BY <2>1, <2>2 DEF Ends, Leave, Over, Moves
<1> QED
  BY <1>3, <1>4, <1>5, <1>6, <1>7, <1>8, <1>9, RequestSteps

\* The variables of the requests stay functions, and typed.
LEMMA RequestTypes ==
    ASSUME RInv, NEW h \in Handlers, RequestStep(h)
    PROVE  RequestsTyped'
<1> USE DEF RequestsTyped, GoOn
<1>1. RequestsTyped
  BY DEF RInv
<1>2. CASE Arrive(h)
  <2>1. PICK a \in NextAsks(h) :
           /\ ask' = [ask EXCEPT ![h] = a]
           /\ todo' = [todo EXCEPT ![h] = normalizedBulkObjectIDs(a.ids)]
           /\ GoOn(h, IF Refusal(a) = 0 THEN "connect" ELSE "answered")
           /\ answer' = [answer EXCEPT ![h] = [NoAnswer EXCEPT !.status = Refusal(a)]]
    BY <1>2 DEF Arrive
  <2>2. normalizedBulkObjectIDs(a.ids) \in Seq(Ids)
    <3>1. a.ids \in Seq(Ids \cup {None})
      BY AsksTyped DEF RInv, AskTyped
    <3> QED BY <3>1, NormalizedIds
  <2> QED BY <1>1, <1>2, <2>1, <2>2 DEF Arrive, HttpStages, Running, Findings
<1>3. CASE Connect(h)
  BY <1>1, <1>3 DEF Connect, LookUp, HttpStages, Running, Findings
<1>4. CASE BulkNext(h)
  <2>1. Tail(todo[h]) \in Seq(Ids)
    BY <1>4, HeadOfTodo, HeadTailProperties DEF BulkNext, Looked, Running
  <2> QED BY <1>1, <1>4, <2>1 DEF BulkNext, LookUp, Findings
<1>5. CASE Lookup(h)
  <2>1. QueryFinding(h) \in Findings /\ LoadFinding(h) \in Findings
    BY DEF QueryFinding, LoadFinding, Findings, Objects, Errors
  <2> QED BY <1>1, <1>5, <2>1 DEF Lookup
<1>6. CASE LookupFails(h)
  BY <1>1, <1>6 DEF LookupFails, Findings, Errors
<1>7. CASE CallCommand(h)
  BY <1>1, <1>7 DEF CallCommand, HttpStages, Running
<1>8. CASE GoOnStep(h)
  BY <1>1, <1>8 DEF GoOnStep, HttpStages, Running
<1>9. CASE EndStep(h)
  <2>1. PICK a : Ends(h, a)
    BY <1>9, EndSteps
  <2>2. PICK where \in {"answered", "panicked"}, failed \in BOOLEAN :
           Leave(h, where, failed)
    BY <2>1 DEF Ends
  <2>3. /\ http' = [http EXCEPT ![h] = where] /\ todo' = [todo EXCEPT ![h] = <<>>]
        /\ found' = [found EXCEPT ![h] = "none"] /\ UNCHANGED <<cfg, ask>>
        /\ erred' = [erred EXCEPT ![h] = failed]
    BY <2>2 DEF Leave
  <2>4. /\ answer' = [answer EXCEPT ![h] = a]
        /\ offer' = [offer EXCEPT ![h] = offer'[h]]
    BY <2>1 DEF Ends
  <2>5. offer' = [g \in Handlers |-> offer'[g]] /\ answer' = [g \in Handlers |-> answer'[g]]
    BY <1>1, <2>4
  <2>6. http' \in [Handlers -> HttpStages] /\ todo' \in [Handlers -> Seq(Ids)]
    BY <1>1, <2>3 DEF HttpStages
  <2>7. found' \in [Handlers -> Findings] /\ erred' \in [Handlers -> BOOLEAN]
    BY <1>1, <2>3 DEF Findings
  <2> QED BY <1>1, <2>3, <2>5, <2>6, <2>7
<1> QED
  BY <1>2, <1>3, <1>4, <1>5, <1>6, <1>7, <1>8, <1>9, RequestSteps

----------------------------------------------------------------------------
(* The handlers that a step is not about.                                  *)

\* A step leaves the request of g, and its operation, as they are.
Undisturbed(g) ==
    /\ http'[g] = http[g] /\ ask'[g] = ask[g] /\ todo'[g] = todo[g]
    /\ found'[g] = found[g] /\ answer'[g] = answer[g] /\ erred'[g] = erred[g]
    /\ stage'[g] = stage[g] /\ job'[g] = job[g]

\* The step of one request leaves the others undisturbed,
LEMMA OthersServed ==
    ASSUME RInv, NEW h \in Handlers, NEW g \in Handlers, g # h, RequestStep(h)
    PROVE  Undisturbed(g) /\ offer'[g] = offer[g]
<1>1. h \in Clients /\ g \in Clients
  BY HandlersAsk
<1>2. stage'[g] = stage[g] /\ job'[g] = job[g]
  BY <1>1, RequestMoves, MovesApart DEF RInv, vars, client
<1>3. RequestsTyped
  BY DEF RInv
<1>4. /\ http'[g] = http[g] /\ ask'[g] = ask[g] /\ todo'[g] = todo[g]
      /\ found'[g] = found[g] /\ answer'[g] = answer[g] /\ erred'[g] = erred[g]
      /\ offer'[g] = offer[g]
  <2> USE <1>3 DEF GoOn, RequestsTyped
  <2>1. CASE Arrive(h)
    BY <2>1 DEF Arrive
  <2>2. CASE Connect(h) \/ BulkNext(h)
    BY <2>2 DEF Connect, BulkNext, LookUp
  <2>3. CASE Lookup(h) \/ LookupFails(h)
    BY <2>3 DEF Lookup, LookupFails
  <2>4. CASE CallCommand(h) \/ GoOnStep(h)
    BY <2>4 DEF CallCommand, GoOnStep
  <2>5. CASE EndStep(h)
    <3>1. PICK a : Ends(h, a)
      BY <2>5, EndSteps
    <3>2. PICK where \in {"answered", "panicked"}, failed \in BOOLEAN :
             Leave(h, where, failed)
      BY <3>1 DEF Ends
    <3>3. answer'[g] = answer[g] /\ offer'[g] = offer[g]
      BY <3>1 DEF Ends
    <3> QED BY <3>2, <3>3 DEF Leave
  <2> QED BY <2>1, <2>2, <2>3, <2>4, <2>5, RequestSteps
<1> QED BY <1>2, <1>4 DEF Undisturbed

\* and so does a step of a client's operation.
LEMMA OthersUndisturbed ==
    ASSUME RInv, NEW c \in Clients, NEW g \in Handlers, g # c, Moves(c),
           UNCHANGED <<serving, erred>>
    PROVE  Undisturbed(g)
<1>1. g \in Clients
  BY HandlersAsk
<1>2. stage'[g] = stage[g] /\ job'[g] = job[g]
  BY <1>1, MovesApart DEF RInv
<1> QED BY <1>2 DEF Undisturbed, serving

OwnersKept == \A id \in Ids : owner[id] # None => owner'[id] = owner[id]

\* What is so of an undisturbed handler stays so.
LEMMA UndisturbedInv ==
    ASSUME RInv, NEW g \in Handlers, Undisturbed(g), OwnersKept
    PROVE  AnswerInv(g)' /\ AskInv(g)' /\ ServeInv(g)'
<1>1. g \in Clients /\ job[g].path \in Paths
  BY HandlersAsk DEF RInv, IInv, TypeOK, JobType
<1>2. AnswerInv(g) /\ AskInv(g) /\ ServeInv(g)
  BY DEF RInv, HandlerInv
<1>3. AnswerInv(g)'
  BY <1>2 DEF AnswerInv, AnswerTyped, Undisturbed, OwnersKept
<1>4. AskInv(g)'
  BY <1>2 DEF AskInv, Undisturbed
<1>5. ServeInv(g)'
  <2>1. http[g] = "write" /\ stage[g] \in Active =>
           owner'[Head(todo[g])] = owner[Head(todo[g])]
    BY <1>1, <1>2, HeadOfTodo, NoneIsNothing DEF OwnersKept, ServeInv, Running
  <2> QED BY <1>2, <2>1 DEF ServeInv, Undisturbed
<1> QED BY <1>3, <1>4, <1>5

\* The operation of a command goes on with its path, or comes to an end.
LEMMA OperationGoesOn ==
    ASSUME RInv, NEW h \in Handlers, http[h] = "write",
           Step(h) \/ Fail(h) \/ FailAfterWrite(h)
    PROVE  /\ stage[h] \in Active
           /\ stage'[h] \in {"plan", "write", "done", "failed"}
           /\ stage'[h] \in Active => job'[h] = job[h]
<1>1. h \in Clients /\ stage[h] \notin {"query", "load"}
  BY HandlersAsk DEF RInv, HandlerInv, ServeInv
<1> USE <1>1 DEF RInv, IInv, TypeOK, Active
<1>2. Refuse(h) \/ GiveUp(h) => stage'[h] = "failed"
  BY DEF Refuse, GiveUp
<1>3. CASE Query(h) \/ Load(h)
  BY <1>3 DEF Query, Load
<1>4. CASE Resolve(h)
  BY <1>2, <1>4 DEF Resolve
<1>5. CASE PlanCreate(h) \/ PlanUpdateField(h) \/ PlanUpdateAliases(h)
  BY <1>2, <1>5 DEF PlanCreate, PlanUpdateField, PlanUpdateAliases, Plan
<1>6. CASE PlanRemoveSingle(h) \/ PlanStrip(h)
  BY <1>2, <1>6 DEF PlanRemoveSingle, PlanStrip, Plan
<1>7. CASE DeleteNext(h) \/ AddNext(h) \/ Finish(h)
  BY <1>7 DEF DeleteNext, AddNext, Finish
<1>8. CASE Fail(h) \/ FailAfterWrite(h)
  BY <1>2, <1>8 DEF Fail, FailAfterWrite
<1> QED BY <1>3, <1>4, <1>5, <1>6, <1>7, <1>8 DEF Step

\* So it keeps what is known of its handler.
LEMMA OperateInv ==
    ASSUME RInv, NEW h \in Handlers, http[h] = "write", OwnersKept,
           Step(h) \/ Fail(h) \/ FailAfterWrite(h), UNCHANGED <<serving, erred>>
    PROVE  AnswerInv(h)' /\ AskInv(h)' /\ ServeInv(h)'
<1>1. h \in Clients /\ job[h].path \in Paths
  BY HandlersAsk DEF RInv, IInv, TypeOK, JobType
<1>2. AnswerInv(h) /\ AskInv(h) /\ ServeInv(h)
  BY DEF RInv, HandlerInv
<1>3. AnswerInv(h)' /\ AskInv(h)'
  BY <1>2 DEF AnswerInv, AnswerTyped, AskInv, serving
<1>4. owner'[Head(todo[h])] = owner[Head(todo[h])] /\ owner[Head(todo[h])] = job[h].path
  BY <1>1, <1>2, OperationGoesOn, HeadOfTodo, NoneIsNothing
     DEF OwnersKept, ServeInv, Running
<1>5. ServeInv(h)'
  BY <1>2, <1>4, OperationGoesOn DEF ServeInv, serving
<1> QED BY <1>3, <1>5

----------------------------------------------------------------------------
(* The handler that a step is about.                                       *)

\* A single id that is not dropped is what is left.
LEMMA SingleKept ==
    ASSUME NEW ids \in Seq(Ids \cup {None}), Len(ids) = 1,
           normalizedBulkObjectIDs(ids) # <<>>
    PROVE  /\ Len(normalizedBulkObjectIDs(ids)) = 1
           /\ Head(normalizedBulkObjectIDs(ids)) = ids[1]
<1> DEFINE left == normalizedBulkObjectIDs(ids)
<1> HIDE DEF left
<1>1. /\ left \in Seq(Ids) /\ Listed(left) = Listed(ids) \ {None}
      /\ \A id \in Ids : Cardinality(Places(id, left)) = Cardinality(Places(id, ids))
  BY NormalizedIds DEF left, Times, Places
<1>2. Listed(ids) = {ids[1]} /\ DOMAIN ids = 1..1
  BY DEF Listed
<1>3. left # <<>>
  BY DEF left
<1>4. /\ Len(left) \in Nat \ {0} /\ DOMAIN left = 1..Len(left)
      /\ Head(left) = left[1] /\ 1 \in DOMAIN left
  BY <1>1, <1>3
<1>5. \A i \in DOMAIN left : left[i] = ids[1] /\ left[i] # None
  BY <1>1, <1>2 DEF Listed
<1>6. Places(ids[1], left) = 1..Len(left) /\ Places(ids[1], ids) = 1..1
  BY <1>2, <1>4, <1>5 DEF Places
<1>7. ids[1] \in Ids
  BY <1>1, <1>4, <1>5
<1>8. Cardinality(1..Len(left)) = Cardinality(1..1)
  <2>1. Cardinality(Places(ids[1], left)) = Cardinality(Places(ids[1], ids))
    BY <1>1, <1>7
  <2> QED BY <1>6, <2>1
<1>9. Len(left) = 1
  <2>1. \A n \in Nat \ {0} : Cardinality(1..n) = IF 1 > n THEN 0 ELSE n - 1 + 1
    BY FS_Interval
  <2> QED BY <1>4, <1>8, <2>1
<1> QED BY <1>4, <1>5, <1>9 DEF left

\* What a request that comes in is.
LEMMA ArriveInv ==
    ASSUME RInv, NEW h \in Handlers, Arrive(h)
    PROVE  AnswerInv(h)' /\ AskInv(h)' /\ ServeInv(h)'
<1>1. PICK a \in NextAsks(h) :
         /\ ask' = [ask EXCEPT ![h] = a]
         /\ todo' = [todo EXCEPT ![h] = normalizedBulkObjectIDs(a.ids)]
         /\ GoOn(h, IF Refusal(a) = 0 THEN "connect" ELSE "answered")
         /\ answer' = [answer EXCEPT ![h] = [NoAnswer EXCEPT !.status = Refusal(a)]]
  BY DEF Arrive
<1>2. /\ ask'[h] = a /\ todo'[h] = normalizedBulkObjectIDs(a.ids)
      /\ http'[h] = IF Refusal(a) = 0 THEN "connect" ELSE "answered"
      /\ answer'[h] = [NoAnswer EXCEPT !.status = Refusal(a)]
  BY <1>1 DEF RInv, RequestsTyped, GoOn
<1>3. AskTyped(a)
  BY AsksTyped DEF RInv
<1>4. AnswerInv(h)'
  <2>1. Refusal(a) \in Statuses
    BY DEF Refusal, Statuses
  <2>2. answer'[h] = [status |-> Refusal(a), resolved |-> <<>>, missing |-> <<>>,
                      url |-> NoURL, ticket |-> None]
    BY <1>2 DEF NoAnswer
  <2> QED BY <2>1, <2>2 DEF AnswerInv, AnswerTyped
<1>5. AskInv(h)'
  <2> SUFFICES ASSUME Refusal(a) = 0
               PROVE  AskInv(h)'
    BY <1>2 DEF AskInv, Running
  <2>1. a.kind \notin Unsupported /\ normalizedBulkObjectIDs(a.ids) # <<>>
    BY DEF Refusal
  <2>2. a.kind # "bulk" => /\ Len(normalizedBulkObjectIDs(a.ids)) = 1
                           /\ a.ids[1] = Head(normalizedBulkObjectIDs(a.ids))
    BY <1>3, <2>1, SingleKept DEF AskTyped
  <2> QED BY <1>2, <1>3, <2>1, <2>2 DEF AskInv, AskTyped
<1>6. ServeInv(h)'
  <2>1. stage'[h] \notin Active
    BY DEF Arrive, RInv, HandlerInv, ServeInv, Running, vars, client
  <2> QED BY <1>2, <2>1 DEF ServeInv
<1> QED BY <1>4, <1>5, <1>6

\* What a lookup starts from.
LEMMA LookUpInv ==
    ASSUME RInv, NEW h \in Handlers, NEW id \in Ids, LookUp(h, id), http'[h] = "look",
           todo'[h] # <<>>, id = Head(todo'[h])
    PROVE  ServeInv(h)'
<1>1. h \in Clients
  BY HandlersAsk
<1>2. stage'[h] = "query"
  BY <1>1 DEF LookUp, Begin, FirstStage, Readers, RInv, IInv, TypeOK, NoJob, JobType
<1>3. job'[h].op = "getById" /\ job'[h].id = id
  BY <1>1, NoJobType DEF LookUp, Begin, RInv, IInv, TypeOK, JobType
<1>4. found'[h] = "none"
  BY DEF LookUp, RInv, RequestsTyped
<1> QED BY <1>2, <1>3, <1>4 DEF ServeInv

\* What comes after the first id.
LEMMA SecondId ==
    ASSUME NEW s \in Seq(Ids), Len(s) > 1
    PROVE  Tail(s) # <<>> /\ s[2] \in Ids /\ Head(Tail(s)) = s[2]
<1>1. Len(s) \in Nat /\ DOMAIN s = 1..Len(s) /\ s # <<>>
  OBVIOUS
<1>2. Tail(s) \in Seq(Ids) /\ Len(Tail(s)) = Len(s) - 1
  BY <1>1, HeadTailProperties
<1>3. Tail(s)[1] = s[2] /\ s[2] \in Ids
  BY <1>1
<1>4. Tail(s) # <<>>
  <2>1. \A t \in Seq(Ids) : Len(t) = Len(s) - 1 => t # <<>>
    BY <1>1
  <2> QED BY <1>2, <2>1
<1> QED BY <1>2, <1>3, <1>4

\* What a step of a request makes of its handler.
LEMMA RequestInv ==
    ASSUME RInv, NEW h \in Handlers, RequestStep(h)
    PROVE  AnswerInv(h)' /\ AskInv(h)' /\ ServeInv(h)'
<1> USE DEF RequestsTyped
<1>1. /\ RequestsTyped /\ AnswerInv(h) /\ AskInv(h) /\ ServeInv(h) /\ h \in Clients
      /\ http[h] \in Running => Head(todo[h]) \in Ids /\ todo[h] \in Seq(Ids)
  BY HandlersAsk, HeadOfTodo DEF RInv, HandlerInv
<1>2. CASE Connect(h)
  <2>1. /\ http'[h] = "look" /\ http[h] = "connect" /\ LookUp(h, Head(todo[h]))
        /\ ask' = ask /\ todo' = todo /\ answer' = answer
    BY <1>1, <1>2 DEF Connect, GoOn
  <2>2. AskInv(h)' /\ AnswerInv(h)'
    BY <1>1, <2>1 DEF AskInv, AnswerInv, AnswerTyped, Running
  <2> QED BY <1>1, <2>1, <2>2, LookUpInv DEF AskInv, Running
<1>3. CASE BulkNext(h)
  <2>1. /\ http'[h] = "look" /\ http[h] = "look" /\ LookUp(h, todo[h][2])
        /\ ask[h].kind = "bulk" /\ Len(todo[h]) > 1
        /\ ask' = ask /\ todo'[h] = Tail(todo[h]) /\ answer'[h] = Sorted(h)
    BY <1>1, <1>3 DEF BulkNext, Looked
  <2>2. /\ todo'[h] # <<>> /\ todo[h][2] \in Ids
        /\ Head(todo'[h]) = todo[h][2]
    <3>1. todo[h] \in Seq(Ids)
      BY <1>1, <2>1 DEF Running
    <3> QED BY <2>1, <3>1, SecondId
  <2>3. AskInv(h)'
    BY <1>1, <2>1, <2>2 DEF AskInv, Running
  <2>4. AnswerInv(h)'
    BY <1>1, <2>1, SortedTyped DEF AnswerInv, Running
  <2> QED BY <2>1, <2>2, <2>3, <2>4, LookUpInv
<1>4. CASE Lookup(h) \/ LookupFails(h)
  <2>1. /\ http[h] = "look" /\ http' = http /\ ask' = ask /\ todo' = todo
        /\ answer' = answer /\ owner' = owner
    BY <1>4 DEF Lookup, LookupFails, Query, Load, Fail, Refuse, GiveUp, history
  <2>2. AskInv(h)' /\ AnswerInv(h)'
    BY <1>1, <2>1 DEF AskInv, AnswerInv, AnswerTyped
  <2>3. CASE stage'[h] = "failed" /\ found'[h] \in Errors
    BY <2>1, <2>2, <2>3 DEF ServeInv
  <2>4. CASE LookupFails(h)
    <3>1. stage'[h] = "failed" /\ found'[h] \in Errors
      BY <1>1, <2>4 DEF LookupFails, Fail, Refuse, GiveUp, RInv, IInv, TypeOK, Errors
    <3> QED BY <2>3, <3>1
  <2>5. CASE Query(h) /\ found' = [found EXCEPT ![h] = QueryFinding(h)]
    <3>1. CASE Refuse(h)
      <4>1. stage'[h] = "failed"
        BY <1>1, <3>1 DEF Refuse, GiveUp, RInv, IInv, TypeOK
      <4>2. found'[h] \in Errors
        BY <1>1, <2>5, <4>1 DEF QueryFinding, Errors
      <4> QED BY <2>3, <4>1, <4>2
    <3>2. CASE ~Refuse(h)
      <4>1. PICK p \in Paths : job' = [job EXCEPT ![h].path = p]
        BY <2>5, <3>2 DEF Query
      <4>2. stage'[h] = "load" /\ stage[h] = "query"
        BY <1>1, <2>5, <3>2 DEF Query, RInv, IInv, TypeOK
      <4>3. found'[h] = "none"
        BY <1>1, <2>5, <4>2 DEF QueryFinding
      <4>4. job'[h].op = job[h].op /\ job'[h].id = job[h].id
        BY <1>1, <4>1 DEF RInv, IInv, TypeOK, JobType
      <4> QED BY <1>1, <2>1, <2>2, <4>2, <4>3, <4>4 DEF ServeInv
    <3> QED BY <3>1, <3>2
  <2>6. CASE Load(h) /\ found' = [found EXCEPT ![h] = LoadFinding(h)]
    <3>1. /\ stage[h] = "load" /\ job' = job
          /\ stage'[h] = IF IdsIn(avus[job[h].path]) = {} THEN "nil" ELSE "done"
      BY <1>1, <2>6 DEF Load, RInv, IInv, TypeOK
    <3>2. /\ stage'[h] = "nil" => found'[h] = "nil"
          /\ stage'[h] = "done" => found'[h] \in Objects
      BY <1>1, <2>6, <3>1 DEF LoadFinding, Objects
    <3> QED BY <1>1, <2>1, <2>2, <3>1, <3>2 DEF ServeInv
  <2> QED BY <1>4, <2>4, <2>5, <2>6 DEF Lookup
<1>5. CASE CallCommand(h)
  <2>1. /\ http[h] = "look" /\ http'[h] = "write" /\ found[h] \in Objects
        /\ ask[h].kind \in {"drsupdate", "drsrm"}
        /\ ask' = ask /\ todo' = todo /\ answer' = answer
        /\ Begin(h, [ask[h].job EXCEPT !.path = job[h].path])
    BY <1>1, <1>5 DEF CallCommand, Looked, GoOn
  <2>2. AskInv(h)' /\ AnswerInv(h)'
    BY <1>1, <2>1 DEF AskInv, AnswerInv, AnswerTyped, Running, Begin
  <2>3. stage[h] = "done" /\ job[h].op = "getById" /\ job[h].id = Head(todo[h])
    BY <1>1, <2>1 DEF ServeInv, Objects, Errors, CallErrors
  <2>4. owner[Head(todo[h])] = job[h].path
    BY <1>1, <2>3 DEF RInv, ReadInv, ReadOwn
  <2>5. /\ job'[h].path = job[h].path /\ job'[h].op = ask[h].job.op
        /\ job'[h].op \notin Readers /\ stage'[h] = FirstStage(job'[h].op)
        /\ owner' = owner
    <3>1. ask[h].job \in JobType /\ ask[h].job.op \notin Readers
      BY <1>1, <2>1 DEF AskInv, Running
    <3>2. job'[h] = [ask[h].job EXCEPT !.path = job[h].path]
      BY <1>1, <2>1 DEF Begin, RInv, IInv, TypeOK
    <3>3. job'[h].path = job[h].path /\ job'[h].op = ask[h].job.op
      BY <3>1, <3>2 DEF JobType
    <3> QED BY <1>1, <2>1, <3>1, <3>2, <3>3 DEF Begin, RInv, IInv, TypeOK
  <2> QED BY <2>1, <2>2, <2>4, <2>5 DEF ServeInv, FirstStage
<1>6. CASE GoOnStep(h)
  <2>1. /\ http[h] = "look" /\ found[h] \in Objects /\ UNCHANGED vars
        /\ ask' = ask /\ todo' = todo /\ answer' = answer
        /\ \/ http'[h] = "ticket" /\ ask[h].kind = "access"
           \/ http'[h] = "build" /\ ask[h].kind \in {"compound", "drsinfo"}
    BY <1>1, <1>6 DEF GoOnStep, GoOn
  <2>2. AskInv(h)' /\ AnswerInv(h)'
    BY <1>1, <2>1 DEF AskInv, AnswerInv, AnswerTyped, Running, vars, history
  <2>3. stage[h] = "done"
    BY <1>1, <2>1 DEF ServeInv, Objects, Errors, CallErrors
  <2> QED BY <1>1, <2>1, <2>2, <2>3 DEF ServeInv, vars, client
<1>7. CASE EndStep(h)
  <2>1. PICK a : Ends(h, a)
    BY <1>7, EndSteps
  <2>2. PICK where \in {"answered", "panicked"}, failed \in BOOLEAN :
           Leave(h, where, failed)
    BY <2>1 DEF Ends
  <2>3. /\ http'[h] \in {"answered", "panicked"} /\ stage'[h] = "idle"
        /\ ask' = ask /\ owner' = owner
    BY <1>1, <2>2 DEF Leave, GoOn, RInv, IInv, TypeOK
  <2>4. answer'[h] = a /\ AnswerTyped(a)
    BY <1>1, <2>1 DEF Ends
  <2>5. AskInv(h)' /\ ServeInv(h)'
    BY <2>3 DEF AskInv, ServeInv, Running, Active
  <2>6. a.ticket # None => /\ http'[h] = "answered" /\ ask[h].ids[1] \in Ids
                           /\ owner[ask[h].ids[1]] = a.ticket
    <3> SUFFICES ASSUME a.ticket # None
                 PROVE  /\ http'[h] = "answered" /\ ask[h].ids[1] \in Ids
                        /\ owner[ask[h].ids[1]] = a.ticket
      OBVIOUS
    <3>1. http[h] = "ticket" /\ a.ticket = job[h].path
      BY <2>1 DEF Ends
    <3>2. stage[h] = "done" /\ job[h].op = "getById" /\ job[h].id = Head(todo[h])
      BY <1>1, <3>1 DEF ServeInv
    <3>3. owner[Head(todo[h])] = job[h].path
      BY <1>1, <3>2 DEF RInv, ReadInv, ReadOwn
    <3>4. Head(todo[h]) \in Ids /\ ask[h].ids[1] = Head(todo[h])
      BY <1>1, <3>1 DEF ServeInv, AskInv, Running
    <3>5. http'[h] = "answered"
      BY <1>1, <1>7, <3>1 DEF EndStep, ConnectFails, TicketFails, AnswerError, Panic,
         AnswerObject, AnswerAccess, MakeTicket, AnswerCompound, BuildManifest,
         AnswerOptions, BulkError, AnswerBulk, CommandDone, Looked, AnswerURL,
         AnswerFailure, Leave, GoOn
    <3> QED BY <3>1, <3>3, <3>4, <3>5
  <2> QED BY <2>3, <2>4, <2>5, <2>6 DEF AnswerInv
<1> QED
  BY <1>2, <1>3, <1>4, <1>5, <1>6, <1>7, ArriveInv, RequestSteps

----------------------------------------------------------------------------
(* The inductive invariant.                                                *)

\* No answer is an answer.
LEMMA NoAnswerTyped == AnswerTyped(NoAnswer) /\ NoAnswer.ticket = None
<1>1. <<>> \in Seq(Ids) /\ 0 \in Statuses
  BY DEF Statuses
<1>2. \A url, ticket :
         AnswerTyped([status |-> 0, resolved |-> <<>>, missing |-> <<>>, url |-> url,
                      ticket |-> ticket])
  BY <1>1 DEF AnswerTyped
<1> QED BY <1>2 DEF NoAnswer

LEMMA InitRInv == RInit => RInv
<1> SUFFICES ASSUME RInit PROVE RInv
  OBVIOUS
<1> USE DEF RInit
<1>1. IInv
  BY InitIInv
<1>2. ReadInv
  BY DEF Init, ReadInv, ReadOwn
<1>3. RequestsTyped
  BY DEF RequestsTyped, HttpStages, Findings
<1>4. OfferInv
  BY DEF OfferInv, NoOffer
<1>5. HandlerInv
  <2> SUFFICES ASSUME NEW h \in Handlers
               PROVE  AnswerInv(h) /\ AskInv(h) /\ ServeInv(h)
    BY DEF HandlerInv
  <2>1. answer[h] = NoAnswer
    OBVIOUS
  <2>2. AnswerInv(h)
    BY <2>1, NoAnswerTyped DEF AnswerInv
  <2>3. http[h] = "idle" /\ stage[h] = "idle"
    BY HandlersAsk DEF Init
  <2>4. AskInv(h) /\ ServeInv(h)
    BY <2>3 DEF AskInv, ServeInv, Running, Active
  <2> QED BY <2>2, <2>4
<1> QED BY <1>1, <1>2, <1>3, <1>4, <1>5 DEF RInv

\* The steps of the requests preserve it,
LEMMA RequestRInv ==
    ASSUME RInv, NEW h \in Handlers, RequestStep(h)
    PROVE  RInv'
<1>1. h \in Clients
  BY HandlersAsk
<1>2. IInv' /\ ReadInv' /\ OwnersKept
  <2>1. CASE UNCHANGED vars
    <3>1. /\ UNCHANGED <<avus, stage, job, dels, adds, seen>>
          /\ UNCHANGED <<owner, minted, published, before, alone>>
      BY <2>1 DEF vars, catalog, client, history
    <3>2. [Next]_vars
      BY <2>1
    <3> QED BY <3>1, <3>2, NextIInv, NextRead DEF RInv, OwnersKept
  <2>2. CASE Moves(h)
    BY <1>1, <2>2, MovesIInv, MovesApart DEF RInv, OwnersKept
  <2> QED BY <2>1, <2>2, RequestMoves
<1>3. RequestsTyped'
  BY RequestTypes
<1>4. HandlerInv'
  <2> SUFFICES ASSUME NEW g \in Handlers
               PROVE  AnswerInv(g)' /\ AskInv(g)' /\ ServeInv(g)'
    BY DEF HandlerInv
  <2>1. CASE g = h
    BY <2>1, RequestInv
  <2>2. CASE g # h
    BY <1>2, <2>2, OthersServed, UndisturbedInv
  <2> QED BY <2>1, <2>2
<1>5. OfferInv'
  <2> SUFFICES ASSUME NEW g \in Handlers
               PROVE  offer'[g].id \in Ids \cup {None}
    BY DEF OfferInv
  <2>1. offer[g].id \in Ids \cup {None}
    BY DEF RInv, OfferInv
  <2>2. CASE g # h
    BY <2>1, <2>2, OthersServed
  <2>3. CASE g = h /\ EndStep(h)
    BY <2>3, EndSteps DEF Ends
  <2>4. CASE g = h /\ ~EndStep(h)
    BY <2>1, <2>4, RequestSteps DEF Arrive, Connect, Lookup, LookupFails, BulkNext,
       CallCommand, GoOnStep
  <2> QED BY <2>2, <2>3, <2>4
<1> QED BY <1>2, <1>3, <1>4, <1>5 DEF RInv

\* and so do the steps of the operations.
LEMMA OperationRInv ==
    ASSUME RInv, NEW c \in Clients, Start(c) \/ Step(c) \/ Fail(c) \/ FailAfterWrite(c),
           UNCHANGED <<cfg, serving, offer, erred>>,
           c \in Handlers => http[c] = "write" /\ (Step(c) \/ Fail(c) \/ FailAfterWrite(c))
    PROVE  RInv'
<1>1. Moves(c)
  BY DEF Moves
<1>2. IInv' /\ ReadInv' /\ OwnersKept
  BY <1>1, MovesIInv, MovesApart DEF RInv, OwnersKept
<1>3. RequestsTyped' /\ OfferInv'
  BY DEF RInv, RequestsTyped, OfferInv, serving
<1>4. HandlerInv'
  <2> SUFFICES ASSUME NEW g \in Handlers
               PROVE  AnswerInv(g)' /\ AskInv(g)' /\ ServeInv(g)'
    BY DEF HandlerInv
  <2>1. CASE g = c
    BY <1>2, <2>1, OperateInv
  <2>2. CASE g # c
    BY <1>1, <1>2, <2>2, OthersUndisturbed, UndisturbedInv
  <2> QED BY <2>1, <2>2
<1> QED BY <1>2, <1>3, <1>4 DEF RInv

\* So does a step that changes nothing,
LEMMA StutterRInv ==
    ASSUME RInv, UNCHANGED rvars
    PROVE  RInv'
<1> USE DEF rvars, vars, catalog, client, history, serving, observed
<1>1. IInv' /\ ReadInv'
  <2>1. [Next]_vars
    OBVIOUS
  <2> QED BY <2>1, NextIInv, NextRead DEF RInv
<1>2. RequestsTyped' /\ OfferInv'
  BY DEF RInv, RequestsTyped, OfferInv
<1>3. HandlerInv'
  BY DEF RInv, HandlerInv, AnswerInv, AnswerTyped, AskInv, ServeInv
<1> QED BY <1>1, <1>2, <1>3 DEF RInv

\* and with them every step.
LEMMA NextRInv == RInv /\ [RNext]_rvars => RInv'
<1> SUFFICES ASSUME RInv, [RNext]_rvars PROVE RInv'
  OBVIOUS
<1>1. CASE \E h \in Handlers : RequestStep(h)
  BY <1>1, RequestRInv
<1>2. CASE \E c \in Clients : Operate(c) \/ OperationFails(c)
  <2>1. PICK c \in Clients : Operate(c) \/ OperationFails(c)
    BY <1>2
  <2>2. /\ Step(c) \/ Fail(c) \/ FailAfterWrite(c)
        /\ UNCHANGED <<cfg, serving, offer, erred>>
        /\ c \in Handlers => http[c] = "write"
    BY <2>1 DEF Operate, OperationFails
  <2> QED BY <2>2, OperationRInv
<1>3. CASE \E c \in Clients \ Handlers :
              Start(c) /\ UNCHANGED <<cfg, serving, offer, erred>>
  BY <1>3, OperationRInv
<1>4. CASE UNCHANGED rvars
  BY <1>4, StutterRInv
<1> QED BY <1>1, <1>2, <1>3, <1>4 DEF RNext, RequestStep

THEOREM RequestInvariance == RSpec => []RInv
<1>1. RInit => RInv
  BY InitRInv
<1>2. RInv /\ [RNext]_rvars => RInv'
  BY NextRInv
<1> QED BY <1>1, <1>2, PTL DEF RSpec

\* The variables of the requests have their types, in particular every answer
\* has a status of the API, and only ids are left to look up.
THEOREM RequestsTypeCorrect == RSpec => []ApiTypeOK
<1>1. RInv => ApiTypeOK
  <2> SUFFICES ASSUME RInv PROVE ApiTypeOK
    OBVIOUS
  <2>1. ASSUME NEW h \in Handlers
        PROVE  /\ todo[h] \in Seq(Ids)
               /\ answer[h].status \in Statuses
               /\ answer[h].resolved \in Seq(Ids) /\ answer[h].missing \in Seq(Ids)
    <3>1. AnswerTyped(answer[h])
      BY DEF RInv, HandlerInv, AnswerInv
    <3> QED BY <3>1 DEF AnswerTyped, RInv, RequestsTyped
  <2> QED BY <2>1 DEF ApiTypeOK, RInv, RequestsTyped, IInv, TypeOK
<1> QED BY <1>1, RequestInvariance, PTL

\* What a request does to a path, by a ticket, an update or a removal, it does to
\* the path that its id was generated for.
THEOREM RequestsWorkOnOwner == RSpec => []WorksOnOwner
<1>1. RInv => WorksOnOwner
  <2> SUFFICES ASSUME RInv, NEW h \in Handlers
               PROVE  /\ http[h] = "answered" /\ answer[h].ticket # None =>
                            owner[ask[h].ids[1]] = answer[h].ticket
                      /\ http[h] = "write" /\ stage[h] \in Active =>
                            owner[ask[h].ids[1]] = job[h].path
    BY DEF WorksOnOwner
  <2>1. AnswerInv(h) /\ AskInv(h) /\ ServeInv(h)
    BY DEF RInv, HandlerInv
  <2>2. http[h] = "write" => ask[h].ids[1] = Head(todo[h])
    BY <2>1 DEF AskInv, ServeInv, Running
  <2> QED BY <2>1, <2>2 DEF AnswerInv, ServeInv
<1> QED BY <1>1, RequestInvariance, PTL

----------------------------------------------------------------------------
(* Counting ids.                                                           *)

LEMMA TimesPlaces ==
    ASSUME NEW x, NEW s
    PROVE  Times(x, s) = Cardinality(Places(x, s))
BY DEF Times, Places

\* The places of a value in a list are finitely many.
LEMMA TimesType ==
    ASSUME NEW T, NEW s \in Seq(T), NEW x
    PROVE  IsFiniteSet(Places(x, s)) /\ Times(x, s) \in Nat
<1>1. Len(s) \in Nat /\ Places(x, s) \in SUBSET (1..Len(s))
  BY DEF Places
<1>2. IsFiniteSet(1..Len(s))
  BY <1>1, FS_Interval
<1>3. IsFiniteSet(Places(x, s))
  BY <1>1, <1>2, FS_Subset
<1> QED BY <1>3, TimesPlaces, FS_CardinalityType

\* An id that is added counts once,
LEMMA TimesAppend ==
    ASSUME NEW T, NEW s \in Seq(T), NEW x \in T, NEW y
    PROVE  Times(y, Append(s, x)) = Times(y, s) + (IF y = x THEN 1 ELSE 0)
BY PlacesAppend, TimesPlaces

\* and so does the one at the head of a list.
LEMMA TimesTail ==
    ASSUME NEW T, NEW s \in Seq(T), s # <<>>, NEW x
    PROVE  Times(x, s) = Times(x, Tail(s)) + (IF x = Head(s) THEN 1 ELSE 0)
<1> DEFINE rest == Places(x, Tail(s))
           after == {i \in DOMAIN s : i # 1 /\ s[i] = x}
           f == [i \in rest |-> i + 1]
<1>1. /\ Len(s) \in Nat \ {0} /\ DOMAIN s = 1..Len(s) /\ Head(s) = s[1]
      /\ Tail(s) \in Seq(T) /\ DOMAIN Tail(s) = 1..(Len(s) - 1)
      /\ \A i \in 1..(Len(s) - 1) : Tail(s)[i] = s[i + 1]
  BY HeadTailProperties
<1>2. rest = {i \in 1..(Len(s) - 1) : s[i + 1] = x}
  BY <1>1 DEF Places
<1>3. after = {i \in 2..Len(s) : s[i] = x}
  BY <1>1
<1>4. f \in Bijection(rest, after)
  <2>1. f \in [rest -> after]
    BY <1>1, <1>2, <1>3
  <2>2. \A i, j \in rest : f[i] = f[j] => i = j
    BY <1>2
  <2>3. \A k \in after : k - 1 \in rest /\ f[k - 1] = k
    BY <1>1, <1>2, <1>3
  <2> HIDE DEF f, rest, after
  <2>4. f \in Injection(rest, after)
    BY <2>1, <2>2 DEF Injection, IsInjective
  <2>5. \A k \in after : \E i \in rest : f[i] = k
    BY <2>3
  <2>6. f \in Surjection(rest, after)
    BY <2>1, <2>5 DEF Surjection
  <2> QED BY <2>4, <2>6 DEF Bijection
<1>5. IsFiniteSet(rest) /\ Cardinality(rest) \in Nat
  BY <1>1, TimesType, TimesPlaces
<1> HIDE DEF f, rest
<1>6. IsFiniteSet(after) /\ Cardinality(after) = Cardinality(rest)
  BY <1>4, <1>5, FS_Bijection DEF ExistsBijection
<1>7. CASE x = Head(s)
  <2>1. Places(x, s) = after \cup {1} /\ 1 \notin after
    BY <1>1, <1>7 DEF Places
  <2> HIDE DEF after
  <2>2. Cardinality(Places(x, s)) = Cardinality(after) + 1
    BY <1>6, <2>1, FS_AddElement
  <2> QED BY <1>5, <1>6, <1>7, <2>2, TimesPlaces DEF rest
<1>8. CASE x # Head(s)
  <2>1. Places(x, s) = after
    BY <1>1, <1>8 DEF Places
  <2>2. Times(x, s) = Cardinality(rest) /\ Times(x, Tail(s)) = Cardinality(rest)
    BY <1>6, <2>1, TimesPlaces DEF rest
  <2> QED BY <1>5, <1>8, <2>2
<1> QED BY <1>7, <1>8

----------------------------------------------------------------------------
(* What a request remembers of the catalog.                                *)

\* A request that goes on has seen the catalog as a step leaves it.
Remembers(h) ==
    http'[h] \in Running =>
        /\ had'[h] = had[h] \cup RegisteredIn(avus')
        /\ lacked'[h] = lacked[h] \cup (Ids \ RegisteredIn(avus'))

LEMMA ObserveRemembers ==
    ASSUME Observe, NEW h \in Handlers
    PROVE  Remembers(h)
BY DEF Observe, Remembers

\* What an undisturbed request knows stays so.
LEMMA UndisturbedHistory ==
    ASSUME NEW h, SawInv(h), CountInv(h), Undisturbed(h), Remembers(h)
    PROVE  SawInv(h)' /\ CountInv(h)'
<1>1. http'[h] \in Running => had[h] \subseteq had'[h] /\ lacked[h] \subseteq lacked'[h]
  BY DEF Remembers
<1>2. SawInv(h)'
  BY <1>1 DEF SawInv, Undisturbed, Running
<1>3. CountInv(h)'
  BY <1>1 DEF CountInv, Undisturbed
<1> QED BY <1>2, <1>3

\* Sorting an id counts it where it belongs, and takes it from those left.
LEMMA SortedCounts ==
    ASSUME RInv, NEW h \in Handlers, SawInv(h), CountInv(h),
           Looked(h, {"bulk"}, BulkIds), NEW id \in Ids
    PROVE  /\ Times(id, Sorted(h).resolved) + Times(id, Sorted(h).missing)
                + Times(id, Tail(todo[h])) = Times(id, ask[h].ids)
           /\ Times(id, Sorted(h).resolved) > 0 => id \in had[h]
           /\ Times(id, Sorted(h).missing) > 0 => id \in lacked[h] \/ erred[h]
<1> DEFINE r == answer[h].resolved
           m == answer[h].missing
           x == Head(todo[h])
<1>1. /\ http[h] = "look" /\ found[h] \in BulkIds /\ http[h] \in Running
      /\ ServeInv(h) /\ AnswerTyped(answer[h]) /\ r \in Seq(Ids) /\ m \in Seq(Ids)
  BY DEF Looked, Running, RInv, HandlerInv, AnswerInv, AnswerTyped
<1>2. todo[h] \in Seq(Ids) /\ todo[h] # <<>> /\ x \in Ids
  BY <1>1, HeadOfTodo
<1>3. /\ Times(id, r) + Times(id, m) + Times(id, todo[h]) = Times(id, ask[h].ids)
      /\ Times(id, r) > 0 => id \in had[h]
      /\ Times(id, m) > 0 => id \in lacked[h] \/ erred[h]
  BY <1>1 DEF CountInv
<1>4. /\ Times(id, r) \in Nat /\ Times(id, m) \in Nat /\ Times(id, Tail(todo[h])) \in Nat
      /\ Times(id, todo[h]) = Times(id, Tail(todo[h])) + (IF id = x THEN 1 ELSE 0)
      /\ Times(id, Append(r, x)) = Times(id, r) + (IF id = x THEN 1 ELSE 0)
      /\ Times(id, Append(m, x)) = Times(id, m) + (IF id = x THEN 1 ELSE 0)
  <2>1. Tail(todo[h]) \in Seq(Ids)
    BY <1>2, HeadTailProperties
  <2> QED BY <1>1, <1>2, <2>1, TimesType, TimesAppend, TimesTail, ZenonT(60)
<1>5. CASE found[h] \in Objects \cup {"nil"}
  <2>1. Sorted(h).resolved = Append(r, x) /\ Sorted(h).missing = m
    BY <1>1, <1>5 DEF Sorted, AnswerTyped
  <2>2. x \in had[h]
    BY <1>1, <1>5 DEF ServeInv, SawInv, Objects, Errors, CallErrors
  <2> HIDE DEF r, m, x
  <2> QED BY <1>3, <1>4, <2>1, <2>2
<1>6. CASE found[h] \in {"absent", "missing"}
  <2>1. Sorted(h).resolved = r /\ Sorted(h).missing = Append(m, x)
    BY <1>1, <1>6 DEF Sorted, AnswerTyped, Objects
  <2>2. x \in lacked[h] \/ erred[h]
    BY <1>1, <1>6 DEF SawInv, CallErrors
  <2> HIDE DEF r, m, x
  <2> QED BY <1>3, <1>4, <2>1, <2>2
<1> QED BY <1>1, <1>5, <1>6 DEF BulkIds

\* What a request makes of its lookup, it has seen.
LEMMA LookupSaw ==
    ASSUME RInv, NEW h \in Handlers, SawInv(h), Lookup(h), Remembers(h)
    PROVE  SawInv(h)'
<1>1. /\ h \in Clients /\ RequestsTyped /\ ServeInv(h) /\ http[h] = "look"
      /\ http' = http /\ todo' = todo /\ http[h] \in Running
      /\ had'[h] = had[h] \cup RegisteredIn(avus')
      /\ lacked'[h] = lacked[h] \cup (Ids \ RegisteredIn(avus'))
  BY HandlersAsk DEF RInv, HandlerInv, Lookup, Running, Remembers
<1>2. Head(todo[h]) \in Ids
  BY <1>1, HeadOfTodo
<1>3. CASE Query(h) /\ found' = [found EXCEPT ![h] = QueryFinding(h)]
  <2> DEFINE matches == {p \in Paths : job[h].id \in IdsIn(avus[p])}
  <2>1. /\ stage[h] = "query" /\ job[h].id = Head(todo[h]) /\ found'[h] = QueryFinding(h)
        /\ found'[h] \notin CallErrors /\ avus' = avus
    BY <1>1, <1>3 DEF Query, ServeInv, QueryFinding, CallErrors, RequestsTyped, Refuse
  <2>2. CASE stage'[h] = "load"
    <3>1. matches # {} /\ found'[h] = "none"
      BY <1>1, <1>3, <2>1, <2>2 DEF Query, Refuse, GiveUp, QueryFinding, RInv, IInv, TypeOK
    <3>2. Head(todo[h]) \in RegisteredIn(avus')
      BY <2>1, <3>1 DEF RegisteredIn
    <3> QED BY <1>1, <2>1, <3>1, <3>2 DEF SawInv
  <2>3. CASE stage'[h] # "load"
    <3>1. stage'[h] = "failed"
      BY <1>1, <1>3, <2>3 DEF Query, Refuse, GiveUp, RInv, IInv, TypeOK
    <3>2. found'[h] = "absent" => Head(todo[h]) \notin RegisteredIn(avus')
      BY <2>1, <2>3 DEF QueryFinding, RegisteredIn
    <3> QED BY <1>1, <1>2, <2>1, <3>1, <3>2 DEF SawInv
  <2> QED BY <2>2, <2>3
<1>4. CASE Load(h) /\ found' = [found EXCEPT ![h] = LoadFinding(h)]
  <2>1. stage[h] = "load" /\ found'[h] \in {"nil", "manifest", "object"}
    BY <1>1, <1>4 DEF Load, LoadFinding, RequestsTyped
  <2>2. Head(todo[h]) \in had[h]
    BY <1>1, <2>1 DEF SawInv
  <2> QED BY <1>1, <2>1, <2>2 DEF SawInv, CallErrors
<1> QED BY <1>3, <1>4 DEF Lookup

\* What the history says of a request is so after each of its steps.
LEMMA RequestHistory ==
    ASSUME RInv, NEW h \in Handlers, SawInv(h), CountInv(h), RequestStep(h), Remembers(h)
    PROVE  SawInv(h)' /\ CountInv(h)'
<1> USE DEF RequestsTyped
<1>1. /\ RequestsTyped /\ AskInv(h) /\ ServeInv(h) /\ h \in Clients
      /\ http'[h] \in Running => had[h] \subseteq had'[h] /\ lacked[h] \subseteq lacked'[h]
  BY HandlersAsk DEF RInv, HandlerInv, Remembers
<1>2. ASSUME http[h] \in Running, ask'[h] = ask[h], todo'[h] = todo[h],
             answer'[h] = answer[h], erred[h] => erred'[h]
      PROVE  CountInv(h)'
  BY <1>1, <1>2 DEF CountInv
<1>3. CASE Arrive(h)
  <2>1. PICK a \in NextAsks(h) :
           /\ ask' = [ask EXCEPT ![h] = a]
           /\ todo' = [todo EXCEPT ![h] = normalizedBulkObjectIDs(a.ids)]
           /\ GoOn(h, IF Refusal(a) = 0 THEN "connect" ELSE "answered")
           /\ answer' = [answer EXCEPT ![h] = [NoAnswer EXCEPT !.status = Refusal(a)]]
    BY <1>3 DEF Arrive
  <2>2. /\ ask'[h] = a /\ todo'[h] = normalizedBulkObjectIDs(a.ids)
        /\ http'[h] \in {"connect", "answered"}
        /\ answer'[h].resolved = <<>> /\ answer'[h].missing = <<>>
    BY <1>1, <2>1 DEF GoOn, NoAnswer
  <2>3. a.ids \in Seq(Ids \cup {None})
    BY AsksTyped DEF RInv, AskTyped
  <2>4. ASSUME NEW id \in Ids
        PROVE  /\ Times(id, normalizedBulkObjectIDs(a.ids)) = Times(id, a.ids)
               /\ Times(id, a.ids) \in Nat /\ Times(id, <<>>) = 0
    <3>1. Places(id, <<>>) = {}
      BY DEF Places
    <3> QED BY <2>3, <3>1, NormalizedIds, TimesType, TimesPlaces, FS_EmptySet
  <2>5. CountInv(h)'
    BY <2>2, <2>4 DEF CountInv
  <2> QED BY <2>2, <2>5 DEF SawInv
<1>4. CASE Connect(h)
  <2>1. /\ http[h] = "connect" /\ http'[h] = "look" /\ stage'[h] = "query"
        /\ found'[h] = "none"
        /\ ask' = ask /\ todo' = todo /\ answer' = answer /\ erred' = erred
    <3>1. [NoJob(h) EXCEPT !.op = "getById", !.id = Head(todo[h])].op = "getById"
      BY <1>1, NoJobType DEF JobType
    <3> QED BY <1>1, <1>4, <3>1 DEF Connect, LookUp, Begin, GoOn, FirstStage, Readers,
               RInv, IInv, TypeOK
  <2> QED BY <1>2, <2>1 DEF SawInv, Running, CallErrors
<1>5. CASE Lookup(h)
  <2>1. /\ http[h] \in Running /\ ask'[h] = ask[h] /\ todo'[h] = todo[h]
        /\ answer'[h] = answer[h]
        /\ erred[h] => erred'[h]
    BY <1>5 DEF Lookup, Running
  <2> QED BY <1>2, <1>5, <2>1, LookupSaw
<1>6. CASE LookupFails(h)
  <2>1. /\ http[h] = "look" /\ http'[h] = "look" /\ ask'[h] = ask[h]
        /\ todo'[h] = todo[h] /\ answer'[h] = answer[h] /\ erred'[h]
        /\ stage'[h] = "failed" /\ found'[h] \in CallErrors
    BY <1>1, <1>6 DEF LookupFails, Fail, Refuse, GiveUp, RInv, IInv, TypeOK
  <2> QED BY <1>2, <2>1 DEF SawInv, Running, CallErrors
<1>7. CASE BulkNext(h)
  <2>1. /\ Looked(h, {"bulk"}, BulkIds) /\ http'[h] = "look" /\ stage'[h] = "query"
        /\ found'[h] = "none" /\ ask'[h] = ask[h] /\ erred'[h] = erred[h]
        /\ answer'[h] = Sorted(h) /\ todo'[h] = Tail(todo[h])
    <3>1. [NoJob(h) EXCEPT !.op = "getById", !.id = todo[h][2]].op = "getById"
      BY <1>1, NoJobType DEF JobType
    <3> QED BY <1>1, <1>7, <3>1 DEF BulkNext, Looked, LookUp, Begin, FirstStage, Readers,
               RInv, IInv, TypeOK
  <2>2. CountInv(h)'
    BY <1>1, <2>1, SortedCounts DEF CountInv, Running
  <2> QED BY <2>1, <2>2 DEF SawInv, CallErrors
<1>8. CASE CallCommand(h) \/ GoOnStep(h)
  <2>1. /\ http[h] = "look" /\ found[h] \in Objects
        /\ http'[h] \in {"ticket", "build", "write"} /\ ask'[h] = ask[h]
        /\ todo'[h] = todo[h] /\ answer'[h] = answer[h] /\ erred'[h] = erred[h]
    BY <1>1, <1>8 DEF CallCommand, GoOnStep, GoOn, Looked
  <2>2. Head(todo[h]) \in had[h]
    BY <1>1, <2>1 DEF ServeInv, SawInv, Objects, Errors, CallErrors
  <2>3. SawInv(h)'
    BY <1>1, <2>1, <2>2 DEF SawInv, Running
  <2> QED BY <1>2, <2>1, <2>3 DEF Running
<1>9. CASE EndStep(h)
  <2>1. PICK a : Ends(h, a)
    BY <1>9, EndSteps
  <2>2. http'[h] \in {"answered", "panicked"}
    BY <1>1, <2>1 DEF Ends, Leave, GoOn
  <2> QED BY <2>2 DEF SawInv, CountInv, Running
<1> QED
  BY <1>3, <1>4, <1>5, <1>6, <1>7, <1>8, <1>9, RequestSteps

LEMMA InitHistory == RInit => HistoryInv
<1> SUFFICES ASSUME RInit, NEW h \in Handlers PROVE SawInv(h) /\ CountInv(h)
  BY DEF HistoryInv
<1>1. http[h] = "idle"
  BY DEF RInit
<1> QED BY <1>1 DEF SawInv, CountInv, Running

LEMMA NextHistory == RInv /\ HistoryInv /\ [RNext]_rvars => HistoryInv'
<1> SUFFICES ASSUME RInv, HistoryInv, [RNext]_rvars, NEW h \in Handlers
             PROVE  SawInv(h)' /\ CountInv(h)'
  BY DEF HistoryInv
<1>1. SawInv(h) /\ CountInv(h)
  BY DEF HistoryInv
<1>2. CASE UNCHANGED rvars
  BY <1>1, <1>2 DEF rvars, vars, client, serving, observed, SawInv, CountInv
<1>3. CASE RNext
  <2>1. Remembers(h)
    BY <1>3, ObserveRemembers DEF RNext
  <2>2. CASE \E g \in Handlers : RequestStep(g)
    <3>1. PICK g \in Handlers : RequestStep(g)
      BY <2>2
    <3>2. CASE g = h
      BY <1>1, <2>1, <3>1, <3>2, RequestHistory
    <3>3. CASE g # h
      BY <1>1, <2>1, <3>1, <3>3, OthersServed, UndisturbedHistory
    <3> QED BY <3>2, <3>3
  <2>3. CASE \E c \in Clients :
                /\ Start(c) \/ Step(c) \/ Fail(c) \/ FailAfterWrite(c)
                /\ UNCHANGED <<cfg, serving, offer, erred>>
                /\ c \in Handlers => http[c] = "write"
    <3>1. PICK c \in Clients :
                /\ Start(c) \/ Step(c) \/ Fail(c) \/ FailAfterWrite(c)
                /\ UNCHANGED <<cfg, serving, offer, erred>>
                /\ c \in Handlers => http[c] = "write"
      BY <2>3
    <3>2. CASE c # h
      BY <1>1, <2>1, <3>1, <3>2, OthersUndisturbed, UndisturbedHistory DEF Moves
    <3>3. CASE c = h
      <4>1. /\ http[h] = "write" /\ http'[h] = http[h] /\ todo'[h] = todo[h]
            /\ ask'[h] = ask[h] /\ answer'[h] = answer[h] /\ erred'[h] = erred[h]
        BY <3>1, <3>3 DEF serving
      <4>2. had[h] \subseteq had'[h] /\ lacked[h] \subseteq lacked'[h]
        BY <2>1, <4>1 DEF Remembers, Running
      <4> QED BY <1>1, <4>1, <4>2 DEF SawInv, CountInv
    <3> QED BY <3>2, <3>3
  <2> QED BY <1>3, <2>2, <2>3 DEF RNext, RequestStep, Operate, OperationFails
<1> QED BY <1>2, <1>3

----------------------------------------------------------------------------
(* What an answer says.                                                    *)

\* A request under way is answered by one of the steps that end it.
LEMMA AnsweredByEnd ==
    ASSUME RInv, RNext, NEW h \in Handlers, Answers(h)
    PROVE  EndStep(h)
<1>1. http[h] \in Running /\ http'[h] = "answered" /\ RequestsTyped
  BY DEF Answers, RInv
<1>2. http'[h] # http[h]
  BY <1>1 DEF Running
<1>3. PICK g \in Handlers : RequestStep(g)
  BY <1>2 DEF RNext, RequestStep, Operate, OperationFails, serving
<1>4. g = h
  BY <1>2, <1>3, OthersServed DEF Undisturbed
<1>5. ~(Arrive(h) \/ Connect(h) \/ Lookup(h) \/ LookupFails(h) \/ BulkNext(h)
        \/ CallCommand(h) \/ GoOnStep(h))
  BY <1>1, <1>2 DEF Arrive, Connect, Lookup, LookupFails, BulkNext, CallCommand,
     GoOnStep, GoOn, RequestsTyped, Running
<1> QED BY <1>3, <1>4, <1>5, RequestSteps

\* An answer has the status it is given.
LEMMA StatusGiven ==
    ASSUME RInv, NEW h \in Handlers, NEW status,
           Answer(h, status) \/ AnswerFailure(h, status)
    PROVE  answer'[h].status = status
<1>1. AnswerTyped(answer[h]) /\ answer = [g \in Handlers |-> answer[g]]
  BY DEF RInv, RequestsTyped, HandlerInv, AnswerInv
<1>2. answer'[h] = [answer[h] EXCEPT !.status = status]
  BY <1>1 DEF Answer, AnswerFailure
<1> QED BY <1>1, <1>2 DEF AnswerTyped

\* A positive answer for one id comes after its lookup found it.
LEMMA PositiveSaw ==
    ASSUME RInv, NEW h \in Handlers, SawInv(h), EndStep(h), http'[h] = "answered",
           ask[h].kind # "bulk", answer'[h].status = 200
    PROVE  Head(todo[h]) \in had[h]
<1>1. ServeInv(h) /\ RequestsTyped
  BY DEF RInv, HandlerInv
<1>2. CASE http[h] \in {"ticket", "build", "write"}
  BY <1>2 DEF SawInv
<1>3. CASE http[h] = "look" /\ found[h] \in Objects \cup {"nil"}
  BY <1>1, <1>3 DEF ServeInv, SawInv, Objects, Errors, CallErrors
<1>4. ~ConnectFails(h)
  BY StatusGiven DEF ConnectFails, routeErrorStatus
<1>5. ~AnswerError(h)
  BY StatusGiven DEF AnswerError, routeErrorStatus, optionsErrorStatus
<1>6. ~Panic(h)
  BY <1>1 DEF Panic, Leave, GoOn, RequestsTyped
<1> QED
  BY <1>2, <1>3, <1>4, <1>5, <1>6 DEF EndStep, TicketFails, AnswerObject, AnswerAccess,
     MakeTicket, AnswerCompound, BuildManifest, AnswerOptions, BulkError, AnswerBulk,
     CommandDone, Looked

\* An answer 404 for one id comes after its lookup did not find it, or failed.
LEMMA NegativeSaw ==
    ASSUME RInv, NEW h \in Handlers, SawInv(h), EndStep(h), http'[h] = "answered",
           ask[h].kind \in {"object", "compound", "options"} \cup Commands,
           answer'[h].status = 404
    PROVE  Head(todo[h]) \in lacked[h] \/ erred[h]
<1>1. ServeInv(h) /\ RequestsTyped /\ ask[h].kind \notin {"access", "bulk"}
  BY DEF RInv, HandlerInv, Commands
<1>2. CASE AnswerError(h)
  <2>1. http[h] = "look" /\ found[h] \in {"absent", "missing"}
    BY <1>2, StatusGiven DEF AnswerError, routeErrorStatus, optionsErrorStatus, Looked
  <2> QED BY <2>1 DEF SawInv, CallErrors
<1>3. ~ConnectFails(h)
  BY StatusGiven DEF ConnectFails, routeErrorStatus
<1>4. ~TicketFails(h) /\ ~MakeTicket(h) /\ ~AnswerAccess(h) /\ ~BulkError(h)
      /\ ~AnswerBulk(h)
  BY <1>1 DEF TicketFails, MakeTicket, AnswerAccess, BulkError, AnswerBulk, Looked,
     ServeInv
<1>5. ~AnswerObject(h)
  BY StatusGiven DEF AnswerObject
<1>6. ~BuildManifest(h) /\ ~AnswerOptions(h)
  BY StatusGiven DEF BuildManifest, AnswerOptions
<1>7. ~CommandDone(h)
  BY StatusGiven DEF CommandDone
<1>8. ~AnswerCompound(h)
  <2>1. ~GoOn(h, "build")
    BY <1>1 DEF GoOn, RequestsTyped
  <2> QED BY <2>1, StatusGiven DEF AnswerCompound
<1>9. ~Panic(h)
  BY <1>1 DEF Panic, Leave, GoOn, RequestsTyped
<1> QED
  BY <1>2, <1>3, <1>4, <1>5, <1>6, <1>7, <1>8, <1>9 DEF EndStep

\* A positive bulk answer is that of the last id.
LEMMA BulkEnds ==
    ASSUME RInv, NEW h \in Handlers, EndStep(h), http'[h] = "answered",
           ask[h].kind = "bulk", answer'[h].status = 200
    PROVE  AnswerBulk(h)
<1>1. ServeInv(h) /\ RequestsTyped
  BY DEF RInv, HandlerInv
<1>2. ~ConnectFails(h)
  BY StatusGiven DEF ConnectFails, Options
<1>3. ~BulkError(h)
  BY StatusGiven DEF BulkError
<1>4. ~TicketFails(h) /\ ~MakeTicket(h) /\ ~BuildManifest(h) /\ ~CommandDone(h)
  BY <1>1 DEF TicketFails, MakeTicket, BuildManifest, CommandDone, ServeInv
<1>5. ~AnswerError(h) /\ ~Panic(h) /\ ~AnswerObject(h) /\ ~AnswerAccess(h)
      /\ ~AnswerCompound(h) /\ ~AnswerOptions(h)
  BY DEF AnswerError, Panic, AnswerObject, AnswerAccess, AnswerCompound, AnswerOptions,
     Looked, Views, Commands
<1> QED BY <1>2, <1>3, <1>4, <1>5 DEF EndStep

\* What a positive bulk answer says of an id.
LEMMA BulkSaw ==
    ASSUME RInv, NEW h \in Handlers, SawInv(h), CountInv(h), AnswerBulk(h), NEW id \in Ids
    PROVE  /\ Times(id, answer'[h].resolved) + Times(id, answer'[h].missing)
                = Times(id, ask[h].ids)
           /\ Times(id, answer'[h].resolved) > 0 => id \in had[h]
           /\ Times(id, answer'[h].missing) > 0 => id \in lacked[h] \/ erred[h]
<1>1. /\ Looked(h, {"bulk"}, BulkIds) /\ Len(todo[h]) = 1 /\ http[h] \in Running
      /\ answer' = [answer EXCEPT ![h] = [Sorted(h) EXCEPT !.status = 200]]
  BY DEF AnswerBulk, Looked, Running
<1>2. AnswerTyped(Sorted(h))
  BY <1>1, SortedTyped
<1>3. answer'[h] = [Sorted(h) EXCEPT !.status = 200]
  BY <1>1 DEF RInv, RequestsTyped
<1>4. answer'[h].resolved = Sorted(h).resolved /\ answer'[h].missing = Sorted(h).missing
  BY <1>2, <1>3 DEF AnswerTyped
<1>5. Times(id, Tail(todo[h])) = 0
  <2>1. todo[h] \in Seq(Ids) /\ todo[h] # <<>>
    BY <1>1, HeadOfTodo
  <2>2. DOMAIN Tail(todo[h]) = 1..0
    <3>1. \A t \in Seq(Ids) : Len(t) = 1 - 1 => DOMAIN t = 1..0
      OBVIOUS
    <3>2. Tail(todo[h]) \in Seq(Ids) /\ Len(Tail(todo[h])) = Len(todo[h]) - 1
      BY <2>1, HeadTailProperties
    <3> QED BY <1>1, <3>1, <3>2
  <2>3. Places(id, Tail(todo[h])) = {}
    BY <2>2 DEF Places
  <2> QED BY <2>3, TimesPlaces, FS_EmptySet
<1>6. Times(id, Sorted(h).resolved) \in Nat /\ Times(id, Sorted(h).missing) \in Nat
  BY <1>2, TimesType DEF AnswerTyped
<1> QED BY <1>1, <1>4, <1>5, <1>6, SortedCounts

LEMMA AnswerSaw ==
    ASSUME RInv, HistoryInv, RNext, NEW h \in Handlers, Answers(h)
    PROVE  AnswerTrue(h)
<1>1. /\ EndStep(h) /\ SawInv(h) /\ CountInv(h) /\ AskInv(h) /\ http[h] \in Running
      /\ http'[h] = "answered" /\ RequestsTyped
  BY AnsweredByEnd DEF HistoryInv, RInv, HandlerInv, Answers
<1>2. ask'[h] = ask[h]
  BY <1>1, EndSteps DEF Ends, Leave
<1>3. ask[h].kind # "bulk" => ask[h].ids[1] = Head(todo[h]) /\ Head(todo[h]) \in Ids
  BY <1>1, HeadOfTodo DEF AskInv
<1>4. Answered(h, Views \cup {"options"} \cup Commands, 200)' => ask[h].ids[1] \in had[h]
  BY <1>1, <1>2, <1>3, PositiveSaw DEF Answered, Views, Commands
<1>5. Answered(h, {"object", "compound", "options"} \cup Commands, 404)' =>
         ask[h].ids[1] \in lacked[h] \/ erred[h]
  BY <1>1, <1>2, <1>3, NegativeSaw DEF Answered, Commands
<1>6. ASSUME Answered(h, {"bulk"}, 200)', NEW id \in Ids
      PROVE  /\ Times(id, answer'[h].resolved) + Times(id, answer'[h].missing)
                   = Times(id, ask[h].ids)
             /\ Times(id, answer'[h].resolved) > 0 => id \in had[h]
             /\ Times(id, answer'[h].missing) > 0 => id \in lacked[h] \/ erred[h]
  <2>1. AnswerBulk(h)
    BY <1>1, <1>2, <1>6, BulkEnds DEF Answered
  <2> QED BY <1>1, <2>1, BulkSaw
<1> QED BY <1>4, <1>5, <1>6 DEF AnswerTrue

\* What an answer says about an id was so at some time during the request: that
\* it is registered, or that it is not, unless a call to iRODS failed; and a bulk
\* answer speaks of every id as often as it was asked.
THEOREM AnswersAreTrue == RSpec => AnswersTrue
<1>1. RInit => RInv /\ HistoryInv
  BY InitRInv, InitHistory
<1>2. RInv /\ HistoryInv /\ [RNext]_rvars => (RInv /\ HistoryInv)'
  BY NextRInv, NextHistory
<1>3. RInv /\ HistoryInv /\ [RNext]_rvars =>
         [\A h \in Handlers : Answers(h) => AnswerTrue(h)]_rvars
  BY AnswerSaw
<1> QED BY <1>1, <1>2, <1>3, PTL DEF RSpec, AnswersTrue

----------------------------------------------------------------------------
(* The hosts that serve an object.                                         *)

\* Without a host that is preferred, none is found.
LEMMA NoneLeft ==
    ASSUME NEW T, NEW entries \in Seq(T),
           normalizedResourceAffinityForLookup(entries) = <<>>
    PROVE  Hosting(entries) = {}
<1> DEFINE hosted == WithHost(entries)
           left == normalizedResourceAffinityForLookup(entries)
<1>1. Listed(hosted) = Listed(entries) \ HostLess(entries)
  BY KeptEntries DEF WithHost
<1>2. hosted \in Seq(T) /\ Len(hosted) \in Nat
  BY LeftForLookup
<1>3. Len(left) = Len(hosted)
  <2>1. PICK f : left = [i \in 1..Len(hosted) |-> f[i]]
    BY LeftForLookup
  <2> HIDE DEF left, hosted
  <2> QED BY <1>2, <2>1
<1>4. Len(hosted) = 0
  BY <1>3
<1>5. Listed(hosted) = {}
  BY <1>2, <1>4 DEF Listed
<1> QED BY <1>1, <1>5 DEF Hosting, HostLess, Listed, Range

LEMMA PlacesAreNumbers ==
    ASSUME NEW T, NEW s \in Seq(T)
    PROVE  DOMAIN s \subseteq Nat
OBVIOUS

\* HostFor, in the words of AffinityHost.
LEMMA HostForRegion ==
    ASSUME NEW host, NEW resource, cfg \in Configs,
           IF Naming(cfg.affinities, resource) # {}
           THEN FirstHost(host, cfg.affinities, Naming(cfg.affinities, resource))
           ELSE IF Defaults(cfg.affinities) # {}
                THEN FirstHost(host, cfg.affinities, Defaults(cfg.affinities))
                ELSE host = NoURL
    PROVE  HostFor(resource) = IF host.host = "" THEN cfg.base.host ELSE host.host
<1> DEFINE entries  == {i \in DOMAIN cfg.affinities : cfg.affinities[i].host.host # ""}
           naming   == {i \in entries : resource \in cfg.affinities[i].resources \ {Wildcard}}
           default  == {i \in entries : \/ Wildcard \in cfg.affinities[i].resources
                                        \/ cfg.affinities[i].resources \subseteq {NoName}}
           First(S) == CHOOSE i \in S : \A k \in S : i <= k
<1>1. /\ cfg.affinities \in Seq([host : URLs, resources : SUBSET AccessIds])
      /\ \A i \in DOMAIN cfg.affinities :
            cfg.affinities[i].host.host = "" => cfg.affinities[i].host = NoURL
  BY ServersAreConfigured
<1>2. NoURL.host = ""
  BY DEF NoURL
<1>3. entries = Hosting(cfg.affinities)
  BY <1>1, <1>2 DEF Hosting
<1>4. naming = Naming(cfg.affinities, resource) /\ default = Defaults(cfg.affinities)
  BY <1>3 DEF Naming, Defaults
<1>5. naming \subseteq entries /\ default \subseteq entries
      /\ entries \subseteq DOMAIN cfg.affinities /\ DOMAIN cfg.affinities \subseteq Nat
  <2>1. DOMAIN cfg.affinities \subseteq Nat
    BY <1>1, PlacesAreNumbers
  <2>2. naming \subseteq entries /\ default \subseteq entries
    OBVIOUS
  <2>3. entries \subseteq DOMAIN cfg.affinities
    OBVIOUS
  <2> QED BY <2>1, <2>2, <2>3
<1>6. HostFor(resource) =
         IF naming # {} THEN cfg.affinities[First(naming)].host.host
         ELSE IF default # {} THEN cfg.affinities[First(default)].host.host
         ELSE cfg.base.host
  BY Zenon DEF HostFor
<1>7. ASSUME NEW S, S \subseteq entries, FirstHost(host, cfg.affinities, S)
      PROVE  host = cfg.affinities[First(S)].host /\ host.host # ""
  <2>1. PICK i \in S : (\A k \in S : i <= k) /\ host = cfg.affinities[i].host
    BY <1>7 DEF FirstHost
  <2>4. S \subseteq Nat
    BY <1>5, <1>7
  <2>2. \A j \in S : (\A k \in S : j <= k) => j = i
    BY <2>1, <2>4
  <2>3. First(S) = i
    BY <2>1, <2>2
  <2> HIDE DEF First
  <2> QED BY <1>7, <2>1, <2>3
<1> HIDE DEF entries, naming, default, First
<1> QED BY <1>2, <1>4, <1>5, <1>6, <1>7

\* An id that was offered is parsed, and is turned into the URL of the host that
\* serves its region best.
LEMMA HonouredHost ==
    ASSUME cfg \in Configs, NEW path \in Paths, NEW method,
           HTTPSMethod(method, cfg, Storage[path]), ~RetiredAccessID(method.id),
           NEW parsed, parsed = ParseHTTPSAccessID(method.id)
    PROVE  /\ cfg.https /\ parsed # NotParsed
           /\ parsed.provider = EffectiveHTTPSAccessProvider(cfg.provider)
           /\ AccessBaseURL(parsed, path) # NoURL
           /\ AccessBaseURL(parsed, path).host = HostFor(method.region)
           /\ Len(method.id) > 1
<1> DEFINE provider == EffectiveHTTPSAccessProvider(cfg.provider)
           object   == Storage[path]
<1>1. /\ cfg.https /\ cfg.base # NoURL /\ provider \in Providers
      /\ ForResource(method, cfg, object, provider)
  BY Zenon DEF HTTPSMethod
<1> HIDE DEF provider
<1>2. PICK resource \in Names :
        /\ method = Method("https", buildHTTPSAffinityAccessID(provider, resource),
                           method.region, NoURL)
        /\ \/ resource # NoName /\ method.region = resource
           \/ /\ resource = NoName /\ method.region = primaryReplicaResourceName(object)
              /\ normalizedResourceAffinityForLookup(cfg.affinities) = <<>>
  BY <1>1 DEF ForResource
<1>3. method.id = buildHTTPSAffinityAccessID(provider, resource)
  <2>1. \A type, id, region, url : Method(type, id, region, url).id = id
    BY DEF Method
  <2> QED BY <1>2, <2>1
<1>4. /\ parsed = [provider |-> provider, resource |-> resource]
      /\ parsed # NotParsed /\ Len(method.id) > 1
  BY <1>1, <1>3, ReadBack
<1>5. parsed.provider = provider /\ parsed.resource = resource
  BY <1>4
<1>6. /\ cfg.base \in URLs
      /\ cfg.affinities \in Seq([host : URLs, resources : SUBSET AccessIds])
  BY ServersAreConfigured
<1>7. AccessResource(parsed, path) = method.region
  BY <1>2, <1>5 DEF AccessResource
<1> DEFINE host == IF method.region = NoName THEN NoURL
                   ELSE ResolveAffinityHostForResource(cfg, method.region)
<1>8. AccessBaseURL(parsed, path) = ResolveHTTPSAccessBaseURL(cfg.base, host)
  BY <1>7, Zenon DEF AccessBaseURL
<1>10. IF Naming(cfg.affinities, method.region) # {}
       THEN FirstHost(host, cfg.affinities, Naming(cfg.affinities, method.region))
       ELSE IF Defaults(cfg.affinities) # {}
            THEN FirstHost(host, cfg.affinities, Defaults(cfg.affinities))
            ELSE host = NoURL
  <2>1. CASE method.region # NoName
    <3>1. host = hostForResourceAffinity(
                    normalizedResourceAffinityForLookup(cfg.affinities), method.region).host
      BY <2>1 DEF ResolveAffinityHostForResource
    <3> QED BY <1>6, <2>1, <3>1, AffinityHost
  <2>2. CASE method.region = NoName
    <3>1. Hosting(cfg.affinities) = {}
      BY <1>2, <1>6, <2>2, NoneLeft
    <3>2. Naming(cfg.affinities, method.region) = {} /\ Defaults(cfg.affinities) = {}
      BY <3>1 DEF Naming, Defaults
    <3> QED BY <2>2, <3>2
  <2> QED BY <2>1, <2>2
<1> HIDE DEF host
<1>11. HostFor(method.region) = IF host.host = "" THEN cfg.base.host ELSE host.host
  BY <1>10, HostForRegion
<1>12. /\ AccessBaseURL(parsed, path) # NoURL
       /\ AccessBaseURL(parsed, path).host = HostFor(method.region)
  <2> DEFINE url == ResolveHTTPSAccessBaseURL(cfg.base, host)
  <2>1. /\ url # NoURL
        /\ url.host = IF host.host = "" THEN cfg.base.host ELSE host.host
    BY <1>1, <1>6, BaseURL
  <2> HIDE DEF url
  <2>2. AccessBaseURL(parsed, path) = url
    BY <1>8 DEF url
  <2> QED BY <1>11, <2>1, <2>2
<1> QED BY <1>1, <1>4, <1>5, <1>12 DEF provider

----------------------------------------------------------------------------
(* What has been offered.                                                  *)

\* An offer stands for as long as its id is registered.
Stands(h) ==
    /\ kept'[h] => kept[h] \/ (http[h] = "look" /\ http'[h] = "answered")
    /\ kept'[h] => offer'[h].id \in RegisteredIn(avus')

LEMMA ObserveStands ==
    ASSUME Observe, NEW h \in Handlers
    PROVE  Stands(h)
BY DEF Observe, Stands

\* What is offered is what there is to offer.
OfferTrue(o) ==
    /\ o.id \in Ids /\ o.path \in Paths
    /\ owner[o.id] = o.path
    /\ \/ o.methods \in MethodsOf(o.path)
       \/ o.methods = <<CompoundManifestAccessMethod(o.path)>>

\* It stays so: the configuration does not change, nor the owner of an id.
LEMMA OfferStays ==
    ASSUME NEW o, OfferTrue(o), OwnersKept, cfg' = cfg
    PROVE  OfferTrue(o)'
<1>1. MethodsOf(o.path)' = MethodsOf(o.path)
  BY DEF MethodsOf
<1>2. owner'[o.id] = owner[o.id]
  BY NoneIsNothing DEF OfferTrue, OwnersKept
<1> QED BY <1>1, <1>2 DEF OfferTrue

\* What is known of the offer of an undisturbed handler stays so.
LEMMA UndisturbedShown ==
    ASSUME NEW h, ShownInv(h), Undisturbed(h), offer'[h] = offer[h], Stands(h),
           OwnersKept, cfg' = cfg
    PROVE  ShownInv(h)'
<1>1. offer[h] # NoOffer => OfferTrue(offer[h])
  BY DEF ShownInv, OfferTrue
<1>2. offer'[h] # NoOffer => OfferTrue(offer[h])'
  BY <1>1, OfferStays
<1>3. kept'[h] => kept[h]
  BY DEF Undisturbed, Stands
<1>4. (kept[h] /\ Looked(h, {"access"}, Findings) /\ ask[h].ids[1] = offer[h].id
          => found[h] \notin {"absent", "multiple", "nil"})'
  BY <1>3 DEF ShownInv, Looked, Undisturbed
<1> QED BY <1>2, <1>4 DEF ShownInv, OfferTrue, Stands

\* An id that is registered is found, by the search and on the path.
LEMMA LookupFinds ==
    ASSUME RInv, NEW h \in Handlers, Lookup(h), ask[h].kind # "bulk",
           ask[h].ids[1] \in RegisteredIn(avus')
    PROVE  found'[h] \notin {"absent", "multiple", "nil"}
<1> DEFINE id == ask[h].ids[1]
<1>1. /\ h \in Clients /\ RequestsTyped /\ ServeInv(h) /\ http[h] = "look"
      /\ id = Head(todo[h]) /\ id \in Ids /\ avus' = avus
  BY HandlersAsk, HeadOfTodo
     DEF RInv, HandlerInv, AskInv, Lookup, Query, Load, Refuse, Running
<1>2. PICK p \in Paths : id \in IdsIn(avus[p])
  BY <1>1 DEF RegisteredIn
<1>3. \A r \in Paths : id \in IdsIn(avus[r]) <=> r = p
  BY <1>1, <1>2 DEF RInv, IInv, IdOnOnePath
<1>4. CASE Query(h) /\ found' = [found EXCEPT ![h] = QueryFinding(h)]
  <2> DEFINE matches == {r \in Paths : job[h].id \in IdsIn(avus[r])}
  <2>1. stage[h] = "query" /\ job[h].id = id
    BY <1>1, <1>4 DEF Query, ServeInv
  <2>2. matches = {p}
    BY <1>3, <2>1
  <2>3. Cardinality(matches) = 1
    BY <2>2, FS_Singleton
  <2>4. stage'[h] = "load"
    BY <1>1, <1>4, <2>3 DEF Query, RInv, IInv, TypeOK
  <2> QED BY <1>1, <1>4, <2>4 DEF QueryFinding, RequestsTyped
<1>5. CASE Load(h) /\ found' = [found EXCEPT ![h] = LoadFinding(h)]
  <2>1. stage[h] = "load" /\ job[h].id = id
    BY <1>1, <1>5 DEF Load, ServeInv
  <2>2. owner[id] = job[h].path
    BY <1>1, <2>1 DEF RInv, ReadInv, ReadOwn
  <2>3. job[h].path = p
    BY <1>1, <1>2, <2>2 DEF RInv, IInv, IdOnOnePath
  <2>4. IdsIn(avus[job[h].path]) # {}
    BY <1>2, <2>3
  <2> QED BY <1>1, <1>5, <2>4 DEF LoadFinding, RequestsTyped
<1> QED BY <1>4, <1>5 DEF Lookup

\* What the handler of a step has shown.
LEMMA RequestShown ==
    ASSUME RInv, NEW h \in Handlers, ShownInv(h), RequestStep(h), Stands(h),
           OwnersKept, cfg' = cfg
    PROVE  ShownInv(h)'
<1> USE DEF RequestsTyped
<1>1. RequestsTyped /\ AskInv(h) /\ ServeInv(h) /\ h \in Clients
  BY HandlersAsk DEF RInv, HandlerInv
<1>2. ASSUME offer'[h] # NoOffer => OfferTrue(offer'[h]),
             kept'[h] /\ http'[h] = "look" /\ ask'[h].kind = "access"
                /\ ask'[h].ids[1] = offer'[h].id
                => found'[h] \notin {"absent", "multiple", "nil"}
      PROVE  ShownInv(h)'
  <2>1. offer'[h] # NoOffer => OfferTrue(offer[h])'
    <3>1. ASSUME NEW o, OfferTrue(o) PROVE OfferTrue(o)'
      BY <3>1, OfferStays
    <3>2. \A o : OfferTrue(o) => /\ o.id \in Ids /\ o.path \in Paths
                                 /\ owner'[o.id] = o.path
                                 /\ \/ o.methods \in MethodsOf(o.path)'
                                    \/ o.methods = <<CompoundManifestAccessMethod(o.path)>>
      BY <3>1 DEF OfferTrue
    <3> QED BY <1>2, <3>2 DEF OfferTrue
  <2> QED BY <1>2, <2>1 DEF ShownInv, OfferTrue, Looked, Stands
<1>3. offer[h] # NoOffer => OfferTrue(offer[h])
  BY DEF ShownInv, OfferTrue
<1>4. CASE Arrive(h)
  <2>1. http'[h] # "look" /\ offer' = offer
    BY <1>1, <1>4 DEF Arrive, GoOn
  <2> QED BY <1>2, <1>3, <2>1
<1>5. CASE Connect(h) \/ BulkNext(h)
  <2>1. found'[h] = "none" /\ offer' = offer
    BY <1>1, <1>5 DEF Connect, BulkNext, LookUp
  <2> QED BY <1>2, <1>3, <2>1
<1>6. CASE Lookup(h)
  <2>1. offer' = offer /\ ask' = ask /\ http' = http
    BY <1>6 DEF Lookup
  <2>2. ASSUME kept'[h], ask'[h].kind = "access", ask'[h].ids[1] = offer'[h].id
        PROVE  found'[h] \notin {"absent", "multiple", "nil"}
    BY <1>6, <2>1, <2>2, LookupFinds DEF Stands
  <2> QED BY <1>2, <1>3, <2>1, <2>2
<1>7. CASE LookupFails(h)
  <2>1. found'[h] \in CallErrors /\ offer' = offer
    BY <1>1, <1>7 DEF LookupFails
  <2> QED BY <1>2, <1>3, <2>1 DEF CallErrors
<1>8. CASE CallCommand(h) \/ GoOnStep(h)
  <2>1. http'[h] # "look" /\ offer' = offer
    BY <1>1, <1>8 DEF CallCommand, GoOnStep, GoOn
  <2> QED BY <1>2, <1>3, <2>1
<1>9. CASE EndStep(h)
  <2>1. http'[h] # "look"
    BY <1>1, <1>9, EndSteps DEF Ends, Leave, GoOn
  <2>2. CASE offer' = offer
    BY <1>2, <1>3, <2>1, <2>2
  <2>3. CASE offer' # offer
    <3>1. AnswerObject(h)
      BY <1>9, <2>3 DEF EndStep, ConnectFails, TicketFails, AnswerError, Panic,
         AnswerAccess, MakeTicket, AnswerCompound, BuildManifest, AnswerOptions,
         BulkError, AnswerBulk, CommandDone
    <3>2. PICK methods \in IF found[h] = "object" THEN MethodsOf(job[h].path)
                           ELSE {<<CompoundManifestAccessMethod(job[h].path)>>} :
             offer' = [offer EXCEPT ![h] = [id |-> seen[h], path |-> job[h].path,
                                            methods |-> methods]]
      BY <2>3, <3>1 DEF AnswerObject
    <3>3. http[h] = "look" /\ found[h] \in Objects
      BY <3>1 DEF AnswerObject, Looked
    <3>4. stage[h] = "done" /\ job[h].op = "getById"
      BY <1>1, <3>3 DEF ServeInv, Objects, Errors, CallErrors
    <3>5. /\ seen[h] \in Ids /\ owner[seen[h]] = job[h].path
          /\ job[h].path \in Paths
      BY <1>1, <3>4 DEF RInv, ReadInv, ReadOwn, IInv, TypeOK, JobType
    <3>6. offer'[h] = [id |-> seen[h], path |-> job[h].path, methods |-> methods]
      BY <1>1, <3>2
    <3>7. /\ offer'[h].id = seen[h] /\ offer'[h].path = job[h].path
          /\ offer'[h].methods = methods
      BY <3>6
    <3>8. OfferTrue(offer'[h])
      BY <3>2, <3>5, <3>7 DEF OfferTrue
    <3> QED BY <1>2, <2>1, <3>8
  <2> QED BY <2>2, <2>3
<1> QED
  BY <1>4, <1>5, <1>6, <1>7, <1>8, <1>9, RequestSteps

LEMMA InitShows == RInit => ShowsInv
<1> SUFFICES ASSUME RInit, NEW h \in Handlers PROVE ShownInv(h)
  BY DEF ShowsInv
<1>1. offer[h] = NoOffer /\ ~kept[h] /\ http[h] = "idle"
  BY DEF RInit
<1> QED BY <1>1 DEF ShownInv

\* No step changes the configuration, and none gives an id another owner.
LEMMA Standing ==
    ASSUME RInv, RNext
    PROVE  OwnersKept /\ cfg' = cfg
<1>1. CASE \E h \in Handlers : RequestStep(h)
  <2>1. PICK h \in Handlers : RequestStep(h)
    BY <1>1
  <2>2. OwnersKept
    BY <2>1, HandlersAsk, RequestMoves, MovesApart DEF RInv, OwnersKept, vars, history
  <2>3. cfg' = cfg
    <3>1. CASE EndStep(h)
      BY <3>1, EndSteps DEF Ends, Leave
    <3>2. CASE ~EndStep(h)
      BY <2>1, <3>2, RequestSteps DEF Arrive, Connect, Lookup, LookupFails, BulkNext,
         CallCommand, GoOnStep
    <3> QED BY <3>1, <3>2
  <2> QED BY <2>2, <2>3
<1>2. CASE \E c \in Clients :
              /\ Start(c) \/ Step(c) \/ Fail(c) \/ FailAfterWrite(c)
              /\ UNCHANGED <<cfg, serving, offer, erred>>
  BY <1>2, MovesApart DEF Moves, RInv, OwnersKept
<1> QED BY <1>1, <1>2 DEF RNext, RequestStep, Operate, OperationFails

LEMMA NextShows == RInv /\ ShowsInv /\ [RNext]_rvars => ShowsInv'
<1> SUFFICES ASSUME RInv, ShowsInv, [RNext]_rvars, NEW h \in Handlers
             PROVE  ShownInv(h)'
  BY DEF ShowsInv
<1>1. ShownInv(h)
  BY DEF ShowsInv
<1>2. CASE UNCHANGED rvars
  BY <1>1, <1>2 DEF rvars, vars, catalog, history, serving, observed, ShownInv, Looked,
     MethodsOf
<1>3. CASE RNext
  <2>1. Stands(h) /\ OwnersKept /\ cfg' = cfg
    BY <1>3, ObserveStands, Standing DEF RNext
  <2>2. CASE \E g \in Handlers : RequestStep(g)
    <3>1. PICK g \in Handlers : RequestStep(g)
      BY <2>2
    <3>2. CASE g = h
      BY <1>1, <2>1, <3>1, <3>2, RequestShown
    <3>3. CASE g # h
      BY <1>1, <2>1, <3>1, <3>3, OthersServed, UndisturbedShown
    <3> QED BY <3>2, <3>3
  <2>3. CASE UNCHANGED <<cfg, serving, offer, erred>>
    <3>1. /\ http'[h] = http[h] /\ ask'[h] = ask[h] /\ found'[h] = found[h]
          /\ offer'[h] = offer[h]
      BY <2>3 DEF serving
    <3>2. offer[h] # NoOffer => OfferTrue(offer[h])
      BY <1>1 DEF ShownInv, OfferTrue
    <3>3. offer'[h] # NoOffer => OfferTrue(offer[h])'
      BY <2>1, <3>1, <3>2, OfferStays
    <3> QED BY <1>1, <2>1, <3>1, <3>3 DEF ShownInv, OfferTrue, Looked, Stands
  <2> QED BY <1>3, <2>2, <2>3 DEF RNext, RequestStep, Operate, OperationFails
<1> QED BY <1>2, <1>3

\* A method that is offered without a URL is one of those that HonouredHost speaks
\* of, or the irods one.
LEMMA OfferedMethods ==
    ASSUME NEW h \in Handlers, ShownInv(h), NEW i \in DOMAIN offer[h].methods,
           offer[h].methods[i].url = NoURL
    PROVE  /\ offer[h].id \in Ids /\ offer[h].path \in Paths
           /\ owner[offer[h].id] = offer[h].path
           /\ \/ HTTPSMethod(offer[h].methods[i], cfg, Storage[offer[h].path])
              \/ IrodsMethod(offer[h].methods[i], cfg)
<1> DEFINE path == offer[h].path
<1>1. offer[h] # NoOffer
  <2>1. NoOffer.methods = <<>>
    BY DEF NoOffer
  <2> QED BY <2>1
<1>2. OfferTrue(offer[h])
  BY <1>1 DEF ShownInv, OfferTrue
<1>3. CASE offer[h].methods \in MethodsOf(path)
  <2>1. PICK buckets : offer[h].methods =
                          BuildAccessMethodsWithFilesystem(cfg, Storage[path], buckets)
    BY <1>3 DEF MethodsOf
  <2>2. Storage[path].replicas \in Seq(Names) /\ Storage[path].resource \in Names
    BY <1>2, ServersAreConfigured DEF OfferTrue, AccessIds, Names
  <2> HIDE DEF path
  <2>3. \/ HTTPSMethod(offer[h].methods[i], cfg, Storage[path])
        \/ IrodsMethod(offer[h].methods[i], cfg)
    BY <2>1, <2>2, MethodsBuilt
  <2> QED BY <1>2, <2>3 DEF OfferTrue, path
<1>4. CASE offer[h].methods = <<CompoundManifestAccessMethod(path)>>
  <2>1. offer[h].methods[i] = CompoundManifestAccessMethod(path)
    BY <1>4
  <2>2. CompoundManifestAccessMethod(path).url.host = "public" /\ NoURL.host = ""
    BY DEF CompoundManifestAccessMethod, Method, ManifestURL, NoURL
  <2> QED BY <2>1, <2>2
<1> QED BY <1>2, <1>3, <1>4 DEF OfferTrue

\* With the object at hand, the id is turned into a ticket or a URL; the URL is
\* that of the host that serves the region best.
LEMMA AccessGranted ==
    ASSUME RInv, NEW h \in Handlers, ShownInv(h), NEW i \in DOMAIN offer[h].methods,
           http[h] \in {"look", "ticket"}, stage[h] = "done", ask[h].kind = "access",
           ask[h].ids[1] = offer[h].id, ask[h].access = offer[h].methods[i].id,
           offer[h].methods[i].url = NoURL, ~RetiredAccessID(offer[h].methods[i].id)
    PROVE  /\ found[h] # "nil" => accessURLForObject(h) \subseteq {0, 200}
           /\ offer[h].methods[i].type = "https" =>
                 AccessURL(h).host = HostFor(offer[h].methods[i].region)
<1> DEFINE method == offer[h].methods[i]
           path   == offer[h].path
           parsed == ParseHTTPSAccessID(method.id)
<1>1. /\ offer[h].id \in Ids /\ path \in Paths /\ owner[offer[h].id] = path
      /\ HTTPSMethod(method, cfg, Storage[path]) \/ IrodsMethod(method, cfg)
  BY OfferedMethods
<1>2. job[h].path = path
  <2>1. AskInv(h) /\ ServeInv(h) /\ h \in Clients
    BY HandlersAsk DEF RInv, HandlerInv
  <2>2. Head(todo[h]) = offer[h].id /\ job[h].op = "getById" /\ job[h].id = Head(todo[h])
    BY <2>1 DEF AskInv, ServeInv, Running
  <2>3. owner[job[h].id] = job[h].path
    BY <2>1, <2>2 DEF RInv, ReadInv, ReadOwn
  <2> QED BY <1>1, <2>2, <2>3
<1>3. Len(CompoundAccessID) = 1 /\ Len(IrodsAccessID) = 1
  BY DEF CompoundAccessID, IrodsAccessID
<1>4. CASE IrodsMethod(method, cfg)
  <2>1. cfg.irods /\ method.type = "irods" /\ ask[h].access = IrodsAccessID
    BY <1>4 DEF IrodsMethod
  <2>2. IrodsAccessID # CompoundAccessID
    <3>1. IrodsAccessID[1] = "irods" /\ CompoundAccessID[1] = "irods-compound-https"
      BY DEF IrodsAccessID, CompoundAccessID
    <3> QED BY <3>1
  <2>3. found[h] # "nil" => accessURLForObject(h) = {0}
    BY <2>1, <2>2 DEF accessURLForObject
  <2> QED BY <2>1, <2>3
<1>5. CASE HTTPSMethod(method, cfg, Storage[path])
  <2>1. cfg \in Configs
    BY DEF RInv, RequestsTyped
  <2>2. /\ cfg.https /\ parsed # NotParsed
        /\ parsed.provider = EffectiveHTTPSAccessProvider(cfg.provider)
        /\ AccessBaseURL(parsed, path) # NoURL
        /\ AccessBaseURL(parsed, path).host = HostFor(method.region)
        /\ Len(method.id) > 1
    <3> HIDE DEF path, method
    <3> QED BY <1>1, <1>5, <2>1, HonouredHost DEF method
  <2>3. ask[h].access # CompoundAccessID /\ ask[h].access # IrodsAccessID
    <3>1. Len(ask[h].access) > 1
      BY <2>2
    <3>2. \A id : Len(id) = 1 => ~(Len(id) > 1)
      OBVIOUS
    <3> QED BY <1>3, <3>1, <3>2, Zenon
  <2>4. AccessURL(h) = AccessBaseURL(parsed, path)
    BY <1>2, <2>3 DEF AccessURL
  <2>5. found[h] # "nil" =>
           accessURLForObject(h) = IF cfg.ticket THEN {0} ELSE {200}
    <3> HIDE DEF path
    <3> QED BY <1>2, <2>2, <2>3 DEF accessURLForObject
  <2> QED BY <2>2, <2>4, <2>5
<1> QED BY <1>1, <1>4, <1>5

\* So an answer about it is a positive one, if nothing failed.
LEMMA OfferHonoured ==
    ASSUME RInv, HistoryInv, ShowsInv, RNext, NEW h \in Handlers, 
           NEW i \in DOMAIN offer[h].methods, AnswersOffer(h, offer[h].methods[i]),
           ~RetiredAccessID(offer[h].methods[i].id)
    PROVE  Honours(h, offer[h].methods[i])
<1> USE DEF AnswersOffer
<1>1. /\ EndStep(h) /\ SawInv(h) /\ ShownInv(h) /\ ServeInv(h) /\ AnswerTyped(answer[h])
      /\ http[h] \in Running /\ http'[h] = "answered" /\ RequestsTyped
  BY AnsweredByEnd DEF HistoryInv, ShowsInv, RInv, HandlerInv, AnswerInv, Answers
<1>2. ASSUME NEW status PROVE ~AnswerFailure(h, status)
  BY <1>1 DEF AnswerFailure, Leave, RequestsTyped
<1>3. ~ConnectFails(h) /\ ~TicketFails(h)
  BY <1>2 DEF ConnectFails, TicketFails
<1>4. ~AnswerError(h)
  BY <1>1 DEF AnswerError, Looked, ShownInv, SawInv, Errors, Findings
<1>5. /\ ~Panic(h) /\ ~AnswerObject(h) /\ ~AnswerCompound(h) /\ ~BuildManifest(h)
      /\ ~AnswerOptions(h) /\ ~BulkError(h) /\ ~AnswerBulk(h) /\ ~CommandDone(h)
  BY <1>1 DEF Panic, AnswerObject, AnswerCompound, BuildManifest, AnswerOptions,
     BulkError, AnswerBulk, CommandDone, Looked, ServeInv, Commands
<1>6. ASSUME NEW ticket, AnswerURL(h, ticket), http[h] \in {"look", "ticket"},
             stage[h] = "done"
      PROVE  Honours(h, offer[h].methods[i])
  <2>1. answer'[h] = WithURL(answer[h], 200, AccessURL(h), ticket)
    BY <1>1, <1>6 DEF AnswerURL, WithURL, RequestsTyped
  <2>2. answer'[h].status = 200 /\ answer'[h].url = AccessURL(h)
    BY <1>1, <2>1, AnswerWithURL DEF Statuses
  <2> QED BY <1>1, <1>6, <2>2, AccessGranted DEF Honours
<1>7. CASE MakeTicket(h)
  BY <1>1, <1>6, <1>7 DEF MakeTicket, ServeInv
<1>8. CASE AnswerAccess(h) /\ http'[h] # "ticket"
  <2>1. http[h] = "look" /\ found[h] \in Objects /\ stage[h] = "done"
    BY <1>1, <1>8 DEF AnswerAccess, Looked, ShownInv, ServeInv, Objects, Findings,
       Errors, CallErrors
  <2>2. accessURLForObject(h) \subseteq {0, 200}
    BY <1>1, <2>1, AccessGranted DEF Objects
  <2>3. ~GoOn(h, "ticket")
    BY <1>1, <1>8 DEF GoOn, RequestsTyped
  <2>4. AnswerURL(h, None)
    BY <1>8, <2>2, <2>3 DEF AnswerAccess
  <2> QED BY <1>6, <2>1, <2>4
<1> QED BY <1>1, <1>3, <1>4, <1>5, <1>7, <1>8 DEF EndStep

\* An access id that GetObject offered is honoured, with a URL of the host that
\* serves the region of its method best, as long as the object stays registered
\* and iRODS does not fail.
THEOREM OffersAreHonoured == RSpec => OfferedHonoured
<1>1. RInit => RInv /\ HistoryInv /\ ShowsInv
  BY InitRInv, InitHistory, InitShows
<1>2. RInv /\ HistoryInv /\ ShowsInv /\ [RNext]_rvars => (RInv /\ HistoryInv /\ ShowsInv)'
  BY NextRInv, NextHistory, NextShows
<1>3. RInv /\ HistoryInv /\ ShowsInv /\ [RNext]_rvars =>
         [\A h \in Handlers : \A i \in DOMAIN offer[h].methods :
             AnswersOffer(h, offer[h].methods[i])
             /\ ~RetiredAccessID(offer[h].methods[i].id)
             => Honours(h, offer[h].methods[i])]_rvars
  BY OfferHonoured
<1> QED BY <1>1, <1>2, <1>3, PTL DEF RSpec, OfferedHonoured
=============================================================================
