------------------------ MODULE ServiceInfoSampler ------------------------
(***************************************************************************)
(* The sampler behind GET /service-info: main starts it and does not       *)
(* listen before Start has returned; Start retries the first sample until  *)
(* a deadline, then leaves a goroutine that samples at every tick until    *)
(* its context is cancelled.  Requests read the snapshot it publishes.     *)
(*                                                                         *)
(* A sample counts the data objects that have a DRS id and adds up their   *)
(* sizes, from a query that returns its rows page by page.  The catalog is *)
(* one of a sequence of versions, so that an older summary can be told     *)
(* from a newer one.  "up" stands for all that a sample needs: iRODS       *)
(* answers with well-formed rows and the service-info file is read.        *)
(***************************************************************************)
EXTENDS Integers, Sequences, FiniteSets, SequencesExt

CONSTANTS
    Requests,       \* requests served at the same time
    RetryWait,      \* startRetryWait, in units of time
    RetryMax,       \* startRetryMax
    Objects,        \* the data objects (their DATA_ID)
    Versions,       \* the versions of the catalog, one after the other: the
                    \* rows a query returns, one per replica and ID AVU
    PageSize,       \* MaxQueryRows
    MaxOutages,     \* bound: how often iRODS goes down
    CanCancel       \* whether the context may be cancelled

ASSUME RetryNumbers ==
    /\ RetryWait \in Nat \ {0} /\ RetryMax \in Nat
    /\ MaxOutages \in Nat /\ CanCancel \in BOOLEAN

\* A row: the object, the size of the replica, and whether isValidDrsIDAVUValue
\* holds of the value and the unit of the AVU.
ASSUME VersionsAreRows ==
    /\ Versions \in Seq(Seq([object : Objects, size : Nat, valid : BOOLEAN]))
    /\ Versions # <<>> /\ PageSize \in Nat \ {0}

VARIABLES
    phase,      \* what the sampler is doing
    clock,      \* the time since Start was called, up to Horizon
    due,        \* when the retry timer fires
    attempts,   \* how many samples Start has tried
    cancelled,  \* the context is done
    ticked,     \* the channel of the ticker holds a tick
    result,     \* the version the running sample reads, or None, or Asked
                \* until the first page is there
    rest,       \* the rows of the query that are still to be fetched
    summary,    \* what the sample has counted so far
    snapshot,   \* the published snapshot: the version it is of, or None,
    totals,     \* and the summary it shows
    up,         \* iRODS can be queried
    outages,    \* how often it went down
    changes,    \* the version of the catalog, from 0
    request,    \* request[r]: what request r is doing
    answer      \* answer[r]: the version that r answered with, or None

sample  == <<result, rest, summary>>
current == <<snapshot, totals>>
sampler == <<phase, due, attempts, sample, current>>
world   == <<clock, cancelled, up, outages, changes>>
vars    == <<sampler, world, ticked, request, answer>>

None  == -1
Asked == -2
MaxChanges == Len(Versions) - 1
NoSummary == [count |-> 0, size |-> 0, seen |-> {}]

\* Time after the deadline and one wait is all the same.
Horizon  == RetryMax + RetryWait
Startup  == {"new", "attempt", "decide", "wait"}
Loop     == {"select", "sample"}
Ended    == {"startFailed", "stopped"}
Serving  == phase \in Loop \cup {"stopped"}

Init ==
    /\ phase = "new" /\ clock = 0 /\ due = 0 /\ attempts = 0
    /\ cancelled = FALSE /\ ticked = FALSE
    /\ result = None /\ rest = <<>> /\ summary = NoSummary
    /\ snapshot = None /\ totals = NoSummary
    /\ up \in BOOLEAN /\ outages = 0 /\ changes = 0
    /\ request = [r \in Requests |-> "idle"]
    /\ answer = [r \in Requests |-> None]

----------------------------------------------------------------------------
(* One sample: the query, and the publication under the lock.              *)

\* The query checks the context, then goes to iRODS.
Ask ==
    /\ phase \in {"attempt", "sample"} /\ result = None
    /\ ~cancelled
    /\ result' = Asked
    /\ UNCHANGED <<phase, due, attempts, rest, summary, current, world, ticked,
                   request, answer>>

\* Faulty: every row is counted, another replica or another id of the same
\* object as well.
CountedTwice(sum, row) ==
    IF ~row.valid THEN sum
    ELSE [count |-> sum.count + 1, size |-> sum.size + row.size,
          seen |-> sum.seen \cup {row.object}]

\* One row of appendDrsDataObjectSummaryRows.
Counted(sum, row) ==
    IF ~row.valid \/ row.object \in sum.seen THEN sum
    ELSE [count |-> sum.count + 1, size |-> sum.size + row.size,
          seen |-> sum.seen \cup {row.object}]

appendDrsDataObjectSummaryRows(sum, rows) == FoldLeft(Counted, sum, rows)

\* A page of rows; the next one goes on where it ends.
Fetch(sum, rows) ==
    LET end == Min({PageSize, Len(rows)})
    IN  /\ summary' = appendDrsDataObjectSummaryRows(sum, SubSeq(rows, 1, end))
        /\ rest' = SubSeq(rows, end + 1, Len(rows))

\* iRODS answers, whether or not the context has been cancelled meanwhile.  All
\* pages are of one query: they are of the version it was asked of.
Query ==
    /\ up
    /\ \/ result = Asked /\ result' = changes /\ Fetch(NoSummary, Versions[changes + 1])
       \/ rest # <<>> /\ Fetch(summary, rest) /\ UNCHANGED result
    /\ UNCHANGED <<phase, due, attempts, current, world, ticked, request, answer>>

SampleFails ==
    \/ result = None /\ cancelled
    \/ (result = Asked \/ rest # <<>>) /\ ~up

\* Faulty: the error is dropped, and the empty summary is published.
FailsEmpty ==
    /\ phase \in {"attempt", "sample"} /\ SampleFails
    /\ result' = 0 /\ rest' = <<>> /\ summary' = NoSummary
    /\ UNCHANGED <<phase, due, attempts, current, world, ticked, request, answer>>

\* Faulty: the goroutine returns the error.
FailsForGood ==
    /\ phase \in {"attempt", "sample"} /\ SampleFails
    /\ phase' = IF phase = "attempt" THEN "decide" ELSE "stopped"
    /\ result' = None /\ rest' = <<>> /\ summary' = NoSummary
    /\ UNCHANGED <<due, attempts, current, world, ticked, request, answer>>

\* Start decides what to do about the error; the goroutine logs it.
Fails ==
    /\ phase \in {"attempt", "sample"} /\ SampleFails
    /\ phase' = IF phase = "attempt" THEN "decide" ELSE "select"
    /\ result' = None /\ rest' = <<>> /\ summary' = NoSummary
    /\ UNCHANGED <<due, attempts, current, world, ticked, request, answer>>

Publish ==
    /\ phase \in {"attempt", "sample"}
    /\ result \notin {None, Asked} /\ rest = <<>>
    /\ snapshot' = result /\ totals' = summary
    /\ result' = None /\ rest' = <<>> /\ summary' = NoSummary
    /\ phase' = "select"
    /\ UNCHANGED <<due, attempts, world, ticked, request, answer>>

----------------------------------------------------------------------------
(* Start and sampleWithStartupRetry.                                       *)

Start ==
    /\ phase = "new"
    /\ IF cancelled THEN phase' = "startFailed" /\ UNCHANGED attempts
                    ELSE phase' = "attempt" /\ attempts' = 1
    /\ UNCHANGED <<due, sample, current, world, ticked, request, answer>>

\* Faulty: the time to wait is not counted.
MayRetryLate == clock <= RetryMax

\* The next attempt would not be after the deadline.
MayRetry == clock + RetryWait <= RetryMax

\* Faulty: Start goes on without a first sample.
StartAnyway ==
    /\ phase = "decide"
    /\ IF cancelled \/ ~MayRetry
       THEN phase' = "select" /\ UNCHANGED due
       ELSE phase' = "wait" /\ due' = clock + RetryWait
    /\ UNCHANGED <<attempts, sample, current, world, ticked, request, answer>>

Decide ==
    /\ phase = "decide"
    /\ IF cancelled \/ ~MayRetry
       THEN phase' = "startFailed" /\ UNCHANGED due
       ELSE phase' = "wait" /\ due' = clock + RetryWait
    /\ UNCHANGED <<attempts, sample, current, world, ticked, request, answer>>

\* Faulty: the timer is not selected on.
WakeDone ==
    /\ phase = "wait" /\ cancelled
    /\ phase' = "startFailed"
    /\ UNCHANGED <<due, attempts, sample, current, world, ticked, request, answer>>

\* The select between the context and the timer.
Wake ==
    /\ phase = "wait"
    /\ \/ /\ clock >= due
          /\ phase' = "attempt" /\ attempts' = attempts + 1
       \/ /\ cancelled
          /\ phase' = "startFailed" /\ UNCHANGED attempts
    /\ UNCHANGED <<due, sample, current, world, ticked, request, answer>>

----------------------------------------------------------------------------
(* The goroutine.                                                          *)

\* When the context is done and a tick is there, select takes either.
TakeTick ==
    /\ phase = "select" /\ ticked
    /\ phase' = "sample" /\ ticked' = FALSE
    /\ UNCHANGED <<due, attempts, sample, current, world, request, answer>>

\* Faulty: the goroutine looks at the context only when no tick is there.
StopIdle ==
    /\ phase = "select" /\ cancelled /\ ~ticked
    /\ phase' = "stopped"
    /\ UNCHANGED <<due, attempts, sample, current, world, ticked, request, answer>>

Stop ==
    /\ phase = "select" /\ cancelled
    /\ phase' = "stopped"
    /\ UNCHANGED <<due, attempts, sample, current, world, ticked, request, answer>>

\* The ticker drops a tick when the last one has not been taken.
Tick ==
    /\ phase \in Loop /\ ~ticked
    /\ ticked' = TRUE
    /\ UNCHANGED <<sampler, world, request, answer>>

----------------------------------------------------------------------------
(* GetServiceInfo reads the snapshot twice: to see whether there is one,   *)
(* and to answer with it.                                                  *)

Check(r) ==
    /\ Serving /\ request[r] = "idle"
    /\ request' = [request EXCEPT ![r] = IF snapshot = None THEN "unavailable"
                                                            ELSE "checked"]
    /\ UNCHANGED <<sampler, world, ticked, answer>>

Answer(r) ==
    /\ request[r] = "checked"
    /\ answer' = [answer EXCEPT ![r] = snapshot]
    /\ request' = [request EXCEPT ![r] = "idle"]
    /\ UNCHANGED <<sampler, world, ticked>>

----------------------------------------------------------------------------
(* The world.                                                              *)

Time ==
    /\ phase \in Startup /\ clock < Horizon
    /\ clock' = clock + 1
    /\ UNCHANGED <<sampler, cancelled, up, outages, changes, ticked, request, answer>>

Cancel ==
    /\ CanCancel /\ ~cancelled
    /\ cancelled' = TRUE
    /\ UNCHANGED <<sampler, clock, up, outages, changes, ticked, request, answer>>

CatalogChanges ==
    /\ changes < MaxChanges
    /\ changes' = changes + 1
    /\ UNCHANGED <<sampler, clock, cancelled, up, outages, ticked, request, answer>>

GoDown ==
    /\ up /\ outages < MaxOutages
    /\ up' = FALSE /\ outages' = outages + 1
    /\ UNCHANGED <<sampler, clock, cancelled, changes, ticked, request, answer>>

ComeUp ==
    /\ ~up /\ up' = TRUE
    /\ UNCHANGED <<sampler, clock, cancelled, outages, changes, ticked, request, answer>>

SamplerStep ==
    Ask \/ Query \/ Fails \/ Publish \/ Start \/ Decide \/ Wake \/ TakeTick \/ Stop

Next ==
    \/ SamplerStep \/ Tick
    \/ \E r \in Requests : Check(r) \/ Answer(r)
    \/ Time \/ Cancel \/ CatalogChanges \/ GoDown \/ ComeUp

Spec == Init /\ [][Next]_vars

\* The goroutines run, a query returns (the iRODS client times out), time
\* passes and the ticker ticks.  A select that finds the context done again and
\* again takes it sooner or later: the runtime picks a ready case at random.
\* Nothing makes iRODS come up.
FairSpec ==
    /\ Spec
    /\ WF_vars(SamplerStep)
    /\ SF_vars(Stop)
    /\ WF_vars(Time)
    /\ WF_vars(Tick)

----------------------------------------------------------------------------
(* Properties.                                                             *)

\* Types; the timer of a retry is never set for a time after the deadline.
TypeOK ==
    /\ phase \in Startup \cup Loop \cup Ended
    /\ clock \in 0..Horizon /\ due \in 0..RetryMax
    /\ attempts \in Nat
    /\ cancelled \in BOOLEAN /\ ticked \in BOOLEAN /\ up \in BOOLEAN
    /\ outages \in 0..MaxOutages /\ changes \in 0..MaxChanges
    /\ result \in Asked..MaxChanges /\ snapshot \in None..MaxChanges
    /\ rest \in Seq([object : Objects, size : Nat, valid : BOOLEAN])
    /\ {summary, totals} \subseteq [count : Nat, size : Nat, seen : SUBSET Objects]
    /\ request \in [Requests -> {"idle", "checked", "unavailable"}]
    /\ answer \in [Requests -> None..MaxChanges]

\* The server listens only once there is a snapshot: no request is ever told
\* that the sampler is not initialized.
NeverUnavailable == \A r \in Requests : request[r] # "unavailable"

\* The number of attempts is bounded by the times, however long each takes: no
\* timer is set for a time after the deadline.
AttemptsBounded == attempts <= (RetryMax \div RetryWait) + 1

\* Answers never go back in time: a failed sample leaves the last snapshot, and
\* no request reads an older one than it did before.
AnswersAdvance == [][\A r \in Requests : answer'[r] >= answer[r]]_vars

\* The snapshot shows, of one version of the catalog, the number of the data
\* objects with a valid id and the sum of their sizes, each object once with the
\* size of one of its replicas, however many rows and pages tell of it and
\* whatever failed or changed between two pages.
SummaryExact ==
    snapshot # None =>
        LET rows   == {row \in Range(Versions[snapshot + 1]) : row.valid}
            having == {row.object : row \in rows}
            Sizes(o) == {row.size : row \in {x \in rows : x.object = o}}
        IN  /\ totals.count = Cardinality(having)
            /\ \E size \in [having -> {row.size : row \in rows}] :
                  /\ \A o \in having : size[o] \in Sizes(o)
                  /\ totals.size = SumFunction(size)

\* Start returns, with a snapshot or an error.
StartReturns == phase \in Startup ~> phase \notin Startup

\* After the context is done the goroutine ends, or Start fails.
CancelStops == cancelled ~> phase \in Ended

\* If iRODS stays up and the server is not cancelled, a sampler that started
\* comes to serve what the catalog holds, whatever failed before.
CatchesUp ==
    <>[](up /\ ~cancelled) => (phase \in Loop ~> snapshot = changes)
=============================================================================
