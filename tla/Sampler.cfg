\* The program ends when Start fails.
SPECIFICATION FairSpec
CONSTANTS
    Requests = {r1, r2}
    RetryWait = 2
    RetryMax = 5
    Objects = {o1, o2}
    Versions <- MCVersions
    PageSize = 2
    o1 = o1
    o2 = o2
    MaxOutages = 1
    CanCancel = TRUE
    r1 = r1
    r2 = r2
INVARIANTS TypeOK NeverUnavailable AttemptsBounded SummaryExact
PROPERTIES AnswersAdvance StartReturns CancelStops CatchesUp
CHECK_DEADLOCK FALSE
