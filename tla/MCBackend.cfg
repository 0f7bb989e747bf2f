\* Debounce engine, postgres trigger handlers, pre-warmed isolate and
\* eval_fetch_timeout, as a disjoint union.
CONSTANTS
    Requests = {r1, r2}
    Names = {n1, n2}
    NONE = NONE
SPECIFICATION BackendSpec
INVARIANT BackendTypeOK
INVARIANT OneQueuedSurvivorPerBatch
INVARIANT KeyRowNamesCommittedJob
INVARIANT VouchedTargetsExist
INVARIANT ResultCarriesAllLogs
INVARIANT StreamMergedIntoResult
INVARIANT LogsForwardedOnReturn
PROPERTY ArgsDelivered
PROPERTY DroppedWarmIsolateExits
PROPERTY ExecutionCompletes
PROPERTY GuardedCancelStops
