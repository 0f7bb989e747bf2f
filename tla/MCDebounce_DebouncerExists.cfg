CONSTANTS
    Jobs <- MCJobs
    Keys <- MCKeys
    Paths <- MCPaths
    Delay <- MCDelay
    MaxCount <- MCMaxCount
    MaxAge <- MCMaxAge
    PoolSize <- MCPoolSize
    CallerMayAbort = TRUE
    MaxTime <- MCMaxTime
    NONE = NONE
SPECIFICATION Spec
INVARIANT DebouncerExists
