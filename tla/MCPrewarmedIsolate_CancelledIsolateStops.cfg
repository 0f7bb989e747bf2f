\* Expected violation: see README.md, section Findings.
CONSTANTS
    Isolates <- MCIsolates
    Outcomes <- MCOutcomes
    MaxLogs <- MCMaxLogs
SPECIFICATION IsoSpec
PROPERTY CancelledIsolateStops
CHECK_DEADLOCK FALSE
