\* Cancelling calls: does the isolate always stop?
CONSTANTS
    Invocations <- MCOneCall
    Outcomes <- MCOutcomes
    MaxLines <- MCMaxLines
    ErrorDirCap <- MCErrorDirCap
    InitErrorFiles <- MCInitErrorFiles
SPECIFICATION Spec
PROPERTY CancelStopsIsolate
CHECK_DEADLOCK FALSE
