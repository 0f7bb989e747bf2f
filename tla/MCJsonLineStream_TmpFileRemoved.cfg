\* The temporary file after a failed call or a finished task.
CONSTANTS
    Formats <- MCFormats
    MaxChunks <- MCMaxChunks
    MaxBatches <- MCMaxBatches
    ChanCap <- MCChanCap
SPECIFICATION JsonSpec
INVARIANT TmpFileRemoved
CHECK_DEADLOCK FALSE
