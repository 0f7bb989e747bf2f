--------------------------- MODULE MCNativeRuntime ---------------------------
EXTENDS NativeRuntime

\* Calls share only native_errors; one call exercises every interleaving of
\* caller, thread and demux, two are needed for the error-directory race.
MCOneCall == {1}
MCTwoCalls == {1, 2}
MCOutcomes == {"value", "null", "throw", "oom", "hang"}
\* Two lines: one can be queued while another is demultiplexed.
MCMaxLines == 2
\* The code caps at 100 files; the race is the same at any cap, so the cap
\* is 1 with the directory one file short of it.
MCErrorDirCap == 1
MCInitErrorFiles == 0

=============================================================================
