---------------------------- MODULE NativeRuntime ----------------------------
(***************************************************************************)
(* eval_fetch_timeout (windmill-runtime-nativets/src/lib.rs): one call per *)
(* invocation.  The async caller installs an IsolateDropGuard over a       *)
(* shared Option<IsolateHandle> and awaits a spawn_blocking thread.  That  *)
(* thread creates the runtime, registers the isolate handle, then, on its  *)
(* own current-thread tokio runtime, runs a demux task over the script's  *)
(* log channel and selects between eval_fetch and the memory-limit signal. *)
(* Script output is abstracted to a sequence of line kinds: "log" (a user  *)
(* line) or "stream" (a WM_STREAM: chunk).  Concurrent invocations share   *)
(* only the native_errors directory that write_error_expr caps.           *)
(***************************************************************************)
EXTENDS Naturals, Sequences

CONSTANTS
    Invocations,   \* concurrent eval_fetch_timeout calls
    Outcomes,      \* how main ends: "value", "null", "throw", "oom", "hang"
    MaxLines,      \* bound on the lines a script writes
    ErrorDirCap,   \* the `dir_entries >= 100` cap of write_error_expr
    InitErrorFiles \* files already in native_errors

ASSUME Outcomes \subseteq {"value", "null", "throw", "oom", "hang"}
ASSUME MaxLines \in Nat /\ InitErrorFiles \in 0..ErrorDirCap

VARIABLES
    cpc,        \* caller: idle | awaiting | returned | failed_early | cancelled
    tpc,        \* blocking thread: none | creating | running | errCount |
                \*   errWrite | joining | exited
    handle,     \* the shared Option<IsolateHandle> holds the isolate
    terminated, \* terminate_execution was called on the isolate
    outcome,    \* how main would end if left alone
    selected,   \* what the select! returned: none | ok | err | oom
    logQ,       \* log_receiver: lines not yet taken by the demux task
    logTxOpen,  \* the LogString sender (owned by js_runtime) is alive
    demuxDone,  \* the demux task returned
    logsOut,    \* user lines sent on append_logs_sender
    logsIn,     \* user lines the script wrote
    streamOut,  \* chunks sent on result_stream_sender and kept in result_stream
    streamIn,   \* chunks the script wrote
    seenCount,  \* the entry count write_error_expr read
    errFiles,   \* files in native_errors
    ret         \* what the call returned

vars == <<cpc, tpc, handle, terminated, outcome, selected, logQ, logTxOpen,
          demuxDone, logsOut, logsIn, streamOut, streamIn, seenCount,
          errFiles, ret>>

NoRet == [ok |-> FALSE, val |-> "none", stream |-> FALSE]

RetVals == [ok : BOOLEAN, val : {"none", "value", "null", "stream", "err"},
            stream : BOOLEAN]

NativeTypeOK ==
    /\ cpc \in [Invocations -> {"idle", "awaiting", "returned",
                                "failed_early", "cancelled"}]
    /\ tpc \in [Invocations -> {"none", "creating", "running", "errCount",
                                "errWrite", "joining", "exited"}]
    /\ handle \in [Invocations -> BOOLEAN]
    /\ terminated \in [Invocations -> BOOLEAN]
    /\ outcome \in [Invocations -> Outcomes \cup {"none"}]
    /\ selected \in [Invocations -> {"none", "ok", "err", "oom"}]
    /\ logQ \in [Invocations -> Seq({"log", "stream"})]
    /\ logTxOpen \in [Invocations -> BOOLEAN]
    /\ demuxDone \in [Invocations -> BOOLEAN]
    /\ logsOut \in [Invocations -> 0..MaxLines]
    /\ logsIn \in [Invocations -> 0..MaxLines]
    /\ streamOut \in [Invocations -> 0..MaxLines]
    /\ streamIn \in [Invocations -> 0..MaxLines]
    /\ seenCount \in [Invocations -> Nat]
    /\ errFiles \in Nat
    /\ ret \in [Invocations -> RetVals]

Init ==
    /\ cpc = [i \in Invocations |-> "idle"]
    /\ tpc = [i \in Invocations |-> "none"]
    /\ handle = [i \in Invocations |-> FALSE]
    /\ terminated = [i \in Invocations |-> FALSE]
    /\ outcome = [i \in Invocations |-> "none"]
    /\ selected = [i \in Invocations |-> "none"]
    /\ logQ = [i \in Invocations |-> <<>>]
    /\ logTxOpen = [i \in Invocations |-> FALSE]
    /\ demuxDone = [i \in Invocations |-> FALSE]
    /\ logsOut = [i \in Invocations |-> 0]
    /\ logsIn = [i \in Invocations |-> 0]
    /\ streamOut = [i \in Invocations |-> 0]
    /\ streamIn = [i \in Invocations |-> 0]
    /\ seenCount = [i \in Invocations |-> 0]
    /\ errFiles = InitErrorFiles
    /\ ret = [i \in Invocations |-> NoRet]

(***************************************************************************)
(* The async caller.                                                       *)
(***************************************************************************)

\* parse_deno_signature fails, or the script asks for a proxy without the
\* enterprise feature: the call returns before any thread is spawned.
StartFails(i) ==
    /\ cpc[i] = "idle"
    /\ cpc' = [cpc EXCEPT ![i] = "failed_early"]
    /\ UNCHANGED <<tpc, handle, terminated, outcome, selected, logQ,
                   logTxOpen, demuxDone, logsOut, logsIn, streamOut,
                   streamIn, seenCount, errFiles, ret>>

\* The guard is installed, the log and stream tasks are spawned, and the
\* blocking thread starts; the caller awaits it.
Start(i) ==
    /\ cpc[i] = "idle"
    /\ cpc' = [cpc EXCEPT ![i] = "awaiting"]
    /\ tpc' = [tpc EXCEPT ![i] = "creating"]
    /\ UNCHANGED <<handle, terminated, outcome, selected, logQ, logTxOpen,
                   demuxDone, logsOut, logsIn, streamOut, streamIn,
                   seenCount, errFiles, ret>>

\* result_f.await completes.
Return(i) ==
    /\ cpc[i] = "awaiting"
    /\ tpc[i] = "exited"
    /\ cpc' = [cpc EXCEPT ![i] = "returned"]
    /\ UNCHANGED <<tpc, handle, terminated, outcome, selected, logQ,
                   logTxOpen, demuxDone, logsOut, logsIn, streamOut,
                   streamIn, seenCount, errFiles, ret>>

\* The job is cancelled: the future is dropped and IsolateDropGuard::drop
\* takes the handle, if one is registered, and terminates the isolate.
Cancel(i) ==
    /\ cpc[i] = "awaiting"
    /\ cpc' = [cpc EXCEPT ![i] = "cancelled"]
    /\ terminated' = [terminated EXCEPT ![i] = @ \/ handle[i]]
    /\ handle' = [handle EXCEPT ![i] = FALSE]
    /\ UNCHANGED <<tpc, outcome, selected, logQ, logTxOpen, demuxDone,
                   logsOut, logsIn, streamOut, streamIn, seenCount,
                   errFiles, ret>>

(***************************************************************************)
(* The blocking thread.                                                    *)
(***************************************************************************)

\* create_nativets_runtime fails: the closure returns its error.
CreateFails(i) ==
    /\ tpc[i] = "creating"
    /\ tpc' = [tpc EXCEPT ![i] = "exited"]
    /\ ret' = [ret EXCEPT ![i] = [ok |-> FALSE, val |-> "err",
                                  stream |-> FALSE]]
    /\ UNCHANGED <<cpc, handle, terminated, outcome, selected, logQ,
                   logTxOpen, demuxDone, logsOut, logsIn, streamOut,
                   streamIn, seenCount, errFiles>>

\* The runtime (and its log sender) exists, and only now is the isolate
\* handle stored where the guard can see it.
CreateRuntime(i) ==
    /\ tpc[i] = "creating"
    /\ tpc' = [tpc EXCEPT ![i] = "running"]
    /\ handle' = [handle EXCEPT ![i] = TRUE]
    /\ logTxOpen' = [logTxOpen EXCEPT ![i] = TRUE]
    /\ \E o \in Outcomes : outcome' = [outcome EXCEPT ![i] = o]
    /\ UNCHANGED <<cpc, terminated, selected, logQ, demuxDone, logsOut,
                   logsIn, streamOut, streamIn, seenCount, errFiles, ret>>

\* The script writes a line through op_log.
JsLine(i) ==
    /\ tpc[i] = "running"
    /\ logsIn[i] + streamIn[i] < MaxLines
    /\ \E k \in {"log", "stream"} :
          /\ logQ' = [logQ EXCEPT ![i] = Append(@, k)]
          /\ logsIn' = [logsIn EXCEPT ![i] = IF k = "log" THEN @ + 1 ELSE @]
          /\ streamIn' = [streamIn EXCEPT ![i] = IF k = "stream" THEN @ + 1
                                                 ELSE @]
    /\ UNCHANGED <<cpc, tpc, handle, terminated, outcome, selected,
                   logTxOpen, demuxDone, logsOut, streamOut, seenCount,
                   errFiles, ret>>

\* Mutant: the demux task sends every line to append_logs.
DemuxNoPrefix(i) ==
    /\ tpc[i] \in {"running", "joining"}
    /\ logQ[i] # <<>>
    /\ logQ' = [logQ EXCEPT ![i] = Tail(@)]
    /\ logsOut' = [logsOut EXCEPT ![i] = @ + 1]
    /\ UNCHANGED <<cpc, tpc, handle, terminated, outcome, selected,
                   logTxOpen, demuxDone, logsIn, streamIn, streamOut,
                   seenCount, errFiles, ret>>

\* The demux task: a WM_STREAM: line goes to the result stream (and into
\* result_stream), any other line to append_logs.
Demux(i) ==
    /\ tpc[i] \in {"running", "joining"}
    /\ logQ[i] # <<>>
    /\ logQ' = [logQ EXCEPT ![i] = Tail(@)]
    /\ logsOut' = [logsOut EXCEPT ![i] = IF Head(logQ[i]) = "log" THEN @ + 1
                                         ELSE @]
    /\ streamOut' = [streamOut EXCEPT ![i] = IF Head(logQ[i]) = "stream"
                                             THEN @ + 1 ELSE @]
    /\ UNCHANGED <<cpc, tpc, handle, terminated, outcome, selected,
                   logTxOpen, demuxDone, logsIn, streamIn, seenCount,
                   errFiles, ret>>

\* recv() yields None once js_runtime is dropped and the queue is drained.
DemuxEnd(i) ==
    /\ tpc[i] = "joining"
    /\ logQ[i] = <<>>
    /\ ~logTxOpen[i]
    /\ ~demuxDone[i]
    /\ demuxDone' = [demuxDone EXCEPT ![i] = TRUE]
    /\ UNCHANGED <<cpc, tpc, handle, terminated, outcome, selected, logQ,
                   logTxOpen, logsOut, logsIn, streamOut, streamIn,
                   seenCount, errFiles, ret>>

\* After the select!: the handle is cleared and js_runtime dropped.
EndSelect(i, sel, next) ==
    /\ selected' = [selected EXCEPT ![i] = sel]
    /\ handle' = [handle EXCEPT ![i] = FALSE]
    /\ logTxOpen' = [logTxOpen EXCEPT ![i] = FALSE]
    /\ tpc' = [tpc EXCEPT ![i] = next]

\* eval_fetch returns the value main produced.
MainReturns(i) ==
    /\ tpc[i] = "running"
    /\ outcome[i] \in {"value", "null"}
    /\ ~terminated[i]
    /\ EndSelect(i, "ok", "joining")
    /\ UNCHANGED <<cpc, terminated, outcome, logQ, demuxDone, logsOut,
                   logsIn, streamOut, streamIn, seenCount, errFiles, ret>>

\* Mutant: terminate_execution does not interrupt the running script.
MainThrowsUninterrupted(i) ==
    /\ tpc[i] = "running"
    /\ outcome[i] = "throw"
    /\ tpc' = [tpc EXCEPT ![i] = "errCount"]
    /\ UNCHANGED <<cpc, handle, terminated, outcome, selected, logQ,
                   logTxOpen, demuxDone, logsOut, logsIn, streamOut,
                   streamIn, seenCount, errFiles, ret>>

\* main throws, or terminate_execution aborts it: eval_fetch calls
\* write_error_expr before returning the error.
MainThrows(i) ==
    /\ tpc[i] = "running"
    /\ outcome[i] = "throw" \/ terminated[i]
    /\ tpc' = [tpc EXCEPT ![i] = "errCount"]
    /\ UNCHANGED <<cpc, handle, terminated, outcome, selected, logQ,
                   logTxOpen, demuxDone, logsOut, logsIn, streamOut,
                   streamIn, seenCount, errFiles, ret>>

\* write_error_expr counts the entries of native_errors ...
ErrCount(i) ==
    /\ tpc[i] = "errCount"
    /\ seenCount' = [seenCount EXCEPT ![i] = errFiles]
    /\ tpc' = [tpc EXCEPT ![i] = "errWrite"]
    /\ UNCHANGED <<cpc, handle, terminated, outcome, selected, logQ,
                   logTxOpen, demuxDone, logsOut, logsIn, streamOut,
                   streamIn, errFiles, ret>>

\* ... and writes <job>.js unless that count reached the cap; eval_fetch
\* then returns Err, which the select! yields as Ok(Err(e)).
ErrWrite(i) ==
    /\ tpc[i] = "errWrite"
    /\ errFiles' = IF seenCount[i] < ErrorDirCap THEN errFiles + 1
                   ELSE errFiles
    /\ EndSelect(i, "err", "joining")
    /\ UNCHANGED <<cpc, terminated, outcome, logQ, demuxDone, logsOut,
                   logsIn, streamOut, streamIn, seenCount, ret>>

\* The near-heap-limit callback fires: the select! returns the memory
\* error, the closure returns without awaiting the demux task, and the
\* current-thread runtime is dropped with it.
MemoryLimit(i) ==
    /\ tpc[i] = "running"
    /\ outcome[i] = "oom"
    /\ EndSelect(i, "oom", "exited")
    /\ ret' = [ret EXCEPT ![i] = [ok |-> FALSE, val |-> "err",
                                  stream |-> FALSE]]
    /\ UNCHANGED <<cpc, terminated, outcome, logQ, demuxDone, logsOut,
                   logsIn, streamOut, streamIn, seenCount, errFiles>>

\* Mutant: the Ok(Err(e)) arm is lost and main's error is merged as a value.
MergeResultIgnoringError(i) ==
    IF streamOut[i] = 0
    THEN [ok |-> TRUE, val |-> outcome[i], stream |-> FALSE]
    ELSE [ok |-> TRUE, stream |-> TRUE,
          val |-> IF outcome[i] = "null" THEN "stream" ELSE outcome[i]]

\* handle.await, then the merge: a null result with a stream becomes the
\* stream's content, and had_result_stream is set when a stream exists.
MergeResult(i) ==
    IF selected[i] = "err" THEN [ok |-> FALSE, val |-> "err", stream |-> FALSE]
    ELSE IF streamOut[i] = 0
         THEN [ok |-> TRUE, val |-> outcome[i], stream |-> FALSE]
    ELSE [ok |-> TRUE, stream |-> TRUE,
          val |-> IF outcome[i] = "null" THEN "stream" ELSE outcome[i]]

\* Mutant: the result is built without awaiting the demux task.
JoinEarly(i) ==
    /\ tpc[i] = "joining"
    /\ ret' = [ret EXCEPT ![i] = MergeResult(i)]
    /\ tpc' = [tpc EXCEPT ![i] = "exited"]
    /\ UNCHANGED <<cpc, handle, terminated, outcome, selected, logQ,
                   logTxOpen, demuxDone, logsOut, logsIn, streamOut,
                   streamIn, seenCount, errFiles>>

Join(i) ==
    /\ tpc[i] = "joining"
    /\ demuxDone[i]
    /\ ret' = [ret EXCEPT ![i] = MergeResult(i)]
    /\ tpc' = [tpc EXCEPT ![i] = "exited"]
    /\ UNCHANGED <<cpc, handle, terminated, outcome, selected, logQ,
                   logTxOpen, demuxDone, logsOut, logsIn, streamOut,
                   streamIn, seenCount, errFiles>>

CallerNext(i) == StartFails(i) \/ Start(i) \/ Return(i) \/ Cancel(i)

ThreadNext(i) ==
    \/ CreateFails(i) \/ CreateRuntime(i) \/ MainReturns(i)
    \/ MainThrows(i) \/ ErrCount(i) \/ ErrWrite(i) \/ MemoryLimit(i)
    \/ Demux(i) \/ DemuxEnd(i) \/ Join(i)

Next == \E i \in Invocations : CallerNext(i) \/ ThreadNext(i) \/ JsLine(i)

\* The blocking thread and the tasks on its runtime run whenever they can;
\* neither the caller nor the script has to act.
Spec == Init /\ [][Next]_vars /\ \A i \in Invocations : WF_vars(ThreadNext(i))

(***************************************************************************)
(* Properties.                                                             *)
(***************************************************************************)

\* Result/stream merge (spec 10): a call that returns Ok has seen the whole
\* stream -- had_result_stream is set exactly when main wrote a chunk, and
\* a null main with chunks returns the stream's content -- although the
\* demux task runs concurrently with the script and the select!.
StreamMergedIntoResult ==
    \A i \in Invocations : cpc[i] = "returned" /\ ret[i].ok =>
        /\ ret[i].stream = (streamIn[i] > 0)
        /\ streamOut[i] = streamIn[i]
        /\ (outcome[i] = "null" /\ streamIn[i] > 0 => ret[i].val = "stream")

\* When the call returns with main's value or error, every user line the
\* script wrote has been handed to append_logs.
LogsForwardedOnReturn ==
    \A i \in Invocations :
        cpc[i] = "returned" /\ selected[i] \in {"ok", "err"} =>
            logsOut[i] = logsIn[i]

\* A cancelled call whose drop guard found the isolate handle stops its
\* thread, whatever the script does.
GuardedCancelStops ==
    \A i \in Invocations :
        cpc[i] = "cancelled" /\ terminated[i] ~> tpc[i] = "exited"

\* Cancellation (spec 9, and the guard's doc comment): dropping the call's
\* future terminates the isolate, so its thread ends.
CancelStopsIsolate ==
    \A i \in Invocations : cpc[i] = "cancelled" ~> tpc[i] = "exited"


=============================================================================
