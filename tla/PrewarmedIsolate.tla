-------------------------- MODULE PrewarmedIsolate --------------------------
(***************************************************************************)
(* The pre-warmed NativeTS isolate of                                      *)
(* windmill-runtime-nativets/src/dedicated.rs.                             *)
(*                                                                         *)
(* Two actors per isolate:                                                 *)
(*  - the worker: the closure run by tokio::task::spawn_blocking.  It      *)
(*    creates the runtime, loads both modules, signals readiness, awaits   *)
(*    the args, runs main under a select with the memory-limit channel,    *)
(*    drops the runtime, waits for the log collector and sends the result; *)
(*  - the caller: the async owner of the PrewarmedIsolate and then of the  *)
(*    ExecutingIsolate (wait_ready, start_execution, wait, or a drop).     *)
(* They share three oneshot channels (ready, args, result) and the         *)
(* unbounded log channel whose sender lives in the runtime's OpState.      *)
(*                                                                         *)
(* Data is abstracted away: args are a token, a result is the outcome of   *)
(* main and the number of log lines that came with it.                     *)
(***************************************************************************)
EXTENDS Naturals

CONSTANTS
    Isolates,   \* identities of the isolates the caller may spawn
    Outcomes,   \* what main may do: a subset of {"ok","throw","oom","hang"}
    MaxLogs     \* bound on the log lines one isolate emits

ASSUME Outcomes \subseteq {"ok", "throw", "oom", "hang"} /\ Outcomes # {}
ASSUME MaxLogs \in Nat

VARIABLES
    wpc,            \* worker thread: where spawn_blocking's closure is
    cpc,            \* caller: which handle it holds
    readySent,      \* ready oneshot: ready_tx.send(()) happened
    readyRxTaken,   \* wait_ready has taken ready_rx (Option::take)
    argsSent,       \* args oneshot holds the args sent by start_execution
    outcome,        \* what the running main does (chosen when args arrive)
    logsEmitted,    \* lines op_log pushed into the log channel
    logQueue,       \* lines buffered in the unbounded log channel
    logsCollected,  \* lines appended by the log collector task
    logTxOpen,      \* the LogString sender (in the runtime's OpState) lives
    collectorDone,  \* the collector's recv loop has ended
    resultVal,      \* result oneshot: NoResult or the PrewarmedResult sent
    readyRet,       \* what the caller's wait_ready calls returned
    waitRet         \* what the caller's ExecutingIsolate::wait returned

isoVars == <<wpc, cpc, readySent, readyRxTaken, argsSent, outcome,
             logsEmitted, logQueue, logsCollected, logTxOpen, collectorDone,
             resultVal, readyRet, waitRet>>

NoResult == [status |-> "none", logs |-> 0]

WorkerStates == {"idle", "warming", "awaitArgs", "running", "collecting",
                 "done", "failed"}
CallerStates == {"none", "warm", "executing", "returned", "dropped"}

\* Workers whose thread has not returned yet (they hold a blocking thread).
Alive(i) == wpc[i] \in {"warming", "awaitArgs", "running", "collecting"}

\* The worker has returned and with it dropped every sender it owned.
Exited(i) == wpc[i] \in {"done", "failed"}

IsoTypeOK ==
    /\ wpc \in [Isolates -> WorkerStates]
    /\ cpc \in [Isolates -> CallerStates]
    /\ readySent \in [Isolates -> BOOLEAN]
    /\ readyRxTaken \in [Isolates -> BOOLEAN]
    /\ argsSent \in [Isolates -> BOOLEAN]
    /\ outcome \in [Isolates -> Outcomes \cup {"none"}]
    /\ logsEmitted \in [Isolates -> 0..MaxLogs]
    /\ logQueue \in [Isolates -> 0..MaxLogs]
    /\ logsCollected \in [Isolates -> 0..MaxLogs]
    /\ logTxOpen \in [Isolates -> BOOLEAN]
    /\ collectorDone \in [Isolates -> BOOLEAN]
    /\ resultVal \in [Isolates -> [status : Outcomes \cup {"none"},
                                   logs : 0..MaxLogs]]
    /\ readyRet \in [Isolates -> SUBSET {"ok", "err"}]
    /\ waitRet \in [Isolates -> {"none", "ok", "throw", "oom", "closed"}]

IsoInit ==
    /\ wpc = [i \in Isolates |-> "idle"]
    /\ cpc = [i \in Isolates |-> "none"]
    /\ readySent = [i \in Isolates |-> FALSE]
    /\ readyRxTaken = [i \in Isolates |-> FALSE]
    /\ argsSent = [i \in Isolates |-> FALSE]
    /\ outcome = [i \in Isolates |-> "none"]
    /\ logsEmitted = [i \in Isolates |-> 0]
    /\ logQueue = [i \in Isolates |-> 0]
    /\ logsCollected = [i \in Isolates |-> 0]
    /\ logTxOpen = [i \in Isolates |-> FALSE]
    /\ collectorDone = [i \in Isolates |-> FALSE]
    /\ resultVal = [i \in Isolates |-> NoResult]
    /\ readyRet = [i \in Isolates |-> {}]
    /\ waitRet = [i \in Isolates |-> "none"]

(***************************************************************************)
(* Caller operations.                                                      *)
(***************************************************************************)

\* PrewarmedIsolate::spawn: create the three oneshots and hand the closure
\* to spawn_blocking; return at once with every handle held.
Spawn(i) ==
    /\ cpc[i] = "none"
    /\ cpc' = [cpc EXCEPT ![i] = "warm"]
    /\ wpc' = [wpc EXCEPT ![i] = "warming"]
    /\ UNCHANGED <<readySent, readyRxTaken, argsSent, outcome, logsEmitted,
                   logQueue, logsCollected, logTxOpen, collectorDone,
                   resultVal, readyRet, waitRet>>

\* wait_ready: if ready_rx is still there, take it and await it (Ok once
\* ready was sent, Err once the sender was dropped unsent); if it was
\* already taken by an earlier call, return Ok at once.
WaitReady(i) ==
    /\ cpc[i] = "warm"
    /\ \/ /\ readyRxTaken[i]
          /\ readyRet' = [readyRet EXCEPT ![i] = @ \cup {"ok"}]
       \/ /\ ~readyRxTaken[i]
          /\ readySent[i]
          /\ readyRet' = [readyRet EXCEPT ![i] = @ \cup {"ok"}]
       \/ /\ ~readyRxTaken[i]
          /\ ~readySent[i] /\ Exited(i)
          /\ readyRet' = [readyRet EXCEPT ![i] = @ \cup {"err"}]
    /\ readyRxTaken' = [readyRxTaken EXCEPT ![i] = TRUE]
    /\ UNCHANGED <<wpc, cpc, readySent, argsSent, outcome, logsEmitted,
                   logQueue, logsCollected, logTxOpen, collectorDone,
                   resultVal, waitRet>>

\* start_execution consumes the instance: take args_tx and send the args
\* (an error, when the worker already dropped args_rx, is ignored), then
\* move result_rx and the join handle into an ExecutingIsolate.
StartExecution(i) ==
    /\ cpc[i] = "warm"
    /\ argsSent' = [argsSent EXCEPT ![i] = ~Exited(i)]
    /\ cpc' = [cpc EXCEPT ![i] = "executing"]
    /\ UNCHANGED <<wpc, readySent, readyRxTaken, outcome, logsEmitted,
                   logQueue, logsCollected, logTxOpen, collectorDone,
                   resultVal, readyRet, waitRet>>

\* Dropping a PrewarmedIsolate that never started: args_tx, ready_rx and
\* result_rx are dropped and the join handle is detached.
DropWarm(i) ==
    /\ cpc[i] = "warm"
    /\ cpc' = [cpc EXCEPT ![i] = "dropped"]
    /\ UNCHANGED <<wpc, readySent, readyRxTaken, argsSent, outcome,
                   logsEmitted, logQueue, logsCollected, logTxOpen,
                   collectorDone, resultVal, readyRet, waitRet>>

\* ExecutingIsolate::wait: await result_rx (Err "isolate result channel
\* closed" when the worker dropped result_tx unsent, without joining), then
\* join the thread and return the result.
Wait(i) ==
    /\ cpc[i] = "executing"
    /\ Exited(i)
    /\ waitRet' = [waitRet EXCEPT ![i] =
                      IF resultVal[i] = NoResult THEN "closed"
                      ELSE resultVal[i].status]
    /\ cpc' = [cpc EXCEPT ![i] = "returned"]
    /\ UNCHANGED <<wpc, readySent, readyRxTaken, argsSent, outcome,
                   logsEmitted, logQueue, logsCollected, logTxOpen,
                   collectorDone, resultVal, readyRet>>

\* Dropping an ExecutingIsolate (the job is cancelled or times out): the
\* receiver and the join handle go; nothing reaches the running isolate.
DropExecuting(i) ==
    /\ cpc[i] = "executing"
    /\ cpc' = [cpc EXCEPT ![i] = "dropped"]
    /\ UNCHANGED <<wpc, readySent, readyRxTaken, argsSent, outcome,
                   logsEmitted, logQueue, logsCollected, logTxOpen,
                   collectorDone, resultVal, readyRet, waitRet>>

(***************************************************************************)
(* Worker thread.                                                          *)
(***************************************************************************)

\* create_nativets_runtime, the current-thread runtime, load_client_module
\* and load_user_module.  The runtime's OpState holds the log sender from
\* creation on.  Any `?` failure returns Err and drops every sender.
WorkerWarm(i) ==
    /\ wpc[i] = "warming"
    /\ \/ /\ wpc' = [wpc EXCEPT ![i] = "awaitArgs"]
          /\ readySent' = [readySent EXCEPT ![i] = TRUE]
          /\ logTxOpen' = [logTxOpen EXCEPT ![i] = TRUE]
       \/ /\ wpc' = [wpc EXCEPT ![i] = "failed"]
          /\ UNCHANGED <<readySent, logTxOpen>>
    /\ UNCHANGED <<cpc, readyRxTaken, argsSent, outcome, logsEmitted,
                   logQueue, logsCollected, collectorDone, resultVal,
                   readyRet, waitRet>>

\* args_rx resolved with the args: install MainArgs, spawn the collector
\* and enter the select around execute_main.
WorkerRecvArgs(i) ==
    /\ wpc[i] = "awaitArgs"
    /\ argsSent[i]
    /\ \E o \in Outcomes : outcome' = [outcome EXCEPT ![i] = o]
    /\ wpc' = [wpc EXCEPT ![i] = "running"]
    /\ UNCHANGED <<cpc, readySent, readyRxTaken, argsSent, logsEmitted,
                   logQueue, logsCollected, logTxOpen, collectorDone,
                   resultVal, readyRet, waitRet>>

\* Mutant: args_rx's error is swallowed (unwrap_or_default) and main runs
\* with empty args although the caller dropped the isolate.
WorkerArgsClosedRunsMain(i) ==
    /\ wpc[i] = "awaitArgs"
    /\ ~argsSent[i]
    /\ cpc[i] # "warm"
    /\ \E o \in Outcomes : outcome' = [outcome EXCEPT ![i] = o]
    /\ wpc' = [wpc EXCEPT ![i] = "running"]
    /\ UNCHANGED <<cpc, readySent, readyRxTaken, argsSent, logsEmitted,
                   logQueue, logsCollected, logTxOpen, collectorDone,
                   resultVal, readyRet, waitRet>>

\* args_rx resolved with Err because args_tx was dropped unsent: return
\* Ok(()) without executing; the runtime and its log sender are dropped.
WorkerArgsClosed(i) ==
    /\ wpc[i] = "awaitArgs"
    /\ ~argsSent[i]
    /\ cpc[i] # "warm"
    /\ wpc' = [wpc EXCEPT ![i] = "done"]
    /\ logTxOpen' = [logTxOpen EXCEPT ![i] = FALSE]
    /\ UNCHANGED <<cpc, readySent, readyRxTaken, argsSent, outcome,
                   logsEmitted, logQueue, logsCollected, collectorDone,
                   resultVal, readyRet, waitRet>>

\* op_log: user code (top level while loading, or main) sends a line into
\* the unbounded log channel.
JsLog(i) ==
    /\ \/ wpc[i] = "warming"
       \/ wpc[i] = "running"
    /\ logsEmitted[i] < MaxLogs
    /\ logsEmitted' = [logsEmitted EXCEPT ![i] = @ + 1]
    /\ logQueue' = [logQueue EXCEPT ![i] = @ + 1]
    /\ UNCHANGED <<wpc, cpc, readySent, readyRxTaken, argsSent, outcome,
                   logsCollected, logTxOpen, collectorDone, resultVal,
                   readyRet, waitRet>>

\* Mutant: the runtime (and the log sender in its OpState) is dropped only
\* after log_handle.await.
JsFinishKeepsRuntime(i) ==
    /\ wpc[i] = "running"
    /\ outcome[i] # "hang"
    /\ wpc' = [wpc EXCEPT ![i] = "collecting"]
    /\ UNCHANGED <<cpc, readySent, readyRxTaken, argsSent, outcome,
                   logsEmitted, logQueue, logsCollected, logTxOpen,
                   collectorDone, resultVal, readyRet, waitRet>>

\* The select settles (execute_main returns, or the memory-limit channel
\* fires and execute_main is dropped); the result is mapped to Ok/Err and
\* drop(js_runtime) closes the log sender.  A main that never settles
\* ("hang") keeps the thread here: nothing in dedicated.rs terminates it.
JsFinish(i) ==
    /\ wpc[i] = "running"
    /\ outcome[i] # "hang"
    /\ wpc' = [wpc EXCEPT ![i] = "collecting"]
    /\ logTxOpen' = [logTxOpen EXCEPT ![i] = FALSE]
    /\ UNCHANGED <<cpc, readySent, readyRxTaken, argsSent, outcome,
                   logsEmitted, logQueue, logsCollected, collectorDone,
                   resultVal, readyRet, waitRet>>

\* Mutant: the collector counts a message on every poll, also when the
\* channel is empty.
CollectorRecvUnguarded(i) ==
    /\ wpc[i] \in {"running", "collecting"}
    /\ ~collectorDone[i]
    /\ logQueue' = [logQueue EXCEPT ![i] = @ - 1]
    /\ logsCollected' = [logsCollected EXCEPT ![i] = @ + 1]
    /\ UNCHANGED <<wpc, cpc, readySent, readyRxTaken, argsSent, outcome,
                   logsEmitted, logTxOpen, collectorDone, resultVal,
                   readyRet, waitRet>>

\* The log collector task: `while let Some(log) = log_receiver.recv()`.
CollectorRecv(i) ==
    /\ wpc[i] \in {"running", "collecting"}
    /\ ~collectorDone[i]
    /\ logQueue[i] > 0
    /\ logQueue' = [logQueue EXCEPT ![i] = @ - 1]
    /\ logsCollected' = [logsCollected EXCEPT ![i] = @ + 1]
    /\ UNCHANGED <<wpc, cpc, readySent, readyRxTaken, argsSent, outcome,
                   logsEmitted, logTxOpen, collectorDone, resultVal,
                   readyRet, waitRet>>

\* Mutant: the collector stops as soon as the channel is momentarily empty
\* (a try_recv loop) instead of when every sender is gone.
CollectorEndWhenEmpty(i) ==
    /\ wpc[i] \in {"running", "collecting"}
    /\ ~collectorDone[i]
    /\ logQueue[i] = 0
    /\ collectorDone' = [collectorDone EXCEPT ![i] = TRUE]
    /\ UNCHANGED <<wpc, cpc, readySent, readyRxTaken, argsSent, outcome,
                   logsEmitted, logQueue, logsCollected, logTxOpen,
                   resultVal, readyRet, waitRet>>

\* recv() yields None: the channel is empty and every sender is gone.
CollectorEnd(i) ==
    /\ wpc[i] \in {"running", "collecting"}
    /\ ~collectorDone[i]
    /\ logQueue[i] = 0
    /\ ~logTxOpen[i]
    /\ collectorDone' = [collectorDone EXCEPT ![i] = TRUE]
    /\ UNCHANGED <<wpc, cpc, readySent, readyRxTaken, argsSent, outcome,
                   logsEmitted, logQueue, logsCollected, logTxOpen,
                   resultVal, readyRet, waitRet>>

\* log_handle.await, then result_tx.send (ignored if the receiver is gone),
\* then return Ok(()).
WorkerSendResult(i) ==
    /\ wpc[i] = "collecting"
    /\ collectorDone[i]
    /\ resultVal' = [resultVal EXCEPT ![i] =
                        [status |-> outcome[i], logs |-> logsCollected[i]]]
    /\ wpc' = [wpc EXCEPT ![i] = "done"]
    /\ UNCHANGED <<cpc, readySent, readyRxTaken, argsSent, outcome,
                   logsEmitted, logQueue, logsCollected, logTxOpen,
                   collectorDone, readyRet, waitRet>>

WorkerNext(i) ==
    \/ WorkerWarm(i)
    \/ WorkerRecvArgs(i)
    \/ WorkerArgsClosed(i)
    \/ JsLog(i)
    \/ JsFinish(i)
    \/ CollectorRecv(i)
    \/ CollectorEnd(i)
    \/ WorkerSendResult(i)

CallerNext(i) ==
    \/ Spawn(i)
    \/ WaitReady(i)
    \/ StartExecution(i)
    \/ DropWarm(i)
    \/ Wait(i)
    \/ DropExecuting(i)

IsoNext == \E i \in Isolates : WorkerNext(i) \/ CallerNext(i)

\* The worker thread, the collector task and the runtime driving main are
\* scheduled by tokio; each keeps making progress while it can.  JsLog is
\* user code and need not happen.
WorkerFairness ==
    \A i \in Isolates :
        /\ WF_isoVars(WorkerWarm(i))
        /\ WF_isoVars(WorkerRecvArgs(i))
        /\ WF_isoVars(WorkerArgsClosed(i))
        /\ WF_isoVars(JsFinish(i))
        /\ WF_isoVars(CollectorRecv(i))
        /\ WF_isoVars(CollectorEnd(i))
        /\ WF_isoVars(WorkerSendResult(i))

IsoSpec == IsoInit /\ [][IsoNext]_isoVars /\ WorkerFairness

(***************************************************************************)
(* Properties.                                                             *)
(***************************************************************************)

\* A result handed to the caller by wait() carries every line user code
\* logged, top-level lines of the load included: the worker drops the
\* runtime (closing the log sender) before it awaits the collector, and
\* the collector only stops on a closed, drained channel.
ResultCarriesAllLogs ==
    \A i \in Isolates :
        waitRet[i] \in {"ok", "throw", "oom"} =>
            resultVal[i].logs = logsEmitted[i]


\* A pre-warmed isolate dropped before start_execution leaves no worker
\* behind: closing args_tx makes the blocked args_rx.await return and the
\* thread exit without running main (spec 4.7, 8.9).
DroppedWarmIsolateExits ==
    \A i \in Isolates :
        (cpc[i] = "dropped" /\ ~argsSent[i]) ~> Exited(i)

\* Once args are sent, the worker thread finishes (so wait() can return)
\* unless main itself never settles: the collector cannot wait forever on
\* a log sender the worker still holds.
ExecutionCompletes ==
    \A i \in Isolates :
        (cpc[i] = "executing" /\ argsSent[i]) ~>
            (Exited(i) \/ outcome[i] = "hang")

\* Dropping the handle of an executing isolate (job cancellation or
\* timeout) eventually stops its thread (spec 3, 5 and 8.9: a drop guard
\* terminates V8 when the owning task is cancelled).
CancelledIsolateStops ==
    \A i \in Isolates :
        (cpc[i] = "dropped" /\ argsSent[i]) ~> ~Alive(i)

=============================================================================
