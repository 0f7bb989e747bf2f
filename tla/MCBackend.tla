----------------------------- MODULE MCBackend -----------------------------
(***************************************************************************)
(* The backend components with liveness properties, checked in one run as *)
(* a disjoint union: `part` picks one component in the initial state and   *)
(* only that one moves, the others' variables staying at their initial    *)
(* state.  The components share no state:                                  *)
(*   debounce  -- the debounce engine (Debounce), rows under locks;        *)
(*   trigger   -- the postgres trigger API handlers (PostgresTrigger);     *)
(*   prewarmed -- the pre-warmed isolate (PrewarmedIsolate);               *)
(*   native    -- eval_fetch_timeout (NativeRuntime).                      *)
(* Each fairness condition is stated for its own part (WF of an action     *)
(* conjoined with `part = ...`), so that no component's fairness rules out *)
(* another's behaviours: the debounce clock, for one, would otherwise be   *)
(* enabled forever in the isolate parts.  Clashing variables are renamed: *)
(* row becomes drow (debounce) and trow (trigger); cpc, outcome and        *)
(* logTxOpen take a p (prewarmed) or n (native) prefix.  No symmetry is    *)
(* declared: the run checks liveness.                                      *)
(***************************************************************************)
EXTENDS Naturals, Sequences

CONSTANTS
    Requests,  \* concurrent trigger API requests (model values)
    Names,     \* slot and publication names (model values)
    NONE

VARIABLES
    part,
    drow, lock, nextBatch, conns, now, jstate, pc, jkey, prevOf, undo, sched,
    member, debouncedBy, merged,
    slots, pubs, trow, vouched, rop, rpc, rslot, rpub, rin, rexists, rall,
    used, slotRemoved, pubRemoved,
    wpc, pcpc, readySent, readyRxTaken, argsSent, poutcome, logsEmitted,
    logQueue, logsCollected, plogTxOpen, collectorDone, resultVal, readyRet,
    waitRet,
    ncpc, tpc, handle, terminated, noutcome, selected, logQ, nlogTxOpen,
    demuxDone, logsOut, logsIn, streamOut, streamIn, seenCount, errFiles, ret

dVars == <<drow, lock, nextBatch, conns, now, jstate, pc, jkey, prevOf, undo,
           sched, member, debouncedBy, merged>>
tVars == <<slots, pubs, trow, vouched, rop, rpc, rslot, rpub, rin, rexists,
           rall, used, slotRemoved, pubRemoved>>
preVars == <<wpc, pcpc, readySent, readyRxTaken, argsSent, poutcome,
             logsEmitted, logQueue, logsCollected, plogTxOpen, collectorDone,
             resultVal, readyRet, waitRet>>
natVars == <<ncpc, tpc, handle, terminated, noutcome, selected, logQ,
             nlogTxOpen, demuxDone, logsOut, logsIn, streamOut, streamIn,
             seenCount, errFiles, ret>>
allVars == <<part, dVars, tVars, preVars, natVars>>

\* Three submissions on one key cover displacement chains, a reset (the
\* third submission of a batch exceeds max_total_debounces_amount = 1) and
\* the worker racing a later push; the pool is twice the number of
\* concurrent pushers (debounce_test.rs:2485-2487); callers may roll back.
Deb == INSTANCE Debounce
         WITH Jobs <- {1, 2, 3}, Keys <- {"k"}, Paths <- {"push", "post"},
              Delay <- 1, MaxCount <- 1, MaxAge <- 2, PoolSize <- 6,
              CallerMayAbort <- TRUE, MaxTime <- 3, row <- drow

\* Two requests running any handler, two names: enough for a handler to
\* interleave with any other, and for a generated name beside a reused one.
Trg == INSTANCE PostgresTrigger WITH row <- trow

\* One isolate against a returning, a throwing and a hanging main; two log
\* lines, so that one can be queued while another is collected.
Pre == INSTANCE PrewarmedIsolate
         WITH Isolates <- {1}, Outcomes <- {"ok", "throw", "hang"},
              MaxLogs <- 2, cpc <- pcpc, outcome <- poutcome,
              logTxOpen <- plogTxOpen

\* One call against every outcome of main; the error-directory cap is 1
\* with the directory empty (the race needs two calls and is not checked).
Eval == INSTANCE NativeRuntime
         WITH Invocations <- {1},
              Outcomes <- {"value", "null", "throw", "oom", "hang"},
              MaxLines <- 2, ErrorDirCap <- 1, InitErrorFiles <- 0,
              cpc <- ncpc, outcome <- noutcome, logTxOpen <- nlogTxOpen

BackendInit ==
    /\ part \in {"debounce", "trigger", "prewarmed", "native"}
    /\ Deb!Init /\ Trg!Init /\ Pre!IsoInit /\ Eval!Init

\* Every trigger request has returned and the API serves no more (debounce
\* has its own final stutter, Quiescent); any other state of these two
\* parts without a successor is a deadlock.
TriggersReturned ==
    /\ part = "trigger"
    /\ \A r \in Requests : rpc[r] \in {"done", "err"}
    /\ UNCHANGED allVars

\* The caller of the isolate API may stop using it in any state, so every
\* state of those parts may be final.
CallerStops ==
    /\ part \in {"prewarmed", "native"}
    /\ UNCHANGED allVars

\* A step of one part, the other parts' variables unchanged.
OnDebounce(A) == part = "debounce" /\ A /\ UNCHANGED <<part, tVars, preVars, natVars>>
OnTrigger(A) == part = "trigger" /\ A /\ UNCHANGED <<part, dVars, preVars, natVars>>
OnPrewarmed(A) == part = "prewarmed" /\ A /\ UNCHANGED <<part, dVars, tVars, natVars>>
OnNative(A) == part = "native" /\ A /\ UNCHANGED <<part, dVars, tVars, preVars>>

BackendNext ==
    \/ OnDebounce(Deb!Next)
    \/ OnTrigger(Trg!Next)
    \/ TriggersReturned
    \/ OnPrewarmed(Pre!IsoNext)
    \/ OnNative(Eval!Next)
    \/ CallerStops

\* Debounce.Fairness, Pre!WorkerFairness and the fairness of the blocking
\* thread of eval_fetch_timeout, each for its own part.
BackendFairness ==
    /\ \A j \in {1, 2, 3} :
          /\ WF_allVars(OnDebounce(Deb!Upsert(j)))
          /\ WF_allVars(OnDebounce(Deb!CompletePrev(j)))
          /\ WF_allVars(OnDebounce(Deb!Record(j)))
          /\ WF_allVars(OnDebounce(Deb!CommitPush(j)))
          /\ WF_allVars(OnDebounce(Deb!PullAndAccumulate(j)))
          /\ WF_allVars(OnDebounce(Deb!Finish(j)))
    /\ WF_allVars(OnDebounce(Deb!Tick))
    /\ \A i \in {1} :
          /\ WF_allVars(OnPrewarmed(Pre!WorkerWarm(i)))
          /\ WF_allVars(OnPrewarmed(Pre!WorkerRecvArgs(i)))
          /\ WF_allVars(OnPrewarmed(Pre!WorkerArgsClosed(i)))
          /\ WF_allVars(OnPrewarmed(Pre!JsFinish(i)))
          /\ WF_allVars(OnPrewarmed(Pre!CollectorRecv(i)))
          /\ WF_allVars(OnPrewarmed(Pre!CollectorEnd(i)))
          /\ WF_allVars(OnPrewarmed(Pre!WorkerSendResult(i)))
          /\ WF_allVars(OnNative(Eval!ThreadNext(i)))

BackendSpec == BackendInit /\ [][BackendNext]_allVars /\ BackendFairness

(***************************************************************************)
(* The properties of the components, stated in their modules.             *)
(***************************************************************************)

\* The four components' variables keep their types.
BackendTypeOK ==
    Deb!DebounceTypeOK /\ Trg!PgTypeOK /\ Pre!IsoTypeOK /\ Eval!NativeTypeOK

\* Of the committed submissions of a debounce batch at most one is queued.
OneQueuedSurvivorPerBatch == Deb!OneQueuedSurvivorPerBatch

\* The debounce key row names a job that exists.
KeyRowNamesCommittedJob == Deb!KeyRowNamesCommittedJob

\* Every committed submission's args reach an execution.
ArgsDelivered == Deb!ArgsDelivered

\* Every started push-time debounce finishes.

\* A trigger row written by a generated create or an update names a slot
\* and publication that exist, unless a drop request removed them.
VouchedTargetsExist == Trg!VouchedTargetsExist

\* wait() on a pre-warmed isolate returns a result that carries every line
\* user code logged (the worker drops the runtime before awaiting the log
\* collector).
ResultCarriesAllLogs == Pre!ResultCarriesAllLogs

\* A pre-warmed isolate dropped before start_execution ends its worker.
DroppedWarmIsolateExits == Pre!DroppedWarmIsolateExits

\* Once args are sent, the worker finishes unless main never settles.
ExecutionCompletes == Pre!ExecutionCompletes

\* eval_fetch_timeout returning Ok has merged the whole result stream.
StreamMergedIntoResult == Eval!StreamMergedIntoResult

\* eval_fetch_timeout returning main's value or error has forwarded every
\* user log line.
LogsForwardedOnReturn == Eval!LogsForwardedOnReturn

\* A cancelled call whose drop guard found the isolate handle stops its
\* blocking thread.
GuardedCancelStops == Eval!GuardedCancelStops

=============================================================================
