------------------------------ MODULE Debounce ------------------------------
(***************************************************************************)
(* The debouncing engine (spec.md 4.2-4.5): the debounce_key store, the    *)
(* batch-membership table, the two hook points and the accumulator run by  *)
(* the worker before a survivor executes.  The engine's code (jobs_ee) is  *)
(* not in this source tree; the model follows spec.md and the observable   *)
(* behaviour pinned down by windmill-queue/tests/debounce_test.rs.         *)
(*                                                                         *)
(* Every submission is its own process.  A push-time submission runs      *)
(* inside the caller's open transaction: the upsert takes the row lock on *)
(* (workspace, key) until that transaction ends, the previous survivor is *)
(* completed through add_completed_job on a second pool connection (its   *)
(* own, immediately committed transaction), then the membership row is    *)
(* inserted and the caller commits -- or rolls back.  A post-preprocessing *)
(* submission owns one transaction that does all of it at once.            *)
(***************************************************************************)
EXTENDS Naturals, FiniteSets

CONSTANTS
    Jobs,           \* job ids that may be submitted
    Keys,           \* resolved debounce keys (workspace included)
    Paths,          \* hook points used: subset of {"push", "post"}
    Delay,          \* debounce_delay_s (> 0: debouncing is on)
    MaxCount,       \* max_total_debounces_amount
    MaxAge,         \* max_total_debouncing_time
    PoolSize,       \* connections in the database pool
    CallerMayAbort, \* may a push-time caller roll its transaction back?
    MaxTime,        \* no submission at or after this time
    NONE

ASSUME Paths \subseteq {"push", "post"} /\ Paths # {}
ASSUME Delay \in Nat \ {0} /\ MaxCount \in Nat /\ MaxAge \in Nat
ASSUME PoolSize \in Nat \ {0} /\ CallerMayAbort \in BOOLEAN
ASSUME MaxTime \in Nat /\ NONE \notin Jobs

VARIABLES
    row,         \* debounce_key: key -> NONE or the record of the batch
    lock,        \* row lock on the key: NONE or the job whose tx holds it
    nextBatch,   \* the sequence batch ids are drawn from
    conns,       \* pool connections in use
    now,         \* wall clock
    jstate,      \* job -> new | pushing | queued | running | done |
                 \*        debounced | aborted
    pc,          \* job -> step of its push-time submission
    jkey,        \* job -> its resolved key
    prevOf,      \* job -> the survivor its upsert displaced
    undo,        \* job -> the key's row before its upsert (for rollback)
    sched,       \* job -> scheduled_for
    member,      \* job -> its v2_job_debounce_batch row (0: none)
    debouncedBy, \* job -> the job named in its "Debounced by" result
    merged       \* job -> members whose args its accumulator gathered

vars == <<row, lock, nextBatch, conns, now, jstate, pc, jkey, prevOf, undo,
          sched, member, debouncedBy, merged>>

JobStates == {"new", "pushing", "queued", "running", "done", "debounced",
              "aborted"}

Row == [job : Jobs, prev : Jobs \cup {NONE}, batch : Nat, times : Nat,
        first : Nat]

\* Whose membership rows the worker can see: committed submissions.
Committed == {j \in Jobs : jstate[j] \in {"queued", "running", "done",
                                          "debounced"}}

DebounceTypeOK ==
    /\ row \in [Keys -> Row \cup {NONE}]
    /\ lock \in [Keys -> Jobs \cup {NONE}]
    /\ nextBatch \in Nat \ {0}
    /\ conns \in 0..PoolSize
    /\ now \in Nat
    /\ jstate \in [Jobs -> JobStates]
    /\ pc \in [Jobs -> {"idle", "upsert", "completePrev", "record",
                        "commit", "fin"}]
    /\ jkey \in [Jobs -> Keys \cup {NONE}]
    /\ prevOf \in [Jobs -> Jobs \cup {NONE}]
    /\ undo \in [Jobs -> Row \cup {NONE}]
    /\ sched \in [Jobs -> Nat]
    /\ member \in [Jobs -> Nat]
    /\ debouncedBy \in [Jobs -> Jobs \cup {NONE}]
    /\ merged \in [Jobs -> SUBSET Jobs]

Init ==
    /\ row = [k \in Keys |-> NONE]
    /\ lock = [k \in Keys |-> NONE]
    /\ nextBatch = 1
    /\ conns = 0
    /\ now = 0
    /\ jstate = [j \in Jobs |-> "new"]
    /\ pc = [j \in Jobs |-> "idle"]
    /\ jkey = [j \in Jobs |-> NONE]
    /\ prevOf = [j \in Jobs |-> NONE]
    /\ undo = [j \in Jobs |-> NONE]
    /\ sched = [j \in Jobs |-> 0]
    /\ member = [j \in Jobs |-> 0]
    /\ debouncedBy = [j \in Jobs |-> NONE]
    /\ merged = [j \in Jobs |-> {}]

(***************************************************************************)
(* The store's upsert and its limit check (4.2, 4.4.1 steps 3-4): a first  *)
(* push inserts debounced_times = 0 and a fresh batch; a later one takes   *)
(* the row over and increments debounced_times; when the incremented count *)
(* exceeds max_total_debounces_amount or the batch is older than           *)
(* max_total_debouncing_time, reset opens a new batch instead.             *)
(***************************************************************************)
FreshRow(j) == [job |-> j, prev |-> NONE, batch |-> nextBatch, times |-> 0,
                first |-> now]

LimitExceeded(r) == r.times + 1 > MaxCount \/ now - r.first > MaxAge

UpsertRow(j, r) ==
    IF r = NONE \/ LimitExceeded(r) THEN FreshRow(j)
    ELSE [r EXCEPT !.job = j, !.prev = r.job, !.times = r.times + 1]

\* The survivor the upsert displaces and must complete (none on a reset).
Displaced(r) == IF r = NONE \/ LimitExceeded(r) THEN NONE ELSE r.job

\* add_completed_job with "Debounced by <j>": only a job still waiting in
\* the queue is completed; one already running is left alone (logged).
CompleteAsDebounced(p, j) ==
    IF p # NONE /\ jstate[p] = "queued"
    THEN /\ jstate' = [jstate EXCEPT ![p] = "debounced"]
         /\ debouncedBy' = [debouncedBy EXCEPT ![p] = j]
    ELSE UNCHANGED <<jstate, debouncedBy>>

(***************************************************************************)
(* Push-time debouncing (maybe_debounce) inside the caller's transaction. *)
(***************************************************************************)

\* push_inner opens its transaction (one pool connection) and inserts the
\* not yet visible job row.
BeginPush(j, k) ==
    /\ "push" \in Paths
    /\ jstate[j] = "new"
    /\ now < MaxTime
    /\ conns < PoolSize
    /\ conns' = conns + 1
    /\ jstate' = [jstate EXCEPT ![j] = "pushing"]
    /\ jkey' = [jkey EXCEPT ![j] = k]
    /\ pc' = [pc EXCEPT ![j] = "upsert"]
    /\ UNCHANGED <<row, lock, nextBatch, now, prevOf, undo, sched, member,
                   debouncedBy, merged>>

\* The upsert (and reset) on debounce_key: waits for the row lock and keeps
\* it until the caller's transaction ends.
Upsert(j) ==
    LET k == jkey[j]
        r == row[k]
    IN /\ pc[j] = "upsert"
       /\ lock[k] = NONE
       /\ lock' = [lock EXCEPT ![k] = j]
       /\ undo' = [undo EXCEPT ![j] = r]
       /\ row' = [row EXCEPT ![k] = UpsertRow(j, r)]
       /\ nextBatch' = IF UpsertRow(j, r).batch = nextBatch
                       THEN nextBatch + 1 ELSE nextBatch
       /\ prevOf' = [prevOf EXCEPT ![j] = Displaced(r)]
       /\ pc' = [pc EXCEPT ![j] = IF Displaced(r) = NONE THEN "record"
                                  ELSE "completePrev"]
       /\ UNCHANGED <<conns, now, jstate, jkey, sched, member, debouncedBy,
                      merged>>

\* Completing the displaced survivor needs a second pool connection and
\* commits on it at once, outside the caller's transaction.
CompletePrev(j) ==
    /\ pc[j] = "completePrev"
    /\ conns < PoolSize
    /\ CompleteAsDebounced(prevOf[j], j)
    /\ pc' = [pc EXCEPT ![j] = "record"]
    /\ UNCHANGED <<row, lock, nextBatch, conns, now, jkey, prevOf, undo,
                   sched, member, merged>>

\* Mutant: scheduled_for is set delay seconds in the past.
RecordBackdated(j) ==
    /\ pc[j] = "record"
    /\ sched' = [sched EXCEPT ![j] = now - Delay]
    /\ member' = [member EXCEPT ![j] = row[jkey[j]].batch]
    /\ pc' = [pc EXCEPT ![j] = "commit"]
    /\ UNCHANGED <<row, lock, nextBatch, conns, now, jstate, jkey, prevOf,
                   undo, debouncedBy, merged>>

\* scheduled_for <- now + delay (use-or), batch membership, log lines.
Record(j) ==
    /\ pc[j] = "record"
    /\ sched' = [sched EXCEPT ![j] = now + Delay]
    /\ member' = [member EXCEPT ![j] = row[jkey[j]].batch]
    /\ pc' = [pc EXCEPT ![j] = "commit"]
    /\ UNCHANGED <<row, lock, nextBatch, conns, now, jstate, jkey, prevOf,
                   undo, debouncedBy, merged>>

\* The caller commits: the job, the key row and the membership become
\* visible, the row lock and the connection are released.
CommitPush(j) ==
    /\ pc[j] = "commit"
    /\ jstate' = [jstate EXCEPT ![j] = "queued"]
    /\ lock' = [lock EXCEPT ![jkey[j]] = NONE]
    /\ conns' = conns - 1
    /\ pc' = [pc EXCEPT ![j] = "fin"]
    /\ UNCHANGED <<row, nextBatch, now, jkey, prevOf, undo, sched, member,
                   debouncedBy, merged>>

\* Mutant: the rollback leaves the key row of the failed push in place.
AbortPushKeepsRow(j) ==
    /\ CallerMayAbort
    /\ pc[j] \in {"completePrev", "record", "commit"}
    /\ member' = [member EXCEPT ![j] = 0]
    /\ jstate' = [jstate EXCEPT ![j] = "aborted"]
    /\ lock' = [lock EXCEPT ![jkey[j]] = NONE]
    /\ conns' = conns - 1
    /\ pc' = [pc EXCEPT ![j] = "fin"]
    /\ UNCHANGED <<row, nextBatch, now, jkey, prevOf, undo, sched,
                   debouncedBy, merged>>

\* The caller's transaction fails after the upsert (a later error in
\* push_inner, or a pool-acquire timeout for the second connection): the
\* key row and the membership roll back; a completion already committed on
\* the other connection stays.
AbortPush(j) ==
    /\ CallerMayAbort
    /\ pc[j] \in {"completePrev", "record", "commit"}
    /\ row' = [row EXCEPT ![jkey[j]] = undo[j]]
    /\ member' = [member EXCEPT ![j] = 0]
    /\ jstate' = [jstate EXCEPT ![j] = "aborted"]
    /\ lock' = [lock EXCEPT ![jkey[j]] = NONE]
    /\ conns' = conns - 1
    /\ pc' = [pc EXCEPT ![j] = "fin"]
    /\ UNCHANGED <<nextBatch, now, jkey, prevOf, undo, sched, debouncedBy,
                   merged>>

(***************************************************************************)
(* Post-preprocessing debouncing (maybe_debounce_post_preprocessing): one  *)
(* owned transaction does the upsert, the completion and the membership;   *)
(* on a reset it returns None and the flow runs at once.                   *)
\* Mutant: the displaced survivor is not completed.
PostDebounceNoComplete(j, k) ==
    LET r == row[k]
    IN /\ "post" \in Paths
       /\ jstate[j] = "new"
       /\ now < MaxTime
       /\ lock[k] = NONE
       /\ conns < PoolSize
       /\ row' = [row EXCEPT ![k] = UpsertRow(j, r)]
       /\ nextBatch' = IF UpsertRow(j, r).batch = nextBatch
                       THEN nextBatch + 1 ELSE nextBatch
       /\ jkey' = [jkey EXCEPT ![j] = k]
       /\ prevOf' = [prevOf EXCEPT ![j] = Displaced(r)]
       /\ member' = [member EXCEPT ![j] = UpsertRow(j, r).batch]
       /\ sched' = [sched EXCEPT ![j] =
                       IF r # NONE /\ LimitExceeded(r) THEN now
                       ELSE now + Delay]
       /\ jstate' = [jstate EXCEPT ![j] = "queued"]
       /\ UNCHANGED debouncedBy
       /\ pc' = [pc EXCEPT ![j] = "fin"]
       /\ UNCHANGED <<lock, conns, now, undo, merged>>

(***************************************************************************)
PostDebounce(j, k) ==
    LET r == row[k]
    IN /\ "post" \in Paths
       /\ jstate[j] = "new"
       /\ now < MaxTime
       /\ lock[k] = NONE
       /\ conns < PoolSize
       /\ row' = [row EXCEPT ![k] = UpsertRow(j, r)]
       /\ nextBatch' = IF UpsertRow(j, r).batch = nextBatch
                       THEN nextBatch + 1 ELSE nextBatch
       /\ jkey' = [jkey EXCEPT ![j] = k]
       /\ prevOf' = [prevOf EXCEPT ![j] = Displaced(r)]
       /\ member' = [member EXCEPT ![j] = UpsertRow(j, r).batch]
       /\ sched' = [sched EXCEPT ![j] =
                       IF r # NONE /\ LimitExceeded(r) THEN now
                       ELSE now + Delay]
       /\ LET p == Displaced(r) IN
          IF p # NONE /\ jstate[p] = "queued"
          THEN /\ jstate' = [jstate EXCEPT ![p] = "debounced", ![j] = "queued"]
               /\ debouncedBy' = [debouncedBy EXCEPT ![p] = j]
          ELSE /\ jstate' = [jstate EXCEPT ![j] = "queued"]
               /\ UNCHANGED debouncedBy
       /\ pc' = [pc EXCEPT ![j] = "fin"]
       /\ UNCHANGED <<lock, conns, now, undo, merged>>

(***************************************************************************)
(* Worker side.                                                            *)
(***************************************************************************)

\* Mutant: the accumulator gathers the other members but not the survivor.
PullAndAccumulateOthers(j) ==
    /\ jstate[j] = "queued"
    /\ sched[j] <= now
    /\ jstate' = [jstate EXCEPT ![j] = "running"]
    /\ merged' = [merged EXCEPT ![j] =
                     {m \in Committed \ {j} : member[m] = member[j]}]
    /\ UNCHANGED <<row, lock, nextBatch, conns, now, pc, jkey, prevOf, undo,
                   sched, member, debouncedBy>>

\* A worker pulls a due job and, before it executes, the accumulator
\* (4.5) gathers the args of every committed member of its batch.
PullAndAccumulate(j) ==
    /\ jstate[j] = "queued"
    /\ sched[j] <= now
    /\ jstate' = [jstate EXCEPT ![j] = "running"]
    /\ merged' = [merged EXCEPT ![j] =
                     {m \in Committed : member[m] = member[j]}]
    /\ UNCHANGED <<row, lock, nextBatch, conns, now, pc, jkey, prevOf, undo,
                   sched, member, debouncedBy>>

Finish(j) ==
    /\ jstate[j] = "running"
    /\ jstate' = [jstate EXCEPT ![j] = "done"]
    /\ UNCHANGED <<row, lock, nextBatch, conns, now, pc, jkey, prevOf, undo,
                   sched, member, debouncedBy, merged>>

\* The clock is bounded by MaxTime, except that it still runs on to the
\* scheduled_for of jobs waiting in the queue.
Tick ==
    /\ now < MaxTime \/ \E j \in Jobs : jstate[j] = "queued" /\ sched[j] > now
    /\ now' = now + 1
    /\ UNCHANGED <<row, lock, nextBatch, conns, jstate, pc, jkey, prevOf,
                   undo, sched, member, debouncedBy, merged>>

\* Past the last submission, with no job left for a worker, the model
\* idles; a push that can no longer move is a deadlock.
Quiescent ==
    /\ now >= MaxTime
    /\ \A j \in Jobs : jstate[j] \notin {"queued", "running"}
    /\ UNCHANGED vars

PushStep(j) ==
    \/ Upsert(j)
    \/ CompletePrev(j)
    \/ Record(j)
    \/ CommitPush(j)
    \/ AbortPush(j)

Next ==
    \/ \E j \in Jobs, k \in Keys : BeginPush(j, k) \/ PostDebounce(j, k)
    \/ \E j \in Jobs : PushStep(j) \/ PullAndAccumulate(j) \/ Finish(j)
    \/ Tick
    \/ Quiescent

\* Submitters are not fair (nobody has to push); a started push runs on,
\* workers keep pulling due jobs, and the clock advances.
Fairness ==
    /\ \A j \in Jobs :
          /\ WF_vars(Upsert(j)) /\ WF_vars(CompletePrev(j))
          /\ WF_vars(Record(j)) /\ WF_vars(CommitPush(j))
          /\ WF_vars(PullAndAccumulate(j)) /\ WF_vars(Finish(j))
    /\ WF_vars(Tick)

Spec == Init /\ [][Next]_vars /\ Fairness

(***************************************************************************)
(* Properties.                                                             *)
(***************************************************************************)

\* Coalescing (spec 8.1): of the committed submissions of one batch at
\* most one is still waiting in the queue -- concurrent upserts on a key
\* serialize on its row lock, so each one displaces the survivor the one
\* before it left.
OneQueuedSurvivorPerBatch ==
    \A b \in 1..nextBatch :
        Cardinality({j \in Jobs : jstate[j] = "queued" /\ member[j] = b}) <= 1

\* A job completed as "Debounced by <j>" names a submission that exists:
\* completing the displaced survivor and the new job's creation commit
\* together or not at all (spec 4.4.1, "if the caller aborts, the upsert
\* rolls back and the batch is unchanged").
DebouncerExists ==
    \A j \in Jobs : jstate[j] = "debounced" => jstate[debouncedBy[j]] # "aborted"

\* Every submission that commits has its args delivered to an execution:
\* it runs itself, or a later survivor of its batch accumulates it -- the
\* only exception being a job completed by a push that then rolled back
\* (the loss DebouncerExists exposes).
ArgsDelivered ==
    \A j \in Jobs :
        jstate[j] = "queued" ~>
            \/ \E r \in Jobs : j \in merged[r]
            \/ jstate[j] = "debounced" /\ jstate[debouncedBy[j]] = "aborted"


\* A rollback puts the key's row back: once no transaction holds the row
\* lock, debounce_key names a submission that was committed, never one
\* whose caller rolled back -- the next push on the key displaces it.
KeyRowNamesCommittedJob ==
    \A k \in Keys : lock[k] = NONE /\ row[k] # NONE =>
        row[k].job \in Committed

=============================================================================
