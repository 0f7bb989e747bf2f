# TLA+ models of windmill's concurrent backend components

This directory holds TLA+ models of the parts of this source tree where
concurrency, partial failure and ordering decide correctness, and of four
pure algorithms checked against a reference or a property. Every action is translated from
the code. The debounce engine's code is not in this tree, so its actions come
from `spec.md` and from the behaviour that
`windmill-queue/tests/debounce_test.rs` pins down (marked `spec_modelled` in
`PROJECT.json`). `PROJECT.json` maps each definition to the lines it models
and lists the runs, mutants, findings and hazards.

## The system's parts and how they interact

| Part | Source | State and concurrency |
|---|---|---|
| Prewarmed isolate | `windmill-runtime-nativets/src/dedicated.rs` | A `spawn_blocking` worker thread owns a V8 runtime. The async caller talks to it through three oneshot channels (ready, args, result). The script's `console.log` goes through an unbounded log channel to a collector task. The caller may drop either handle at any time. |
| Native runtime | `windmill-runtime-nativets/src/lib.rs` | `eval_fetch_timeout` runs a script on a fresh thread. An `IsolateDropGuard` terminates it on cancellation. Log and stream output share one channel and are demultiplexed by a task. |
| Debounce engine | `windmill_queue::jobs_ee` (not in this tree) | A `debounce_key` row per key, batch membership rows, a push-time hook inside the caller's transaction, a post-preprocessing hook, and the worker's accumulator. |
| Postgres triggers | `windmill-api/src/postgres_triggers/handler.rs` | A replication slot and a publication in the user's database, and a trigger row in windmill's database, written in separate transactions by concurrent API requests. |
| Object store client cache | `windmill-object-store/src/lib.rs` | A global `RwLock` cache of the store client, refreshed by getters on expiry and reloaded when settings change. |
| JSON line stream | `windmill-object-store/src/lib.rs` | `convert_json_line_stream`: a temp file, a DataFusion plan, and an encoder task writing into a bounded channel whose receiver is the download. |
| Worker global cache | `windmill-worker/src/global_cache.rs` | Workers of one host share a local cache path and a tar file; all workers share the object store. |
| OAuth refresh | `windmill-store/src/oauth_refresh_oss.rs` | Concurrent refreshes of one account: an UPDATE of the account row under its lock and a commit, then a separate write of the variable. |
| SQL comment stripping | `windmill-worker/src/sql_utils.rs` | A pure one-pass character scanner. |
| S3 access configuration | `windmill-object-store/src/lib.rs`, `windmill-types/src/s3.rs` | `S3_BUCKETS_WORKSPACE_RESTRICTIONS` is parsed once into a map from bucket to allowed workspaces and checked on every bucket access. `S3Permission` bitflags are written to JSON as a comma list and read back. |
| Job list filters | `windmill-api-jobs/src/negated_filter.rs`, `query.rs` | A query string such as `!schedule,email` is parsed into values and a negation, and the list builders turn it into WHERE clauses that PostgreSQL evaluates in three-valued logic. |

The object store client cache and the global cache interact: the global
cache calls `get_object_store` on every operation, and gets `None` after a
failed refresh. `GlobalCache` models this as a per-call choice of whether a
store is returned.

## Modules

Each component has its own module, with `Init`, one action per step, `Next`,
a type invariant and its properties. The runs instantiate them through MC
modules.

- **`PrewarmedIsolate.tla`** (`dedicated.rs`).
  - State: the caller's handle (`cpc`) and the worker closure's step (`wpc`).
  - Channels: `readySent`, `argsSent`, `logQueue` and the others.
  - Caller actions: `Spawn`, `WaitReady`, `StartExecution`, `Wait`, `DropWarm`, `DropExecuting`.
  - Worker actions: `WorkerWarm`, `WorkerRecvArgs`, `WorkerArgsClosed`, `JsFinish`, `WorkerSendResult`.
  - Collector actions: `CollectorRecv`, `CollectorEnd`.
  - Script action: `JsLog` (`op_log`).
- **`NativeRuntime.tla`** (`eval_fetch_timeout` and `eval_fetch`).
  - Caller future: `Start`, `StartFails`, `Cancel` (runs `IsolateDropGuard::drop`), `Return`.
  - Blocking thread: `CreateRuntime` (registers the handle), `CreateFails`, `MainReturns`, `MainThrows`, then `ErrCount`/`ErrWrite` (`write_error_expr`), `MemoryLimit`, `Join`, `MergeResult`.
  - Demux task: `Demux`, `DemuxEnd`.
  - Script: `JsLine`.
- **`Debounce.tla`**. Each submitted job is a process.
  - Push-time submission: `BeginPush`, `Upsert` (row lock; reset by count or age), `CompletePrev` (on a second pool connection), `Record`, then `CommitPush` or `AbortPush`.
  - Post-preprocessing: `PostDebounce` (one step).
  - Worker: `PullAndAccumulate`, `Finish`.
  - Clock: `Tick`, with a final `Quiescent` stutter.
- **`PostgresTrigger.tla`**. One process per API request, running one handler step by step:
  - create, with generated or given names: `CreateSlotAndPublication`, `InsertTrigger`;
  - update: `CheckSlotExists`, `UpdateCreateSlot`, `ReadPublication`, `PublicationDdl`, `UpdateRow`;
  - `DeleteTrigger`, `SetEnabled`;
  - the slot and publication endpoints: `CreateSlot`, `DropSlot`, `CreatePublication`, `DeletePublication`.

  Replication slots are not transactional, and the model keeps them when a
  transaction rolls back.
- **`ObjectStoreCache.tla`**. A setting is a version and a client is `[ver, exp]`.
  - Getter: `GetRead` (the read-locked check with `refresh_needed`), `GetRefresh` (build, then an unconditional write).
  - Reloader: `ReloadLoad` (the Pro-plan refusal before a setting is parsed; with no setting, the `S3_CACHE_BUCKET` client, the Pro-plan refusal of that branch, or clearing the cache), `ReloadLoadFails`, `ReloadBuild`. `envBucket` and `pro` are chosen in the initial state and fixed.
  - Environment: `ChangeSettings`, `Tick`.
- **`JsonLineStream.tla`** (`convert_json_line_stream`).
  - Call: `CreateTmpFile`, `ReadChunk`, `Plan`.
  - Encoder task: `NextBatch`, `WriteBatch` (a blocking write per chunk through `ChannelWriter`; a write that panics is a `JoinError` that is only logged and leaves the writer's mutex `poisoned`, so later writes and the close panic too), `SendErr`, `Close`, `RemoveTmpFile`.
  - Receiver: `Recv`, `RecvEnd`, `Disconnect`.
  - A chunk is abstracted to the number of batches it covers.
  - `Stream` is the refinement mapping to `ChunkStream`: what was sent is `got \o chan`, what was read is `Len(got)`, the stream is open while the receiver is held, and the producer has finished once the task is `done`.
- **`ChunkStream.tla`**: the abstract stream the caller is promised, a bounded FIFO from one producer to one reader, kept as its whole history `sent` and the count read `nread`. Actions `Open`, `Put`, `Finish`, `Take`, `End`, `Drop`. It models no code of its own; it states what `convert_json_line_stream`'s receiver must behave like.
- **`GlobalCache.tla`**. One cache entry and two workers of a host.
  - Paths: the local path, the tar file and the remote object are each absent, partial (written in place, or cut short) or complete.
  - `load_cache`: `LoadStart`, `Fetch` (`attempt_fetch_bytes`), `WriteLocal` (`extract_tar` / `write_binary_file`).
  - `exists_in_cache`: `Exists`.
  - `save_cache`: `SaveStart`, `TarCreate`, `TarAppend`, `TarCheck` (the length check only), `Put` (reads the tar as it is then, `Upload`, and uploads it), `CopyStart`, `CopyEnd`.
  - Package tar cache: `PushStart`, then the same tar steps, `PushPut` and `PushRemove` (`build_tar_and_push`); `PullStart`, then `Fetch`/`WriteLocal` (`pull_from_tar`).
- **`OAuthRefresh.tla`** (`_refresh_workspace_integration_token`).
  - Steps: `Call` (the caller reads the account's refresh token), `Configure`, `Exchange` (the provider may rotate the refresh token), `Parse`, `UpdateAccount` (waits for the row lock), `Commit`, `WriteVariable`.
  - Tokens are numbered in the order the provider issues them.
- **`SqlComments.tla`**.
  - `remove_comments` is a `RECURSIVE` operator `Scan`, with one helper per block of the loop body: `AfterQuote`, `AfterComment`, `BlockEnds`, `AfterStart`, `Slice`.
  - `RefStatement` is the statement as an SQL lexer (`Kinds`) sees it.
- **`JobFilters.tla`** (`negated_filter.rs`, `query.rs`).
  - `ParseList` is `NegatedListFilterVisitor::visit_str`: `Split` on `,`, `StripBang` on every item, negation from the first item only.
  - Clause shapes: `InFilter` (IN, NOT IN, `NotInNullable`), `LikeFilter` (the OR of LIKEs or the AND of NOT LIKEs, `IS NULL OR` for a nullable column) with `WildPattern` (`*` to `%`) or `PrefixPattern`, and `LabelFilter` (the four label clauses over `wm_labels`).
  - `filter_list_queue_query` and `filter_list_completed_query` pick the clause of each list filter. SQL truth values are `SqlTrue`, `SqlFalse` and `Unknown`, and `Like` is LIKE's matching of `%` and `_`.
- **`BucketAccess.tla`** (object store `lib.rs`, `s3.rs`).
  - `parse_bucket_restrictions_from_str` folds `ApplyRule` over the `;`-separated rules: `Trim`, `SplitColon` (`splitn(2, ':')`), `Workspaces`, and an `insert` that overwrites. `check_bucket_workspace_restriction` is the check.
  - `RefAllowed` is the reference: read off the rule syntax (`Padded`, `ListsWorkspace`), the last rule that restricts a bucket decides.
  - `SerializePermission` and `DeserializePermission` are the `S3Permission` codec over the flag bits (Bitwise `&` and `|`); a permission string is a sequence of tokens.

The MC modules:

- **`MCBackend`:** the disjoint union of Debounce, PostgresTrigger, PrewarmedIsolate and NativeRuntime. `part`, chosen in the initial state, picks the one component that moves.
- **`MCStorage`:** a disjoint union of ObjectStoreCache, JsonLineStream, GlobalCache, OAuthRefresh, JobFilters and BucketAccess (twice: the restrictions and the permission codec). The variable `part` picks one in the initial state and only that one moves; the others share no state with it. The pure parts' state is their input (`fstr`, `binp`), chosen in the initial state.
- **`MCSqlComments`:** enumerates the SQL inputs.
- **The other MC modules** instantiate one component for its violation run.

## Runs

| Run | cfg | Expect | What it shows |
|---|---|---|---|
| backend | `MCBackend.cfg` | pass | **Debounce:** concurrent push-time and post-preprocessing submissions, whose callers may roll back, leave at most one queued survivor per batch (`OneQueuedSurvivorPerBatch`). Once unlocked, the key row names a committed job (`KeyRowNamesCommittedJob`). Every committed submission's args reach an execution (`ArgsDelivered`). **Triggers:** under every interleaving of two API requests, a trigger row written by a generated create or by an update names a slot and publication that exist, unless a drop removed them (`VouchedTargetsExist`). **Prewarmed isolate:** `wait()` returns every logged line (`ResultCarriesAllLogs`). A warm isolate dropped unused exits (`DroppedWarmIsolateExits`), and a started one finishes unless main hangs (`ExecutionCompletes`). **Native runtime:** a returned Ok carries the whole stream (`StreamMergedIntoResult`), and every log line is forwarded before main's value or error is returned (`LogsForwardedOnReturn`). A cancel whose guard found the handle stops the thread (`GuardedCancelStops`). |
| storage | `MCStorage.cfg` | pass | **Object store:** on the Pro plan no client is ever installed or handed to a job, whether from the setting or from `S3_CACHE_BUCKET` (`ProPlanServesNoStore`). **Global cache:** three workers explore every interleaving, for coverage; the property of this part fails and has its own violation run. **JSON stream:** a download read to its end that carries no error item and ends with the encoder's closing bytes has every batch, in order (`ClosedOutputComplete`); after a panicking write the closing bytes are never sent. **OAuth:** with a rotating provider, three concurrent refreshes leave the account a refresh token the provider accepts (`AccountRefreshTokenValid`), and every called refresh returns although the refreshes wait on each other's row lock (`RefreshReturns`). **JSON stream:** the spawned encoder task finishes, and a client that keeps reading sees the end of the stream (`StreamEnds`). The returned stream implements `ChunkStream` (`ImplementsChunkStream`): no chunk is lost or reordered while the receiver is held, at most `ChanCap` chunks wait, nothing is sent before the stream is returned or after the task ended, and the stream ends only when the task is over and the channel drained. **Job filters:** prefixing a list filter with `!` lists exactly the jobs the filter does not list, NULL columns included, for both lists and with or without wildcards (`NegationComplements`). The label filter without wildcards fails this and is left out (below). **S3 access:** for every restriction variable of up to six characters, the bucket check allows exactly what the last rule restricting the bucket lists (`RestrictionFollowsLastRule`); every permission reads back as written, and two joined lists as the union of their flags (`PermissionRoundTrip`). |
| prewarmed_cancel | `MCPrewarmedIsolate_CancelledIsolateStops.cfg` | violation | Dropping an `ExecutingIsolate` does not stop a hanging script: `dedicated.rs` installs no drop guard. |
| native_cancel_early | `MCNativeRuntime_CancelStopsIsolate.cfg` | violation | A cancel during runtime creation finds no handle in the guard, and the script runs on unterminated. |
| debounce_lost_survivor | `MCDebounce_DebouncerExists.cfg` | violation | A rollback after `CompletePrev` leaves the survivor "Debounced by" a job that never exists. |
| postgres_failed_create_leak | `MCPostgresTrigger_FailedCreateLeavesNoSlot.cfg` | violation | A create that generated its slot and then failed leaves the slot in the user's database. |
| object_store_expired | `MCObjectStoreCache_NoExpiredCredentials.cfg` | violation | `refresh_needed` fires a minute after expiry, so jobs receive clients with expired OIDC credentials. |
| object_store_stale_refresh | `MCObjectStoreCache_CacheNotOlderThanReload.cfg` | violation | A getter's refresh from the old setting overwrites the client the reloader just installed for the new one. |
| json_stream_tmpfile_leak | `MCJsonLineStream_TmpFileRemoved.cfg` | violation | An early `?` return, or a close failing because the client went away, leaves the temp file behind. |
| oauth_variable_mismatch | `OAuthRefresh_VariableMatchesAccount.cfg` | violation | The account row is committed before the variable write. A failure between the two, or two refreshes writing the variable in the opposite order of their commits, leaves the variable's token out of step with the account's expiry. |
| global_cache_partial_hit | `GlobalCache_LoadHitComplete.cfg` | violation | `load_cache` or `pull_from_tar` reports success for an entry that another worker of the host is still writing in place. |
| sql_block_comment_slash | `MCSqlComments.cfg` | violation | Compared with an SQL lexer on 2,715 of the grammar's inputs, `remove_comments` cuts the statement wrongly. Every disagreement has a block comment whose text starts with `/`: `/*/` opens and closes it at once. |

**Mutants.** Each property of a passing run has a mutant in `PROJECT.json`:
a plausible bug in a mapped definition, which TLC catches under the run's own
cfg. Examples:

- an upsert that ignores the row lock;
- a collector that ends while log lines are queued;
- a channel writer that drops chunks when the channel is full;
- a reload whose `S3_CACHE_BUCKET` branch builds the client without the licence check;
- an account UPDATE that stores the refresh token it was given instead of the returned one;
- an error path that keeps the transaction, and its row lock, open;
- an encoder loop that continues after a DataFusion error instead of breaking;
- an encoder task spawned before the call's last fallible step, so it runs for a call that returned an error.

**Hazards.** The hazards listed in `PROJECT.json` are the ones these models
reach, with the properties that cover them. Some are modelled but not given a
run of their own:

- a second `wait_ready` after a failed warm-up;
- `write_error_expr`'s count-then-write exceeding its cap;
- a rotating refresh token lost when parsing fails after the exchange;
- a quote that starts a statement in `remove_comments`.

**Divergence found in the job filters.** A negated label filter without
wildcards (`query.rs:300`) builds `NOT (result->'wm_labels' ? 'v')`. That is
NULL for a job whose result has no `wm_labels`, so `!deploy` lists no
unlabelled job, while `deploy` does not list them either and the same filter
with wildcards (`NOT EXISTS`, line 283) lists them. `NegationComplements`
fails on this filter alone, so it is stated for the others, and the case is a
hazard in `PROJECT.json`.

## Bounds and why they are enough

- **Native runtime.** One call, with up to 2 script lines and all five
  outcomes of main. Calls share only the error directory, and that race
  (two calls) is recorded as a hazard.
- **Prewarmed isolate.** One isolate, because isolates share nothing. Up to 2
  log lines, so that one line can be queued while another is collected.
  Outcomes ok, throw and hang.
- **Debounce.** Three jobs on one key, with delay 1, max count 1, max age 2
  and submissions before time 3. That reaches displacement chains, resets by
  count and by age, a worker starting a survivor before the next push
  commits, and a rollback in each push step. The pool of 6 is twice the
  number of pushers, which the test comment at `debounce_test.rs:2486`
  requires; at that size no push can starve, so only deadlock freedom is
  checked. A second key would only repeat the first.
- **Triggers.** Two requests and two names: any handler can interleave with
  any other, and a generated name can sit beside a reused one. Symmetry is
  used in the violation run only.
- **Object store cache.** Two getters, beside the reloader and setting
  changes. Two setting versions
  (the first OIDC), credentials that live 1 minute, and 3 to 4 minutes of
  clock: enough for an expiry, a refresh, and a reload racing that refresh.
- **JSON stream.** All three formats, 3 input items, 3 batches and a channel
  of capacity 2. That is enough to fill the channel, and for a disconnect
  before, between and after batches.
- **Job filters.** Every filter string of up to 4 characters over `!`, `,`,
  `a`, `*` and `_` (501 strings whose first item has no `!`), with and
  without wildcards, against every column value of up to 2 characters over
  `a` and `b`, NULL, and label arrays. That covers several items, an empty
  item, a second `!`, patterns that match, extend or miss a value, and NULL
  columns.
- **S3 access.** Every restriction variable of up to 6 characters over
  blank, `:`, `;`, `,`, `a` and `b` (55,987 strings), against every bucket
  and workspace name of up to one letter (the empty name included). That
  reaches two rules of one bucket (`:a;:b` restricts the empty bucket
  twice), blanks around names, and rules without `:` or without workspaces
  beside valid ones. The permission codec is checked on all 16 × 16 pairs
  of permissions.
- **Global cache.** Three workers on one entry, which is a file or a directory,
  a binary entry or a package folder. It may be cached locally, remotely,
  both or neither at the start.
- **OAuth.** Three refreshers, a rotating or non-rotating provider, and 4
  issued tokens, so all can succeed after a first refresh and two can wait
  on the row lock of the third. (The violation run uses two refreshers.)
- **SQL.** The inputs are fillers (blank, or a line or block comment with an
  empty or one-character body), then a statement (a keyword and up to two
  tokens, including quoted text holding `--`, `/*` or `;`), then `;` and a
  filler. That gives inputs of up to 20 characters, enough for every branch
  of the scanner.

## Fairness

- **Backend run.** Each component's fairness is stated for its own part, so
  no component's fairness rules out another's behaviours.
  - **Debounce:** the steps of a started push are weakly fair, because the
    caller's code runs on to its commit. Workers pulling due jobs and the
    clock are also weakly fair. Submissions are not.
  - **Prewarmed isolate:** the worker thread and the collector task are
    weakly fair (a tokio blocking thread and a spawned task run on once they
    can). Caller actions are not, because a caller may hold a handle forever.
  - **Native runtime:** the blocking thread is weakly fair. The caller and
    the script are not, because a script may hang.
- **Final states.** The isolate parts may stop in any state (`CallerStops`),
  because a caller may stop using the API. The trigger part stops once every
  request has returned (`TriggersReturned`). Otherwise deadlock is checked.
- **Storage run.** Two parts have fairness, each stated on that part's
  steps only.
  - **OAuth refresh:** each step of a called refresh after `Call` is weakly
    fair, because each awaits one database statement or the provider's HTTP
    answer, which returns a result or an error. The caller's `Call` is not
    fair.
  - **JSON stream:** the spawned encoder task (`NextBatch`, `WriteBatch`,
    `SendErr`, `Close`, `RemoveTmpFile`) is weakly fair, as a tokio task and
    the blocking writes it awaits run on once they can. The receiver's
    `Recv` and `RecvEnd` are weakly fair: `StreamEnds` is about a client
    that keeps polling the download. `Disconnect` is not fair, and the
    caller's steps before the spawn are not either. The final state (every call returned) is an
  explicit stutter, so deadlock is checked as well.

## What is not modelled

- **Debounce internals:** key resolution and the merging of args by name are
  abstracted. A job's args are the job itself.
- **Pure data code with no state to check:**
  - the scalar job list filters (dates, `running`, `success`, `args`...), ordering and pagination in `query.rs`, and the single-value `NegatedFilter`, which nothing in the tree uses;
  - the s3 data types other than `S3Permission`, and the saml types;
  - the operator stub;
  - the client builders of the object store (`build_s3_client` and the others), which the model reduces to success or failure.
- **Checks that fail but have no run.** Every run slot is taken, so three
  failures are recorded as hazards instead of violation runs:
  - a panic inside an encoder write (`lib.rs:1055`) is modelled. A CSV
    download, which has no closing bytes, then ends normally with batches
    missing, so a completeness claim without the closing bytes fails;
  - two saves of one directory share the tar path, and the length check
    (`global_cache.rs:233`, 45) is a step apart from the read (248, 63).
    Another worker's `File::create` in between makes the upload empty or
    half-written. The uploaded half-written tar shows in `LoadHitComplete`'s
    violation run;
  - a pool no larger than the number of concurrent pushers starves the
    push-time debounce. The backend run uses the pool size the test
    requires, where no push can starve, so no liveness is claimed for it.
- **OAuth delegation:** `_refresh_token` delegates to `windmill_oauth`, which
  is not in this tree.
