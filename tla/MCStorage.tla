---------------------------- MODULE MCStorage ----------------------------
(***************************************************************************)
(* The storage components checked in one run: the object store client    *)
(* cache (ObjectStoreCache), the JSON line stream converter               *)
(* (JsonLineStream), the worker's global cache (GlobalCache), the OAuth   *)
(* token refresh (OAuthRefresh), the job list filters (JobFilters) and    *)
(* the bucket restrictions and permission codec (BucketAccess); the last  *)
(* three are pure, their input (a string or a pair of permissions) chosen *)
(* in the initial state.  The parts share no state, so they are added as  *)
(* a disjoint union: `part` picks one in the initial state and only that  *)
(* part moves, so the run costs the sum of their state spaces, not the    *)
(* product.  The refresh part carries a liveness property, under  *)
(* fairness of its own steps only.                                        *)
(***************************************************************************)
EXTENDS ObjectStoreCache, JsonLineStream

\* Two getters beside the reloader (the races of a getter with a reload
\* have runs of their own on MCObjectStoreCache), two setting versions,
\* the first an AwsOidc one, credentials that live one minute.
MCGetters == {"g1", "g2"}
MCMaxVersion == 2
MCOidcVersions == {1}
MCTtl == 1
MCMaxTime == 4

\* Every output format; three input values, three record batches and a
\* channel of two chunks, so that a write waits for the reader and a batch
\* meets a full channel or a dropped receiver.
MCFormats == {"parquet", "csv", "json"}
MCMaxChunks == 3
MCMaxBatches == 3
MCChanCap == 2

\* Three workers of one host on one cache entry: a save beside a load, two
\* saves of the same directory beside a load or an exists.
MCWorkers == {"w1", "w2", "w3"}

\* Three concurrent refreshes of one account, so that two wait on the row
\* lock of a third; four exchanges let all of them succeed.
MCRefreshers == {"a", "b", "c"}
MCMaxIssued == 4

\* Job list filters of up to four characters over '!', ',', one value
\* character and the two LIKE pattern characters; column values of up to
\* two characters, so that a value differs from, extends or matches a
\* pattern of the filter.
MCFilterChars == {"!", ",", "a", "*", "_"}
MCValueChars == {"a", "b"}
MCMaxFilterLen == 4
MCMaxValueLen == 2
MCLabels == {<<"a">>, <<"a", "b">>}

\* Restriction variables of up to six characters over the separators, a
\* blank and two one-letter names: enough for two rules of one bucket
\* (":a;:b" names the empty bucket), blanks around a name, a rule without
\* ':' or without workspaces beside a valid one.
MCRuleChars == {" ", ":", ";", ",", "a", "b"}
MCMaxRuleLen == 6
MCNameChars == {"a", "b"}
MCMaxNameLen == 1

VARIABLES
    part,
    pip, isDir, local, tar, remote, tarW, writers, wop, wpc, wsnap, ret,
    rotating, issued, validRt, acct, lockedBy, varTok, fpc, rarg, rnew,
    rgotRt, rpend,
    fstr,
    binp     \* the input of the bucket or permission part

gvars == <<pip, isDir, local, tar, remote, tarW, writers, wop, wpc, wsnap, ret>>
ovars == <<rotating, issued, validRt, acct, lockedBy, varTok, fpc, rarg, rnew,
           rgotRt, rpend>>

GC == INSTANCE GlobalCache WITH Workers <- MCWorkers
OA == INSTANCE OAuthRefresh WITH Refreshers <- MCRefreshers,
                                 MaxIssued <- MCMaxIssued
JF == INSTANCE JobFilters WITH FilterChars <- MCFilterChars,
        ValueChars <- MCValueChars, MaxFilterLen <- MCMaxFilterLen,
        MaxValueLen <- MCMaxValueLen, Labels <- MCLabels
BA == INSTANCE BucketAccess WITH RuleChars <- MCRuleChars,
        MaxRuleLen <- MCMaxRuleLen, NameChars <- MCNameChars,
        MaxNameLen <- MCMaxNameLen

StorageInit ==
    /\ part \in {"objcache", "jsonstream", "cache", "oauth", "filter", "bucket", "perm"}
    /\ Init /\ JsonInit /\ GC!GlobalCacheInit /\ OA!OAuthInit
    \* A part that does not move is held at one of its initial states.
    /\ part # "objcache" => db = 0 /\ ~envBucket /\ ~pro
    /\ part # "jsonstream" => format = "json"
    /\ part # "cache" => ~pip /\ ~isDir /\ local = "absent" /\ remote = "absent"
    /\ part # "oauth" => ~rotating
    \* The inputs of the pure parts.
    /\ fstr \in IF part = "filter" THEN JF!PositiveFilters ELSE {<<>>}
    /\ binp \in CASE part = "bucket" -> BA!RestrictionInputs
                 [] part = "perm" -> BA!Permissions \X BA!Permissions
                 [] OTHER -> {<<>>}

\* Each worker and each refresher makes one call; once all have returned
\* the cache or refresh part has nothing left to do.  The filter, bucket
\* and permission parts are functions of their input and never move.  That final state is
\* kept as a stutter so that deadlock stays checked for the rest.
CallsReturned ==
    /\ \/ part = "cache" /\ \A w \in MCWorkers : wpc[w] = "done"
       \/ part = "oauth" /\ \A r \in MCRefreshers : fpc[r] \in {"done", "err"}
       \/ part = "jsonstream" /\ callPc = "failed"
       \/ part = "jsonstream" /\ taskPc = "done" /\ (~rxAlive \/ ended)
       \/ part \in {"filter", "bucket", "perm"}
    /\ UNCHANGED <<part, vars, jvars, gvars, ovars, fstr, binp>>

StorageNext ==
    \/ part = "objcache" /\ Next /\ UNCHANGED <<part, jvars, gvars, ovars, fstr, binp>>
    \/ part = "jsonstream" /\ JsonNext /\ UNCHANGED <<part, vars, gvars, ovars, fstr, binp>>
    \/ part = "cache" /\ GC!GlobalCacheNext /\ UNCHANGED <<part, vars, jvars, ovars, fstr, binp>>
    \/ part = "oauth" /\ OA!OAuthNext /\ UNCHANGED <<part, vars, jvars, gvars, fstr, binp>>
    \/ CallsReturned

allvars == <<part, vars, jvars, gvars, ovars, fstr, binp>>

\* A step of refresher r in the refresh part.  Every step after the call
\* awaits a database statement or the provider's HTTP answer, each of
\* which returns (an error included); the caller's own Call is not forced.
OnOAuth(A) == part = "oauth" /\ A /\ UNCHANGED <<part, vars, jvars, gvars, fstr, binp>>

RefreshFairness ==
    \A r \in MCRefreshers :
        /\ WF_allvars(OnOAuth(OA!Configure(r)))
        /\ WF_allvars(OnOAuth(OA!Exchange(r)))
        /\ WF_allvars(OnOAuth(OA!Parse(r)))
        /\ WF_allvars(OnOAuth(OA!UpdateAccount(r)))
        /\ WF_allvars(OnOAuth(OA!Commit(r)))
        /\ WF_allvars(OnOAuth(OA!WriteVariable(r)))

\* A step of the JSON stream part.  The spawned encoder task and the
\* blocking writes it awaits run on once they can; the receiver is fair
\* only as a client that keeps polling the download (it may still
\* disconnect, which is not forced).
OnJson(A) == part = "jsonstream" /\ A /\ UNCHANGED <<part, vars, gvars, ovars, fstr, binp>>

StreamFairness ==
    /\ WF_allvars(OnJson(NextBatch))
    /\ WF_allvars(OnJson(WriteBatch))
    /\ WF_allvars(OnJson(SendErr))
    /\ WF_allvars(OnJson(Close))
    /\ WF_allvars(OnJson(RemoveTmpFile))
    /\ WF_allvars(OnJson(Recv))
    /\ WF_allvars(OnJson(RecvEnd))

StorageSpec ==
    StorageInit /\ [][StorageNext]_allvars /\ RefreshFairness /\ StreamFairness

(***************************************************************************)
(* The properties of the two instantiated components, stated in their      *)
(* modules.                                                                *)
(***************************************************************************)

\* The global cache's variables keep their types: in particular only a tar
\* file that passed save_cache's length check is uploaded.
GlobalCacheTypeOK == GC!GlobalCacheTypeOK

\* The OAuth refresh's variables keep their types.
OAuthTypeOK == OA!OAuthTypeOK

\* With a rotating provider, concurrent refreshes of one account leave it a
\* refresh token the provider still accepts (the row lock orders the
\* UPDATEs), except while a refresher holds a newer one it has not committed.
AccountRefreshTokenValid == OA!AccountRefreshTokenValid

\* A job list filter prefixed with '!' lists exactly the jobs the filter
\* does not list (NegatedListFilter's parse and the clauses of the queue
\* and completed list builders, NULL columns included).
NegationComplements == part = "filter" => JF!NegationComplementsFor(fstr)

\* Whatever the text of S3_BUCKETS_WORKSPACE_RESTRICTIONS,
\* check_bucket_workspace_restriction lets a workspace use a bucket
\* exactly when the last rule restricting the bucket lists it, or no rule
\* restricts it (parse_bucket_restrictions_from_str's trimming, skipped
\* rules and overwriting insert).
RestrictionFollowsLastRule ==
    part = "bucket" => BA!RestrictionFollowsLastRuleFor(binp)

\* An S3Permission written by its Serialize reads back through its
\* Deserialize as itself, and two written lists joined with ',' read back
\* as the union of their flags.
PermissionRoundTrip ==
    part = "perm" => BA!PermissionRoundTripFor(binp[1], binp[2])

\* Once the encoder task is spawned it finishes, and a client that keeps
\* reading sees the end of the stream: the task breaks out of its loop
\* after a DataFusion error, every blocking write returns once the client
\* reads or goes away, and the senders are dropped when the task ends.
StreamEnds ==
    (part = "jsonstream" /\ taskPc # "idle") ~> (taskPc = "done" /\ (ended \/ ~rxAlive))

\* Every refresh that was called returns, Ok or Err, although concurrent
\* refreshes of the account wait for each other's row lock in UPDATE
\* account: a refresher that fails anywhere, after its UPDATE included,
\* drops its transaction and so releases the lock the others wait for.
RefreshReturns ==
    \A r \in MCRefreshers :
        (part = "oauth" /\ fpc[r] # "idle") ~> fpc[r] \in {"done", "err"}

====
