--------------------------- MODULE ObjectStoreCache ---------------------------
(***************************************************************************)
(* The process-wide object store client cache (windmill-object-store,     *)
(* OBJECT_STORE_SETTINGS): get_object_store, called by every job that     *)
(* reads or writes the store, refreshes an expiring (AWS OIDC) client;    *)
(* reload_object_store_setting rebuilds the client when the instance      *)
(* setting changes.  Both build a client across an await and then take    *)
(* the write lock.  A setting is abstracted to a version number; a client *)
(* to the version it was built from and its credential expiration.  Time  *)
(* is in minutes.                                                          *)
(***************************************************************************)
EXTENDS Naturals

CONSTANTS
    Getters,      \* concurrent get_object_store callers
    MaxVersion,   \* setting versions 1..MaxVersion; 0 is "no setting"
    OidcVersions, \* versions that are AwsOidc settings (expiring clients)
    Ttl,          \* lifetime of OIDC credentials, in minutes
    MaxTime,      \* bound on the clock
    NONE

ASSUME OidcVersions \subseteq 1..MaxVersion /\ Ttl \in Nat \ {0}

VARIABLES
    db,            \* the object store setting in global_settings
    reloadPending, \* a reload has been requested (startup, setting change)
    cache,         \* OBJECT_STORE_SETTINGS: NONE or [ver, exp]
    rpc,           \* reloader: idle | building
    rver,          \* the version the reloader read
    lastReloaded,  \* version of the last client the reloader installed
    gpc,           \* getter -> idle | building
    gver,          \* getter -> the setting it is refreshing from
    gret,          \* getter -> last client returned: NONE or [ver, exp, at]
    now,
    envBucket,     \* the S3_CACHE_BUCKET environment variable is set
    pro            \* get_license_plan() is LicensePlan::Pro

vars == <<db, reloadPending, cache, rpc, rver, lastReloaded, gpc, gver, gret,
          now, envBucket, pro>>

Expiry == 0..(MaxTime + Ttl) \cup {NONE}

ObjTypeOK ==
    /\ db \in 0..MaxVersion
    /\ reloadPending \in BOOLEAN
    /\ cache \in [ver : 0..MaxVersion, exp : Expiry] \cup {NONE}
    /\ rpc \in {"idle", "building"}
    /\ rver \in 0..MaxVersion
    /\ lastReloaded \in 0..MaxVersion
    /\ gpc \in [Getters -> {"idle", "building"}]
    /\ gver \in [Getters -> 0..MaxVersion]
    /\ gret \in [Getters -> [ver : 0..MaxVersion, exp : Expiry, at : Nat]
                            \cup {NONE}]
    /\ now \in 0..MaxTime
    /\ envBucket \in BOOLEAN
    /\ pro \in BOOLEAN

\* The instance starts with or without a setting and asks for a first
\* reload; the environment and the licence are fixed for the process.
Init ==
    /\ db \in 0..1
    /\ reloadPending = TRUE
    /\ cache = NONE
    /\ rpc = "idle"
    /\ rver = 0
    /\ lastReloaded = 0
    /\ gpc = [g \in Getters |-> "idle"]
    /\ gver = [g \in Getters |-> 0]
    /\ gret = [g \in Getters |-> NONE]
    /\ now = 0
    /\ envBucket \in BOOLEAN
    /\ pro \in BOOLEAN

\* build_object_store_from_settings: an AwsOidc client carries
\* refresh = the credentials' expiration; other clients carry none.
Built(v) == [ver |-> v, exp |-> IF v \in OidcVersions THEN now + Ttl ELSE NONE]

\* ObjectStoreRefresh::refresh_needed: `refresh < Utc::now() - 1 minute`.
RefreshNeeded(c) == c.exp # NONE /\ c.exp < now - 1

Returned(c) == [ver |-> c.ver, exp |-> c.exp, at |-> now]

\* build_s3_client_from_settings with every field None (bucket and keys
\* from the environment), wrapped by ExpirableObjectStore::from: no
\* setting version, no refresh.
EnvStore == [ver |-> 0, exp |-> NONE]

(***************************************************************************)
(* Settings and reload_object_store_setting.                               *)
(***************************************************************************)

\* An admin saves a new object store setting; the change notification
\* triggers a reload.
ChangeSettings ==
    /\ db < MaxVersion
    /\ db' = db + 1
    /\ reloadPending' = TRUE
    /\ UNCHANGED <<cache, rpc, rver, lastReloaded, gpc, gver, gret, now,
                   envBucket, pro>>

\* Mutant: the S3_CACHE_BUCKET branch builds its client without the
\* licence check.
ReloadLoadEnvNoPlanCheck ==
    /\ rpc = "idle"
    /\ reloadPending
    /\ reloadPending' = FALSE
    /\ \/ /\ db # 0 /\ pro
          /\ UNCHANGED <<cache, rpc, rver, lastReloaded>>
       \/ /\ db # 0 /\ ~pro
          /\ rpc' = "building" /\ rver' = db
          /\ UNCHANGED <<cache, lastReloaded>>
       \/ /\ db = 0 /\ envBucket
          /\ cache' \in {EnvStore, NONE} /\ lastReloaded' = 0
          /\ UNCHANGED <<rpc, rver>>
       \/ /\ db = 0 /\ ~envBucket
          /\ cache' = NONE /\ lastReloaded' = 0
          /\ UNCHANGED <<rpc, rver>>
    /\ UNCHANGED <<db, gpc, gver, gret, now, envBucket, pro>>

\* load_value_from_global_settings.  A setting on the Pro plan returns
\* Never at once; otherwise it is parsed and a client built from it.  No
\* setting takes the write lock: with S3_CACHE_BUCKET set, the Pro plan
\* returns Never leaving the cache as it is, any other plan installs the
\* client built from the environment, or None when that build fails
\* (`.ok()`); without it the cache is cleared.
ReloadLoad ==
    /\ rpc = "idle"
    /\ reloadPending
    /\ reloadPending' = FALSE
    /\ \/ /\ db # 0 /\ pro
          /\ UNCHANGED <<cache, rpc, rver, lastReloaded>>
       \/ /\ db # 0 /\ ~pro
          /\ rpc' = "building" /\ rver' = db
          /\ UNCHANGED <<cache, lastReloaded>>
       \/ /\ db = 0 /\ envBucket /\ pro
          /\ UNCHANGED <<cache, rpc, rver, lastReloaded>>
       \/ /\ db = 0 /\ envBucket /\ ~pro
          /\ cache' \in {EnvStore, NONE} /\ lastReloaded' = 0
          /\ UNCHANGED <<rpc, rver>>
       \/ /\ db = 0 /\ ~envBucket
          /\ cache' = NONE /\ lastReloaded' = 0
          /\ UNCHANGED <<rpc, rver>>
    /\ UNCHANGED <<db, gpc, gver, gret, now, envBucket, pro>>

\* Reading or parsing the setting fails: the error is logged and the
\* function returns Never.
ReloadLoadFails ==
    /\ rpc = "idle"
    /\ reloadPending
    /\ reloadPending' = FALSE
    /\ UNCHANGED <<db, cache, rpc, rver, lastReloaded, gpc, gver, gret, now,
                   envBucket, pro>>

\* The client is built (an await) and installed under the write lock; a
\* failed OIDC build returns Later and is retried, any other failure is
\* logged and the old client stays.
ReloadBuild ==
    /\ rpc = "building"
    /\ rpc' = "idle"
    /\ \/ /\ cache' = Built(rver)
          /\ lastReloaded' = rver
          /\ UNCHANGED reloadPending
       \/ /\ reloadPending' = (rver \in OidcVersions \/ reloadPending)
          /\ UNCHANGED <<cache, lastReloaded>>
    /\ UNCHANGED <<db, rver, gpc, gver, gret, now, envBucket, pro>>

(***************************************************************************)
(* get_object_store.                                                       *)
(***************************************************************************)

\* Under the read lock: no client returns None, a client that needs no
\* refresh is returned; otherwise its refresh settings are cloned and the
\* read lock dropped.
GetRead(g) ==
    /\ gpc[g] = "idle"
    /\ IF cache # NONE /\ RefreshNeeded(cache)
       THEN /\ gpc' = [gpc EXCEPT ![g] = "building"]
            /\ gver' = [gver EXCEPT ![g] = cache.ver]
            /\ UNCHANGED gret
       ELSE /\ gret' = [gret EXCEPT ![g] = IF cache = NONE THEN NONE
                                           ELSE Returned(cache)]
            /\ UNCHANGED <<gpc, gver>>
    /\ UNCHANGED <<db, reloadPending, cache, rpc, rver, lastReloaded, now,
                   envBucket, pro>>

\* refresh().await builds a client from the cloned settings; on success it
\* overwrites the cache under the write lock, on failure None is returned.
GetRefresh(g) ==
    /\ gpc[g] = "building"
    /\ gpc' = [gpc EXCEPT ![g] = "idle"]
    /\ \/ /\ cache' = Built(gver[g])
          /\ gret' = [gret EXCEPT ![g] = Returned(Built(gver[g]))]
       \/ /\ gret' = [gret EXCEPT ![g] = NONE]
          /\ UNCHANGED cache
    /\ UNCHANGED <<db, reloadPending, rpc, rver, lastReloaded, gver, now,
                   envBucket, pro>>

Tick ==
    /\ now < MaxTime
    /\ now' = now + 1
    /\ UNCHANGED <<db, reloadPending, cache, rpc, rver, lastReloaded, gpc,
                   gver, gret, envBucket, pro>>

Next ==
    \/ ChangeSettings \/ ReloadLoad \/ ReloadLoadFails \/ ReloadBuild \/ Tick
    \/ \E g \in Getters : GetRead(g) \/ GetRefresh(g)

Spec == Init /\ [][Next]_vars

(***************************************************************************)
(* Properties.                                                             *)
(***************************************************************************)

\* A client get_object_store hands to a job holds credentials that have
\* not expired yet (an AwsOidc client is refreshed before its expiration).
NoExpiredCredentials ==
    \A g \in Getters : gret[g] # NONE /\ gret[g].exp # NONE =>
        gret[g].exp > gret[g].at

\* Once reload_object_store_setting has installed the client for a
\* setting, the cache never goes back to a client of an older setting.
CacheNotOlderThanReload ==
    cache # NONE => cache.ver >= lastReloaded

\* On the Pro plan no job is ever handed an object store: both ways of
\* installing a client, from the setting and from S3_CACHE_BUCKET, check
\* the licence before building, and a getter only refreshes a client the
\* reloader installed.
ProPlanServesNoStore ==
    pro => cache = NONE /\ \A g \in Getters : gret[g] = NONE

=============================================================================
