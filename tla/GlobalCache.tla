---------------------------- MODULE GlobalCache ----------------------------
(***************************************************************************)
(* The two-tier cache of built binaries and bundles (windmill-worker,      *)
(* global_cache.rs): load_cache, exists_in_cache and save_cache on one     *)
(* cache entry by workers that share the host's disk (local_cache_path and *)
(* the tar file under ROOT_CACHE_DIR/tar) and the instance object store    *)
(* (remote path).  A file or directory is absent, partial (a copy, write   *)
(* or extraction into it is under way or was cut short) or complete; the   *)
(* remote object is absent, complete, or partial when it was uploaded from *)
(* a tar file another worker was rewriting.  Whether the entry is a        *)
(* directory (is_dir) is fixed for the entry; whether get_object_store     *)
(* returns a store is chosen per call (it returns None after a failed      *)
(* refresh, see ObjectStoreCache).  build_tar_and_push and pull_from_tar *)
(* (the tar cache of installed packages) are the same steps on a          *)
(* directory entry: the tar file under TAR_PYBASE_CACHE_DIR/<lang>, the   *)
(* object under tar/<target>/<lang>, extraction into the package folder.  *)
(***************************************************************************)
EXTENDS Naturals

CONSTANTS
    Workers,  \* workers of one host using the entry
    NONE

VARIABLES
    pip,      \* the entry is a package folder of the tar cache (push/pull)
    isDir,    \* the entry is a directory (tarred for the object store)
    local,    \* local_cache_path
    tar,      \* ROOT_CACHE_DIR/tar/<name>_tar.tar: absent|empty|partial|complete
    remote,   \* the object at the remote path
    tarW,     \* workers between File::create of the tar and the end of append_dir_all
    writers,  \* workers copying, writing or extracting into local_cache_path
    wop,      \* worker -> load | exists | save | push | pull, NONE before it calls
    wpc,      \* worker -> step
    wsnap,    \* worker -> what it read: the tar it uploads, the bytes it fetched
    ret       \* worker -> what the call returned

gvars == <<pip, isDir, local, tar, remote, tarW, writers, wop, wpc, wsnap, ret>>

Content == {"absent", "partial", "complete"}
Rets == {NONE, "hit", "miss", "true", "false", "ok", "err"}

GlobalCacheTypeOK ==
    /\ pip \in BOOLEAN
    /\ isDir \in BOOLEAN
    /\ local \in Content
    /\ tar \in Content \cup {"empty"}
    /\ remote \in Content \cup {"empty"}
    /\ tarW \subseteq Workers
    /\ writers \subseteq Workers
    /\ wop \in [Workers -> {NONE, "load", "exists", "save", "push", "pull"}]
    /\ wpc \in [Workers -> {"idle", "tarCreate", "tarAppend", "tarCheck",
                            "put", "remove", "copy", "copying", "fetch",
                            "writing", "done"}]
    /\ wsnap \in [Workers -> Content \cup {"empty", NONE}]
    /\ ret \in [Workers -> Rets]

\* The entry may already be cached locally, remotely, both or neither; no
\* tar file is left from an earlier save.  A package folder is a directory.
GlobalCacheInit ==
    /\ pip \in BOOLEAN
    /\ isDir \in BOOLEAN
    /\ pip => isDir
    /\ local \in {"absent", "complete"}
    /\ tar = "absent"
    /\ remote \in {"absent", "complete"}
    /\ tarW = {} /\ writers = {}
    /\ wop = [w \in Workers |-> NONE]
    /\ wpc = [w \in Workers |-> "idle"]
    /\ wsnap = [w \in Workers |-> NONE]
    /\ ret = [w \in Workers |-> NONE]

Goto(w, s) == wpc' = [wpc EXCEPT ![w] = s]
Return(w, v) == /\ wpc' = [wpc EXCEPT ![w] = "done"]
                /\ ret' = [ret EXCEPT ![w] = v]

\* load_cache answers (hit, miss), pull_from_tar Ok or Err.
Hit(w) == IF wop[w] = "pull" THEN "ok" ELSE "hit"
Miss(w) == IF wop[w] = "pull" THEN "err" ELSE "miss"

\* A write into a path ends complete only if no other writer of that path
\* is still under way; otherwise the two writes are interleaved.
After(w, ws, src) == IF ws = {w} /\ src = "complete" THEN "complete"
                     ELSE "partial"

(***************************************************************************)
(* load_cache                                                              *)
(***************************************************************************)

\* tokio::fs::metadata(bin_path).is_ok(): a hit if anything is there;
\* otherwise, with an object store, attempt_fetch_bytes (an absent object
\* or empty bytes is an error), and without one a miss.
LoadStart(w) ==
    /\ wpc[w] = "idle"
    /\ ~pip
    /\ wop' = [wop EXCEPT ![w] = "load"]
    /\ IF local # "absent"
       THEN Return(w, "hit") /\ wsnap' = [wsnap EXCEPT ![w] = local]
       ELSE \E store \in BOOLEAN :
              IF store /\ remote # "absent"
              THEN Goto(w, "fetch") /\ UNCHANGED <<ret, wsnap>>
              ELSE Return(w, "miss") /\ UNCHANGED wsnap
    /\ UNCHANGED <<pip, isDir, local, tar, remote, tarW, writers>>

\* The fetch may fail; the bytes are the object as it is now, and an
\* empty object is an error.
Fetch(w) ==
    /\ wpc[w] = "fetch"
    /\ \/ /\ remote \notin {"absent", "empty"}
          /\ wsnap' = [wsnap EXCEPT ![w] = remote]
          /\ writers' = writers \cup {w}
          /\ local' = "partial"
          /\ Goto(w, "writing")
          /\ UNCHANGED ret
       \/ Return(w, Miss(w)) /\ UNCHANGED <<wsnap, writers, local>>
    /\ UNCHANGED <<pip, isDir, tar, remote, tarW, wop>>

\* extract_tar (directory) or write_binary_file: a hit when it succeeds.
\* Unpacking a truncated archive may fail or stop early without an error;
\* a failed write leaves whatever it had written, or (extract_tar's
\* remove_dir_all) nothing.
WriteLocal(w) ==
    /\ wpc[w] = "writing"
    /\ writers' = writers \ {w}
    /\ \/ /\ local' = After(w, writers, wsnap[w])
          /\ wsnap' = [wsnap EXCEPT ![w] = local']
          /\ Return(w, Hit(w))
       \/ /\ local' \in {"absent", "partial"}
          /\ Return(w, Miss(w))
          /\ UNCHANGED wsnap
    /\ UNCHANGED <<pip, isDir, tar, remote, tarW, wop>>

\* pull_from_tar: attempt_fetch_bytes `?`, then extract_tar into the
\* package folder, with no look at the folder first.
PullStart(w) ==
    /\ wpc[w] = "idle"
    /\ pip
    /\ wop' = [wop EXCEPT ![w] = "pull"]
    /\ Goto(w, "fetch")
    /\ UNCHANGED <<pip, isDir, local, tar, remote, tarW, writers, wsnap, ret>>

(***************************************************************************)
(* exists_in_cache: reads only.                                            *)
(***************************************************************************)

Exists(w) ==
    /\ wpc[w] = "idle"
    /\ ~pip
    /\ wop' = [wop EXCEPT ![w] = "exists"]
    /\ \E store \in BOOLEAN :
         Return(w, IF local # "absent" \/ (store /\ remote # "absent")
                   THEN "true" ELSE "false")
    /\ UNCHANGED <<pip, isDir, local, tar, remote, tarW, writers, wsnap>>

(***************************************************************************)
(* save_cache                                                              *)
(***************************************************************************)

\* get_object_store(): with a store, a directory is tarred first and a
\* file is uploaded as it is (origin is complete); without one the entry
\* is only copied to local_cache_path.
SaveStart(w) ==
    /\ wpc[w] = "idle"
    /\ ~pip
    /\ wop' = [wop EXCEPT ![w] = "save"]
    /\ \E store \in BOOLEAN :
         \/ store /\ isDir /\ Goto(w, "tarCreate") /\ UNCHANGED wsnap
         \/ /\ store /\ ~isDir /\ Goto(w, "put")
            /\ wsnap' = [wsnap EXCEPT ![w] = "complete"]
         \/ ~store /\ Goto(w, "copy") /\ UNCHANGED wsnap
    /\ UNCHANGED <<pip, isDir, local, tar, remote, tarW, writers, ret>>

\* build_tar_and_push: create_dir_all of the tar directory, which may
\* fail, then the same tar steps as save_cache.
PushStart(w) ==
    /\ wpc[w] = "idle"
    /\ pip
    /\ wop' = [wop EXCEPT ![w] = "push"]
    /\ \/ Goto(w, "tarCreate") /\ UNCHANGED ret
       \/ Return(w, "err")
    /\ UNCHANGED <<pip, isDir, local, tar, remote, tarW, writers, wsnap>>

\* std::fs::File::create(tar_path): creates or truncates the shared path.
TarCreate(w) ==
    /\ wpc[w] = "tarCreate"
    /\ \/ tar' = "empty" /\ tarW' = tarW \cup {w} /\ Goto(w, "tarAppend")
          /\ UNCHANGED ret
       \/ Return(w, "err") /\ UNCHANGED <<tar, tarW>>
    /\ UNCHANGED <<pip, isDir, local, remote, writers, wop, wsnap>>

\* tar.append_dir_all(".", origin): may fail through `?`.
TarAppend(w) ==
    /\ wpc[w] = "tarAppend"
    /\ tarW' = tarW \ {w}
    /\ \/ tar' = After(w, tarW, "complete") /\ Goto(w, "tarCheck")
          /\ UNCHANGED ret
       \/ tar' = "partial" /\ Return(w, "err")
    /\ UNCHANGED <<pip, isDir, local, remote, writers, wop, wsnap>>

\* metadata(tar_path) with length 0 is an error; the file is read only
\* later, by the upload.
TarCheck(w) ==
    /\ wpc[w] = "tarCheck"
    /\ IF tar \in {"absent", "empty"}
       THEN Return(w, "err")
       ELSE Goto(w, "put") /\ UNCHANGED ret
    /\ UNCHANGED <<pip, isDir, local, tar, remote, tarW, writers, wop, wsnap>>

\* What std::fs::read returns now: the tar file of a directory as it is
\* at this step (another worker's File::create may have truncated it
\* since the length check), the origin file of a binary.
Upload(w) == IF isDir THEN tar ELSE wsnap[w]

\* std::fs::read of the file, then os.put: a failed read returns through
\* `?`, a failed put is logged and the local copy still made.  After a
\* successful put of a directory, tokio::fs::remove_dir_all(tar_path) is
\* called on the tar file, which is not a directory: it fails, `?` returns
\* the error, and neither the tar file is removed nor the local copy made.
Put(w) ==
    /\ wpc[w] = "put"
    /\ wop[w] = "save"
    /\ \/ /\ Upload(w) # "absent"
          /\ remote' = Upload(w)
          /\ IF isDir THEN Return(w, "err")
             ELSE Goto(w, "copy") /\ UNCHANGED ret
       \/ /\ Upload(w) # "absent"
          /\ Goto(w, "copy") /\ UNCHANGED <<remote, ret>>
       \/ Return(w, "err") /\ UNCHANGED remote  \* std::fs::read failed
    /\ UNCHANGED <<pip, isDir, local, tar, tarW, writers, wop, wsnap>>

\* build_tar_and_push: std::fs::read `?` of the tar as it is now and
\* s3_client.put, whose failure is returned.
PushPut(w) ==
    /\ wpc[w] = "put"
    /\ wop[w] = "push"
    /\ \/ /\ tar # "absent"
          /\ remote' = tar
          /\ Goto(w, "remove") /\ UNCHANGED ret
       \/ Return(w, "err") /\ UNCHANGED remote
    /\ UNCHANGED <<pip, isDir, local, tar, tarW, writers, wop, wsnap>>

\* tokio::fs::remove_file(tar_path) `?`, which fails when another push of
\* the package already removed the file.
PushRemove(w) ==
    /\ wpc[w] = "remove"
    /\ IF tar = "absent" THEN Return(w, "err") /\ UNCHANGED tar
       ELSE Return(w, "ok") /\ tar' = "absent"
    /\ UNCHANGED <<pip, isDir, local, remote, tarW, writers, wop, wsnap>>

\* copy_dir_recursively(origin, local_cache_path) or std::fs::copy: both
\* write in place.
CopyStart(w) ==
    /\ wpc[w] = "copy"
    /\ local' = "partial" /\ writers' = writers \cup {w}
    /\ Goto(w, "copying")
    /\ UNCHANGED <<pip, isDir, tar, remote, tarW, wop, wsnap, ret>>

CopyEnd(w) ==
    /\ wpc[w] = "copying"
    /\ writers' = writers \ {w}
    /\ \/ local' = After(w, writers, "complete") /\ Return(w, "ok")
       \/ UNCHANGED local /\ Return(w, "err")
    /\ UNCHANGED <<pip, isDir, tar, remote, tarW, wop, wsnap>>

GlobalCacheNext ==
    \E w \in Workers :
        \/ LoadStart(w) \/ Fetch(w) \/ WriteLocal(w)
        \/ Exists(w)
        \/ SaveStart(w) \/ TarCreate(w) \/ TarAppend(w) \/ TarCheck(w)
        \/ Put(w) \/ CopyStart(w) \/ CopyEnd(w)
        \/ PushStart(w) \/ PushPut(w) \/ PushRemove(w) \/ PullStart(w)

GlobalCacheSpec == GlobalCacheInit /\ [][GlobalCacheNext]_gvars

(***************************************************************************)
(* Properties.                                                             *)
(***************************************************************************)

\* load_cache reports a hit, and pull_from_tar success, only for an entry
\* that is complete: a job told its binary, bundle or packages are cached
\* runs what it finds at bin_path or imports from the folder.
LoadHitComplete ==
    \A w \in Workers :
        wop[w] \in {"load", "pull"} /\ ret[w] \in {"hit", "ok"} =>
            wsnap[w] = "complete"

====
