---------------------------- MODULE PostgresTrigger ----------------------------
(***************************************************************************)
(* The postgres trigger API (windmill-api postgres_triggers/handler.rs).   *)
(* A trigger is a row in windmill's database naming a logical replication  *)
(* slot and a publication that live in the user's database.  The handlers *)
(* write the two databases in separate transactions, and a replication    *)
(* slot, unlike a publication, is not transactional: it survives the      *)
(* rollback of the transaction that created it.  Each request runs one    *)
(* handler, step by step, concurrently with the others.  One trigger path *)
(* is modelled; slot and publication names are model values.              *)
(***************************************************************************)
EXTENDS Naturals, FiniteSets

CONSTANTS
    Requests,  \* concurrent API requests
    Names,     \* slot and publication names
    NONE

\* The handler a request runs.  create_gen is create_postgres_trigger with
\* no names (create_custom_slot_and_publication_inner generates them),
\* create_given is create_postgres_trigger with both names supplied.
Ops == {"create_gen", "create_given", "update", "delete", "set_enabled",
        "create_slot", "drop_slot", "create_pub", "delete_pub", "alter_pub"}

\* PublicationData abstracted to its effect: tables that exist, a table
\* list naming a missing table (the DDL fails), or no table list (FOR ALL
\* TABLES).  "nopub" is update's `publication: None`.
PubInputs == {"tables", "bad", "all"}

\* A publication in the user's database: absent, FOR ALL TABLES, or for a
\* table list (puballtables = false).
Scopes == {"none", "all", "tables"}

VARIABLES
    slots,       \* pg_replication_slots of the user's database
    pubs,        \* name -> scope, pg_publication of the user's database
    row,         \* the postgres_trigger row: NONE or [slot, pub, enabled]
    vouched,     \* which of the row's slot and publication its writer ensured
    rop,         \* request -> handler, NONE before it starts
    rpc,         \* request -> step
    rslot,       \* request -> slot name it works on
    rpub,        \* request -> publication name it works on
    rin,         \* request -> publication input
    rexists,     \* request -> update's check_if_logical_replication_slot_exist
    rall,        \* request -> all_table read by get_publication_scope_and_transaction
    used,        \* names ever created (generate_random_string never repeats)
    slotRemoved, \* names whose slot a request dropped
    pubRemoved   \* names whose publication a request dropped

vars == <<slots, pubs, row, vouched, rop, rpc, rslot, rpub, rin, rexists, rall, used,
          slotRemoved, pubRemoved>>

Steps == {"idle", "single", "slotpub", "insert", "check", "mkslot", "readpub",
          "pubddl", "updrow", "done", "err"}

PgTypeOK ==
    /\ slots \subseteq Names
    /\ pubs \in [Names -> Scopes]
    /\ row \in [slot : Names, pub : Names, enabled : BOOLEAN] \cup {NONE}
    /\ vouched \subseteq {"slot", "pub"}
    /\ rop \in [Requests -> Ops \cup {NONE}]
    /\ rpc \in [Requests -> Steps]
    /\ rslot \in [Requests -> Names \cup {NONE}]
    /\ rpub \in [Requests -> Names \cup {NONE}]
    /\ rin \in [Requests -> PubInputs \cup {"nopub", NONE}]
    /\ rexists \in [Requests -> BOOLEAN]
    /\ rall \in [Requests -> BOOLEAN \cup {NONE}]
    /\ used \subseteq Names /\ slotRemoved \subseteq Names
    /\ pubRemoved \subseteq Names

Init ==
    /\ slots = {}
    /\ pubs = [n \in Names |-> "none"]
    /\ row = NONE
    /\ vouched = {}
    /\ rop = [r \in Requests |-> NONE]
    /\ rpc = [r \in Requests |-> "idle"]
    /\ rslot = [r \in Requests |-> NONE]
    /\ rpub = [r \in Requests |-> NONE]
    /\ rin = [r \in Requests |-> NONE]
    /\ rexists = [r \in Requests |-> FALSE]
    /\ rall = [r \in Requests |-> NONE]
    /\ used = {} /\ slotRemoved = {} /\ pubRemoved = {}

Exists(n) == pubs[n] # "none"

\* update_pg_publication (inside the caller's transaction), given the
\* all_table read earlier (NONE: the publication did not exist): the scope
\* it leaves, or "fail" when a statement errors.  drop_publication is
\* DROP ... IF EXISTS (the FOR ALL TABLES arm drops a publication that may
\* not exist); create_pg_publication fails on an existing name or a
\* missing table; ALTER ... SET TABLE fails on a missing or FOR ALL TABLES
\* publication.
UpdatePgPublication(n, in, allTable) ==
    CASE in = "all" -> "all"
      [] allTable \in {NONE, TRUE} ->
            IF (allTable = NONE /\ Exists(n)) \/ in = "bad" THEN "fail"
            ELSE "tables"
      [] OTHER ->
            IF pubs[n] # "tables" \/ in = "bad" THEN "fail" ELSE "tables"

Goto(r, s) == rpc' = [rpc EXCEPT ![r] = s]

(***************************************************************************)
(* A request starts: the handler and its inputs are chosen.                *)
(***************************************************************************)

\* check_scopes and the early BadRequest returns are not modelled: a
\* request that passes them names what it works on.  A generated name is
\* one nobody has named before; a supplied one is any name.  Handlers
\* that take one name use it for both.
Begin(r) ==
    /\ rop[r] = NONE
    /\ \E op \in Ops, s \in Names, p \in Names, in \in PubInputs \cup {"nopub"} :
        /\ op = "create_gen" => s \notin used
        /\ op \notin {"create_given", "update"} => s = p
        /\ in = "nopub" => op = "update"
        /\ op \notin {"create_gen", "update", "create_pub", "alter_pub"} =>
               in = "all"
        /\ rop' = [rop EXCEPT ![r] = op]
        /\ rslot' = [rslot EXCEPT ![r] = s]
        /\ rpub' = [rpub EXCEPT ![r] = p]
        /\ rin' = [rin EXCEPT ![r] = in]
        /\ Goto(r, CASE op = "create_gen" -> "slotpub"
                     [] op = "create_given" -> "insert"
                     [] op = "update" -> "check"
                     [] op = "alter_pub" -> "readpub"
                     [] OTHER -> "single")
        /\ used' = used \cup {s, p}
    /\ UNCHANGED <<slots, pubs, row, vouched, rexists, rall, slotRemoved, pubRemoved>>

(***************************************************************************)
(* create_postgres_trigger.                                                *)
(***************************************************************************)

\* create_custom_slot_and_publication_inner: in one transaction of the
\* user's database, create_logical_replication_slot then
\* create_pg_publication, then commit.  A failed publication rolls the
\* transaction back, but the slot stays; the error is returned.
CreateSlotAndPublication(r) ==
    /\ rpc[r] = "slotpub"
    /\ LET n == rslot[r] IN
       \/ /\ n \in slots                           \* slot creation fails
          /\ Goto(r, "err")
          /\ UNCHANGED <<slots, pubs>>
       \/ /\ n \notin slots /\ (Exists(n) \/ rin[r] = "bad")
          /\ slots' = slots \cup {n}
          /\ Goto(r, "err")
          /\ UNCHANGED pubs
       \/ /\ n \notin slots /\ ~Exists(n) /\ rin[r] # "bad"
          /\ slots' = slots \cup {n}
          /\ pubs' = [pubs EXCEPT ![n] = rin[r]]
          /\ Goto(r, "insert")
    /\ UNCHANGED <<row, vouched, rop, rslot, rpub, rin, rexists, rall, used,
                   slotRemoved, pubRemoved>>

\* The INSERT into postgres_trigger and its audit log, in one transaction
\* of windmill's database; the path is the primary key, so a second
\* trigger at the path fails and the error is returned.
InsertTrigger(r) ==
    /\ rpc[r] = "insert"
    /\ IF row = NONE
       THEN /\ \E enabled \in BOOLEAN :
                   row' = [slot |-> rslot[r], pub |-> rpub[r], enabled |-> enabled]
            /\ vouched' = IF rop[r] = "create_gen" THEN {"slot", "pub"} ELSE {}
            /\ Goto(r, "done")
       ELSE /\ Goto(r, "err")
            /\ UNCHANGED <<row, vouched>>
    /\ UNCHANGED <<slots, pubs, rop, rslot, rpub, rin, rexists, rall, used,
                   slotRemoved, pubRemoved>>

(***************************************************************************)
(* update_postgres_trigger.                                                *)
(***************************************************************************)

\* Mutant: the slot is created only when the check found it (`if exists`).
UpdateCreateSlotInverted(r) ==
    /\ rpc[r] = "mkslot"
    /\ LET n == rslot[r] IN
       \/ /\ rexists[r] /\ n \in slots
          /\ Goto(r, "err")
          /\ UNCHANGED slots
       \/ /\ ~rexists[r] \/ n \notin slots
          /\ UNCHANGED slots
          /\ Goto(r, IF rin[r] = "nopub" THEN "updrow" ELSE "readpub")
    /\ UNCHANGED <<pubs, row, vouched, rop, rslot, rpub, rin, rexists, rall,
                   used, slotRemoved, pubRemoved>>

\* check_if_logical_replication_slot_exist, on the connection, before the
\* transaction begins.
CheckSlotExists(r) ==
    /\ rpc[r] = "check"
    /\ rexists' = [rexists EXCEPT ![r] = rslot[r] \in slots]
    /\ Goto(r, "mkslot")
    /\ UNCHANGED <<slots, pubs, row, vouched, rop, rslot, rpub, rin, rall,
                   used, slotRemoved, pubRemoved>>

\* In the transaction: a slot found missing is created, which fails if it
\* exists by now; with no publication data the transaction commits empty.
UpdateCreateSlot(r) ==
    /\ rpc[r] = "mkslot"
    /\ LET n == rslot[r] IN
       \/ /\ ~rexists[r] /\ n \in slots
          /\ Goto(r, "err")
          /\ UNCHANGED slots
       \/ /\ rexists[r] \/ n \notin slots
          /\ slots' = IF rexists[r] THEN slots ELSE slots \cup {n}
          /\ Goto(r, IF rin[r] = "nopub" THEN "updrow" ELSE "readpub")
    /\ UNCHANGED <<pubs, row, vouched, rop, rslot, rpub, rin, rexists, rall,
                   used, slotRemoved, pubRemoved>>

\* get_publication_scope_and_transaction: puballtables of the
\* publication, or NONE when there is none (update_postgres_trigger and
\* alter_publication, inside their transaction).
ReadPublication(r) ==
    /\ rpc[r] = "readpub"
    /\ rall' = [rall EXCEPT ![r] = IF Exists(rpub[r])
                                   THEN pubs[rpub[r]] = "all" ELSE NONE]
    /\ Goto(r, "pubddl")
    /\ UNCHANGED <<slots, pubs, row, vouched, rop, rslot, rpub, rin, rexists,
                   used, slotRemoved, pubRemoved>>

\* update_pg_publication from that read, then the commit.  The DDL holds
\* the publication's lock to the commit, so it and the commit are one
\* step; a failure rolls back the publication, not a slot created before.
PublicationDdl(r) ==
    /\ rpc[r] = "pubddl"
    /\ rop[r] \in {"update", "alter_pub"}
    /\ LET res == UpdatePgPublication(rpub[r], rin[r], rall[r]) IN
       IF res = "fail"
       THEN /\ Goto(r, "err")
            /\ UNCHANGED pubs
       ELSE /\ pubs' = [pubs EXCEPT ![rpub[r]] = res]
            /\ Goto(r, IF rop[r] = "update" THEN "updrow" ELSE "done")
    /\ UNCHANGED <<slots, row, vouched, rop, rslot, rpub, rin, rexists, rall,
                   used, slotRemoved, pubRemoved>>

\* The UPDATE of postgres_trigger and its audit log.  A row deleted
\* meanwhile matches nothing, and the handler still returns Ok.
UpdateRow(r) ==
    /\ rpc[r] = "updrow"
    /\ IF row # NONE
       THEN /\ row' = [row EXCEPT !.slot = rslot[r], !.pub = rpub[r]]
            /\ vouched' = IF rin[r] = "nopub" THEN {"slot"} ELSE {"slot", "pub"}
       ELSE UNCHANGED <<row, vouched>>
    /\ Goto(r, "done")
    /\ UNCHANGED <<slots, pubs, rop, rslot, rpub, rin, rexists, rall, used,
                   slotRemoved, pubRemoved>>

(***************************************************************************)
(* The one-step handlers.                                                  *)
(***************************************************************************)

\* delete_postgres_trigger: deletes the row; the slot and the publication
\* are left in the user's database.
DeleteTrigger(r) ==
    /\ rpc[r] = "single" /\ rop[r] = "delete"
    /\ row' = NONE
    /\ vouched' = {}
    /\ Goto(r, "done")
    /\ UNCHANGED <<slots, pubs, rop, rslot, rpub, rin, rexists, rall, used,
                   slotRemoved, pubRemoved>>

\* set_enabled: UPDATE ... RETURNING 1, NotFound when no row matched.
SetEnabled(r) ==
    /\ rpc[r] = "single" /\ rop[r] = "set_enabled"
    /\ IF row # NONE
       THEN /\ \E b \in BOOLEAN : row' = [row EXCEPT !.enabled = b]
            /\ Goto(r, "done")
       ELSE /\ Goto(r, "err")
            /\ UNCHANGED row
    /\ UNCHANGED <<slots, pubs, vouched, rop, rslot, rpub, rin, rexists, rall,
                   used, slotRemoved, pubRemoved>>

\* create_slot: create_logical_replication_slot outside a transaction.
CreateSlot(r) ==
    /\ rpc[r] = "single" /\ rop[r] = "create_slot"
    /\ IF rslot[r] \in slots
       THEN Goto(r, "err") /\ UNCHANGED slots
       ELSE Goto(r, "done") /\ slots' = slots \cup {rslot[r]}
    /\ UNCHANGED <<pubs, row, vouched, rop, rslot, rpub, rin, rexists, rall,
                   used, slotRemoved, pubRemoved>>

\* drop_slot_name: drop_logical_replication_slot terminates the backend
\* reading the slot, then pg_drop_replication_slot, which fails on a
\* missing slot.
DropSlot(r) ==
    /\ rpc[r] = "single" /\ rop[r] = "drop_slot"
    /\ IF rslot[r] \in slots
       THEN /\ slots' = slots \ {rslot[r]}
            /\ slotRemoved' = slotRemoved \cup {rslot[r]}
            /\ Goto(r, "done")
       ELSE Goto(r, "err") /\ UNCHANGED <<slots, slotRemoved>>
    /\ UNCHANGED <<pubs, row, vouched, rop, rslot, rpub, rin, rexists, rall,
                   used, pubRemoved>>

\* Mutant: the DDL's error is ignored and the input recorded as the scope.
CreatePublicationUnchecked(r) ==
    /\ rpc[r] = "single" /\ rop[r] = "create_pub"
    /\ IF Exists(rpub[r])
       THEN Goto(r, "err") /\ UNCHANGED pubs
       ELSE Goto(r, "done") /\ pubs' = [pubs EXCEPT ![rpub[r]] = rin[r]]
    /\ UNCHANGED <<slots, row, vouched, rop, rslot, rpub, rin, rexists, rall,
                   used, slotRemoved, pubRemoved>>

\* create_publication: create_pg_publication in a transaction.
CreatePublication(r) ==
    /\ rpc[r] = "single" /\ rop[r] = "create_pub"
    /\ IF Exists(rpub[r]) \/ rin[r] = "bad"
       THEN Goto(r, "err") /\ UNCHANGED pubs
       ELSE Goto(r, "done") /\ pubs' = [pubs EXCEPT ![rpub[r]] = rin[r]]
    /\ UNCHANGED <<slots, row, vouched, rop, rslot, rpub, rin, rexists, rall,
                   used, slotRemoved, pubRemoved>>

\* delete_publication: drop_publication (IF EXISTS).
DeletePublication(r) ==
    /\ rpc[r] = "single" /\ rop[r] = "delete_pub"
    /\ pubs' = [pubs EXCEPT ![rpub[r]] = "none"]
    /\ pubRemoved' = IF Exists(rpub[r]) THEN pubRemoved \cup {rpub[r]}
                     ELSE pubRemoved
    /\ Goto(r, "done")
    /\ UNCHANGED <<slots, row, vouched, rop, rslot, rpub, rin, rexists, rall,
                   used, slotRemoved>>

Next ==
    \E r \in Requests :
        \/ Begin(r)
        \/ CreateSlotAndPublication(r) \/ InsertTrigger(r)
        \/ CheckSlotExists(r) \/ UpdateCreateSlot(r) \/ ReadPublication(r)
        \/ PublicationDdl(r) \/ UpdateRow(r)
        \/ DeleteTrigger(r) \/ SetEnabled(r) \/ CreateSlot(r) \/ DropSlot(r)
        \/ CreatePublication(r) \/ DeletePublication(r)

Spec == Init /\ [][Next]_vars

(***************************************************************************)
(* Properties.                                                             *)
(***************************************************************************)

\* A slot or publication that the handler which last wrote the trigger row
\* created or checked (create_postgres_trigger with generated names,
\* update_postgres_trigger) exists in the user's database, unless a
\* drop_slot_name or delete_publication request removed it: whatever the
\* interleaving of concurrent handlers, a trigger is never left pointing
\* at a slot or publication that a failed or skipped step never made.
VouchedTargetsExist ==
    row # NONE =>
        /\ "slot" \in vouched => row.slot \in slots \cup slotRemoved
        /\ "pub" \in vouched => Exists(row.pub) \/ row.pub \in pubRemoved

\* A create_postgres_trigger request that generated its slot and returned
\* an error leaves no replication slot behind (the slot and publication
\* are created in one transaction of the user's database).
FailedCreateLeavesNoSlot ==
    \A r \in Requests :
        rop[r] = "create_gen" /\ rpc[r] = "err" => rslot[r] \notin slots

====
