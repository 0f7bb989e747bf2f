---------------------------- MODULE OAuthRefresh ----------------------------
(***************************************************************************)
(* _refresh_workspace_integration_token (windmill-store,                   *)
(* oauth_refresh_oss.rs): concurrent refreshes of one account.  Each runs  *)
(* in the caller's transaction, exchanges the refresh token it was given   *)
(* at the provider, writes the account row (refresh_token, expires_at),    *)
(* commits, and only then writes the encrypted access token into the       *)
(* variable, outside the transaction.  Tokens are numbered in the order    *)
(* the provider issues them: access token k expires after token k-1, and   *)
(* the account's expires_at is abstracted to the number of the access      *)
(* token it was computed for.                                              *)
(***************************************************************************)
EXTENDS Naturals

CONSTANTS
    Refreshers,  \* concurrent calls for the same account
    MaxIssued,   \* bound on the tokens the provider issues
    NONE

VARIABLES
    rotating,  \* the provider issues a new refresh token on each exchange
    issued,    \* tokens the provider issued so far (token 0 is the first)
    validRt,   \* refresh tokens the provider still accepts
    acct,      \* committed account row: [rt, tok]
    lockedBy,  \* the refresher whose uncommitted UPDATE holds the row lock
    varTok,    \* access token stored in the variable
    fpc,       \* refresher -> step
    rarg,      \* refresher -> the refresh_token argument
    rnew,      \* refresher -> access token number it obtained, NONE before
    rgotRt,    \* refresher -> the response carried a refresh_token
    rpend      \* refresher -> its uncommitted account row, NONE before

ovars == <<rotating, issued, validRt, acct, lockedBy, varTok, fpc, rarg, rnew, rgotRt,
           rpend>>

Tokens == 0..MaxIssued
AcctRow == [rt : Tokens, tok : Tokens]
Steps == {"idle", "configure", "exchange", "parse", "update", "commit",
          "variable", "done", "err"}

OAuthTypeOK ==
    /\ rotating \in BOOLEAN
    /\ issued \in Tokens
    /\ validRt \subseteq Tokens
    /\ acct \in AcctRow
    /\ lockedBy \in Refreshers \cup {NONE}
    /\ varTok \in Tokens
    /\ fpc \in [Refreshers -> Steps]
    /\ rarg \in [Refreshers -> Tokens]
    /\ rnew \in [Refreshers -> Tokens \cup {NONE}]
    /\ rgotRt \in [Refreshers -> BOOLEAN]
    /\ rpend \in [Refreshers -> AcctRow \cup {NONE}]

OAuthInit ==
    /\ rotating \in BOOLEAN
    /\ issued = 0
    /\ validRt = {0}
    /\ acct = [rt |-> 0, tok |-> 0]
    /\ lockedBy = NONE
    /\ varTok = 0
    /\ fpc = [r \in Refreshers |-> "idle"]
    /\ rarg = [r \in Refreshers |-> 0]
    /\ rnew = [r \in Refreshers |-> NONE]
    /\ rgotRt = [r \in Refreshers |-> FALSE]
    /\ rpend = [r \in Refreshers |-> NONE]

\* Mutant: the error path keeps the transaction (and its row lock) open.
FailKeepsLock(r) ==
    /\ fpc' = [fpc EXCEPT ![r] = "err"]
    /\ lockedBy' = lockedBy
    /\ rpend' = [rpend EXCEPT ![r] = NONE]

\* Return Err through `?`: dropping the transaction rolls back the
\* uncommitted UPDATE and releases the row lock.
Fail(r) ==
    /\ fpc' = [fpc EXCEPT ![r] = "err"]
    /\ lockedBy' = IF lockedBy = r THEN NONE ELSE lockedBy
    /\ rpend' = [rpend EXCEPT ![r] = NONE]

Step(r, s) == fpc' = [fpc EXCEPT ![r] = s]

\* The caller reads the account's refresh token and calls the function.
Call(r) ==
    /\ fpc[r] = "idle"
    /\ rarg' = [rarg EXCEPT ![r] = acct.rt]
    /\ Step(r, "configure")
    /\ UNCHANGED <<rotating, issued, validRt, acct, lockedBy, varTok, rnew, rgotRt,
                   rpend>>

\* SELECT oauth_data, then the client id and secret (instance-shared or
\* the integration's own) and the endpoint URLs: any of them may be
\* missing or invalid.
Configure(r) ==
    /\ fpc[r] = "configure"
    /\ \/ Step(r, "exchange") /\ UNCHANGED <<lockedBy, rpend>>
       \/ Fail(r)
    /\ UNCHANGED <<rotating, issued, validRt, acct, varTok, rarg, rnew, rgotRt>>

\* exchange_refresh_token: the provider answers with a new access token
\* (and, when it rotates, a new refresh token that replaces the old one)
\* if the refresh token is still valid; otherwise, or on a transport
\* error, the call fails.
Exchange(r) ==
    /\ fpc[r] = "exchange"
    /\ \/ /\ rarg[r] \in validRt
          /\ issued < MaxIssued
          /\ issued' = issued + 1
          /\ rnew' = [rnew EXCEPT ![r] = issued + 1]
          /\ rgotRt' = [rgotRt EXCEPT ![r] = rotating]
          /\ validRt' = IF rotating THEN (validRt \ {rarg[r]}) \cup {issued + 1}
                        ELSE validRt
          /\ Step(r, "parse")
          /\ UNCHANGED <<lockedBy, rpend>>
       \/ /\ Fail(r)
          /\ UNCHANGED <<issued, rnew, rgotRt, validRt>>
    /\ UNCHANGED <<rotating, acct, varTok, rarg>>

\* Mutant: the UPDATE of the account row is left out; the commit then has
\* no row to write.
ParseSkipsUpdate(r) ==
    /\ fpc[r] = "parse"
    /\ \/ Step(r, "commit") /\ UNCHANGED <<lockedBy, rpend>>
       \/ Fail(r)
    /\ UNCHANGED <<rotating, issued, validRt, acct, varTok, rarg, rnew, rgotRt>>

\* Deserialize the response, read now() from the database and compute
\* expires_at; a response without expires_in is an error.
Parse(r) ==
    /\ fpc[r] = "parse"
    /\ \/ Step(r, "update") /\ UNCHANGED <<lockedBy, rpend>>
       \/ Fail(r)
    /\ UNCHANGED <<rotating, issued, validRt, acct, varTok, rarg, rnew, rgotRt>>

\* Mutant: the refresh token given to the call is stored back in place of
\* the one the provider returned.
UpdateAccountKeepsGiven(r) ==
    /\ fpc[r] = "update"
    /\ lockedBy \in {NONE, r}
    /\ lockedBy' = r
    /\ rpend' = [rpend EXCEPT ![r] = [rt |-> rarg[r], tok |-> rnew[r]]]
    /\ Step(r, "commit")
    /\ UNCHANGED <<rotating, issued, validRt, acct, varTok, rarg, rnew, rgotRt>>

\* UPDATE account SET refresh_token = coalesce(new, given), expires_at:
\* waits for the row lock of another uncommitted UPDATE.
UpdateAccount(r) ==
    /\ fpc[r] = "update"
    /\ lockedBy \in {NONE, r}
    /\ \/ /\ lockedBy' = r
          /\ rpend' = [rpend EXCEPT ![r] =
                        [rt |-> IF rgotRt[r] THEN rnew[r] ELSE rarg[r],
                         tok |-> rnew[r]]]
          /\ Step(r, "commit")
       \/ Fail(r)
    /\ UNCHANGED <<rotating, issued, validRt, acct, varTok, rarg, rnew, rgotRt>>

\* tx.commit().
Commit(r) ==
    /\ fpc[r] = "commit"
    /\ \/ /\ acct' = rpend[r]
          /\ lockedBy' = NONE
          /\ rpend' = [rpend EXCEPT ![r] = NONE]
          /\ Step(r, "variable")
       \/ /\ Fail(r)
          /\ UNCHANGED acct
    /\ UNCHANGED <<rotating, issued, validRt, varTok, rarg, rnew, rgotRt>>

\* build_crypt, then UPDATE variable SET value on the pool, outside the
\* committed transaction; either may fail.
WriteVariable(r) ==
    /\ fpc[r] = "variable"
    /\ \/ /\ varTok' = rnew[r]
          /\ Step(r, "done")
       \/ /\ Step(r, "err")
          /\ UNCHANGED varTok
    /\ UNCHANGED <<rotating, issued, validRt, acct, lockedBy, rarg, rnew, rgotRt,
                   rpend>>

OAuthNext ==
    \E r \in Refreshers :
        \/ Call(r) \/ Configure(r) \/ Exchange(r) \/ Parse(r)
        \/ UpdateAccount(r) \/ Commit(r) \/ WriteVariable(r)

OAuthSpec == OAuthInit /\ [][OAuthNext]_ovars

(***************************************************************************)
(* Properties.                                                             *)
(***************************************************************************)

\* With a rotating provider the account keeps a refresh token the provider
\* still accepts, except while some refresher holds a newer one it has not
\* committed (or lost by failing after the exchange): the row lock orders
\* the UPDATEs and a refresher can only have been given a committed token.
AccountRefreshTokenValid ==
    \/ acct.rt \in validRt
    \/ \E r \in Refreshers : rgotRt[r] /\ fpc[r] \notin {"variable", "done"}

\* When no refresh is under way, the variable holds the access token whose
\* expiry the account row records (both are written by the same call).
VariableMatchesAccount ==
    (\A r \in Refreshers : fpc[r] \in {"idle", "done", "err"}) =>
        varTok = acct.tok

====
