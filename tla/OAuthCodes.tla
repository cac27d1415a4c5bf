------------------------------ MODULE OAuthCodes -----------------------------
(***************************************************************************)
(* What a password is good for: the session of a login (AuthController),   *)
(* the authorization code of an authorize and the access token a client    *)
(* gets for it (OAuthController, OAuthService), against a change of that   *)
(* password, which revokes all three (TokenService::revokeAllForUser).     *)
(*                                                                         *)
(* All of them are rows of ci_cache.  A request of php-fpm is a record in  *)
(* calls and an SQL statement a step; consumeCode is a transaction that    *)
(* keeps the code's row locked on MySQL (on SQLite BEGIN IMMEDIATE locks   *)
(* the database, which admits fewer orders), the rest is autocommitted.    *)
(***************************************************************************)
EXTENDS Naturals, FiniteSets

CONSTANTS
    Accounts,
    MaxCalls,     \* bound: the requests of a behaviour
    MaxChanges,   \* bound: changes of a password
    MaxMishaps    \* bound: requests killed and statements that fail

ASSUME OAuthAssumption ==
    /\ Accounts # {}
    /\ MaxCalls \in Nat /\ MaxChanges \in Nat /\ MaxMishaps \in Nat

VARIABLES
    password,   \* password[a]: the number of the password a has
    cache,      \* the rows of ci_cache, each with the request that stored it
    locks,      \* locks[c]: the call that holds the row of the code c issued
    calls,
    minted,     \* history: <<code, call>>, the tokens issued for the codes
    mishaps

oauthVars == <<password, cache, locks, calls, minted, mishaps>>

(* Requests are numbered as they come.                                     *)
Calls == 1 .. MaxCalls
NoCall == 0

(* A row is named by the call that stored it; pw is the password it was    *)
(* given for (history).                                                    *)
Cached == [kind : {"session", "code", "access"}, by : Calls, user : Accounts,
           pw : 0 .. MaxChanges]
Steps == {"new", "verified", "locked", "deleted", "consumed", "updated",
          "sessions", "code", "access", "done", "dead"}
Call == [op : {"none", "login", "authorize", "token", "change"},
         at : Steps, user : Accounts, pw : 0 .. MaxChanges,
         code : Calls \cup {NoCall}, right : BOOLEAN,
         found : SUBSET Cached,    \* the rows a revocation has selected
         before : SUBSET Cached,   \* history: the user's rows at the change
         missed : BOOLEAN]         \* history: a statement of it failed

Unused == [op |-> "none", at |-> "new", user |-> CHOOSE a \in Accounts : TRUE,
           pw |-> 0, code |-> NoCall, right |-> TRUE, found |-> {},
           before |-> {}, missed |-> FALSE]

OAuthInit ==
    /\ password = [a \in Accounts |-> 0]
    /\ cache = {}
    /\ locks = [c \in Calls |-> NoCall]
    /\ calls = [c \in Calls |-> Unused]
    /\ minted = {}
    /\ mishaps = 0

Fresh(c) == calls[c].op = "none" /\ \A d \in Calls : d < c => calls[d].op # "none"
Is(c, op, at) == calls[c].op = op /\ calls[c].at = at
Moves(c, at) == calls' = [calls EXCEPT ![c].at = at]
CodeRows(c) == {row \in cache : row.kind = "code" /\ row.by = c}
RowsOf(u, kind) == {row \in cache : row.user = u /\ row.kind = kind}
Lockable(row, c) == row.kind = "code" => locks[row.by] \in {NoCall, c}
-----------------------------------------------------------------------------
(* Slips a change could introduce, for checking that the properties below  *)
(* notice them: a transaction that is rolled back and taken for committed, *)
(* a revocation that ends where the user has no code.                      *)
ConsumeRolledBack(c) ==
    /\ Is(c, "token", "locked") /\ calls[c].right
    /\ locks' = [locks EXCEPT ![calls[c].code] = NoCall]
    /\ Moves(c, "consumed")
    /\ UNCHANGED <<password, cache, minted, mishaps>>

NextPrefixIfAny(c, kind) == IF calls[c].found = {} THEN "done" ELSE kind
-----------------------------------------------------------------------------
(* login and authorize: the password is checked against the row the        *)
(* account has now, password_verify and the checks of the account follow   *)
Enter(c, op, a) ==
    /\ Fresh(c)
    /\ calls' = [calls EXCEPT ![c] = [Unused EXCEPT !.op = op, !.at = "verified",
                    !.user = a, !.pw = password[a]]]
    /\ UNCHANGED <<password, cache, locks, minted, mishaps>>

(* storeAdminToken, issueCode and issueAccessToken: one upsert each        *)
Store(c, kind) ==
    cache' = cache \cup {[kind |-> kind, by |-> c, user |-> calls[c].user,
                          pw |-> calls[c].pw]}

Issue(c) ==
    /\ \/ Is(c, "login", "verified") /\ Store(c, "session")
       \/ Is(c, "authorize", "verified") /\ Store(c, "code")
    /\ Moves(c, "done")
    /\ UNCHANGED <<password, locks, minted, mishaps>>
-----------------------------------------------------------------------------
(* token, by the client that was sent the code (and may send it again), or *)
(* with a client_id or redirect_uri that is not the code's                 *)
Redeem(c, d, right) ==
    /\ Fresh(c) /\ Is(d, "authorize", "done")
    /\ calls' = [calls EXCEPT ![c] = [Unused EXCEPT !.op = "token", !.code = d,
                                                    !.right = right]]
    /\ UNCHANGED <<password, cache, locks, minted, mishaps>>

(* consumeCode: SELECT ... FOR UPDATE of the code that has not expired     *)
SelectForUpdate(c) ==
    /\ Is(c, "token", "new")
    /\ CodeRows(calls[c].code) # {} /\ locks[calls[c].code] = NoCall
    /\ locks' = [locks EXCEPT ![calls[c].code] = c]
    /\ calls' = [calls EXCEPT ![c].at = "locked",
                    ![c].user = (CHOOSE r \in CodeRows(calls[c].code) : TRUE).user,
                    ![c].pw = (CHOOSE r \in CodeRows(calls[c].code) : TRUE).pw]
    /\ UNCHANGED <<password, cache, minted, mishaps>>

(* No such code: invalid_grant                                             *)
InvalidGrant(c) ==
    /\ Is(c, "token", "new") /\ CodeRows(calls[c].code) = {}
    /\ Moves(c, "done")
    /\ UNCHANGED <<password, cache, locks, minted, mishaps>>

(* The client is not the code's: ROLLBACK leaves the code to the right one *)
Mismatch(c) ==
    /\ Is(c, "token", "locked") /\ ~calls[c].right
    /\ locks' = [locks EXCEPT ![calls[c].code] = NoCall]
    /\ Moves(c, "done")
    /\ UNCHANGED <<password, cache, minted, mishaps>>

(* DELETE, its rowCount, and COMMIT                                        *)
Consume(c) ==
    /\ Is(c, "token", "locked") /\ calls[c].right
    /\ cache' = cache \ CodeRows(calls[c].code)
    /\ locks' = [locks EXCEPT ![calls[c].code] = NoCall]
    /\ Moves(c, IF CodeRows(calls[c].code) = {} THEN "done" ELSE "consumed")
    /\ UNCHANGED <<password, minted, mishaps>>

(* issueAccessToken, after the transaction                                 *)
IssueAccess(c) ==
    /\ Is(c, "token", "consumed")
    /\ Store(c, "access")
    /\ minted' = minted \cup {<<calls[c].code, c>>}
    /\ Moves(c, "done")
    /\ UNCHANGED <<password, locks, mishaps>>
-----------------------------------------------------------------------------
(* changePassword, userModifyPassword and their likes: the new hash, then  *)
(* revokeAllForUser                                                        *)
UpdatePassword(c, a) ==
    /\ Fresh(c) /\ password[a] < MaxChanges
    /\ password' = [password EXCEPT ![a] = @ + 1]
    /\ calls' = [calls EXCEPT ![c] = [Unused EXCEPT !.op = "change",
                    !.at = "updated", !.user = a,
                    !.before = {row \in cache : row.user = a}]]
    /\ UNCHANGED <<cache, locks, minted, mishaps>>

(* The sessions go by one DELETE                                           *)
RevokeSessions(c) ==
    /\ Is(c, "change", "updated")
    /\ cache' = cache \ RowsOf(calls[c].user, "session")
    /\ Moves(c, "sessions")
    /\ UNCHANGED <<password, locks, minted, mishaps>>

(* revokeUserTokens, for the codes and then for the access tokens: SELECT  *)
(* the keys of the prefix, DELETE those found that are still there.  The   *)
(* DELETE waits for a row an exchange has locked.                          *)
Selects(c, from, kind) ==
    /\ Is(c, "change", from)
    /\ calls' = [calls EXCEPT ![c].at = kind,
                              ![c].found = RowsOf(calls[c].user, kind)]
    /\ UNCHANGED <<password, cache, locks, minted, mishaps>>
NextPrefix(c, kind) == kind
Deletes(c, kind, next) ==
    /\ Is(c, "change", kind)
    /\ \A row \in calls[c].found \cap cache : Lockable(row, c)
    /\ cache' = cache \ calls[c].found
    /\ calls' = [calls EXCEPT ![c].at = NextPrefix(c, next), ![c].found = {}]
    /\ UNCHANGED <<password, locks, minted, mishaps>>

Revoke(c) ==
    \/ RevokeSessions(c)
    \/ Selects(c, "sessions", "code") \/ Deletes(c, "code", "deleted")
    \/ Selects(c, "deleted", "access") \/ Deletes(c, "access", "done")

(* A statement of the revocation throws: that of the sessions is skipped,  *)
(* of the others the rest; the change is reported as done all the same     *)
RevokeFails(c) ==
    /\ calls[c].op = "change" /\ calls[c].at \notin {"done", "dead"}
    /\ mishaps < MaxMishaps /\ mishaps' = mishaps + 1
    /\ calls' = [calls EXCEPT ![c].missed = TRUE, ![c].found = {},
          ![c].at = IF calls[c].at = "updated" THEN "sessions" ELSE "done"]
    /\ UNCHANGED <<password, cache, locks, minted>>
-----------------------------------------------------------------------------
(* A request is killed, and its transaction rolled back                    *)
Killed(c) ==
    /\ calls[c].op # "none" /\ calls[c].at \notin {"done", "dead"}
    /\ mishaps < MaxMishaps /\ mishaps' = mishaps + 1
    /\ Moves(c, "dead")
    /\ locks' = [d \in Calls |-> IF locks[d] = c THEN NoCall ELSE locks[d]]
    /\ UNCHANGED <<password, cache, minted>>

(* A row expires                                                           *)
Expire(row) ==
    /\ row \in cache /\ Lockable(row, NoCall)
    /\ cache' = cache \ {row}
    /\ UNCHANGED <<password, locks, calls, minted, mishaps>>

OAuthNext ==
    \/ \E c \in Calls :
         \/ \E a \in Accounts, op \in {"login", "authorize"} : Enter(c, op, a)
         \/ \E d \in Calls, right \in BOOLEAN : Redeem(c, d, right)
         \/ \E a \in Accounts : UpdatePassword(c, a)
         \/ Issue(c) \/ SelectForUpdate(c) \/ InvalidGrant(c) \/ Mismatch(c)
         \/ Consume(c) \/ IssueAccess(c) \/ Revoke(c) \/ RevokeFails(c) \/ Killed(c)
    \/ \E row \in cache : Expire(row)

OAuthSpec == OAuthInit /\ [][OAuthNext]_oauthVars
-----------------------------------------------------------------------------
OAuthTypeOK ==
    /\ password \in [Accounts -> 0 .. MaxChanges]
    /\ cache \subseteq Cached
    /\ locks \in [Calls -> Calls \cup {NoCall}]
    /\ calls \in [Calls -> Call]
    /\ minted \subseteq Calls \X Calls
    /\ mishaps \in 0 .. MaxMishaps

(* "One-time" (OAuthService.php:11): a code yields one access token at     *)
(* most, however many exchanges of it run at once, whoever is killed and   *)
(* whatever is revoked meanwhile.                                          *)
OneTokenPerCode ==
    \A s, t \in minted : s[1] = t[1] => s = t

(* And more: a code is offered by the authorize that stores it, ends by    *)
(* being taken, revoked or by expiring, and never comes back; a token is   *)
(* issued only by the exchange whose transaction took the code, while that *)
(* is still to happen.  This is OneTimeCode, of the rows and the requests. *)
Offered == {c \in Calls : Is(c, "authorize", "done")}
LiveCodes == {c \in Calls : CodeRows(c) # {}}
Consumers == {e \in Calls : Is(e, "token", "consumed")}
Taken == {<<calls[e].code, e>> : e \in Consumers}
OneTime == INSTANCE OneTimeCode WITH
    Code <- Calls, Exchange <- Calls, offered <- Offered, live <- LiveCodes,
    taken <- Taken, tokens <- minted

CodesAreOneTime == OneTime!Spec

(* A change that has ended without a failing statement leaves nothing of   *)
(* what the account had when the new password was written, whatever the    *)
(* exchanges did with the codes between the SELECTs and the DELETEs.  What *)
(* they store meanwhile may stay (NothingOfTheOldPassword).                *)
StoredBeforeIsGone ==
    \A c \in Calls : Is(c, "change", "done") /\ ~calls[c].missed =>
        calls[c].before \cap cache = {}

(* The comment AuthController.php:145, "after a change of password revoke  *)
(* all session tokens of the user, force all devices to log in again", and *)
(* OAuthService.php:229: nothing obtained with an older password remains.  *)
NothingOfTheOldPassword ==
    \A c \in Calls : Is(c, "change", "done") /\ ~calls[c].missed =>
        \A row \in cache : row.user = calls[c].user =>
            row.pw = password[row.user]
=============================================================================
