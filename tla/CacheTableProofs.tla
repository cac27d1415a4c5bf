-------------------------- MODULE CacheTableProofs --------------------------
(***************************************************************************)
(* Theorems about two users of ci_cache: the sessions, codes and access    *)
(* tokens of an account, for any number of accounts, requests and changes  *)
(* of password; and the bootstrap, for any number of processes.  Then,     *)
(* with those of LeaseLockProofs, about the table they share.              *)
(***************************************************************************)
EXTENDS MCCacheTable, LeaseLockProofs, TLAPS

LEMMA UnusedHasType == Unused \in Call /\ Unused.op = "none" /\ Unused.at = "new"
<1>1. (CHOOSE a \in Accounts : TRUE) \in Accounts
  BY OAuthAssumption
<1> QED
  BY <1>1, OAuthAssumption DEF Unused, Call, Steps, NoCall

(* A request new to the server *)
LEMMA NewCallHasType ==
    ASSUME NEW op \in {"login", "authorize"}, NEW a \in Accounts,
           NEW pw \in 0 .. MaxChanges
    PROVE  [Unused EXCEPT !.op = op, !.at = "verified", !.user = a, !.pw = pw] \in Call
BY UnusedHasType DEF Call, Steps

LEMMA StoreHasType ==
    ASSUME OAuthTypeOK, NEW c \in Calls, NEW kind \in {"session", "code", "access"},
           Store(c, kind)
    PROVE  cache' \subseteq Cached
BY DEF OAuthTypeOK, Store, Cached, Call

LEMMA SelectedRow ==
    ASSUME OAuthTypeOK, NEW d, CodeRows(d) # {}
    PROVE  (CHOOSE r \in CodeRows(d) : TRUE) \in Cached
BY DEF OAuthTypeOK, CodeRows

(* An exchange is of a code.                                               *)
ExchangesOfCodes == \A c \in Calls : calls[c].op = "token" => calls[c].code \in Calls

LEMMA TypeStep ==
    ASSUME OAuthTypeOK, ExchangesOfCodes, [OAuthNext]_oauthVars
    PROVE  OAuthTypeOK'
<1> USE OAuthAssumption
<1>1. ASSUME NEW c \in Calls, NEW a \in Accounts, NEW op \in {"login", "authorize"},
             Enter(c, op, a)
      PROVE  OAuthTypeOK'
  <2>1. password[a] \in 0 .. MaxChanges
    BY DEF OAuthTypeOK
  <2> QED
    BY <1>1, <2>1, NewCallHasType DEF OAuthTypeOK, Enter
<1>2. ASSUME NEW c \in Calls, NEW d \in Calls, NEW right \in BOOLEAN,
             Redeem(c, d, right)
      PROVE  OAuthTypeOK'
  <2>1. [Unused EXCEPT !.op = "token", !.code = d, !.right = right] \in Call
    BY UnusedHasType DEF Call, Steps
  <2> QED
    BY <1>2, <2>1 DEF OAuthTypeOK, Redeem
<1>3. ASSUME NEW c \in Calls, NEW a \in Accounts, UpdatePassword(c, a)
      PROVE  OAuthTypeOK'
  <2>1. [Unused EXCEPT !.op = "change", !.at = "updated", !.user = a,
            !.before = {row \in cache : row.user = a}] \in Call
    BY UnusedHasType DEF OAuthTypeOK, Call, Steps
  <2>2. password' \in [Accounts -> 0 .. MaxChanges]
    BY <1>3 DEF OAuthTypeOK, UpdatePassword
  <2> QED
    BY <1>3, <2>1, <2>2 DEF OAuthTypeOK, UpdatePassword
<1>4. ASSUME NEW c \in Calls, Issue(c)
      PROVE  OAuthTypeOK'
  <2>1. cache' \subseteq Cached
    BY <1>4, StoreHasType DEF Issue
  <2> QED
    BY <1>4, <2>1 DEF OAuthTypeOK, Issue, Moves, Call, Steps
<1>5. ASSUME NEW c \in Calls, SelectForUpdate(c)
      PROVE  OAuthTypeOK'
  <2>1. (CHOOSE r \in CodeRows(calls[c].code) : TRUE) \in Cached
    BY <1>5, SelectedRow DEF SelectForUpdate
  <2>2. PICK u \in Accounts, pw \in 0 .. MaxChanges :
            calls' = [calls EXCEPT ![c].at = "locked", ![c].user = u, ![c].pw = pw]
    BY <1>5, <2>1 DEF SelectForUpdate, Cached
  <2>3. calls[c] \in Call
    BY DEF OAuthTypeOK
  <2>4. [calls[c] EXCEPT !.at = "locked", !.user = u, !.pw = pw] \in Call
    BY <2>3 DEF Call, Steps
  <2>5. calls' = [calls EXCEPT ![c] = [calls[c] EXCEPT !.at = "locked", !.user = u,
                                                       !.pw = pw]]
    BY <2>2
  <2>6. calls' \in [Calls -> Call]
    BY <2>4, <2>5 DEF OAuthTypeOK
  <2>7. locks' \in [Calls -> Calls \cup {NoCall}]
    BY <1>5 DEF OAuthTypeOK, SelectForUpdate
  <2> QED
    BY <1>5, <2>6, <2>7 DEF OAuthTypeOK, SelectForUpdate
<1>6. ASSUME NEW c \in Calls, InvalidGrant(c) \/ Mismatch(c) \/ Consume(c)
      PROVE  OAuthTypeOK'
  BY <1>6 DEF OAuthTypeOK, InvalidGrant, Mismatch, Consume, Moves, Call, Steps
<1>7. ASSUME NEW c \in Calls, IssueAccess(c)
      PROVE  OAuthTypeOK'
  <2>1. cache' \subseteq Cached
    BY <1>7, StoreHasType DEF IssueAccess
  <2>2. calls[c].code \in Calls
    BY <1>7 DEF IssueAccess, Is, ExchangesOfCodes
  <2> QED
    BY <1>7, <2>1, <2>2 DEF OAuthTypeOK, IssueAccess, Moves, Call, Steps
<1>8. ASSUME NEW c \in Calls, Revoke(c)
      PROVE  OAuthTypeOK'
  BY <1>8 DEF OAuthTypeOK, Revoke, RevokeSessions, Selects, Deletes, NextPrefix,
              RowsOf, Moves, Call, Steps
<1>9. ASSUME NEW c \in Calls, RevokeFails(c)
      PROVE  OAuthTypeOK'
  BY <1>9 DEF OAuthTypeOK, RevokeFails, Call, Steps
<1>10. ASSUME NEW c \in Calls, Killed(c)
       PROVE  OAuthTypeOK'
  BY <1>10 DEF OAuthTypeOK, Killed, Moves, Call, Steps
<1>11. ASSUME NEW row \in cache, Expire(row)
       PROVE  OAuthTypeOK'
  BY <1>11 DEF OAuthTypeOK, Expire
<1>12. CASE UNCHANGED oauthVars
  BY <1>12 DEF OAuthTypeOK, oauthVars
<1> QED
  BY <1>1, <1>2, <1>3, <1>4, <1>5, <1>6, <1>7, <1>8, <1>9, <1>10, <1>11, <1>12
     DEF OAuthNext
-----------------------------------------------------------------------------
Done(d) == calls[d].op # "none" /\ calls[d].at = "done"
Issued(d) == Is(d, "authorize", "done")

(* The exchange c deletes the row of its code and commits.                 *)
Takes(c) ==
    /\ Is(c, "token", "locked")
    /\ CodeRows(calls[c].code) # {} /\ CodeRows(calls[c].code)' = {}
    /\ \A d \in Calls \ {c} : calls'[d] = calls[d]

(* What steps do, as far as the invariants below look at it.               *)
FinishedStay == \A d \in Calls : Done(d) => calls'[d] = calls[d]
RowsAreStoredOnce ==
    \A row \in cache' \ cache :
        /\ row.by \in Calls /\ ~Done(row.by) /\ Done(row.by)'
        /\ row.kind = "code" => Issued(row.by)'
ExchangesKeepCodes ==
    \A c \in Calls : calls'[c].op = "token" =>
        \/ calls[c].op = "token" /\ calls'[c].code = calls[c].code
        \/ calls'[c].at = "new" /\ calls'[c].code \in Calls /\ Issued(calls'[c].code)
ConsumedTook ==
    \A c \in Calls : Is(c, "token", "consumed")' =>
        Is(c, "token", "consumed") \/ Takes(c)
MintedByConsumer ==
    \/ minted' = minted
    \/ \E c \in Calls : /\ Is(c, "token", "consumed") /\ ~Is(c, "token", "consumed")'
                        /\ minted' = minted \cup {<<calls[c].code, c>>}
ChangesRevoke ==
    \A c \in Calls : calls'[c].op = "change" =>
        \/ calls'[c] = calls[c]
        \/ \E a \in Accounts : UpdatePassword(c, a)
        \/ Revoke(c) \/ RevokeFails(c)
        \/ calls[c].op = "change" /\ calls'[c] = [calls[c] EXCEPT !.at = "dead"]
Effects == /\ FinishedStay /\ RowsAreStoredOnce /\ ExchangesKeepCodes
           /\ ConsumedTook /\ MintedByConsumer /\ ChangesRevoke

LEMMA StepEffects ==
    ASSUME OAuthTypeOK, [OAuthNext]_oauthVars
    PROVE  Effects
<1> USE DEF FinishedStay, RowsAreStoredOnce, ExchangesKeepCodes, ConsumedTook,
            MintedByConsumer, ChangesRevoke, Effects, Done, Issued, Is
<1>t. calls \in [Calls -> Call]
  BY DEF OAuthTypeOK
<1>1. ASSUME NEW c \in Calls, NEW a \in Accounts, NEW op \in {"login", "authorize"},
             Enter(c, op, a)
      PROVE  Effects
  BY <1>1, <1>t, UnusedHasType DEF Enter, Fresh, Call
<1>2. ASSUME NEW c \in Calls, NEW d \in Calls, NEW right \in BOOLEAN,
             Redeem(c, d, right)
      PROVE  Effects
  BY <1>2, <1>t, UnusedHasType DEF Redeem, Fresh, Call
<1>3. ASSUME NEW c \in Calls, NEW a \in Accounts, UpdatePassword(c, a)
      PROVE  Effects
  <2>1. /\ calls[c].op = "none" /\ calls'[c].op = "change"
        /\ \A d \in Calls \ {c} : calls'[d] = calls[d]
        /\ cache' = cache /\ minted' = minted
    BY <1>3, <1>t, UnusedHasType DEF UpdatePassword, Fresh, Call
  <2> QED
    BY <1>3, <2>1
<1>4. ASSUME NEW c \in Calls, Issue(c)
      PROVE  Effects
  BY <1>4, <1>t DEF Issue, Store, Moves, Call
<1>5. ASSUME NEW c \in Calls, SelectForUpdate(c)
      PROVE  Effects
  BY <1>5, <1>t DEF SelectForUpdate, Call
<1>6. ASSUME NEW c \in Calls, InvalidGrant(c) \/ Mismatch(c)
      PROVE  Effects
  BY <1>6, <1>t DEF InvalidGrant, Mismatch, Moves, Call
<1>7. ASSUME NEW c \in Calls, Consume(c)
      PROVE  Effects
  BY <1>7, <1>t DEF Consume, Takes, CodeRows, Moves, Call
<1>8. ASSUME NEW c \in Calls, IssueAccess(c)
      PROVE  Effects
  BY <1>8, <1>t DEF IssueAccess, Store, Moves, Call
<1>9. ASSUME NEW c \in Calls, Revoke(c)
      PROVE  Effects
  <2>1. /\ calls[c].op = "change" /\ calls[c].at # "done"
        /\ calls'[c].op = "change"
        /\ \A d \in Calls \ {c} : calls'[d] = calls[d]
        /\ cache' \subseteq cache /\ minted' = minted
    BY <1>9, <1>t DEF Revoke, RevokeSessions, Selects, Deletes, Moves, Call
  <2> QED
    BY <1>9, <2>1
<1>10. ASSUME NEW c \in Calls, RevokeFails(c)
       PROVE  Effects
  BY <1>10, <1>t DEF RevokeFails, Call
<1>11. ASSUME NEW c \in Calls, Killed(c)
       PROVE  Effects
  BY <1>11, <1>t DEF Killed, Moves, Call
<1>12. ASSUME NEW row \in cache, Expire(row)
       PROVE  Effects
  BY <1>12, <1>t DEF Expire
<1>13. CASE UNCHANGED oauthVars
  BY <1>13, <1>t DEF oauthVars
<1> QED
  BY <1>1, <1>2, <1>3, <1>4, <1>5, <1>6, <1>7, <1>8, <1>9, <1>10, <1>11, <1>12, <1>13
     DEF OAuthNext
-----------------------------------------------------------------------------
(* A code is issued by an authorize that has ended, and is spent for good  *)
(* before a token is issued for it: the DELETE that finds it gone rejects  *)
(* the exchange.                                                           *)
CodesAreIssued ==
    /\ \A row \in cache : row.kind = "code" => Issued(row.by)
    /\ \A c \in Calls : calls[c].op = "token" => Issued(calls[c].code)
ConsumedIsSpent ==
    \A c \in Calls : Is(c, "token", "consumed") => CodeRows(calls[c].code) = {}
OneConsumer ==
    \A c, d \in Calls :
        /\ Is(c, "token", "consumed") /\ Is(d, "token", "consumed")
        /\ calls[c].code = calls[d].code
        => c = d
MintedIsSpent ==
    \A m \in minted :
        /\ Issued(m[1]) /\ CodeRows(m[1]) = {}
        /\ \A c \in Calls : Is(c, "token", "consumed") => calls[c].code # m[1]
CodesInv == /\ OAuthTypeOK /\ ExchangesOfCodes /\ CodesAreIssued
            /\ ConsumedIsSpent /\ OneConsumer /\ MintedIsSpent /\ OneTokenPerCode

(* An authorize that has ended stays so, and a code of it that is gone is  *)
(* not stored again.                                                       *)
LEMMA SpentForGood ==
    ASSUME OAuthTypeOK, FinishedStay, RowsAreStoredOnce,
           NEW d \in Calls, Issued(d)
    PROVE  Issued(d)' /\ (CodeRows(d) = {} => CodeRows(d)' = {})
<1>1. Done(d)
  BY DEF Done, Issued, Is
<1>2. Issued(d)'
  BY <1>1 DEF FinishedStay, Issued, Is
<1> QED
  BY <1>1, <1>2 DEF RowsAreStoredOnce, CodeRows

LEMMA CodesStep ==
    ASSUME CodesInv, [OAuthNext]_oauthVars
    PROVE  CodesInv'
<1> USE DEF CodesInv
<1>1. Effects
  BY StepEffects
<1>2. OAuthTypeOK'
  BY TypeStep
<1>3. \A d \in Calls : Issued(d) =>
          Issued(d)' /\ (CodeRows(d) = {} => CodeRows(d)' = {})
  BY <1>1, SpentForGood DEF Effects
<1>4. ExchangesOfCodes' /\ CodesAreIssued'
  <2>1. \A c \in Calls : calls'[c].op = "token" =>
            calls'[c].code \in Calls /\ Issued(calls'[c].code)
    BY <1>1 DEF Effects, ExchangesKeepCodes, ExchangesOfCodes, CodesAreIssued
  <2>2. \A c \in Calls : calls'[c].op = "token" => Issued(calls[c].code)'
    BY <2>1, <1>3 DEF Issued, Is
  <2>3. \A row \in cache' : row.kind = "code" => Issued(row.by)'
    <3>1. \A row \in cache : row.by \in Calls
      BY DEF OAuthTypeOK, Cached
    <3> QED
      BY <1>1, <1>3, <3>1 DEF Effects, RowsAreStoredOnce, CodesAreIssued
  <2> QED
    BY <2>1, <2>2, <2>3 DEF ExchangesOfCodes, CodesAreIssued
(* Who has consumed a code after the step had before, or takes it now.     *)
<1>5. \A c \in Calls : Is(c, "token", "consumed")' =>
          /\ calls[c].op = "token" /\ calls'[c].code = calls[c].code
          /\ calls[c].code \in Calls /\ Issued(calls[c].code)
          /\ Is(c, "token", "consumed") \/ Takes(c)
  BY <1>1 DEF Effects, ExchangesKeepCodes, ConsumedTook, ExchangesOfCodes,
              CodesAreIssued, Is
<1>6. ConsumedIsSpent'
  <2> SUFFICES ASSUME NEW c \in Calls, Is(c, "token", "consumed")'
               PROVE  CodeRows(calls[c].code)' = {}
    BY DEF ConsumedIsSpent
  <2>1. CASE Is(c, "token", "consumed")
    BY <1>3, <1>5, <2>1 DEF ConsumedIsSpent
  <2>2. CASE Takes(c)
    BY <1>5, <2>2 DEF Takes, CodeRows
  <2> QED
    BY <1>5, <2>1, <2>2
<1>7. OneConsumer'
  <2> SUFFICES ASSUME NEW c \in Calls, NEW d \in Calls,
                      Is(c, "token", "consumed")', Is(d, "token", "consumed")',
                      calls'[c].code = calls'[d].code, c # d
               PROVE  FALSE
    BY DEF OneConsumer
  <2>1. calls[c].code = calls[d].code
    BY <1>5
  <2>2. CASE Is(c, "token", "consumed") /\ Is(d, "token", "consumed")
    BY <2>1, <2>2 DEF OneConsumer
  <2>3. ASSUME NEW e \in {c, d}, Takes(e)
        PROVE  FALSE
    <3> DEFINE o == IF e = c THEN d ELSE c
    <3>1. calls'[o] = calls[o] /\ Is(o, "token", "consumed")
      BY <2>3 DEF Takes, Is
    <3>2. CodeRows(calls[o].code) = {}
      BY <3>1 DEF ConsumedIsSpent
    <3> QED
      BY <2>1, <2>3, <3>2 DEF Takes
  <2> QED
    BY <1>5, <2>2, <2>3
<1>8. MintedIsSpent' /\ OneTokenPerCode'
  <2>1. \A m \in minted : Issued(m[1])' /\ CodeRows(m[1])' = {}
    BY <1>3 DEF MintedIsSpent, OAuthTypeOK
  <2>2. \A m \in minted, c \in Calls :
            Is(c, "token", "consumed")' => calls'[c].code # m[1]
    BY <1>5 DEF MintedIsSpent, Takes
  <2>3. CASE minted' = minted
    BY <2>1, <2>2, <2>3 DEF MintedIsSpent, OneTokenPerCode
  <2>4. CASE minted' # minted
    <3>1. PICK c \in Calls :
             /\ Is(c, "token", "consumed") /\ ~Is(c, "token", "consumed")'
             /\ minted' = minted \cup {<<calls[c].code, c>>}
      BY <1>1, <2>4 DEF Effects, MintedByConsumer
    <3>2. PICK d \in Calls : d = calls[c].code /\ Issued(d) /\ CodeRows(d) = {}
      BY <3>1 DEF ConsumedIsSpent, CodesAreIssued, ExchangesOfCodes, Is
    <3>3. Issued(d)' /\ CodeRows(d)' = {}
      BY <1>3, <3>2
    <3>4. \A e \in Calls : Is(e, "token", "consumed")' => calls'[e].code # d
      BY <1>5, <3>1, <3>2 DEF OneConsumer, Takes
    <3>5. \A m \in minted : m[1] # d
      BY <3>1, <3>2 DEF MintedIsSpent
    <3>6. MintedIsSpent'
      BY <2>1, <2>2, <3>1, <3>2, <3>3, <3>4 DEF MintedIsSpent
    <3> QED
      BY <3>1, <3>2, <3>5, <3>6 DEF OneTokenPerCode
  <2> QED
    BY <2>3, <2>4
<1> QED
  BY <1>2, <1>4, <1>6, <1>7, <1>8

LEMMA CodesAtFirst == OAuthInit => CodesInv
<1> SUFFICES ASSUME OAuthInit
             PROVE  CodesInv
  OBVIOUS
<1>1. OAuthTypeOK
  BY UnusedHasType, OAuthAssumption DEF OAuthInit, OAuthTypeOK, NoCall
<1>2. \A c \in Calls : calls[c].op = "none"
  BY UnusedHasType DEF OAuthInit
<1> QED
  BY <1>1, <1>2 DEF OAuthInit, CodesInv, ExchangesOfCodes, CodesAreIssued,
       ConsumedIsSpent, OneConsumer, MintedIsSpent, OneTokenPerCode, Is

(* The types of what ci_cache and the requests hold, for any number of     *)
(* accounts and requests.                                                  *)
THEOREM OAuthTypeCorrect == OAuthSpec => []OAuthTypeOK
<1>1. CodesInv => OAuthTypeOK
  BY DEF CodesInv
<1> QED
  BY <1>1, CodesAtFirst, CodesStep, PTL DEF OAuthSpec

(* consumeCode makes a code single-use: however many exchanges of it run   *)
(* at once, whoever is killed and whatever is revoked or expires meanwhile,*)
(* one access token at most is issued for it.                              *)
THEOREM SingleUse == OAuthSpec => []OneTokenPerCode
<1>1. CodesInv => OneTokenPerCode
  BY DEF CodesInv
<1> QED
  BY <1>1, CodesAtFirst, CodesStep, PTL DEF OAuthSpec
(* A step of a request that neither was nor becomes an authorize that has  *)
(* ended, nor an exchange that has taken its code, concerns codes only by  *)
(* what it withdraws.                                                      *)
Aside(c) == ~Issued(c) /\ ~Is(c, "token", "consumed")

LEMMA AsideStep ==
    ASSUME NEW c \in Calls, Aside(c), Aside(c)',
           \A d \in Calls \ {c} : calls'[d] = calls[d]
    PROVE  Offered' = Offered /\ Taken' = Taken
<1>1. \A d \in Calls : Issued(d)' <=> Issued(d)
  BY DEF Aside, Issued, Is
<1>2. \A d \in Calls : /\ Is(d, "token", "consumed")' <=> Is(d, "token", "consumed")
                       /\ Is(d, "token", "consumed") => calls'[d] = calls[d]
  BY DEF Aside, Is
<1>3. Offered' = Offered /\ Consumers' = Consumers
  BY <1>1, <1>2 DEF Offered, Consumers, Issued
<1> QED
  BY <1>2, <1>3 DEF Taken, Consumers

LEMMA WithdrawStep ==
    ASSUME cache' \subseteq cache, Offered' = Offered, Taken' = Taken, minted' = minted
    PROVE  OneTime!Next
<1> DEFINE S == LiveCodes \ LiveCodes'
<1>1. LiveCodes' \subseteq LiveCodes
  BY DEF LiveCodes, CodeRows
<1>2. S \in SUBSET LiveCodes /\ LiveCodes' = LiveCodes \ S
  BY <1>1
<1>3. OneTime!Withdraw(S)
  BY <1>2 DEF OneTime!Withdraw
<1> QED
  BY <1>2, <1>3 DEF OneTime!Next

(* Every step of a request does to the codes what OneTimeCode allows.      *)
LEMMA OneTimeStep ==
    ASSUME CodesInv, [OAuthNext]_oauthVars
    PROVE  [OneTime!Next]_<<Offered, LiveCodes, Taken, minted>>
<1>t. calls \in [Calls -> Call]
  BY DEF CodesInv, OAuthTypeOK
<1>1. ASSUME NEW c \in Calls, Aside(c), Aside(c)', cache' \subseteq cache, minted' = minted,
             \A d \in Calls \ {c} : calls'[d] = calls[d]
      PROVE  OneTime!Next
  BY <1>1, AsideStep, WithdrawStep
<1>2. ASSUME NEW c \in Calls,
             \/ \E a \in Accounts, op \in {"login", "authorize"} : Enter(c, op, a)
             \/ \E d \in Calls, right \in BOOLEAN : Redeem(c, d, right)
             \/ \E a \in Accounts : UpdatePassword(c, a)
      PROVE  OneTime!Next
  <2>1. Aside(c) /\ cache' \subseteq cache /\ minted' = minted
    BY <1>2 DEF Enter, Redeem, UpdatePassword, Fresh, Aside, Issued, Is
  <2>2. /\ calls'[c].at \in {"verified", "new", "updated"}
        /\ \A d \in Calls \ {c} : calls'[d] = calls[d]
    <3>1. ASSUME NEW a \in Accounts, NEW op \in {"login", "authorize"}, Enter(c, op, a)
          PROVE  /\ calls'[c].at \in {"verified", "new", "updated"}
                 /\ \A d \in Calls \ {c} : calls'[d] = calls[d]
      BY <3>1, <1>t, UnusedHasType DEF Enter, Call
    <3>2. ASSUME NEW k \in Calls, NEW right \in BOOLEAN, Redeem(c, k, right)
          PROVE  /\ calls'[c].at \in {"verified", "new", "updated"}
                 /\ \A d \in Calls \ {c} : calls'[d] = calls[d]
      BY <3>2, <1>t, UnusedHasType DEF Redeem, Call
    <3>3. ASSUME NEW a \in Accounts, UpdatePassword(c, a)
          PROVE  /\ calls'[c].at \in {"verified", "new", "updated"}
                 /\ \A d \in Calls \ {c} : calls'[d] = calls[d]
      BY <3>3, <1>t, UnusedHasType DEF UpdatePassword, Call
    <3> QED
      BY <1>2, <3>1, <3>2, <3>3
  <2>3. Aside(c)'
    BY <2>2 DEF Aside, Issued, Is
  <2> QED
    BY <1>1, <2>1, <2>2, <2>3
<1>3. ASSUME NEW c \in Calls, SelectForUpdate(c) \/ InvalidGrant(c) \/ Mismatch(c)
      PROVE  OneTime!Next
  <2>1. Aside(c) /\ cache' \subseteq cache /\ minted' = minted
    BY <1>3 DEF SelectForUpdate, InvalidGrant, Mismatch, Aside, Issued, Is
  <2>2. /\ calls'[c].op = "token" /\ calls'[c].at \in {"locked", "done"}
        /\ \A d \in Calls \ {c} : calls'[d] = calls[d]
    <3>1. CASE SelectForUpdate(c)
      BY <3>1, <1>t DEF SelectForUpdate, Is, Call
    <3>2. CASE InvalidGrant(c) \/ Mismatch(c)
      BY <3>2, <1>t DEF InvalidGrant, Mismatch, Moves, Is, Call
    <3> QED
      BY <1>3, <3>1, <3>2
  <2>3. Aside(c)'
    BY <2>2 DEF Aside, Issued, Is
  <2> QED
    BY <1>1, <2>1, <2>2, <2>3
<1>4. ASSUME NEW c \in Calls, Revoke(c) \/ RevokeFails(c)
      PROVE  OneTime!Next
  <2>1. /\ calls[c].op = "change" /\ calls'[c].op = "change"
        /\ \A d \in Calls \ {c} : calls'[d] = calls[d]
        /\ cache' \subseteq cache /\ minted' = minted
    BY <1>4, <1>t DEF Revoke, RevokeSessions, Selects, Deletes, RevokeFails, Moves, Is, Call
  <2>2. Aside(c) /\ Aside(c)'
    BY <2>1 DEF Aside, Issued, Is
  <2> QED
    BY <1>1, <2>1, <2>2
<1>5. ASSUME NEW c \in Calls, Issue(c)
      PROVE  OneTime!Next
  <2>1. /\ calls[c].at = "verified" /\ calls'[c] = [calls[c] EXCEPT !.at = "done"]
        /\ \A d \in Calls \ {c} : calls'[d] = calls[d]
        /\ minted' = minted
    BY <1>5, <1>t DEF Issue, Is, Moves
  <2>2. CASE calls[c].op = "login"
    <3>1. Aside(c) /\ Aside(c)'
      BY <2>1, <2>2, <1>t DEF Aside, Issued, Is, Call
    <3>2. Offered' = Offered /\ Taken' = Taken
      BY <2>1, <3>1, AsideStep
    <3>3. \A d \in Calls : CodeRows(d)' = CodeRows(d)
      BY <1>5, <2>2 DEF Issue, Is, Store, CodeRows
    <3>4. LiveCodes' = LiveCodes
      BY <3>3 DEF LiveCodes
    <3>5. OneTime!Withdraw({})
      BY <2>1, <3>2, <3>4 DEF OneTime!Withdraw
    <3> QED
      BY <3>5 DEF OneTime!Next
  <2>3. CASE calls[c].op = "authorize"
    <3>1. Store(c, "code")
      BY <1>5, <2>3 DEF Issue, Is
    <3>2. \A d \in Calls : Issued(d)' <=> Issued(d) \/ d = c
      BY <2>1, <2>3, <1>t DEF Issued, Is, Call
    <3>3. Offered' = Offered \cup {c} /\ c \notin Offered
      BY <2>1, <3>2 DEF Offered, Issued, Is
    <3>4. \A d \in Calls : CodeRows(d)' # {} <=> CodeRows(d) # {} \/ d = c
      <4>1. PICK row : cache' = cache \cup {row} /\ row.kind = "code" /\ row.by = c
        <5> DEFINE new == [kind |-> "code", by |-> c, user |-> calls[c].user,
                           pw |-> calls[c].pw]
        <5>1. cache' = cache \cup {new} /\ new.kind = "code" /\ new.by = c
          BY <3>1 DEF Store
        <5> QED
          BY <5>1
      <4>2. \A d \in Calls : CodeRows(d)' = IF d = c THEN CodeRows(d) \cup {row}
                                                    ELSE CodeRows(d)
        BY <4>1 DEF CodeRows
      <4> QED
        BY <4>2
    <3>5. LiveCodes' = LiveCodes \cup {c}
      BY <3>4 DEF LiveCodes
    <3>6. \A d \in Calls : /\ Is(d, "token", "consumed")' <=> Is(d, "token", "consumed")
                           /\ Is(d, "token", "consumed") => calls'[d] = calls[d]
      BY <2>1, <2>3, <1>t DEF Is, Call
    <3>7. Consumers' = Consumers
      BY <3>6 DEF Consumers
    <3>8. Taken' = Taken
      BY <3>6, <3>7 DEF Taken, Consumers
    <3>9. OneTime!Offer(c)
      BY <2>1, <3>3, <3>5, <3>8 DEF OneTime!Offer
    <3> QED
      BY <3>9 DEF OneTime!Next
  <2> QED
    BY <1>5, <2>2, <2>3 DEF Issue, Is
<1>6. ASSUME NEW c \in Calls, Consume(c)
      PROVE  OneTime!Next
  <2>1. PICK k \in Calls : k = calls[c].code
    BY <1>6 DEF Consume, Is, CodesInv, ExchangesOfCodes
  <2>2. /\ calls[c].op = "token" /\ calls[c].at = "locked"
        /\ cache' = cache \ CodeRows(k) /\ minted' = minted
        /\ \A d \in Calls \ {c} : calls'[d] = calls[d]
    BY <1>6, <2>1, <1>t DEF Consume, Is, Moves
  <2>3. CASE CodeRows(k) = {}
    <3>1. calls'[c] = [calls[c] EXCEPT !.at = "done"]
      BY <1>6, <2>1, <2>3, <1>t DEF Consume, Moves
    <3>2. Aside(c) /\ Aside(c)'
      BY <2>2, <3>1, <1>t DEF Aside, Issued, Is, Call
    <3> QED
      BY <1>1, <2>2, <3>2
  <2>4. CASE CodeRows(k) # {}
    <3>1. calls'[c] = [calls[c] EXCEPT !.at = "consumed"]
      BY <1>6, <2>1, <2>4, <1>t DEF Consume, Moves
    <3>2. k \in LiveCodes
      BY <2>4 DEF LiveCodes
    <3>3. \A d \in Calls : CodeRows(d)' # {} <=> CodeRows(d) # {} /\ d # k
      BY <2>2 DEF CodeRows
    <3>4. LiveCodes' = LiveCodes \ {k}
      BY <3>3 DEF LiveCodes
    <3>5. \A d \in Calls : Issued(d)' <=> Issued(d)
      BY <2>2, <3>1, <1>t DEF Issued, Is, Call
    <3>6. Offered' = Offered
      BY <3>5 DEF Offered, Issued
    <3>7. /\ calls'[c].op = "token" /\ calls'[c].at = "consumed" /\ calls'[c].code = k
          /\ c \notin Consumers
      BY <2>1, <2>2, <3>1, <1>t DEF Consumers, Is, Call
    <3>8. Consumers' = Consumers \cup {c}
      BY <2>2, <3>7 DEF Consumers, Is
    <3>9. \A d \in Consumers : calls'[d] = calls[d]
      BY <2>2, <3>7 DEF Consumers
    <3>10. Taken' = Taken \cup {<<k, c>>}
      BY <3>7, <3>8, <3>9 DEF Taken
    <3>11. OneTime!Take(k, c)
      BY <2>2, <3>2, <3>4, <3>6, <3>10 DEF OneTime!Take
    <3> QED
      BY <3>11 DEF OneTime!Next
  <2> QED
    BY <2>3, <2>4
<1>7. ASSUME NEW c \in Calls, Is(c, "token", "consumed"), ~Is(c, "token", "consumed")',
             ~Issued(c)', \A d \in Calls \ {c} : calls'[d] = calls[d]
      PROVE  /\ Offered' = Offered /\ <<calls[c].code, c>> \in Taken
             /\ Taken' = Taken \ {<<calls[c].code, c>>}
  <2>1. \A d \in Calls : Issued(d)' <=> Issued(d)
    BY <1>7 DEF Issued, Is
  <2>2. c \in Consumers /\ Consumers' = Consumers \ {c}
    BY <1>7 DEF Consumers, Is
  <2>3. \A d \in Consumers' : calls'[d] = calls[d] /\ d # c
    BY <1>7, <2>2 DEF Consumers
  <2> QED
    BY <2>1, <2>2, <2>3 DEF Offered, Issued, Taken
<1>8. ASSUME NEW c \in Calls, IssueAccess(c)
      PROVE  OneTime!Next
  <2>1. PICK k \in Calls : k = calls[c].code
    BY <1>8 DEF IssueAccess, Is, CodesInv, ExchangesOfCodes
  <2>2. /\ Is(c, "token", "consumed") /\ ~Is(c, "token", "consumed")' /\ ~Issued(c)'
        /\ \A d \in Calls \ {c} : calls'[d] = calls[d]
        /\ minted' = minted \cup {<<k, c>>}
    BY <1>8, <2>1, <1>t DEF IssueAccess, Is, Issued, Moves, Call
  <2>3. \A d \in Calls : CodeRows(d)' = CodeRows(d)
    BY <1>8 DEF IssueAccess, Store, CodeRows
  <2>4. LiveCodes' = LiveCodes
    BY <2>3 DEF LiveCodes
  <2>5. OneTime!Mint(k, c)
    BY <1>7, <2>1, <2>2, <2>4 DEF OneTime!Mint
  <2> QED
    BY <2>5 DEF OneTime!Next
<1>9. ASSUME NEW c \in Calls, Killed(c)
      PROVE  OneTime!Next
  <2>1. /\ calls[c].at # "done" /\ calls'[c] = [calls[c] EXCEPT !.at = "dead"]
        /\ \A d \in Calls \ {c} : calls'[d] = calls[d]
        /\ cache' = cache /\ minted' = minted
    BY <1>9, <1>t DEF Killed, Moves
  <2>2. ~Issued(c) /\ ~Issued(c)' /\ ~Is(c, "token", "consumed")'
    BY <2>1, <1>t DEF Issued, Is, Call
  <2>3. CASE ~Is(c, "token", "consumed")
    BY <1>1, <2>1, <2>2, <2>3 DEF Aside
  <2>4. CASE Is(c, "token", "consumed")
    <3>1. PICK k \in Calls : k = calls[c].code
      BY <2>4 DEF Is, CodesInv, ExchangesOfCodes
    <3>2. LiveCodes' = LiveCodes
      BY <2>1 DEF LiveCodes, CodeRows
    <3>3. OneTime!Abandon(k, c)
      BY <1>7, <2>1, <2>2, <2>4, <3>1, <3>2 DEF OneTime!Abandon
    <3> QED
      BY <3>3 DEF OneTime!Next
  <2> QED
    BY <2>3, <2>4
<1>10. ASSUME NEW row \in cache, Expire(row)
       PROVE  OneTime!Next
  BY <1>10, WithdrawStep DEF Expire, Offered, Taken, Consumers, Is
<1>11. CASE UNCHANGED oauthVars
  BY <1>11 DEF oauthVars, Offered, LiveCodes, CodeRows, Taken, Consumers, Is
<1> QED
  BY <1>2, <1>3, <1>4, <1>5, <1>6, <1>8, <1>9, <1>10, <1>11 DEF OAuthNext

(* The rows of the codes and the requests about them are one-time codes:   *)
(* for any number of requests, kills, expiries and changes of password.    *)
THEOREM CodeRefinement == OAuthSpec => CodesAreOneTime
<1>1. ASSUME OAuthInit PROVE OneTime!Init
  <2>1. \A c \in Calls : calls[c].op = "none" /\ cache = {} /\ minted = {}
    BY <1>1, UnusedHasType DEF OAuthInit
  <2>2. Offered = {} /\ Consumers = {}
    BY <2>1 DEF Offered, Consumers, Is
  <2>3. LiveCodes = {} /\ Taken = {} /\ minted = {}
    BY <1>1, <2>2 DEF OAuthInit, LiveCodes, CodeRows, Taken
  <2> QED
    BY <2>2, <2>3 DEF OneTime!Init
<1> QED
  BY <1>1, CodesAtFirst, CodesStep, OneTimeStep, PTL
     DEF OAuthSpec, CodesAreOneTime, OneTime!Spec
-----------------------------------------------------------------------------
(* What a change of password has to remove, and has removed at each point  *)
(* of the revocation.                                                      *)
Left(c, kind) == {row \in calls[c].before \cap cache : row.kind = kind}
RowsAreStored == \A row \in cache : Done(row.by)
BeforeIsOfUser(c) ==
    \A row \in calls[c].before : row.user = calls[c].user /\ Done(row.by)
Removed(c) ==
    /\ calls[c].at # "updated" => Left(c, "session") = {}
    /\ calls[c].at = "code" => Left(c, "code") \subseteq calls[c].found
    /\ calls[c].at \in {"deleted", "access", "done"} => Left(c, "code") = {}
    /\ calls[c].at = "access" => Left(c, "access") \subseteq calls[c].found
    /\ calls[c].at = "done" => Left(c, "access") = {}
ChangesInv ==
    /\ RowsAreStored
    /\ \A c \in Calls : calls[c].op = "change" =>
         /\ BeforeIsOfUser(c)
         /\ calls[c].at # "dead" /\ ~calls[c].missed => Removed(c)

(* A row that stood at the change and is gone is not stored again.         *)
LEMMA LeftShrinks ==
    ASSUME OAuthTypeOK, Effects, NEW c \in Calls, BeforeIsOfUser(c),
           calls'[c].before = calls[c].before, NEW kind
    PROVE  Left(c, kind)' \subseteq Left(c, kind)
BY DEF Effects, RowsAreStoredOnce, BeforeIsOfUser, Left

LEMMA BeforeStays ==
    ASSUME OAuthTypeOK, Effects, NEW c \in Calls, BeforeIsOfUser(c),
           calls'[c].before = calls[c].before, calls'[c].user = calls[c].user
    PROVE  BeforeIsOfUser(c)'
<1>1. \A row \in calls[c].before : row.by \in Calls
  BY DEF OAuthTypeOK, Call, Cached
<1> QED
  BY <1>1 DEF Effects, FinishedStay, BeforeIsOfUser, Done

(* One step of the revocation of c                                         *)
LEMMA RevokeStep ==
    ASSUME OAuthTypeOK, Effects, NEW c \in Calls, Revoke(c),
           BeforeIsOfUser(c), ~calls[c].missed => Removed(c)
    PROVE  BeforeIsOfUser(c)' /\ (~calls'[c].missed => Removed(c)')
<1>t. calls \in [Calls -> Call] /\ cache \subseteq Cached
  BY DEF OAuthTypeOK
<1>1. /\ calls'[c].before = calls[c].before /\ calls'[c].user = calls[c].user
      /\ calls'[c].missed = calls[c].missed
  BY <1>t DEF Revoke, RevokeSessions, Selects, Deletes, Moves, Call
<1>2. BeforeIsOfUser(c)'
  BY <1>1, BeforeStays
<1>3. \A kind : Left(c, kind)' \subseteq Left(c, kind)
  BY <1>1, LeftShrinks
<1>4. ASSUME ~calls[c].missed
      PROVE  Removed(c)'
  <2>1. CASE RevokeSessions(c)
    <3>1. calls'[c].at = "sessions" /\ Left(c, "session")' = {}
      BY <1>1, <1>t, <2>1 DEF RevokeSessions, RowsOf, Left, BeforeIsOfUser, Moves, Call
    <3> QED
      BY <3>1 DEF Removed
  <2>2. CASE Selects(c, "sessions", "code")
    <3>1. /\ calls[c].at = "sessions" /\ calls'[c].at = "code"
          /\ Left(c, "code") \subseteq calls'[c].found
      BY <1>t, <2>2 DEF Selects, Is, RowsOf, Left, BeforeIsOfUser, Call
    <3> QED
      BY <1>3, <1>4, <3>1 DEF Removed
  <2>3. CASE Deletes(c, "code", "deleted")
    <3>1. /\ calls[c].at = "code" /\ calls'[c].at = "deleted"
          /\ cache' = cache \ calls[c].found
      BY <1>t, <2>3 DEF Deletes, Is, NextPrefix, Call
    <3>2. Left(c, "code")' = {}
      BY <1>1, <1>4, <3>1 DEF Removed, Left
    <3> QED
      BY <1>3, <1>4, <3>1, <3>2 DEF Removed
  <2>4. CASE Selects(c, "deleted", "access")
    <3>1. /\ calls[c].at = "deleted" /\ calls'[c].at = "access"
          /\ Left(c, "access") \subseteq calls'[c].found
      BY <1>t, <2>4 DEF Selects, Is, RowsOf, Left, BeforeIsOfUser, Call
    <3> QED
      BY <1>3, <1>4, <3>1 DEF Removed
  <2>5. CASE Deletes(c, "access", "done")
    <3>1. /\ calls[c].at = "access" /\ calls'[c].at = "done"
          /\ cache' = cache \ calls[c].found
      BY <1>t, <2>5 DEF Deletes, Is, NextPrefix, Call
    <3>2. Left(c, "access")' = {}
      BY <1>1, <1>4, <3>1 DEF Removed, Left
    <3> QED
      BY <1>3, <1>4, <3>1, <3>2 DEF Removed
  <2> QED
    BY <2>1, <2>2, <2>3, <2>4, <2>5 DEF Revoke
<1> QED
  BY <1>1, <1>2, <1>4

LEMMA ChangesStep ==
    ASSUME OAuthTypeOK, OAuthTypeOK', ChangesInv, [OAuthNext]_oauthVars
    PROVE  ChangesInv'
<1>1. Effects
  BY StepEffects
<1>2. RowsAreStored'
  <2>1. \A row \in cache : row.by \in Calls
    BY DEF OAuthTypeOK, Cached
  <2> QED
    BY <1>1, <2>1 DEF Effects, FinishedStay, RowsAreStoredOnce, ChangesInv,
                      RowsAreStored, Done
<1>3. ASSUME NEW c \in Calls, calls'[c].op = "change"
      PROVE  /\ BeforeIsOfUser(c)'
             /\ calls'[c].at # "dead" /\ ~calls'[c].missed => Removed(c)'
  <2>1. CASE calls'[c] = calls[c]
    <3>1. /\ BeforeIsOfUser(c)
          /\ calls[c].at # "dead" /\ ~calls[c].missed => Removed(c)
      BY <1>3, <2>1 DEF ChangesInv
    <3>2. BeforeIsOfUser(c)' /\ \A kind : Left(c, kind)' \subseteq Left(c, kind)
      BY <1>1, <2>1, <3>1, BeforeStays, LeftShrinks
    <3> QED
      BY <2>1, <3>1, <3>2 DEF Removed
  <2>2. ASSUME NEW a \in Accounts, UpdatePassword(c, a)
        PROVE  BeforeIsOfUser(c)' /\ Removed(c)'
    <3>1. /\ calls'[c].at = "updated" /\ calls'[c].user = a
          /\ calls'[c].before = {row \in cache : row.user = a} /\ cache' = cache
      BY <2>2, UnusedHasType DEF UpdatePassword, OAuthTypeOK, Call
    <3>2. BeforeIsOfUser(c)'
      BY <1>2, <3>1 DEF RowsAreStored, BeforeIsOfUser
    <3> QED
      BY <3>1, <3>2 DEF Removed
  <2>3. CASE Revoke(c)
    <3>1. calls[c].op = "change" /\ calls[c].at # "dead"
      BY <2>3 DEF Revoke, RevokeSessions, Selects, Deletes, Is
    <3> QED
      BY <1>1, <2>3, <3>1, RevokeStep DEF ChangesInv
  <2>4. CASE RevokeFails(c)
    <3>1. /\ calls[c].op = "change" /\ calls'[c].missed
          /\ calls'[c].before = calls[c].before /\ calls'[c].user = calls[c].user
      BY <2>4 DEF RevokeFails, OAuthTypeOK, Call
    <3> QED
      BY <1>1, <3>1, BeforeStays DEF ChangesInv
  <2>5. CASE calls[c].op = "change" /\ calls'[c] = [calls[c] EXCEPT !.at = "dead"]
    <3>1. /\ calls'[c].at = "dead"
          /\ calls'[c].before = calls[c].before /\ calls'[c].user = calls[c].user
      BY <2>5 DEF OAuthTypeOK, Call
    <3> QED
      BY <1>1, <2>5, <3>1, BeforeStays DEF ChangesInv
  <2> QED
    BY <1>1, <1>3, <2>1, <2>2, <2>3, <2>4, <2>5 DEF Effects, ChangesRevoke
<1> QED
  BY <1>2, <1>3 DEF ChangesInv

(* A change of password that has ended, its revocation without an error,   *)
(* has removed every session, code and token the account had when the new  *)
(* password was written, whatever logins, authorizes and exchanges ran     *)
(* meanwhile.                                                              *)
THEOREM NothingOlderRemains == OAuthSpec => []StoredBeforeIsGone
<1>1. OAuthInit => ChangesInv
  <2> SUFFICES ASSUME OAuthInit
               PROVE  ChangesInv
    OBVIOUS
  <2>1. cache = {} /\ \A c \in Calls : calls[c].op = "none"
    BY UnusedHasType DEF OAuthInit
  <2> QED
    BY <2>1 DEF ChangesInv, RowsAreStored
<1>2. CodesInv /\ CodesInv' /\ ChangesInv /\ [OAuthNext]_oauthVars => ChangesInv'
  BY ChangesStep DEF CodesInv
<1>3. CodesInv /\ ChangesInv => StoredBeforeIsGone
  <2> SUFFICES ASSUME OAuthTypeOK, ChangesInv, NEW c \in Calls,
                      Is(c, "change", "done"), ~calls[c].missed,
                      NEW row \in calls[c].before \cap cache
               PROVE  FALSE
    BY DEF CodesInv, StoredBeforeIsGone
  <2>1. row.kind \in {"session", "code", "access"}
    BY DEF OAuthTypeOK, Cached
  <2>2. Left(c, "session") = {} /\ Left(c, "code") = {} /\ Left(c, "access") = {}
    BY DEF ChangesInv, Removed, Is
  <2> QED
    BY <2>1, <2>2 DEF Left
<1> QED
  BY <1>1, <1>2, <1>3, CodesAtFirst, CodesStep, PTL DEF OAuthSpec
-----------------------------------------------------------------------------
(* A version of the code has its defaults, which are grants.               *)
LEMMA CodeHasDefaults ==
    ASSUME NEW p \in Starts
    PROVE  Code[p] \in DOMAIN Defaults /\ Code[p] # 0 /\ Defaults[Code[p]] \subseteq Grants
BY BootAssumption DEF Grants

(* What a step writes of one start *)
LEMMA StartHasType ==
    ASSUME BootTypeOK, NEW p \in Starts
    PROVE  boot[p] \in Start_ /\ Idle \in Start_
BY BootAssumption DEF BootTypeOK, Start_, Idle

LEMMA FaultsAreCounted ==
    ASSUME BootTypeOK, Breaks
    PROVE  bootFaults' \in 0 .. MaxFaults
BY BootAssumption DEF BootTypeOK, Breaks

LEMMA BootTypeStep ==
    ASSUME BootTypeOK, [BootNext]_bootVars
    PROVE  BootTypeOK'
<1> USE BootAssumption DEF BootTypeOK, db, At, Goes, Ends
<1>t. \A p \in Starts : boot[p] \in Start_ /\ Idle \in Start_
  BY StartHasType
<1>1. ASSUME NEW p \in Starts, Start(p) \/ StartBlind(p)
      PROVE  BootTypeOK'
  BY <1>1, <1>t, FaultsAreCounted DEF Start, StartBlind, Compare, Mode, Start_, Working
<1>2. ASSUME NEW p \in Starts, Try(p) \/ Probe(p) \/ LockFails(p)
      PROVE  BootTypeOK'
  <2>1. CASE Try(p)
    BY <1>t, <2>1 DEF Try, Acquires, Start_, Working
  <2>2. CASE Probe(p)
    BY <1>t, <2>2 DEF Probe, Start_, Working
  <2>3. CASE LockFails(p)
    <3>1. \E place \in {"probe", "check", "poll", "last"} :
              boot' = [boot EXCEPT ![p].at = place]
      BY <2>3 DEF LockFails, Again
    <3>2. boot' \in [Starts -> Start_]
      BY <1>t, <3>1 DEF Start_, Working
    <3> QED
      BY <2>3, <3>2, FaultsAreCounted DEF LockFails
  <2> QED
    BY <1>2, <2>1, <2>2, <2>3
<1>3. ASSUME NEW p \in Starts, Poll(p) \/ Retry(p) \/ Last(p)
      PROVE  BootTypeOK'
  BY <1>3, <1>t DEF Poll, Retry, Last, Again, Acquires, Start_, Working
<1>4. ASSUME NEW p \in Starts, Check(p) \/ CheckBlind(p) \/ Create(p)
      PROVE  BootTypeOK'
  <2>1. CASE Check(p)
    BY <1>t, <2>1 DEF Check, Start_, Working
  <2>2. CASE CheckBlind(p)
    BY <1>t, <2>2, FaultsAreCounted DEF CheckBlind, Start_, Working
  <2>3. CASE Create(p)
    BY <1>t, <2>3, CodeHasDefaults DEF Create, Start_, Working
  <2> QED
    BY <1>4, <2>1, <2>2, <2>3
<1>5. ASSUME NEW p \in Starts, Prune(p) \/ Grant(p) \/ PruneFails(p) \/ GrantFails(p)
      PROVE  BootTypeOK'
  <2>1. CASE Prune(p)
    BY <1>t, <2>1 DEF Prune, Start_, Working
  <2>2. CASE Grant(p)
    BY <1>t, <2>2 DEF Grant, Start_, Working
  <2>3. CASE PruneFails(p)
    <3>1. [boot[p] EXCEPT !.at = "grant", !.bad = TRUE] \in Start_
      BY <1>t DEF Start_, Working
    <3>2. boot' = [boot EXCEPT ![p] = [boot[p] EXCEPT !.at = "grant", !.bad = TRUE]]
      BY <2>3 DEF PruneFails
    <3>3. boot' \in [Starts -> Start_]
      BY <3>1, <3>2
    <3> QED
      BY <2>3, <3>3, FaultsAreCounted DEF PruneFails
  <2>4. CASE GrantFails(p)
    <3>1. PICK g \in boot[p].todo :
              boot' = [boot EXCEPT ![p].todo = @ \ {g}, ![p].bad = TRUE]
      BY <2>4 DEF GrantFails
    <3>2. [boot[p] EXCEPT !.todo = @ \ {g}, !.bad = TRUE] \in Start_
      BY <1>t DEF Start_, Working
    <3>3. boot' = [boot EXCEPT ![p] = [boot[p] EXCEPT !.todo = @ \ {g}, !.bad = TRUE]]
      BY <3>1
    <3>4. boot' \in [Starts -> Start_]
      BY <3>2, <3>3
    <3> QED
      BY <2>4, <3>4, FaultsAreCounted DEF GrantFails
  <2> QED
    BY <1>5, <2>1, <2>2, <2>3, <2>4
<1>6. ASSUME NEW p \in Starts, Seeded(p) \/ MarkCurrent(p) \/ Throws(p)
      PROVE  BootTypeOK'
  <2>1. CASE Seeded(p)
    BY <1>t, <2>1 DEF Seeded, Start_, Working
  <2>2. CASE MarkCurrent(p)
    BY <1>t, <2>2, CodeHasDefaults DEF MarkCurrent, Start_, Working
  <2>3. CASE Throws(p)
    BY <1>t, <2>3, FaultsAreCounted DEF Throws, Start_, Working
  <2> QED
    BY <1>6, <2>1, <2>2, <2>3
<1>7. ASSUME NEW p \in Starts, Leave(p) \/ Crash(p)
      PROVE  BootTypeOK'
  <2>1. boot' \in [Starts -> Start_]
    BY <1>7, <1>t DEF Leave, Crash
  <2>2. CASE Leave(p)
    BY <2>1, <2>2 DEF Leave, NoLease
  <2>3. CASE Crash(p)
    BY <2>1, <2>3, FaultsAreCounted DEF Crash
  <2> QED
    BY <1>7, <2>2, <2>3
<1>8. CASE Wait
  <2>1. \A n \in Nat : Less(n) \in Nat /\ Less(n) <= n
    BY DEF Less
  <2>2. lease' \in [by : Starts \cup {NoStart}, left : 0 .. LeaseLife]
    BY <1>8, <2>1 DEF Wait
  <2>3. \A p \in Starts : Less(boot[p].wait) \in 0 .. WaitLife
    BY <1>t, <2>1 DEF Start_
  <2>4. boot' \in [Starts -> Start_]
    BY <1>8, <1>t, <2>3 DEF Wait, Start_
  <2> QED
    BY <1>8, <2>2, <2>4 DEF Wait
<1>9. CASE UNCHANGED bootVars
  BY <1>9 DEF bootVars
<1> QED
  BY <1>1, <1>2, <1>3, <1>4, <1>5, <1>6, <1>7, <1>8, <1>9
     DEF BootNext, Waits, Migrates, Fails
-----------------------------------------------------------------------------
OneVersion == \A p, q \in Starts : Code[p] = Code[q]
Granted(p) == Defaults[Code[p]]
Migrating == {"cache", "settings", "prune", "grant", "mark"}

(* Who seeds or marks has created the tables, and a role that is emptied   *)
(* is then given everything.                                               *)
TablesMade ==
    /\ recorded # 0 => "settings" \in tables
    /\ \A p \in Starts : boot[p].at \in {"prune", "grant", "mark"} => "settings" \in tables
PrunedIsWhole == \A p \in Starts : At(p, "prune") => boot[p].todo = Granted(p)

(* Under the lease one process migrates at a time, and only what is not    *)
(* current; what the role lacks is what it has still to insert.            *)
WorkerHolds ==
    \A p \in Starts : boot[p].at \in Working => lease.by = p /\ lease.left # 0
MigratesOld == \A p \in Starts : boot[p].at \in Migrating => recorded # Code[p]
SeedsAll ==
    \A p \in Starts :
        /\ At(p, "grant") /\ ~boot[p].bad => Granted(p) \subseteq grants \cup boot[p].todo
        /\ At(p, "mark") \/ recorded = Code[p] => Granted(p) \subseteq grants
LockedInv == ~unsure => WorkerHolds /\ MigratesOld /\ SeedsAll

(* Without the lease many may migrate at once, but while nothing fails     *)
(* whatever one of them deletes is inserted again by that one.             *)
Covered(g) == g \in grants \/ \E q \in Starts : At(q, "grant") /\ g \in boot[q].todo
Seeds(p) == At(p, "grant") \/ At(p, "mark") \/ recorded = Code[p]
FaultlessInv ==
    bootFaults = 0 =>
        /\ \A p \in Starts : ~boot[p].bad
        /\ \A p \in Starts : Seeds(p) => \A g \in Granted(p) : Covered(g)

BootInv == BootTypeOK /\ TablesMade /\ PrunedIsWhole /\ LockedInv /\ FaultlessInv

(* Three kinds of steps, as far as the invariants look at them: a start    *)
(* that stays, or comes, outside of the critical section; one that enters  *)
(* it; a failure inside.                                                   *)
Others(p) == \A q \in Starts \ {p} : boot'[q] = boot[q]
Outside(p) ==
    /\ UNCHANGED db /\ unsure' = unsure /\ bootFaults' >= bootFaults
    /\ boot'[p].at \notin Working /\ Others(p)
    /\ \A q \in Starts \ {p} : lease.by = q => lease' = lease
    /\ At(p, "grant") => bootFaults' # 0
    /\ ~boot[p].bad => ~boot'[p].bad
Enters(p) ==
    /\ UNCHANGED db /\ (unsure => unsure') /\ bootFaults' >= bootFaults
    /\ boot[p].at \notin Working /\ boot'[p].at = "check" /\ Others(p)
    /\ unsure' \/ (Free /\ lease'.by = p /\ lease'.left # 0)
    /\ ~boot[p].bad => ~boot'[p].bad
FaultAtWork(p) ==
    /\ UNCHANGED <<db, lease>> /\ (unsure => unsure') /\ bootFaults' # 0
    /\ boot[p].at \in Working /\ boot'[p].at \in Working /\ Others(p)
    /\ \/ unsure' /\ boot'[p].at = "cache"
       \/ boot'[p].at = "leave"
       \/ /\ boot'[p].at = "grant" /\ boot'[p].bad
          /\ boot[p].at \in {"prune", "grant"}

LEMMA StepKinds ==
    ASSUME BootTypeOK, NEW p \in Starts, Start(p) \/ Waits(p) \/ Leave(p) \/ Fails(p)
    PROVE  Outside(p) \/ Enters(p) \/ FaultAtWork(p)
<1> USE DEF At, Goes, Ends, Others, Working
<1>t. /\ boot \in [Starts -> Start_] /\ Idle.at = "idle" /\ ~Idle.bad
      /\ bootFaults \in Nat /\ LeaseLife # 0 /\ unsure \in BOOLEAN
  BY BootAssumption DEF BootTypeOK, Idle
<1>1. CASE Start(p) \/ StartBlind(p)
  BY <1>1, <1>t DEF Start, StartBlind, Compare, Breaks, Outside, Start_
<1>2. CASE Try(p)
  <2>1. CASE Acquires(p)
    <3>1. boot' = [boot EXCEPT ![p].at = "check"] /\ Free /\ lease' = [by |-> p, left |-> LeaseLife]
      BY <2>1 DEF Acquires
    <3>2. /\ boot'[p].at = "check" /\ boot'[p].bad = boot[p].bad
          /\ \A q \in Starts \ {p} : boot'[q] = boot[q]
      BY <3>1, <1>t DEF Start_
    <3> QED
      BY <1>2, <1>t, <3>1, <3>2 DEF Try, Enters
  <2>2. CASE Refused(p) /\ Goes(p, "probe") /\ UNCHANGED lease
    BY <1>2, <2>2, <1>t DEF Try, Outside, Start_
  <2> QED
    BY <1>2, <2>1, <2>2 DEF Try
<1>3. CASE Probe(p)
  <2>1. CASE "cache" \in tables
    BY <1>3, <2>1, <1>t DEF Probe, Outside, Start_
  <2>2. CASE "cache" \notin tables
    <3>1. unsure' /\ boot' = [boot EXCEPT ![p].at = "check"]
      BY <1>3, <2>2 DEF Probe
    <3> QED
      BY <1>3, <1>t, <3>1 DEF Probe, Enters, Start_
  <2> QED
    BY <2>1, <2>2
<1>4. CASE Poll(p)
  BY <1>4, <1>t DEF Poll, Outside, Start_
<1>5. CASE Retry(p)
  BY <1>5, <1>t DEF Retry, Again, Acquires, Outside, Enters, Start_
<1>6. CASE Last(p)
  BY <1>6, <1>t DEF Last, Acquires, Outside, Enters, Start_
<1>7. CASE Leave(p)
  BY <1>7, <1>t DEF Leave, Outside, Start_
<1>8. CASE LockFails(p)
  BY <1>8, <1>t DEF LockFails, Again, Breaks, Outside, Enters, Start_
<1>9. CASE CheckBlind(p) \/ Throws(p)
  BY <1>9, <1>t DEF CheckBlind, Throws, Breaks, FaultAtWork, Start_
<1>10. CASE PruneFails(p)
  BY <1>10, <1>t DEF PruneFails, Breaks, FaultAtWork, Start_
<1>11. CASE GrantFails(p)
  BY <1>11, <1>t DEF GrantFails, Breaks, FaultAtWork, Start_
<1>12. CASE Crash(p)
  BY <1>12, <1>t DEF Crash, Breaks, Outside, Start_
<1> QED
  BY <1>1, <1>2, <1>3, <1>4, <1>5, <1>6, <1>7, <1>8, <1>9, <1>10, <1>11, <1>12
     DEF Waits, Fails

(* A step of the critical section that does what it is there for.          *)
Works(p) ==
    Check(p) \/ Create(p) \/ Prune(p) \/ Grant(p) \/ Seeded(p) \/ MarkCurrent(p)
Passes(p) == Outside(p) \/ Enters(p) \/ FaultAtWork(p)

LEMMA BootSteps ==
    ASSUME BootTypeOK, [BootNext]_bootVars
    PROVE  \/ \E p \in Starts : Passes(p) \/ Works(p)
           \/ Wait \/ UNCHANGED bootVars
BY StepKinds DEF BootNext, Migrates, Works, Passes

LEMMA TablesStep ==
    ASSUME BootTypeOK, TablesMade, PrunedIsWhole, [BootNext]_bootVars
    PROVE  TablesMade' /\ PrunedIsWhole'
<1> USE DEF TablesMade, PrunedIsWhole, db, At, Goes, Granted
<1>t. boot \in [Starts -> Start_]
  BY DEF BootTypeOK
<1>1. ASSUME NEW p \in Starts, Passes(p)
      PROVE  TablesMade' /\ PrunedIsWhole'
  <2>1. /\ UNCHANGED db /\ Others(p) /\ boot'[p].at # "prune"
        /\ boot'[p].at \in {"grant", "mark"} => boot[p].at \in {"prune", "grant"}
    BY <1>1 DEF Passes, Outside, Enters, FaultAtWork, Working
  <2> QED
    BY <2>1 DEF Others
<1>2. ASSUME NEW p \in Starts, Works(p)
      PROVE  TablesMade' /\ PrunedIsWhole'
  <2>1. CASE Check(p) \/ Seeded(p)
    BY <1>t, <2>1 DEF Check, Seeded, Start_
  <2>2. CASE Create(p)
    BY <1>t, <2>2 DEF Create, Start_
  <2>3. CASE Prune(p) \/ Grant(p)
    BY <1>t, <2>3 DEF Prune, Grant, Start_
  <2>4. CASE MarkCurrent(p)
    BY <1>t, <2>4 DEF MarkCurrent, Start_
  <2> QED
    BY <1>2, <2>1, <2>2, <2>3, <2>4 DEF Works
<1>3. CASE Wait
  BY <1>3, <1>t DEF Wait, Start_
<1>4. CASE UNCHANGED bootVars
  BY <1>4 DEF bootVars
<1> QED
  BY <1>1, <1>2, <1>3, <1>4, BootSteps

LEMMA LockedStep ==
    ASSUME OneVersion, BootTypeOK, TablesMade, PrunedIsWhole, LockedInv,
           [BootNext]_bootVars
    PROVE  LockedInv'
<1> USE BootAssumption DEF WorkerHolds, MigratesOld, SeedsAll, db, At, Goes, Granted,
                           Working, Migrating, OneVersion
<1> SUFFICES ASSUME ~unsure'
             PROVE  (WorkerHolds /\ MigratesOld /\ SeedsAll)'
  BY DEF LockedInv
<1>t. boot \in [Starts -> Start_] /\ \A p \in Starts : Code[p] # 0
  BY DEF BootTypeOK
<1>1. ASSUME NEW p \in Starts, Passes(p)
      PROVE  (WorkerHolds /\ MigratesOld /\ SeedsAll)'
  <2>1. UNCHANGED db /\ Others(p) /\ WorkerHolds /\ MigratesOld /\ SeedsAll
    BY <1>1 DEF Passes, Outside, Enters, FaultAtWork, LockedInv
  <2>2. CASE Outside(p)
    BY <2>1, <2>2 DEF Outside, Others
  <2>3. CASE Enters(p)
    BY <2>1, <2>3 DEF Enters, Others, Free
  <2>4. CASE FaultAtWork(p)
    BY <2>1, <2>4 DEF FaultAtWork, Others
  <2> QED
    BY <1>1, <2>2, <2>3, <2>4 DEF Passes
<1>2. ASSUME NEW p \in Starts, Works(p)
      PROVE  (WorkerHolds /\ MigratesOld /\ SeedsAll)'
  <2>1. /\ UNCHANGED <<lease, unsure>> /\ WorkerHolds /\ MigratesOld /\ SeedsAll
        /\ boot[p].at \in Working /\ boot'[p].at \in Working
        /\ \A q \in Starts \ {p} : boot'[q] = boot[q] /\ boot[q].at \notin Working
    <3>1. UNCHANGED unsure
      BY <1>2 DEF Works, Check, Create, Prune, Grant, Seeded, MarkCurrent
    <3>2. WorkerHolds /\ MigratesOld /\ SeedsAll
      BY <3>1 DEF LockedInv
    <3>3. /\ UNCHANGED lease /\ boot[p].at \in Working /\ boot'[p].at \in Working
          /\ \A q \in Starts \ {p} : boot'[q] = boot[q]
      BY <1>2, <1>t DEF Works, Check, Create, Prune, Grant, Seeded, MarkCurrent, Start_
    <3> QED
      BY <3>1, <3>2, <3>3
  <2>2. WorkerHolds'
    BY <2>1
  <2>3. CASE Check(p)
    BY <1>t, <2>1, <2>2, <2>3 DEF Check, Reading, TablesMade, Start_
  <2>4. CASE Create(p)
    BY <1>t, <2>1, <2>2, <2>4 DEF Create, Start_
  <2>5. CASE Prune(p)
    BY <1>t, <2>1, <2>2, <2>5 DEF Prune, PrunedIsWhole, Start_
  <2>6. CASE Grant(p)
    BY <1>t, <2>1, <2>2, <2>6 DEF Grant, Start_
  <2>7. CASE Seeded(p)
    BY <1>t, <2>1, <2>2, <2>7 DEF Seeded, Start_
  <2>8. CASE MarkCurrent(p)
    BY <1>t, <2>1, <2>2, <2>8 DEF MarkCurrent, Start_
  <2> QED
    BY <1>2, <2>3, <2>4, <2>5, <2>6, <2>7, <2>8 DEF Works
<1>3. CASE Wait
  <2>1. /\ UNCHANGED <<db, unsure>> /\ lease'.by = lease.by
        /\ \A p \in Starts : /\ boot'[p].at = boot[p].at
                             /\ boot'[p].todo = boot[p].todo /\ boot'[p].bad = boot[p].bad
                             /\ Holds(p) => lease'.left # 0
    <3>1. UNCHANGED <<db, unsure>> /\ lease'.by = lease.by
      BY <1>3 DEF Wait, BootTypeOK
    <3>2. \A p \in Starts : /\ boot'[p].at = boot[p].at
                            /\ boot'[p].todo = boot[p].todo /\ boot'[p].bad = boot[p].bad
      BY <1>3, <1>t DEF Wait, Start_
    <3>3. \A p \in Starts : Holds(p) => lease'.left # 0
      BY <1>3 DEF Wait, BootTypeOK, Less
    <3> QED
      BY <3>1, <3>2, <3>3
  <2>2. WorkerHolds /\ MigratesOld /\ SeedsAll
    BY <2>1 DEF LockedInv
  <2>3. WorkerHolds'
    <3> SUFFICES ASSUME NEW p \in Starts, boot'[p].at \in Working
                 PROVE  lease'.by = p /\ lease'.left # 0
      OBVIOUS
    <3>1. Holds(p)
      BY <2>1, <2>2 DEF Holds
    <3> QED
      BY <2>1, <3>1 DEF Holds
  <2>4. MigratesOld' /\ SeedsAll'
    BY <2>1, <2>2
  <2> QED
    BY <2>3, <2>4
<1>4. CASE UNCHANGED bootVars
  BY <1>4 DEF bootVars, LockedInv
<1> QED
  BY <1>1, <1>2, <1>3, <1>4, BootSteps

LEMMA FaultlessStep ==
    ASSUME OneVersion, BootTypeOK, PrunedIsWhole, FaultlessInv, [BootNext]_bootVars
    PROVE  FaultlessInv'
<1> USE DEF Seeds, Covered, db, At, Goes, Granted, OneVersion
<1>t. boot \in [Starts -> Start_] /\ bootFaults \in Nat
  BY DEF BootTypeOK
<1> SUFFICES ASSUME bootFaults' = 0
             PROVE  /\ \A p \in Starts : ~boot'[p].bad
                    /\ \A p \in Starts : Seeds(p)' => \A g \in Granted(p) : Covered(g)'
  BY DEF FaultlessInv
<1>1. ASSUME NEW p \in Starts, Passes(p)
      PROVE  /\ \A q \in Starts : ~boot'[q].bad
             /\ \A q \in Starts : Seeds(q)' => \A g \in Granted(q) : Covered(g)'
  <2>1. /\ UNCHANGED db /\ bootFaults = 0
        /\ boot[p].at # "grant" /\ boot'[p].at \notin {"grant", "mark"}
        /\ \A q \in Starts \ {p} : boot'[q] = boot[q]
        /\ ~boot[p].bad => ~boot'[p].bad
    BY <1>1, <1>t DEF Passes, Outside, Enters, FaultAtWork, Others, Working
  <2>2. \A q \in Starts : ~boot[q].bad
    BY <2>1 DEF FaultlessInv
  <2>3. \A q \in Starts : Seeds(q)' => Seeds(q)
    BY <2>1
  <2>4. \A g : Covered(g) => Covered(g)'
    BY <2>1
  <2> QED
    BY <2>1, <2>2, <2>3, <2>4 DEF FaultlessInv
<1>2. ASSUME NEW p \in Starts, Works(p)
      PROVE  /\ \A q \in Starts : ~boot'[q].bad
             /\ \A q \in Starts : Seeds(q)' => \A g \in Granted(q) : Covered(g)'
  <2>1. /\ bootFaults = 0 /\ \A q \in Starts : ~boot[q].bad
        /\ \A q \in Starts : Seeds(q) => \A g \in Granted(q) : Covered(g)
    BY <1>2 DEF FaultlessInv, Works, Check, Create, Prune, Grant, Seeded, MarkCurrent
  <2>2. \A q \in Starts : boot'[q].bad = boot[q].bad
    BY <1>2, <1>t DEF Works, Check, Create, Prune, Grant, Seeded, MarkCurrent, Start_
  <2>3. \A q \in Starts \ {p} : boot'[q] = boot[q]
    BY <1>2, <1>t DEF Works, Check, Create, Prune, Grant, Seeded, MarkCurrent
  <2>4. ASSUME Check(p) \/ Seeded(p)
        PROVE  /\ \A q \in Starts : Seeds(q)' => Seeds(q)
               /\ \A g : Covered(g) => Covered(g)'
    BY <1>t, <2>3, <2>4 DEF Check, Seeded, Start_
  <2>5. ASSUME Create(p)
        PROVE  \A q \in Starts : Seeds(q)' => \A g \in Granted(q) : Covered(g)'
    <3>1. /\ UNCHANGED <<grants, recorded>> /\ boot[p].at # "grant"
          /\ boot'[p].at # "mark"
          /\ boot'[p].at = "grant" => boot'[p].todo = Granted(p)
      BY <1>t, <2>5 DEF Create, Start_
    <3>2. \A g : Covered(g) => Covered(g)'
      BY <2>3, <3>1
    <3>3. \A q \in Starts : Seeds(q)' => Seeds(q) \/ (q = p /\ boot'[p].at = "grant")
      BY <2>3, <3>1
    <3> QED
      BY <2>1, <3>1, <3>2, <3>3
  <2>6. ASSUME Prune(p)
        PROVE  \A q \in Starts : \A g \in Granted(q) : Covered(g)'
    <3>1. boot'[p].at = "grant" /\ boot'[p].todo = Granted(p)
      BY <1>t, <2>6 DEF Prune, PrunedIsWhole, Start_
    <3> QED
      BY <3>1
  <2>7. ASSUME Grant(p)
        PROVE  /\ \A q \in Starts : Seeds(q)' => Seeds(q)
               /\ \A g : Covered(g) => Covered(g)'
    <3>1. PICK h \in boot[p].todo :
              /\ grants' = grants \cup {h}
              /\ boot' = [boot EXCEPT ![p].todo = @ \ {h}]
      BY <2>7 DEF Grant
    <3>2. /\ boot'[p].at = boot[p].at /\ boot'[p].todo = boot[p].todo \ {h}
          /\ recorded' = recorded
      BY <1>t, <2>7, <3>1 DEF Grant, Start_
    <3> QED
      BY <2>3, <3>1, <3>2
  <2>8. ASSUME MarkCurrent(p)
        PROVE  \A q \in Starts : \A g \in Granted(q) : Covered(g)'
    <3>1. /\ boot[p].at = "mark" /\ boot'[p].at = "leave" /\ grants' = grants
      BY <1>t, <2>8 DEF MarkCurrent, Start_
    <3>2. \A g : Covered(g) => Covered(g)'
      BY <2>3, <3>1
    <3> QED
      BY <2>1, <3>1, <3>2
  <2> QED
    BY <1>2, <2>1, <2>2, <2>4, <2>5, <2>6, <2>7, <2>8 DEF Works
<1>3. CASE Wait
  <2>1. /\ UNCHANGED <<db, bootFaults>>
        /\ \A p \in Starts : /\ boot'[p].at = boot[p].at
                             /\ boot'[p].todo = boot[p].todo /\ boot'[p].bad = boot[p].bad
    BY <1>3, <1>t DEF Wait, Start_
  <2> QED
    BY <2>1 DEF FaultlessInv
<1>4. CASE UNCHANGED bootVars
  BY <1>4 DEF bootVars, FaultlessInv
<1> QED
  BY <1>1, <1>2, <1>3, <1>4, BootSteps

LEMMA BootTypeAtFirst == ASSUME BootInit PROVE BootTypeOK
<1>1. Idle \in Start_
  BY BootAssumption DEF Idle, Start_
<1>2. recorded \in DOMAIN Defaults /\ grants \subseteq Grants
  BY BootAssumption DEF BootInit, Grants
<1>3. lease \in [by : Starts \cup {NoStart}, left : 0 .. LeaseLife]
  BY BootAssumption DEF BootInit, NoLease
<1>4. tables \subseteq {"cache", "settings"} /\ bootFaults \in 0 .. MaxFaults
  BY BootAssumption DEF BootInit
<1> QED
  BY <1>1, <1>2, <1>3, <1>4 DEF BootInit, BootTypeOK

LEMMA BootInvAtFirst == ASSUME BootInit PROVE BootInv
<1>1. /\ \A p \in Starts : boot[p].at = "idle" /\ ~boot[p].bad
      /\ recorded # 0 => "settings" \in tables
      /\ grants = Defaults[recorded]
  BY DEF BootInit, Idle
<1>2. BootTypeOK
  BY BootTypeAtFirst
<1> QED
  BY <1>1, <1>2
     DEF BootInv, TablesMade, PrunedIsWhole, LockedInv, WorkerHolds, MigratesOld,
         SeedsAll, FaultlessInv, Seeds, Covered, Granted, At, Working, Migrating

LEMMA RestingIsSeeded == ASSUME BootInv PROVE MarkedIsSeeded
<1> SUFFICES ASSUME Resting, unsure => bootFaults = 0,
                    NEW p \in Starts, recorded = Code[p]
             PROVE  Defaults[recorded] \subseteq grants
  BY DEF MarkedIsSeeded
<1>1. CASE ~unsure
  BY <1>1 DEF BootInv, LockedInv, SeedsAll, Granted
<1>2. CASE bootFaults = 0
  <2>1. \A g \in Granted(p) : Covered(g)
    BY <1>2 DEF BootInv, FaultlessInv, Seeds
  <2>2. \A q \in Starts : ~At(q, "grant")
    BY DEF Resting, Working, At
  <2> QED
    BY <2>1, <2>2 DEF Covered, Granted
<1> QED
  BY <1>1, <1>2
-----------------------------------------------------------------------------
(* What may happen to the bootstrap, fair or not, keeps its types ...      *)
LEMMA BootTypesHold == BootInit /\ [][BootNext]_bootVars => []BootTypeOK
<1>1. BootTypeOK /\ [BootNext]_bootVars => BootTypeOK'
  BY BootTypeStep
<1> QED
  BY <1>1, BootTypeAtFirst, PTL

(* The types of the bootstrap's state: BootstrapOrchestrator::bootstrap    *)
THEOREM BootTypeCorrect == BootSpec => []BootTypeOK
  BY BootTypesHold, PTL DEF BootSpec

(* ... and the invariant, if all its processes are of one version.         *)
LEMMA SeededHolds ==
    ASSUME OneVersion
    PROVE  BootInit /\ [][BootNext]_bootVars => []MarkedIsSeeded
<1>1. BootInit => BootInv
  BY BootInvAtFirst
<1>2. BootInv /\ [BootNext]_bootVars => BootInv'
  <2> SUFFICES ASSUME BootInv, [BootNext]_bootVars
               PROVE  BootInv'
    OBVIOUS
  <2>1. BootTypeOK' /\ TablesMade' /\ PrunedIsWhole'
    BY BootTypeStep, TablesStep DEF BootInv
  <2>2. LockedInv' /\ FaultlessInv'
    BY OneVersion, LockedStep, FaultlessStep DEF BootInv
  <2> QED
    BY <2>1, <2>2 DEF BootInv
<1>3. BootInv => MarkedIsSeeded
  BY RestingIsSeeded
<1> QED
  BY <1>1, <1>2, <1>3, PTL

(* A recorded version is a seeded one, with any number of processes of one *)
(* version that start, wait, crash and fail: RbacSeeder::seed under        *)
(* DistributedLock::runExclusively.                                        *)
THEOREM SeededWhenMarked ==
    ASSUME OneVersion
    PROVE  BootSpec => []MarkedIsSeeded
  BY OneVersion, SeededHolds, PTL DEF BootSpec

-----------------------------------------------------------------------------
(* The three users of ci_cache beside each other.  A step of the table is  *)
(* a step of the lease lock or leaves it alone, and so for the bootstrap   *)
(* and the credentials: what holds of each by itself holds of the table.   *)
LEMMA EachUserTakesItsSteps ==
    CacheTableSpec => /\ Spec /\ OAuthSpec
                      /\ BootInit /\ [][BootNext]_bootVars
<1>1. CacheTableInit => Init /\ BootInit /\ OAuthInit
  BY DEF CacheTableInit
<1>2. [CacheTableNext]_cacheTableVars => [Next]_vars
  BY DEF CacheTableNext, cacheTableVars
<1>3. [CacheTableNext]_cacheTableVars => [BootNext]_bootVars
  BY DEF CacheTableNext, cacheTableVars
<1>4. [CacheTableNext]_cacheTableVars => [OAuthNext]_oauthVars
  BY DEF CacheTableNext, cacheTableVars
<1> QED
  BY <1>1, <1>2, <1>3, <1>4, PTL DEF CacheTableSpec, Spec, OAuthSpec

(* The rows of ci_cache have the types their readers expect, whichever of  *)
(* its users is at work, and a lock has one row at most.                   *)
THEOREM TableTypeCorrect == CacheTableSpec => []CacheTableTypeOK
  BY EachUserTakesItsSteps, TypeCorrect, BootTypesHold, OAuthTypeCorrect, PTL
  DEF CacheTableTypeOK

(* On the shared table: leases exclude each other while they are in force, *)
(* a code yields one token, a change of password leaves nothing older and, *)
(* among instances of one version, what is recorded as current is seeded.  *)
THEOREM TableIsSafe ==
    ASSUME OneVersion
    PROVE  CacheTableSpec =>
               /\ [](/\ OneLiveHolder /\ OneTokenPerCode
                     /\ StoredBeforeIsGone /\ MarkedIsSeeded)
               /\ CodesAreOneTime
  BY OneVersion, EachUserTakesItsSteps, LeaseExclusion, SingleUse,
     NothingOlderRemains, SeededHolds, CodeRefinement, PTL
=============================================================================
