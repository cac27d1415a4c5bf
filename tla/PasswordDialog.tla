---------------------------- MODULE PasswordDialog ----------------------------
(***************************************************************************)
(* The dialog of the users page that sets the password of another account  *)
(* (modules/users.js).  It covers the page while it is open, can be closed *)
(* while a change is being saved, and opened again for another account.    *)
(*                                                                         *)
(* The submit button is off from the click until the change is answered    *)
(* and, after a success, the accounts are listed anew: there is one change *)
(* at a time.  Left out: the passwords, their checks and the hint that     *)
(* names the account.                                                      *)
(***************************************************************************)
EXTENDS Naturals

CONSTANTS
    Others, Nobody,     \* the accounts with a button; _pwdTargetUser = ''
    MaxPwdActs          \* bound: what the user does

ASSUME PasswordAssumption == Nobody \notin Others /\ MaxPwdActs \in Nat

VARIABLES
    pwdFor,        \* _pwdTargetUser; the dialog is displayed iff it is set
    pwdTypedFor,   \* (observed) for whom the fields were filled
    pwdNotice,     \* #pwd-msg: about whose change the dialog tells a failure
    pwdOff,        \* #pwd-submit is disabled
    change,        \* the change under way
    passwordOf,    \* (observed) server: for whom the last password given to
                   \* each account was typed
    pwdActs

pwdVars == <<pwdFor, pwdTypedFor, pwdNotice, pwdOff, change, passwordOf, pwdActs>>

Who == Others \cup {Nobody}
NoChange == [at |-> "none", user |-> Nobody, typedFor |-> Nobody]
Change == [at : {"sent", "done", "failed", "listing"}, user : Others, typedFor : Who]
PwdAct == pwdActs < MaxPwdActs /\ pwdActs' = pwdActs + 1

PwdInit ==
    /\ pwdFor = Nobody /\ pwdTypedFor = Nobody /\ pwdNotice = Nobody
    /\ pwdOff = FALSE /\ change = NoChange
    /\ passwordOf = [u \in Others |-> u] /\ pwdActs = 0
-----------------------------------------------------------------------------
(* Slips a change could introduce, for checking that the properties below  *)
(* notice them.                                                            *)
NotEmptied == UNCHANGED pwdTypedFor /\ pwdNotice' = Nobody
-----------------------------------------------------------------------------
(* modifyUserPassword: names the account and empties fields and message    *)
Emptied == pwdTypedFor' = Nobody /\ pwdNotice' = Nobody
ModifyUserPassword(u) ==
    /\ PwdAct /\ pwdFor = Nobody
    /\ pwdFor' = u /\ Emptied
    /\ UNCHANGED <<pwdOff, change, passwordOf>>

TypePassword ==
    /\ pwdFor # Nobody /\ pwdTypedFor = Nobody
    /\ pwdTypedFor' = pwdFor
    /\ UNCHANGED <<pwdFor, pwdNotice, pwdOff, change, passwordOf, pwdActs>>

ClosePassword ==
    /\ PwdAct /\ pwdFor # Nobody /\ pwdFor' = Nobody
    /\ UNCHANGED <<pwdTypedFor, pwdNotice, pwdOff, change, passwordOf>>

(* submitPasswordChange up to its await; empty fields are refused at once  *)
SubmitPasswordChange ==
    /\ PwdAct /\ pwdFor # Nobody /\ pwdTypedFor # Nobody /\ ~pwdOff
    /\ pwdOff' = TRUE /\ pwdNotice' = Nobody
    /\ change' = [at |-> "sent", user |-> pwdFor, typedFor |-> pwdTypedFor]
    /\ UNCHANGED <<pwdFor, pwdTypedFor, passwordOf>>

(* ... and after it: a success closes whatever dialog is open by then      *)
PasswordSaved ==
    /\ change.at = "done"
    /\ change' = [change EXCEPT !.at = "listing"] /\ pwdFor' = Nobody
    /\ UNCHANGED <<pwdTypedFor, pwdNotice, pwdOff, passwordOf, pwdActs>>

(* A failure is told in the dialog, and the button comes back; an answer   *)
(* 401 tells nothing.                                                      *)
PasswordRefused ==
    /\ change.at = "failed"
    /\ change' = NoChange /\ pwdOff' = FALSE
    /\ pwdNotice' \in {change.user, pwdNotice}
    /\ UNCHANGED <<pwdFor, pwdTypedFor, passwordOf, pwdActs>>

(* The list that follows a success has come, or has failed                 *)
ListedAnew ==
    /\ change.at = "listing"
    /\ change' = NoChange /\ pwdOff' = FALSE
    /\ UNCHANGED <<pwdFor, pwdTypedFor, pwdNotice, passwordOf, pwdActs>>

(* The server (UserController), a lost request and a lost answer           *)
ServePasswordChange ==
    /\ change.at = "sent"
    /\ \E done \in BOOLEAN, at \in {"done", "failed"} :
          /\ at = "done" => done
          /\ change' = [change EXCEPT !.at = at]
          /\ passwordOf' = IF done THEN [passwordOf EXCEPT ![change.user] = change.typedFor]
                           ELSE passwordOf
    /\ UNCHANGED <<pwdFor, pwdTypedFor, pwdNotice, pwdOff, pwdActs>>
-----------------------------------------------------------------------------
ChangeGoesOn == PasswordSaved \/ PasswordRefused \/ ListedAnew \/ ServePasswordChange
PwdNext ==
    \/ \E u \in Others : ModifyUserPassword(u)
    \/ TypePassword \/ ClosePassword \/ SubmitPasswordChange \/ ChangeGoesOn

(* The request ends and its continuation runs.                             *)
PwdFairness == WF_pwdVars(ChangeGoesOn)
PwdSpec == PwdInit /\ [][PwdNext]_pwdVars /\ PwdFairness
-----------------------------------------------------------------------------
PwdTypeOK ==
    /\ pwdFor \in Who /\ pwdTypedFor \in Who /\ pwdNotice \in Who
    /\ pwdOff \in BOOLEAN /\ change \in Change \cup {NoChange}
    /\ passwordOf \in [Others -> Who] /\ pwdActs \in 0 .. MaxPwdActs

(* An account only ever gets a password that was typed for it, whatever    *)
(* dialogs are opened and closed while an earlier change is being saved,   *)
(* closed by its late answer included.                                     *)
PasswordReachesItsUser == \A u \in Others : passwordOf[u] = u

(* The submit button is off exactly while a change is under way: no second *)
(* one is begun, and the button always comes back.                         *)
OneChangeAtATime == pwdOff <=> change # NoChange
SubmitComesBack == pwdOff ~> ~pwdOff
=============================================================================
