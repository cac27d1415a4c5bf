---------------------------- MODULE AdminSession ----------------------------
(***************************************************************************)
(* The session of one browser tab of the console: core/auth.js,            *)
(* core/api.js, core/router.js and the navigation of admin.js, against     *)
(* the session tokens of the server.                                       *)
(*                                                                         *)
(* Every await is a place where other handlers run.  A request is a record *)
(* in flights: sent (ans = "none"), then served ("ok", "401", "403"), then *)
(* delivered to the handler that continues after its await.  Requests that *)
(* cannot be told apart are one record.  A page load is a request whose    *)
(* only effect on the session is a 401, so a served one just disappears.   *)
(***************************************************************************)
EXTENDS Naturals, FiniteSets

CONSTANTS
    Users,        \* accounts that log in
    NoUser,
    RightsOf,     \* RightsOf[u]: the permissions the server grants u
    Forced,       \* the accounts whose first login must change the password
    Tabs,         \* the tabs of TAB_LIST that the model tells apart
    Elsewhere,    \* an address that names no tab
    Needs,        \* Needs[t]: the permission without which the menu hides t
    NoRight,      \* Needs[t] of a tab that is never hidden
    MaxLogins,    \* bound: logins in a behaviour
    MaxFlights    \* bound: requests under way when the user does something

ASSUME SessionAssumption ==
    /\ NoUser \notin Users /\ Elsewhere \notin Tabs
    /\ Forced \subseteq Users
    /\ {"monitor", "pull-records", "password"} \subseteq Tabs
    /\ MaxLogins \in Nat /\ MaxFlights \in Nat

VARIABLES
    token,        \* core/auth.js token, 0 for ''
    user, must, perms,
    store,        \* sessionStorage: admin_token, admin_user, ...
    page,         \* which of #login-page and #app-page is displayed
    tab, hash, menu,
    pullTimer,    \* the interval of records.js is running
    logoutTimer,  \* the setTimeout of changePassword is pending
    flights,
    sessions,     \* server: sessions[t] = the account of token t, or NoUser
    srvMust,      \* server: must_change_password of each account
    issued        \* server: tokens issued so far

client == <<token, user, must, perms, store>>
screen == <<page, tab, hash, menu, pullTimer, logoutTimer>>
server == <<sessions, srvMust, issued>>
vars == <<client, screen, flights, server>>

Rights == UNION {RightsOf[u] : u \in Users}
Tokens == 0 .. MaxLogins
Kinds == {"login", "perms", "load", "logout", "password"}
Flight == [kind : Kinds, tok : Tokens, user : Users \cup {NoUser},
           then : {"login", "boot", "-"}, must : BOOLEAN,
           ans : {"none", "ok", "401", "403"}, new : Tokens,
           rights : SUBSET Rights]

Request(k) == [kind |-> k, tok |-> token, user |-> NoUser, then |-> "-",
               must |-> FALSE, ans |-> "none", new |-> 0, rights |-> {}]
AskPerms(t, next, m) == [Request("perms") EXCEPT !.tok = t, !.then = next,
                                                 !.must = m]
(* authHeaders: the Authorization header of a request carries the token    *)
(* held when the request is made.                                          *)
LoadsOf(t, tok) ==
    IF t = "password" THEN {} ELSE {[Request("load") EXCEPT !.tok = tok]}

Room == Cardinality(flights) < MaxFlights

NoSession == [token |-> 0, user |-> NoUser, must |-> FALSE, perms |-> {}]

Init ==
    /\ token = 0 /\ user = NoUser /\ must = FALSE /\ perms = {}
    /\ store = NoSession
    /\ page = "login" /\ tab = "monitor" /\ menu = Tabs
    /\ hash \in Tabs \cup {Elsewhere}
    /\ pullTimer = FALSE /\ logoutTimer = FALSE
    /\ flights = {}
    /\ sessions = [t \in Tokens |-> NoUser]
    /\ srvMust = [u \in Users |-> u \in Forced]
    /\ issued = 0
-----------------------------------------------------------------------------
(* Slips a change could introduce, for checking that the properties below  *)
(* notice them.                                                            *)
Anything(t) == t

ClearSessionHalf ==
    /\ token' = 0 /\ user' = NoUser /\ must' = FALSE /\ perms' = {}
    /\ store' = [NoSession EXCEPT !.perms = store.perms]

LogoutAnyway == {Request("logout")}

RefusalIgnored(f) ==
    /\ f \in flights /\ f.kind \in {"load", "password"} /\ f.ans = "401"
    /\ flights' = flights \ {f}
    /\ UNCHANGED <<client, screen, server>>
-----------------------------------------------------------------------------
(* clearSession                                                            *)
ClearSession ==
    /\ token' = 0 /\ user' = NoUser /\ must' = FALSE /\ perms' = {}
    /\ store' = NoSession

(* The request doLogout sends: with the token still held, none without one *)
LogoutRequest == IF token = 0 THEN {} ELSE {Request("logout")}

(* applyRoleMenuVisibility and its likes: the entries a user is shown.  A  *)
(* forced change of password shows its own entry whatever the permissions. *)
Menu(p, m) == {t \in Tabs : \/ Needs[t] = NoRight
                            \/ Needs[t] \in p
                            \/ m /\ t = "password"}

Enforce(m, t) == IF m THEN "password" ELSE t

(* doSwitch: show a tab, the first one for an unknown name; stop the timer *)
(* of the records, start it again on their own tab                         *)
Whitelisted(t) == IF t \in Tabs THEN t ELSE "monitor"
DoSwitch(t) == /\ tab' = Whitelisted(t)
               /\ pullTimer' = (t = "pull-records")
-----------------------------------------------------------------------------
(* doLogin up to its first await                                           *)
SubmitLogin(u) ==
    /\ page = "login" /\ Room
    /\ issued + Cardinality({f \in flights : f.kind = "login" /\ f.ans = "none"})
          < MaxLogins
    /\ flights' = flights \cup {[Request("login") EXCEPT !.tok = 0, !.user = u]}
    /\ UNCHANGED <<client, screen, server>>

(* doLogin after the answer: setSession, then refreshPermissions.  The     *)
(* permissions are neither stored nor cleared here.                        *)
LoginAnswered(f) ==
    /\ f \in flights /\ f.kind = "login" /\ f.ans = "ok"
    /\ token' = f.new /\ user' = f.user /\ must' = f.must
    /\ store' = [store EXCEPT !.token = f.new, !.user = f.user, !.must = f.must]
    /\ flights' = (flights \ {f}) \cup {AskPerms(f.new, "login", f.must)}
    /\ UNCHANGED <<perms, screen, server>>

(* refreshPermissions after its await                                      *)
PermsArrive(f) ==
    \/ /\ f.ans = "ok"
       /\ perms' = f.rights
       /\ store' = [store EXCEPT !.perms = f.rights]
       /\ UNCHANGED <<token, user, must>>
    \/ f.ans = "401" /\ ClearSession
    \/ f.ans = "403" /\ UNCHANGED client

AfterPerms(f, t) ==
    /\ menu' = Menu(perms', must')
    /\ DoSwitch(t)
    /\ flights' = (flights \ {f})
                    \cup (IF f.ans = "401" THEN LogoutRequest ELSE {})
                    \cup LoadsOf(t, token')
    /\ UNCHANGED <<hash, logoutTimer, server>>

(* doLogin after refreshPermissions: it shows the console whatever came of *)
(* the request, the loss of the session included.                          *)
LoginCompletes(f) ==
    /\ f \in flights /\ f.kind = "perms" /\ f.then = "login" /\ f.ans # "none"
    /\ PermsArrive(f)
    /\ page' = "app"
    /\ AfterPerms(f, Enforce(f.must, hash))

(* bootstrap after refreshPermissions                                      *)
BootCompletes(f) ==
    /\ f \in flights /\ f.kind = "perms" /\ f.then = "boot" /\ f.ans # "none"
    /\ PermsArrive(f)
    /\ page' = (IF f.ans = "401" THEN "login" ELSE page)
    /\ AfterPerms(f, Enforce(must', hash))

(* bootstrap: the page is loaded again.  The variables of core/auth.js are *)
(* read back from sessionStorage; no handler of the old page survives.     *)
Reload ==
    /\ page = "app"
    /\ token' = store.token /\ user' = store.user
    /\ must' = store.must /\ perms' = store.perms
    /\ page' = (IF store.token = 0 THEN "login" ELSE "app")
    /\ tab' = "monitor" /\ menu' = Tabs
    /\ pullTimer' = FALSE /\ logoutTimer' = FALSE
    /\ flights' = {f \in flights : f.kind = "logout"}
                    \cup (IF store.token = 0 THEN {}
                          ELSE {AskPerms(store.token, "boot", FALSE)})
    /\ UNCHANGED <<store, hash, server>>
-----------------------------------------------------------------------------
(* A click in the menu: navigate.  On the tab the address already names it *)
(* switches directly, without enforceMustChange; otherwise the change of   *)
(* the address calls the hashchange listener, which enforces.              *)
Navigate(t) ==
    /\ page = "app" /\ t \in menu /\ Room
    /\ hash' = t
    /\ LET shown == IF hash = t THEN t ELSE Enforce(must, t) IN
         /\ DoSwitch(shown)
         /\ flights' = flights \cup LoadsOf(shown, token)
    /\ UNCHANGED <<client, page, menu, logoutTimer, server>>

(* The address is edited by hand: hashchange                               *)
HashChange(t) ==
    /\ hash # t /\ Room
    /\ hash' = t
    /\ DoSwitch(Enforce(must, t))
    /\ flights' = flights \cup LoadsOf(Enforce(must, t), token)
    /\ UNCHANGED <<client, page, menu, logoutTimer, server>>

(* The interval of records.js, with a project selected: logging out does   *)
(* not stop it (PullRecords has the failures that do).  Bound: no refresh  *)
(* on top of a page load under way.                                        *)
AutoRefresh ==
    /\ pullTimer
    /\ \A f \in flights : f.kind # "load"
    /\ flights' = flights \cup LoadsOf("pull-records", token)
    /\ UNCHANGED <<client, screen, server>>

(* doLogout                                                                *)
DoLogout(rest) ==
    /\ flights' = rest \cup LogoutRequest
    /\ ClearSession
    /\ page' = "login"
    /\ UNCHANGED <<tab, hash, menu, pullTimer, server>>

UserLogsOut ==
    /\ page = "app"
    /\ DoLogout(flights)
    /\ UNCHANGED logoutTimer

(* handle401: any refused answer ends the session held now                 *)
RefusedArrives(f) ==
    /\ f \in flights /\ f.kind \in {"load", "password"} /\ f.ans = "401"
    /\ DoLogout(flights \ {f})
    /\ UNCHANGED logoutTimer

(* changePassword                                                          *)
SubmitPassword ==
    /\ page = "app" /\ tab = "password" /\ Room
    /\ flights' = flights \cup {Request("password")}
    /\ UNCHANGED <<client, screen, server>>

PasswordChanged(f) ==
    /\ f \in flights /\ f.kind = "password" /\ f.ans = "ok"
    /\ flights' = flights \ {f}
    /\ logoutTimer' = TRUE
    /\ UNCHANGED <<client, page, tab, hash, menu, pullTimer, server>>

LogoutTimerFires ==
    /\ logoutTimer
    /\ logoutTimer' = FALSE
    /\ DoLogout(flights)
-----------------------------------------------------------------------------
(* The server, as the console depends on it: AuthController and            *)
(* AuthMiddleware.                                                         *)
Serve(f, ans) == flights' = (flights \ {f}) \cup {[f EXCEPT !.ans = ans]}
Live(t) == t # 0 /\ sessions[t] # NoUser

ServeLogin(f) ==
    /\ f \in flights /\ f.kind = "login" /\ f.ans = "none"
    /\ issued < MaxLogins
    /\ issued' = issued + 1
    /\ sessions' = [sessions EXCEPT ![issued + 1] = f.user]
    /\ flights' = (flights \ {f}) \cup {[f EXCEPT !.ans = "ok",
                        !.new = issued + 1, !.must = srvMust[f.user]]}
    /\ UNCHANGED <<client, screen, srvMust>>

ServePerms(f) ==
    /\ f \in flights /\ f.kind = "perms" /\ f.ans = "none"
    /\ \/ ~Live(f.tok) /\ Serve(f, "401")
       \/ Live(f.tok) /\ srvMust[sessions[f.tok]] /\ Serve(f, "403")
       \/ /\ Live(f.tok) /\ ~srvMust[sessions[f.tok]]
          /\ flights' = (flights \ {f}) \cup
                {[f EXCEPT !.ans = "ok", !.rights = RightsOf[sessions[f.tok]]]}
    /\ UNCHANGED <<client, screen, server>>

ServeLoad(f) ==
    /\ f \in flights /\ f.kind = "load" /\ f.ans = "none"
    /\ flights' = (flights \ {f}) \cup
                     (IF Live(f.tok) THEN {} ELSE {[f EXCEPT !.ans = "401"]})
    /\ UNCHANGED <<client, screen, server>>

ServeLogout(f) ==
    /\ f \in flights /\ f.kind = "logout"
    /\ sessions' = [sessions EXCEPT ![f.tok] = NoUser]
    /\ flights' = flights \ {f}
    /\ UNCHANGED <<client, screen, srvMust, issued>>

(* A change of password ends every session of the account                  *)
ServePassword(f) ==
    /\ f \in flights /\ f.kind = "password" /\ f.ans = "none"
    /\ IF Live(f.tok)
         THEN LET u == sessions[f.tok] IN
              /\ Serve(f, "ok")
              /\ srvMust' = [srvMust EXCEPT ![u] = FALSE]
              /\ sessions' = [t \in Tokens |->
                                IF sessions[t] = u THEN NoUser ELSE sessions[t]]
         ELSE Serve(f, "401") /\ UNCHANGED <<srvMust, sessions>>
    /\ UNCHANGED <<client, screen, issued>>

(* A session expires or an administrator ends it                           *)
SessionEnds(t) ==
    /\ Live(t)
    /\ sessions' = [sessions EXCEPT ![t] = NoUser]
    /\ UNCHANGED <<client, screen, flights, srvMust, issued>>

(* The network loses a request or its answer.  refreshPermissions swallows *)
(* the error, which leaves what a 403 leaves; the others only tell.        *)
LoseFlight(f) ==
    /\ f \in flights
    /\ flights' = (flights \ {f}) \cup
          (IF f.kind = "perms" THEN {[f EXCEPT !.ans = "403"]} ELSE {})
    /\ UNCHANGED <<client, screen, server>>
-----------------------------------------------------------------------------
Answered(f) == \/ LoginAnswered(f) \/ LoginCompletes(f) \/ BootCompletes(f)
               \/ RefusedArrives(f) \/ PasswordChanged(f)
Served(f) == \/ ServeLogin(f) \/ ServePerms(f) \/ ServeLoad(f)
             \/ ServeLogout(f) \/ ServePassword(f)

Next ==
    \/ \E u \in Users : SubmitLogin(u)
    \/ \E t \in Tabs : Navigate(t)
    \/ \E t \in Tabs \cup {Elsewhere} : HashChange(t)
    \/ \E f \in flights : Answered(f) \/ Served(f) \/ LoseFlight(f)
    \/ \E t \in Tokens : SessionEnds(t)
    \/ Reload \/ AutoRefresh \/ UserLogsOut \/ SubmitPassword
    \/ LogoutTimerFires

(* The browser runs its timer and delivers what it received; the server    *)
(* answers.  The network does not lose every page load for ever (SF:       *)
(* LoseFlight can disable both steps).  Nothing makes a user act, a        *)
(* session end or a request fail.                                          *)
Fairness ==
    /\ WF_vars(AutoRefresh)
    /\ SF_vars(\E f \in flights : ServeLoad(f))
    /\ SF_vars(\E f \in flights : f.kind = "load" /\ RefusedArrives(f))

Spec == Init /\ [][Next]_vars /\ Fairness
-----------------------------------------------------------------------------
SessTypeOK ==
    /\ token \in Tokens /\ user \in Users \cup {NoUser}
    /\ must \in BOOLEAN /\ perms \subseteq Rights
    /\ store \in [token : Tokens, user : Users \cup {NoUser},
                  must : BOOLEAN, perms : SUBSET Rights]
    /\ page \in {"login", "app"} /\ tab \in Tabs
    /\ hash \in Tabs \cup {Elsewhere}
    /\ menu \subseteq Tabs
    /\ pullTimer \in BOOLEAN /\ logoutTimer \in BOOLEAN
    /\ flights \subseteq Flight
    /\ sessions \in [Tokens -> Users \cup {NoUser}]
    /\ srvMust \in [Users -> BOOLEAN]
    /\ issued \in Tokens

(* The two copies of the session agree at every moment, so a reload of the *)
(* page, whenever it happens, goes on with the session the console showed: *)
(* setSession writes one half of them, refreshPermissions the other, and   *)
(* clearSession both (core/auth.js).                                       *)
StoredSessionIsTheShownOne ==
    store = [token |-> token, user |-> user, must |-> must, perms |-> perms]

(* At rest the rights by which the menu is drawn are those of the account  *)
(* that is shown.  The code does not keep this: refreshPermissions stores  *)
(* what comes, also for a login that was replaced meanwhile.               *)
RightsAreOfTheUser ==
    flights = {} /\ user # NoUser => perms \in {{}, RightsOf[user]}

(* A request to log out names a session the console no longer holds, and   *)
(* always one: doLogout builds the request before it clears the session,   *)
(* and no later login takes over a token that is being revoked.            *)
LogoutNamesADroppedSession ==
    \A f \in flights : f.kind = "logout" => f.tok # 0 /\ f.tok # token

(* A console left on the records of a project, whose session the server    *)
(* has ended, is brought back to the login page by its own refresh, unless *)
(* the user goes elsewhere or has a new session meanwhile (handle401).     *)
EndedSessionIsNoticed ==
    \A t \in Tokens \ {0} :
        (pullTimer /\ token = t /\ ~Live(t)) ~> (token # t \/ ~pullTimer)

(* "The front end pins the user to the change-password page" (the comment  *)
(* of enforceMustChange in admin.js): while the change is due, no step     *)
(* takes a console that shows the form away from it.                       *)
PinnedUntilChanged ==
    [][ page = "app" /\ page' = "app" /\ must /\ must' /\ user' = user
          /\ tab = "password" => tab' = "password" ]_vars
=============================================================================
