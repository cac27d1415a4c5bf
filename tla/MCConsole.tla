------------------------------ MODULE MCConsole ------------------------------
(* The pages of the console, each on a small instance.  The browser shows  *)
(* one page at a time and no page reads a variable of another: a behaviour *)
(* stays on the page it begins with, focus, and the run covers each page   *)
(* by itself without the product of their states.                          *)
EXTENDS TokenScopes, RoleForm, UserForm, PasswordDialog, PullRecords, LogPage,
        SearchList, SettingsToggles, IntegratedService, ConnectionForm, TLC

CONSTANTS Focusable, s1, s2, t1, t2, r1, r2, pa, pb, pc, root, ann, bob, pA, pB

VARIABLE focus

MCFirstGrants == (t1 :> {s1}) @@ (t2 :> {})

MCFirstRoles == r1 :> {pa, pc}
MCImplied == (pa :> <<pc, pb>>) @@ (pb :> <<pc>>) @@ (pc :> <<>>)
MCGroups == {<<pa, pb>>, <<pc>>}

MCFirstAccounts == (root :> "ops") @@ (ann :> "dev")

MCFirstBuilds == (pA :> 1) @@ (pB :> 2)
(* The id of a run is the iid of the next one: a wrong kind of number names *)
(* another run.                                                             *)
MCIdOf == [p \in {pA, pB} |-> [k \in 1 .. 2 |-> k + 1]]

MCFirstHits == ("" :> 3) @@ ("x" :> 1)

consoleVars == <<focus, tokenVars, roleVars, userVars, pwdVars, pullVars,
                 logVars, searchVars, settingsVars, serviceVars, connVars>>

(* The initial values of a page nobody looks at are not varied.            *)
Unfocused ==
    /\ focus # "search" => which = "mapping"
    /\ focus # "settings" => setting = [s \in Switches |-> FALSE]
    /\ focus # "connections" => stored = [p \in Platforms |-> Blank]

ConsoleInit ==
    /\ focus \in Focusable
    /\ TokenInit /\ RoleInit /\ UserInit /\ PwdInit /\ PullInit /\ LogInit
    /\ SearchInit /\ SettingsInit /\ ServiceInit /\ ConnInit
    /\ Unfocused

Still(name, vars) == focus # name => UNCHANGED vars
ConsoleNext ==
    /\ focus' = focus
    /\ \/ focus = "tokens" /\ TokenNext
       \/ focus = "roles" /\ RoleNext
       \/ focus = "users" /\ UserNext
       \/ focus = "password" /\ PwdNext
       \/ focus = "pull" /\ PullNext
       \/ focus = "log" /\ LogNext
       \/ focus = "search" /\ SearchNext
       \/ focus = "settings" /\ SettingsNext
       \/ focus = "service" /\ ServiceNext
       \/ focus = "connections" /\ ConnNext
    /\ Still("tokens", tokenVars) /\ Still("roles", roleVars)
    /\ Still("users", userVars) /\ Still("password", pwdVars)
    /\ Still("pull", pullVars)
    /\ Still("log", logVars) /\ Still("search", searchVars)
    /\ Still("settings", settingsVars) /\ Still("service", serviceVars)
    /\ Still("connections", connVars)

(* The fairness of the page that has the focus; its conditions are those   *)
(* of RoleFairness, PwdFairness, PullFairness, LogFairness and             *)
(* SearchFairness.                                                         *)
ConsoleFairness ==
    /\ WF_roleVars(focus = "roles" /\ Saves(ServeOrFail))
    /\ WF_roleVars(focus = "roles" /\ Saves(RoleSaveArrives))
    /\ WF_roleVars(focus = "roles" /\ RelistsSaved(ServeOrFail))
    /\ WF_roleVars(focus = "roles" /\ RelistsSaved(RolesArrive))
    /\ WF_pwdVars(focus = "password" /\ ChangeGoesOn)
    /\ WF_pullVars(focus = "pull" /\ Tick)
    /\ WF_pullVars(focus = "pull" /\ Answers_)
    /\ WF_logVars(focus = "log" /\ Finish)
    /\ WF_searchVars(focus = "search" /\ DebounceFires)
    /\ WF_searchVars(focus = "search" /\ SearchGoesOn)

ConsoleSpec ==
    ConsoleInit /\ [][ConsoleNext]_consoleVars /\ ConsoleFairness
-----------------------------------------------------------------------------
(* The variables of every page keep their types (the module of each page). *)
ConsoleTypeOK ==
    /\ TokenTypeOK /\ RoleTypeOK /\ UserTypeOK /\ PwdTypeOK /\ PullTypeOK
    /\ LogTypeOK /\ SearchTypeOK /\ SettingsTypeOK /\ ServiceTypeOK /\ ConnTypeOK
=============================================================================
