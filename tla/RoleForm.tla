------------------------------- MODULE RoleForm -------------------------------
(***************************************************************************)
(* The roles page of the console (modules/roles.js) with the list of       *)
(* permissions of modules/permissions.js: the catalogue of permissions is  *)
(* fetched once and kept (_allPerms), the role form draws one box for each *)
(* of its permissions, and the boxes ticked are the rights that are saved. *)
(*                                                                         *)
(* A call is under way until its answer arrives: "ok", "refused" (an error *)
(* in JSON) or "lost" (no answer; an answer 401 does the same here, its    *)
(* effect on the session is in AdminSession).  A list of roles whose       *)
(* catalogue is not kept makes two requests, which are one call here.      *)
(* Names and descriptions, labels and messages are left out.               *)
(***************************************************************************)
EXTENDS Naturals, FiniteSets, Sequences

CONSTANTS
    Roles, NewRole,   \* the custom roles; NewRole: no id in edit-role-id
    Perms,
    Implied,          \* Implied[p]: the permissions p implies by one rule, in
                      \* the order of IMPLIED_PERMISSIONS
    Builtin,          \* the permissions that cannot be deleted
    Groups,           \* the groups of boxes, each in the order of the page
    FirstRoles,       \* the roles and their rights at the start
    FirstKnown,       \* the catalogue at the start
    MaxRoleCalls,     \* bound: calls under way when the user opens a form
    MaxRoleChanges    \* bound: changes the user asks for

Table == UNION {[D -> SUBSET Perms] : D \in SUBSET Roles}

ASSUME RoleAssumption ==
    /\ NewRole \notin Roles /\ FirstRoles \in Table
    /\ FirstKnown \subseteq Perms /\ Builtin \subseteq Perms
    /\ Implied \in [Perms -> Seq(Perms)]
    /\ Groups \subseteq Seq(Perms)
    /\ MaxRoleCalls \in Nat /\ MaxRoleChanges \in Nat

VARIABLES
    rightsOf,     \* server: the rights of the roles that exist
    known,        \* server: the catalogue
    roleRows,     \* the table: rightsOf as last listed, no row meanwhile
    cached, cache,        \* _allPerms is set, and its permissions
    roleFormOpen, roleId, \* #role-form is displayed; edit-role-id
    boxes, ticked,        \* the boxes of #perm-groups and the ticked ones
    saving,       \* the save button is disabled
    asks,         \* the calls under way
    changes,      \* the changes asked for so far
    opened        \* (observed) the rights the open form was opened with, as a
                  \* set of at most one set: empty once the user ticks, or when
                  \* the form was opened while another was being opened

roleForm == <<roleFormOpen, roleId, boxes, ticked, saving, opened>>
roleServer == <<rightsOf, known>>
roleVars == <<roleServer, roleRows, cached, cache, roleForm, asks, changes>>

Answers == {"none", "ok", "refused", "lost"}
RoleAsk ==
    [kind : {"list"}, ans : {"none", "refused", "lost"},
     fetch : BOOLEAN, saved : BOOLEAN]
    \cup [kind : {"list"}, ans : {"ok"}, fetch : BOOLEAN, saved : BOOLEAN,
          rows : Table, cat : SUBSET Perms]
    \cup [kind : {"open"}, ans : {"none", "refused", "lost"}, preset : SUBSET Perms]
    \cup [kind : {"open"}, ans : {"ok"}, preset : SUBSET Perms, cat : SUBSET Perms]
    \cup [kind : {"save"}, ans : Answers, role : Roles \cup {NewRole},
          perms : SUBSET Perms]
    \cup [kind : {"drop"}, ans : Answers, role : Roles]
    \cup [kind : {"register", "unregister"}, ans : Answers, perm : Perms]

Among(seq) == {seq[i] : i \in DOMAIN seq}
Implies(p) == Among(Implied[p])

(* loadRoleList up to its await                                            *)
ListAsk(saved) == [kind |-> "list", ans |-> "none", fetch |-> ~cached,
                   saved |-> saved]
OpenAsks == {c \in asks : c.kind = "open"}
RoleQuiet == asks = {} /\ changes < MaxRoleChanges

RoleInit ==
    /\ rightsOf = FirstRoles /\ known = FirstKnown
    /\ roleRows = <<>>
    /\ cached = FALSE /\ cache = {}
    /\ roleFormOpen = FALSE /\ roleId = NewRole
    /\ boxes = {} /\ ticked = {} /\ saving = FALSE
    /\ asks = {ListAsk(FALSE)} /\ changes = 0
    /\ opened = {}
-----------------------------------------------------------------------------
(* Slips a change could introduce, for checking that the properties below  *)
(* notice them.                                                            *)
DrawBoxesUnknown(cat, preset) == boxes' = cat /\ ticked' = preset

ShowRoleAsDrawn(r, preset) ==
    /\ roleFormOpen' = TRUE /\ roleId' = r
    /\ opened' = IF OpenAsks = {} THEN {preset} ELSE {}
    /\ IF cached
         THEN UNCHANGED <<boxes, ticked, asks>>
         ELSE /\ Cardinality(asks) < MaxRoleCalls
              /\ asks' = asks \cup {[kind |-> "open", ans |-> "none",
                                     preset |-> preset]}
              /\ UNCHANGED <<boxes, ticked>>
    /\ UNCHANGED <<roleServer, roleRows, cached, cache, saving, changes>>

CascadeBlindly(p, on, t) ==
    IF on THEN t \cup (Implies(p) \cap boxes) ELSE t \ Implies(p)
-----------------------------------------------------------------------------
(* loadAllPerms after its await.  An error in JSON is kept too, as a       *)
(* catalogue without permissions; a failed request keeps nothing and gives *)
(* its caller none.                                                        *)
AnsweredCat(c) == IF c.ans = "ok" THEN c.cat ELSE {}
KeepCatalogue(c) ==
    IF c.ans = "lost" THEN UNCHANGED <<cached, cache>>
    ELSE cached' = TRUE /\ cache' = AnsweredCat(c)

(* showRoleForm after loadAllPerms: one box for each permission            *)
DrawBoxes(cat, preset) ==
    /\ boxes' = cat
    /\ ticked' = preset \cap cat

(* showRoleForm: the form names the role at once; its boxes are drawn at   *)
(* once only when the catalogue is kept.  Until then those of the role     *)
(* shown before stay.                                                      *)
ShowRole(r, preset) ==
    /\ roleFormOpen' = TRUE /\ roleId' = r
    /\ opened' = IF OpenAsks = {} THEN {preset} ELSE {}
    /\ IF cached
         THEN DrawBoxes(cache, preset) /\ UNCHANGED asks
         ELSE /\ Cardinality(asks) < MaxRoleCalls
              /\ asks' = asks \cup {[kind |-> "open", ans |-> "none",
                                     preset |-> preset]}
              /\ UNCHANGED <<boxes, ticked>>
    /\ UNCHANGED <<roleServer, roleRows, cached, cache, saving, changes>>

ShowRoleForm == \/ ShowRole(NewRole, {})
                \/ \E r \in DOMAIN roleRows : ShowRole(r, roleRows[r])

CatalogueArrives(c) ==
    /\ c \in asks /\ c.kind = "open" /\ c.ans # "none"
    /\ KeepCatalogue(c)
    /\ DrawBoxes(AnsweredCat(c), c.preset)
    /\ asks' = asks \ {c}
    /\ UNCHANGED <<roleServer, roleRows, roleFormOpen, roleId, saving, changes,
                   opened>>

(* loadRoleList after its await; the list that follows a save gives the    *)
(* save button back.                                                       *)
RolesArrive(c) ==
    /\ c \in asks /\ c.kind = "list" /\ c.ans # "none"
    /\ roleRows' = IF c.ans = "ok" THEN c.rows ELSE <<>>
    /\ IF c.fetch THEN KeepCatalogue(c) ELSE UNCHANGED <<cached, cache>>
    /\ saving' = (saving /\ ~c.saved)
    /\ asks' = asks \ {c}
    /\ UNCHANGED <<roleServer, roleFormOpen, roleId, boxes, ticked, changes,
                   opened>>
-----------------------------------------------------------------------------
(* What a forEach makes of the ticked boxes t by its n steps, in turn       *)
InTurn(n, t, step) ==
    LET made[i \in 0 .. n] == IF i = 0 THEN t ELSE step[i][made[i - 1]]
    IN  made[n]

(* cascadeImpliedCheck, after the box of p was set, for one right q that p *)
(* implies: its box follows that of p, unless another ticked box still     *)
(* implies it.                                                             *)
Follow(p, on, q, t) ==
    IF on THEN t \cup ({q} \cap boxes)
    ELSE IF \E s \in t \ {p} : q \in Implies(s) THEN t ELSE t \ {q}

Cascade(p, on, t) ==
    InTurn(Len(Implied[p]), t,
           [i \in 1 .. Len(Implied[p]) |->
              [u \in SUBSET boxes |-> Follow(p, on, Implied[p][i], u)]])

(* A click on a box                                                        *)
Toggle(p, on, t) == Cascade(p, on, IF on THEN t \cup {p} ELSE t \ {p})

ClickBox(p) ==
    /\ roleFormOpen /\ p \in boxes
    /\ ticked' = Toggle(p, p \notin ticked, ticked)
    /\ opened' = {}
    /\ UNCHANGED <<roleServer, roleRows, cached, cache, roleFormOpen, roleId,
                   boxes, saving, asks, changes>>

(* togglePermGroup: all boxes of the group, one after the other            *)
ClickGroup(g) ==
    LET on == ~(Among(g) \cap boxes \subseteq ticked)
        set(p, t) == IF p \in boxes THEN Toggle(p, on, t) ELSE t
    IN /\ roleFormOpen
       /\ ticked' = InTurn(Len(g), ticked,
                           [i \in 1 .. Len(g) |->
                              [t \in SUBSET boxes |-> set(g[i], t)]])
       /\ opened' = {}
       /\ UNCHANGED <<roleServer, roleRows, cached, cache, roleFormOpen, roleId,
                      boxes, saving, asks, changes>>

(* hideRoleForm                                                            *)
Hide == roleFormOpen' = FALSE /\ roleId' = NewRole /\ opened' = {}
HideRoleForm ==
    /\ roleFormOpen /\ Hide
    /\ UNCHANGED <<roleServer, roleRows, cached, cache, boxes, ticked, saving,
                   asks, changes>>

AskChange(c) == asks' = asks \cup {c} /\ changes' = changes + 1

(* submitRoleForm up to its await: id and ticks as they are now            *)
SubmitRoleForm ==
    /\ roleFormOpen /\ ~saving
    /\ Cardinality(asks) < MaxRoleCalls /\ changes < MaxRoleChanges
    /\ saving' = TRUE
    /\ AskChange([kind |-> "save", ans |-> "none", role |-> roleId,
                  perms |-> ticked])
    /\ UNCHANGED <<roleServer, roleRows, cached, cache, roleFormOpen, roleId,
                   boxes, ticked, opened>>

(* ... and after it: a success closes the form that is open now and waits  *)
(* for the list; a failure tells and gives the button back.                *)
RoleSaveArrives(c) ==
    /\ c \in asks /\ c.kind = "save" /\ c.ans # "none"
    /\ IF c.ans = "ok"
         THEN /\ Hide /\ asks' = (asks \ {c}) \cup {ListAsk(TRUE)}
              /\ roleRows' = <<>> /\ UNCHANGED saving
         ELSE /\ asks' = asks \ {c} /\ saving' = FALSE
              /\ UNCHANGED <<roleRows, roleFormOpen, roleId, opened>>
    /\ UNCHANGED <<roleServer, cached, cache, boxes, ticked, changes>>

(* deleteRole                                                              *)
DeleteRole(r) ==
    /\ RoleQuiet /\ r \in DOMAIN roleRows
    /\ AskChange([kind |-> "drop", ans |-> "none", role |-> r])
    /\ UNCHANGED <<roleServer, roleRows, cached, cache, roleForm>>

(* registerPermission, deletePermission                                    *)
RegisterPermission(p) ==
    /\ RoleQuiet
    /\ AskChange([kind |-> "register", ans |-> "none", perm |-> p])
    /\ UNCHANGED <<roleServer, roleRows, cached, cache, roleForm>>

DeletePermission(p) ==
    /\ RoleQuiet /\ p \notin Builtin
    /\ AskChange([kind |-> "unregister", ans |-> "none", perm |-> p])
    /\ UNCHANGED <<roleServer, roleRows, cached, cache, roleForm>>

(* After a success all three list the roles again; only deletePermission   *)
(* drops the catalogue that is kept (resetPermsCache).                     *)
ForgetsCatalogue(c) == c.kind = "unregister"
ChangeOfRolesArrives(c) ==
    /\ c \in asks /\ c.kind \in {"drop", "register", "unregister"}
    /\ c.ans # "none"
    /\ cached' = (cached /\ ~(c.ans = "ok" /\ ForgetsCatalogue(c)))
    /\ cache' = IF cached' THEN cache ELSE {}
    /\ asks' = (asks \ {c}) \cup
          (IF c.ans = "ok" THEN {[ListAsk(FALSE) EXCEPT !.fetch = ~cached']} ELSE {})
    /\ roleRows' = IF c.ans = "ok" THEN <<>> ELSE roleRows
    /\ UNCHANGED <<roleServer, roleForm, changes>>
-----------------------------------------------------------------------------
(* The server: RoleController, PermissionController, AdminRbacService.     *)
(* What a set of rights implies by any number of rules (expandPermissions) *)
Expand(s) == {p \in Perms : \A u \in SUBSET Perms :
                 (s \subseteq u /\ \A q \in u : Implies(q) \subseteq u) => p \in u}

AnswerTo(c, ans) == asks' = (asks \ {c}) \cup {ans}

ServeCatalogue(c) ==
    /\ c \in asks /\ c.kind = "open" /\ c.ans = "none"
    /\ AnswerTo(c, [kind |-> "open", ans |-> "ok", preset |-> c.preset,
                    cat |-> known])
    /\ UNCHANGED <<roleServer, roleRows, cached, cache, roleForm, changes>>

ServeRoles(c) ==
    /\ c \in asks /\ c.kind = "list" /\ c.ans = "none"
    /\ AnswerTo(c, [kind |-> "list", ans |-> "ok", fetch |-> c.fetch,
                    saved |-> c.saved, rows |-> rightsOf,
                    cat |-> IF c.fetch THEN known ELSE {}])
    /\ UNCHANGED <<roleServer, roleRows, cached, cache, roleForm, changes>>

Granted(s) == Expand(s) \cap known
ServeChangeOfRoles(c) ==
    /\ c \in asks /\ c.ans = "none"
    /\ \/ /\ c.kind = "save" /\ c.role \in DOMAIN rightsOf
          /\ rightsOf' = [rightsOf EXCEPT ![c.role] = Granted(c.perms)]
          /\ UNCHANGED known
       \/ /\ c.kind = "save" /\ c.role = NewRole
          /\ \E r \in Roles \ DOMAIN rightsOf :
                rightsOf' = [q \in DOMAIN rightsOf \cup {r} |->
                               IF q = r THEN Granted(c.perms) ELSE rightsOf[q]]
          /\ UNCHANGED known
       \/ /\ c.kind = "drop" /\ c.role \in DOMAIN rightsOf
          /\ rightsOf' = [q \in DOMAIN rightsOf \ {c.role} |-> rightsOf[q]]
          /\ UNCHANGED known
       \/ /\ c.kind = "register"
          /\ known' = known \cup {c.perm} /\ UNCHANGED rightsOf
       \/ /\ c.kind = "unregister"
          /\ known' = known \ {c.perm}
          /\ rightsOf' = [r \in DOMAIN rightsOf |-> rightsOf[r] \ {c.perm}]
    /\ AnswerTo(c, [c EXCEPT !.ans = "ok"])
    /\ UNCHANGED <<roleRows, cached, cache, roleForm, changes>>

(* A refusal, or a request or its answer lost before the change            *)
FailAsk(c) ==
    /\ c \in asks /\ c.ans = "none"
    /\ \E ans \in {"refused", "lost"} : AnswerTo(c, [c EXCEPT !.ans = ans])
    /\ UNCHANGED <<roleServer, roleRows, cached, cache, roleForm, changes>>
-----------------------------------------------------------------------------
RoleServes == \E c \in asks : \/ ServeCatalogue(c) \/ ServeRoles(c)
                              \/ ServeChangeOfRoles(c) \/ FailAsk(c)
RoleDelivers == \E c \in asks : \/ CatalogueArrives(c) \/ RolesArrive(c)
                                \/ RoleSaveArrives(c) \/ ChangeOfRolesArrives(c)
RoleUser ==
    \/ ShowRoleForm \/ HideRoleForm \/ SubmitRoleForm
    \/ \E p \in Perms : ClickBox(p) \/ RegisterPermission(p) \/ DeletePermission(p)
    \/ \E g \in Groups : ClickGroup(g)
    \/ \E r \in Roles : DeleteRole(r)
RoleNext == RoleServes \/ RoleDelivers \/ RoleUser

(* The server answers a save or the request fails, and the browser         *)
(* delivers what came; so for the list that follows.                       *)
Saves(A(_)) == \E c \in asks : c.kind = "save" /\ A(c)
RelistsSaved(A(_)) == \E c \in asks : c.kind = "list" /\ c.saved /\ A(c)
ServeOrFail(c) == ServeChangeOfRoles(c) \/ ServeRoles(c) \/ FailAsk(c)
RoleFairness ==
    /\ WF_roleVars(Saves(ServeOrFail)) /\ WF_roleVars(Saves(RoleSaveArrives))
    /\ WF_roleVars(RelistsSaved(ServeOrFail))
    /\ WF_roleVars(RelistsSaved(RolesArrive))

RoleSpec == RoleInit /\ [][RoleNext]_roleVars /\ RoleFairness
-----------------------------------------------------------------------------
RoleTypeOK ==
    /\ rightsOf \in Table /\ known \subseteq Perms /\ roleRows \in Table
    /\ cached \in BOOLEAN /\ cache \subseteq Perms
    /\ roleFormOpen \in BOOLEAN /\ roleId \in Roles \cup {NewRole}
    /\ boxes \subseteq Perms /\ ticked \subseteq boxes
    /\ saving \in BOOLEAN /\ asks \subseteq RoleAsk
    /\ changes \in 0 .. MaxRoleChanges
    /\ opened \subseteq SUBSET Perms

(* A role form that nobody has touched shows the rights its role was       *)
(* listed with, as far as there is a box for them, once no catalogue is    *)
(* awaited; that a second form was opened meanwhile is excepted, for the   *)
(* answers may come in the other order (showRoleForm).                     *)
SettledFormShowsItsRole ==
    (roleFormOpen /\ OpenAsks = {}) => \A s \in opened : ticked = s \cap boxes

(* Taking a tick away never takes a right along that a ticked box still    *)
(* implies: what goes without having been clicked, by itself or with its   *)
(* group, is implied by no box left (cascadeImpliedCheck, togglePermGroup).*)
GoneUnclicked(clicked) == (ticked \ ticked') \ clicked
CascadeSparesShared ==
    [][ \A q \in Perms, g \in Groups, s \in ticked' :
          /\ ClickBox(q) => GoneUnclicked({q}) \cap Implies(s) = {}
          /\ ClickGroup(g) => GoneUnclicked(Among(g)) \cap Implies(s) = {}
      ]_roleVars

(* The save button comes back, whatever the server answers or does not     *)
(* (submitRoleForm).                                                       *)
SaveButtonReturns == saving ~> ~saving

(* "Once registered, the permission can be ticked in the role form": when a  *)
(* registration is answered, the catalogue that is kept has the permission *)
(* or is dropped (registerPermission).                                     *)
RegisteredIsOffered ==
    [][ \A c \in asks :
          (c.kind = "register" /\ c.ans = "ok" /\ c \notin asks') =>
              (cached' => c.perm \in cache') ]_roleVars
=============================================================================
