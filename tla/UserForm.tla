------------------------------- MODULE UserForm -------------------------------
(***************************************************************************)
(* The users page of the console (modules/users.js): the table, the form   *)
(* that creates or edits an account, whose list of roles is fetched once   *)
(* and kept (_rolesCache).                                                 *)
(*                                                                         *)
(* An e-mail address is known by its owner.  A call is answered "ok",      *)
(* "refused" (an error in JSON) or "lost"; an answer 401 does here what a  *)
(* lost one does.  The systems and the status of an account, the wording   *)
(* and the removal of login locks, none of which the form reads, are left  *)
(* out; the dialog of the same page that sets a password is the module     *)
(* PasswordDialog.                                                         *)
(***************************************************************************)
EXTENDS Naturals, FiniteSets

CONSTANTS
    Accounts, NewUser,  \* NewUser: edit-target-username is empty
    Self,               \* the account that is logged in
    SelfIsRoot,
    RoleNames, NoRole,  \* NoRole: the select has no option
    DefaultRole,        \* the role proposed for a new account
    TopRole,            \* the option that comes first
    FirstAccounts,      \* the accounts and their roles at the start
    FirstNames,         \* the roles at the start
    MaxUserCalls,       \* bound: calls under way when a form is opened
    MaxUserChanges      \* bound: changes asked for

People == UNION {[D -> RoleNames] : D \in SUBSET Accounts}

ASSUME UserAssumption ==
    /\ NewUser \notin Accounts /\ Self \in Accounts /\ NoRole \notin RoleNames
    /\ FirstAccounts \in People
    /\ SelfIsRoot \in BOOLEAN /\ FirstNames \subseteq RoleNames
    /\ DefaultRole \in RoleNames /\ TopRole \in FirstNames
    /\ MaxUserCalls \in Nat /\ MaxUserChanges \in Nat

VARIABLES
    roleOf,        \* server: the role of each account that exists
    roleNames,     \* server: the roles
    userRows,      \* the table: roleOf as last listed
    kept,          \* what _rolesCache holds: "nothing", "roles" or "error"
    keptRoles,     \* its roles
    userFormOpen, userTarget,   \* the form; edit-target-username
    offered, roleChosen,        \* the options of new-role and its value
    emailShown,    \* whose address new-email shows; NewUser for none
    roleLocked,    \* new-role and new-password are disabled
    userSaving,    \* the save button is disabled
    userCalls,     \* the calls under way
    asked,         \* changes asked for so far
    showing        \* (observed) the account the open form was opened for and
                   \* the role it was listed with, as a set; empty once the role
                   \* was changed by hand, or when the form was opened while
                   \* another still waited for its roles

formFields == <<userFormOpen, userTarget, offered, roleChosen, emailShown, roleLocked,
                userSaving, showing>>
userServer == <<roleOf, roleNames>>
keptCache == <<kept, keptRoles>>
userVars == <<userServer, userRows, keptCache, formFields, userCalls, asked>>

Somebody == Accounts \cup {NewUser}
UserCall ==
    [kind : {"list"}, saved : BOOLEAN, ans : {"none", "refused", "lost"}]
    \cup [kind : {"list"}, saved : BOOLEAN, ans : {"ok"}, rows : People]
    \cup [kind : {"open"}, ans : {"none", "refused", "lost"}, user : Somebody,
          role : RoleNames]
    \cup [kind : {"open"}, ans : {"ok"}, user : Somebody, role : RoleNames,
          names : SUBSET RoleNames]
    \cup [kind : {"save"}, ans : {"none", "ok", "refused", "lost"},
          user : Somebody, role : RoleNames \cup {NoRole}, email : Somebody]
    \cup [kind : {"status", "delete"},
          ans : {"none", "ok", "refused", "lost"}, user : Accounts]

ListUsers(saved) == [kind |-> "list", saved |-> saved, ans |-> "none"]
OpenCalls == {c \in userCalls : c.kind = "open"}
UserRoom == Cardinality(userCalls) < MaxUserCalls
MayAsk == UserRoom /\ asked < MaxUserChanges

UserInit ==
    /\ roleOf = FirstAccounts /\ roleNames = FirstNames
    /\ userRows = <<>> /\ kept = "nothing" /\ keptRoles = {}
    /\ userFormOpen = FALSE /\ userTarget = NewUser
    /\ offered = {} /\ roleChosen = NoRole /\ emailShown = NewUser
    /\ roleLocked = FALSE /\ userSaving = FALSE /\ showing = {}
    /\ userCalls = {ListUsers(FALSE)} /\ asked = 0
-----------------------------------------------------------------------------
(* Slips a change could introduce, for checking that the properties below  *)
(* notice them.                                                            *)
FillFormKeepingLock(u, names, role) ==
    /\ offered' = offered \cup names
    /\ roleChosen' = IF role \in offered' THEN role
                     ELSE IF offered' # {} THEN TopRole ELSE NoRole
    /\ emailShown' = u
    /\ roleLocked' = (roleLocked \/ (u = Self /\ SelfIsRoot))
-----------------------------------------------------------------------------
(* populateRoleSelect after loadRoles: the options are added to what the   *)
(* select holds by then; a role that is not offered gives way to the first *)
Select(names, role) ==
    /\ offered' = offered \cup names
    /\ roleChosen' = IF role \in offered' THEN role
                 ELSE IF offered' # {} THEN TopRole ELSE NoRole

(* showUserForm, showUserEditForm after populateRoleSelect                 *)
FillForm(u, names, role) ==
    /\ Select(names, role)
    /\ emailShown' = u
    /\ roleLocked' = IF u = NewUser THEN roleLocked ELSE u = Self /\ SelfIsRoot

(* Both forms up to their await: the account is named and the options are  *)
(* cleared at once.  A kept error in place of the roles stops them there.  *)
OpenUser(u, role) ==
    /\ userFormOpen' = TRUE /\ userTarget' = u
    /\ showing' = IF OpenCalls = {} THEN {[user |-> u, role |-> role]} ELSE {}
    /\ CASE kept = "nothing" ->
              /\ UserRoom
              /\ offered' = {} /\ roleChosen' = NoRole
              /\ userCalls' = userCalls \cup {[kind |-> "open", ans |-> "none",
                                       user |-> u, role |-> role]}
              /\ UNCHANGED <<emailShown, roleLocked>>
         [] kept = "error" ->
              /\ offered' = {} /\ roleChosen' = NoRole
              /\ UNCHANGED <<emailShown, roleLocked, userCalls>>
         [] kept = "roles" ->
              /\ offered' = keptRoles
              /\ roleChosen' = IF role \in keptRoles THEN role ELSE TopRole
              /\ emailShown' = u
              /\ roleLocked' = IF u = NewUser THEN roleLocked
                           ELSE u = Self /\ SelfIsRoot
              /\ UNCHANGED userCalls
    /\ UNCHANGED <<userServer, userRows, keptCache, userSaving, asked>>

ShowUserForm == OpenUser(NewUser, DefaultRole)
ShowUserEditForm(u) == u \in DOMAIN userRows /\ OpenUser(u, userRows[u])

(* loadRoles after its await keeps whatever JSON came, and the error is    *)
(* thrown where its roles are read; a failed request gives no roles.       *)
RoleNamesArrive(c) ==
    /\ c \in userCalls /\ c.kind = "open" /\ c.ans # "none"
    /\ CASE c.ans = "ok" ->
              /\ kept' = "roles" /\ keptRoles' = c.names
              /\ FillForm(c.user, c.names, c.role)
         [] c.ans = "refused" ->
              /\ kept' = "error" /\ keptRoles' = {}
              /\ UNCHANGED <<offered, roleChosen, emailShown, roleLocked>>
         [] c.ans = "lost" ->
              /\ FillForm(c.user, {}, c.role)
              /\ UNCHANGED keptCache
    /\ userCalls' = userCalls \ {c}
    /\ UNCHANGED <<userServer, userRows, userFormOpen, userTarget, userSaving,
                   asked, showing>>

ChooseRole(r) ==
    /\ userFormOpen /\ ~roleLocked /\ r \in offered
    /\ roleChosen' = r /\ showing' = {}
    /\ UNCHANGED <<userServer, userRows, keptCache, userFormOpen, userTarget,
                   offered, emailShown, roleLocked, userSaving, userCalls, asked>>

(* hideUserForm                                                            *)
CloseForm == /\ userFormOpen' = FALSE /\ userTarget' = NewUser
             /\ roleLocked' = FALSE /\ showing' = {}
HideUserForm ==
    /\ userFormOpen /\ CloseForm
    /\ UNCHANGED <<userServer, userRows, keptCache, offered, roleChosen, emailShown,
                   userSaving, userCalls, asked>>

(* submitUserForm: a new account needs a name and a password, which a      *)
(* locked form cannot be given; root's own form sends the address alone.   *)
SubmitUserForm ==
    /\ userFormOpen /\ ~userSaving /\ MayAsk
    /\ ~(userTarget = NewUser /\ roleLocked)
    /\ userSaving' = TRUE /\ asked' = asked + 1
    /\ userCalls' = userCalls \cup {[kind |-> "save", ans |-> "none", user |-> userTarget,
          role |-> IF userTarget = Self /\ SelfIsRoot THEN NoRole ELSE roleChosen,
          email |-> emailShown]}
    /\ UNCHANGED <<userServer, userRows, keptCache, userFormOpen, userTarget,
                   offered, roleChosen, emailShown, roleLocked, showing>>

(* ... and after it: a success closes the form that is open now and lists  *)
(* the accounts; the button comes back after the list, or at once.         *)
UserSaved(c) ==
    /\ c \in userCalls /\ c.kind = "save" /\ c.ans # "none"
    /\ IF c.ans = "ok"
         THEN /\ CloseForm
              /\ userCalls' = (userCalls \ {c}) \cup {ListUsers(TRUE)}
              /\ UNCHANGED userSaving
         ELSE /\ userCalls' = userCalls \ {c} /\ userSaving' = FALSE
              /\ UNCHANGED <<userFormOpen, userTarget, roleLocked, showing>>
    /\ UNCHANGED <<userServer, userRows, keptCache, offered, roleChosen, emailShown,
                   asked>>
-----------------------------------------------------------------------------
(* toggleUserStatus, deleteUser: once confirmed, and their answers         *)
ChangeUser(u) ==
    /\ u \in DOMAIN userRows \ {Self} /\ userCalls = {} /\ asked < MaxUserChanges
    /\ asked' = asked + 1
    /\ \E k \in {"status", "delete"} :
          userCalls' = userCalls \cup {[kind |-> k, ans |-> "none", user |-> u]}
    /\ UNCHANGED <<userServer, userRows, keptCache, formFields>>

UserChanged(c) ==
    /\ c \in userCalls /\ c.kind \in {"status", "delete"} /\ c.ans # "none"
    /\ userCalls' = (userCalls \ {c}) \cup (IF c.ans = "ok" THEN {ListUsers(FALSE)} ELSE {})
    /\ UNCHANGED <<userServer, userRows, keptCache, formFields, asked>>

(* loadUsers after its await: most errors leave a table without rows, some *)
(* (403, 401) leave it as it is.                                           *)
UsersArrive(c) ==
    /\ c \in userCalls /\ c.kind = "list" /\ c.ans # "none"
    /\ IF c.ans = "ok" THEN userRows' = c.rows ELSE userRows' \in {userRows, <<>>}
    /\ userSaving' = (userSaving /\ ~c.saved)
    /\ userCalls' = userCalls \ {c}
    /\ UNCHANGED <<userServer, keptCache, userFormOpen, userTarget, offered,
                   roleChosen, emailShown, roleLocked, showing, asked>>
-----------------------------------------------------------------------------
(* The server (UserController, RoleController)                             *)
Answer(c, a) == userCalls' = (userCalls \ {c}) \cup {a}
userPage == <<userRows, keptCache, formFields, asked>>

ServeUserPage(c) ==
    /\ c \in userCalls /\ c.ans = "none"
    /\ \/ /\ c.kind = "list"
          /\ Answer(c, [kind |-> "list", saved |-> c.saved, ans |-> "ok",
                        rows |-> roleOf])
       \/ /\ c.kind = "open"
          /\ Answer(c, [kind |-> "open", ans |-> "ok", user |-> c.user,
                        role |-> c.role, names |-> roleNames])
       \/ \E a \in {"refused", "lost"} : Answer(c, [c EXCEPT !.ans = a])
    /\ UNCHANGED <<userServer, userPage>>

ServeUserChange(c) ==
    /\ c \in userCalls /\ c.ans = "none"
    /\ \/ /\ c.kind = "save" /\ c.user \in DOMAIN roleOf
          /\ c.role = NoRole => c.user = Self /\ SelfIsRoot
          /\ roleOf' = IF c.role = NoRole THEN roleOf
                       ELSE [roleOf EXCEPT ![c.user] = c.role]
       \/ /\ c.kind = "save" /\ c.user = NewUser /\ c.role # NoRole
          /\ \E u \in Accounts \ DOMAIN roleOf :
                roleOf' = [v \in DOMAIN roleOf \cup {u} |->
                             IF v = u THEN c.role ELSE roleOf[v]]
       \/ /\ c.kind = "status" /\ c.user \in DOMAIN roleOf
          /\ UNCHANGED roleOf
       \/ /\ c.kind = "delete" /\ c.user \in DOMAIN roleOf
          /\ roleOf' = [v \in DOMAIN roleOf \ {c.user} |-> roleOf[v]]
    /\ Answer(c, [c EXCEPT !.ans = "ok"])
    /\ UNCHANGED <<roleNames, userPage>>

(* A role is added on the roles page                                       *)
RoleAdded(r) ==
    /\ r \notin roleNames
    /\ roleNames' = roleNames \cup {r}
    /\ UNCHANGED <<roleOf, userPage, userCalls>>
-----------------------------------------------------------------------------
UserNext ==
    \/ ShowUserForm \/ HideUserForm \/ SubmitUserForm
    \/ \E u \in Accounts : ShowUserEditForm(u)
                           \/ ChangeUser(u)
    \/ \E r \in RoleNames : ChooseRole(r) \/ RoleAdded(r)
    \/ \E c \in userCalls :
          \/ RoleNamesArrive(c) \/ UserSaved(c)
          \/ UserChanged(c) \/ UsersArrive(c)
          \/ ServeUserPage(c) \/ ServeUserChange(c)

UserSpec == UserInit /\ [][UserNext]_userVars
-----------------------------------------------------------------------------
UserTypeOK ==
    /\ roleOf \in People
    /\ roleNames \subseteq RoleNames /\ userRows \in People
    /\ kept \in {"nothing", "roles", "error"} /\ keptRoles \subseteq RoleNames
    /\ userFormOpen \in BOOLEAN /\ userTarget \in Somebody
    /\ offered \subseteq RoleNames /\ roleChosen \in offered \cup {NoRole}
    /\ emailShown \in Somebody /\ roleLocked \in BOOLEAN /\ userSaving \in BOOLEAN
    /\ userCalls \subseteq UserCall /\ asked \in 0 .. MaxUserChanges
    /\ showing \subseteq [user : Somebody, role : RoleNames]

(* What showUserEditForm fills in: the address, the role if it is offered, *)
(* and the lock for root's own account only                                *)
ShowsAll(w) ==
    /\ emailShown = w.user
    /\ w.role \in offered => roleChosen = w.role
    /\ w.user # NewUser => (roleLocked <=> w.user = Self /\ SelfIsRoot)

(* Once no list of roles is awaited, a form opened by itself names its     *)
(* account and shows its address, role and lock.  When an error was kept   *)
(* in place of the roles the form stops before these: it names the account *)
(* and offers no role to choose (a save is refused by the server, but for  *)
(* root's own), while the address and the lock are those of the form       *)
(* opened before.                                                          *)
SettledUserFormShowsItsUser ==
    (userFormOpen /\ OpenCalls = {}) => \A w \in showing :
        /\ userTarget = w.user
        /\ IF kept = "error" THEN offered = {} ELSE ShowsAll(w)

(* Not kept: the address a form sends, unless it is typed, is that of its  *)
(* account.  With an error kept in place of the roles, or while they are   *)
(* awaited, it is the address of the account whose form was open before;   *)
(* the server stores it for root's own account, whose role is not sent.    *)
AddressGoesToItsOwner ==
    \A c \in userCalls : c.kind = "save" => c.email = c.user

(* "The role appears immediately in the user creation dropdown" (docs, on  *)
(* saving a role): a form that is opened offers every role there is.       *)
NewRoleIsOffered ==
    [][ (ShowUserForm /\ kept = "roles") => roleNames \subseteq offered' ]_userVars
=============================================================================
