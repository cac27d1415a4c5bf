---------------------------- MODULE DialogProofs ----------------------------
(***************************************************************************)
(* Theorems about the dialogs and forms in which the console changes what  *)
(* others depend on: the password of another user, the roles, the accounts *)
(* and the integrated service with its token.  They hold of any number of  *)
(* accounts, roles, tokens and requests under way.                         *)
(***************************************************************************)
EXTENDS PasswordDialog, RoleForm, UserForm, IntegratedService,
        WellFoundedInduction, TLAPS

(* --- PasswordDialog ---------------------------------------------------- *)

(* The page without its fairness, which no invariant needs.               *)
PwdRuns == PwdInit /\ [][PwdNext]_pwdVars

LEMMA PwdTypeStep == PwdTypeOK /\ [PwdNext]_pwdVars => PwdTypeOK'
<1> SUFFICES ASSUME PwdTypeOK, [PwdNext]_pwdVars PROVE PwdTypeOK'
  OBVIOUS
<1> USE PasswordAssumption DEF PwdTypeOK, Who, Change, NoChange, PwdAct
<1>1. ASSUME NEW u \in Others, ModifyUserPassword(u) PROVE PwdTypeOK'
  BY <1>1 DEF ModifyUserPassword, Emptied
<1>2. CASE TypePassword
  BY <1>2 DEF TypePassword
<1>3. CASE ClosePassword
  BY <1>3 DEF ClosePassword
<1>4. CASE SubmitPasswordChange
  BY <1>4 DEF SubmitPasswordChange
<1>5. CASE PasswordSaved
  BY <1>5 DEF PasswordSaved
<1>6. CASE PasswordRefused
  <2>1. change.user \in Others
    BY <1>6 DEF PasswordRefused
  <2> QED
    BY <1>6, <2>1 DEF PasswordRefused
<1>7. CASE ListedAnew
  BY <1>7 DEF ListedAnew
<1>8. CASE ServePasswordChange
  BY <1>8 DEF ServePasswordChange
<1>9. CASE UNCHANGED pwdVars
  BY <1>9 DEF pwdVars
<1> QED
  BY <1>1, <1>2, <1>3, <1>4, <1>5, <1>6, <1>7, <1>8, <1>9 DEF PwdNext, ChangeGoesOn

LEMMA PwdTypeHolds == PwdRuns => []PwdTypeOK
<1>1. ASSUME PwdInit PROVE PwdTypeOK
  <2>1. [u \in Others |-> u] \in [Others -> Who]
    BY DEF Who
  <2>2. pwdActs \in 0 .. MaxPwdActs
    BY <1>1, PasswordAssumption DEF PwdInit
  <2> QED
    BY <1>1, <2>1, <2>2 DEF PwdInit, PwdTypeOK, Who
<1> QED
  BY <1>1, PwdTypeStep, PTL DEF PwdRuns

(* The variables of the dialog keep their types.                           *)
THEOREM PwdTypeCorrect == PwdSpec => []PwdTypeOK
  BY PwdTypeHolds, PTL DEF PwdSpec, PwdRuns

-----------------------------------------------------------------------------
(* The submit button is off exactly while a change is under way: no second *)
(* one is begun before the first has been answered and the accounts have   *)
(* been listed anew (submitPasswordChange).                                *)
THEOREM ButtonGuardsChange == PwdSpec => []OneChangeAtATime
<1>1. PwdInit => OneChangeAtATime
  BY DEF PwdInit, OneChangeAtATime
<1>2. PwdTypeOK /\ OneChangeAtATime /\ [PwdNext]_pwdVars => OneChangeAtATime'
  <2> SUFFICES ASSUME PwdTypeOK, OneChangeAtATime, [PwdNext]_pwdVars
               PROVE OneChangeAtATime'
    OBVIOUS
  <2> USE DEF PwdTypeOK, OneChangeAtATime, Change, NoChange
  <2>1. CASE SubmitPasswordChange
    BY <2>1 DEF SubmitPasswordChange
  <2>2. CASE PasswordSaved \/ ServePasswordChange
    <3>1. change \in Change /\ pwdOff' = pwdOff
      BY <2>2 DEF PasswordSaved, ServePasswordChange
    <3>2. \E at \in {"done", "failed", "listing"} : change' = [change EXCEPT !.at = at]
      BY <2>2 DEF PasswordSaved, ServePasswordChange
    <3>3. change'.at # "none"
      BY <3>1, <3>2
    <3> QED
      BY <3>1, <3>3
  <2>3. CASE PasswordRefused \/ ListedAnew
    BY <2>3 DEF PasswordRefused, ListedAnew
  <2>4. CASE \/ \E u \in Others : ModifyUserPassword(u)
             \/ TypePassword \/ ClosePassword \/ UNCHANGED pwdVars
    BY <2>4 DEF ModifyUserPassword, TypePassword, ClosePassword, pwdVars
  <2> QED
    BY <2>1, <2>2, <2>3, <2>4 DEF PwdNext, ChangeGoesOn
<1> QED
  BY <1>1, <1>2, PwdTypeCorrect, PTL DEF PwdSpec

-----------------------------------------------------------------------------
(* What keeps a password from going astray: whatever is in the fields of   *)
(* an open dialog was typed for the account it names, since opening it     *)
(* empties them, and a change under way carries both together.  Without    *)
(* the second part a late answer could still deliver what was typed before *)
(* for another.                                                            *)
FieldsAreOfTheDialog == pwdFor # Nobody => pwdTypedFor \in {Nobody, pwdFor}
ChangeIsOfItsUser == change # NoChange => change.typedFor = change.user
PwdInv == FieldsAreOfTheDialog /\ ChangeIsOfItsUser /\ PasswordReachesItsUser

LEMMA PwdInvStep == PwdTypeOK /\ PwdInv /\ [PwdNext]_pwdVars => PwdInv'
<1> SUFFICES ASSUME PwdTypeOK, PwdInv, [PwdNext]_pwdVars PROVE PwdInv'
  OBVIOUS
<1> USE PasswordAssumption
    DEF PwdTypeOK, PwdInv, FieldsAreOfTheDialog, ChangeIsOfItsUser, Who, Change, NoChange
<1>1. ASSUME NEW u \in Others, ModifyUserPassword(u) PROVE PwdInv'
  BY <1>1 DEF ModifyUserPassword, Emptied, PasswordReachesItsUser
<1>2. CASE TypePassword
  BY <1>2 DEF TypePassword, PasswordReachesItsUser
<1>3. CASE ClosePassword
  BY <1>3 DEF ClosePassword, PasswordReachesItsUser
<1>4. CASE SubmitPasswordChange
  BY <1>4 DEF SubmitPasswordChange, PasswordReachesItsUser
<1>5. CASE PasswordSaved
  BY <1>5 DEF PasswordSaved, PasswordReachesItsUser
<1>6. CASE PasswordRefused \/ ListedAnew
  BY <1>6 DEF PasswordRefused, ListedAnew, PasswordReachesItsUser
<1>7. CASE ServePasswordChange
  <2>1. change \in Change /\ change.user \in Others /\ change.typedFor = change.user
    BY <1>7 DEF ServePasswordChange
  <2>2. PasswordReachesItsUser'
    BY <1>7, <2>1 DEF ServePasswordChange, PasswordReachesItsUser
  <2>3. ChangeIsOfItsUser'
    BY <1>7, <2>1 DEF ServePasswordChange
  <2> QED
    BY <1>7, <2>2, <2>3 DEF ServePasswordChange
<1>8. CASE UNCHANGED pwdVars
  BY <1>8 DEF pwdVars, PasswordReachesItsUser
<1> QED
  BY <1>1, <1>2, <1>3, <1>4, <1>5, <1>6, <1>7, <1>8 DEF PwdNext, ChangeGoesOn

LEMMA PasswordHolds == PwdRuns => []PasswordReachesItsUser
<1>1. PwdInit => PwdInv
  BY DEF PwdInit, PwdInv, FieldsAreOfTheDialog, ChangeIsOfItsUser,
         PasswordReachesItsUser
<1>2. PwdInv => PasswordReachesItsUser
  BY DEF PwdInv
<1> QED
  BY <1>1, <1>2, PwdInvStep, PwdTypeHolds, PTL DEF PwdRuns

(* Whatever dialogs are opened and closed while a change is being saved,   *)
(* an account only ever gets a password that was typed for it.             *)
THEOREM NoPasswordGoesAstray == PwdSpec => []PasswordReachesItsUser
  BY PasswordHolds, PTL DEF PwdSpec, PwdRuns

-----------------------------------------------------------------------------
(* --- RoleForm ---------------------------------------------------------- *)

(* What replaces a call keeps what it was asked for.                       *)
IsAsk(c) ==
    /\ c = [x \in DOMAIN c |-> c[x]]
    /\ "kind" \in DOMAIN c /\ "ans" \in DOMAIN c
    /\ c.kind = "open" => "preset" \in DOMAIN c

(* The catalogue that is awaited was asked for with the rights the form    *)
(* was opened with.                                                        *)
RoleInv ==
    /\ \A c \in asks : IsAsk(c)
    /\ \A c \in OpenAsks, s \in opened : c.preset = s
    /\ SettledFormShowsItsRole

(* The page without its fairness, which no invariant needs.               *)
RoleRuns == RoleInit /\ [][RoleNext]_roleVars

LEMMA FailedAskIsAsk ==
    ASSUME NEW c, IsAsk(c), NEW ans
    PROVE  /\ IsAsk([c EXCEPT !.ans = ans])
           /\ [c EXCEPT !.ans = ans].kind = c.kind
           /\ c.kind = "open" => [c EXCEPT !.ans = ans].preset = c.preset
BY DEF IsAsk

LEMMA ListAskIsAsk == \A b : IsAsk(ListAsk(b)) /\ ListAsk(b).kind = "list"
BY DEF IsAsk, ListAsk

(* Steps that leave the form alone and, of the calls, replace one by one   *)
(* of the same kind, drop some, or add some that await no catalogue.       *)
LEMMA FormAside ==
    ASSUME RoleInv, UNCHANGED <<roleFormOpen, boxes, ticked, opened>>,
           \A c \in asks' \ asks : IsAsk(c) /\ c.kind # "open",
           OpenAsks' = OpenAsks
    PROVE  RoleInv'
BY DEF RoleInv, OpenAsks, SettledFormShowsItsRole

LEMMA RoleInvStep == RoleInv /\ [RoleNext]_roleVars => RoleInv'
<1> SUFFICES ASSUME RoleInv, [RoleNext]_roleVars PROVE RoleInv'
  OBVIOUS
<1>1. ASSUME NEW r, NEW preset, ShowRole(r, preset) PROVE RoleInv'
  <2>1. CASE cached
    BY <1>1, <2>1 DEF ShowRole, DrawBoxes, RoleInv, OpenAsks, SettledFormShowsItsRole
  <2>2. CASE ~cached
    <3> DEFINE n == [kind |-> "open", ans |-> "none", preset |-> preset]
    <3>1. IsAsk(n) /\ n.kind = "open" /\ n.preset = preset
      BY DEF IsAsk
    <3>2. asks' = asks \cup {n} /\ opened' = IF OpenAsks = {} THEN {preset} ELSE {}
      BY <1>1, <2>2 DEF ShowRole
    <3> HIDE DEF n
    <3>3. n \in OpenAsks' /\ OpenAsks' = OpenAsks \cup {n}
      BY <3>1, <3>2 DEF OpenAsks
    <3> QED
      BY <3>1, <3>2, <3>3 DEF RoleInv, SettledFormShowsItsRole
  <2> QED
    BY <2>1, <2>2
<1>2. ASSUME NEW c \in asks, CatalogueArrives(c) PROVE RoleInv'
  <2>1. c \in OpenAsks /\ OpenAsks' = OpenAsks \ {c} /\ asks' = asks \ {c}
    BY <1>2 DEF CatalogueArrives, OpenAsks
  <2>2. /\ boxes' = AnsweredCat(c) /\ ticked' = c.preset \cap AnsweredCat(c)
        /\ opened' = opened /\ roleFormOpen' = roleFormOpen
    BY <1>2 DEF CatalogueArrives, DrawBoxes
  <2> QED
    BY <2>1, <2>2 DEF RoleInv, SettledFormShowsItsRole
<1>3. ASSUME NEW c \in asks, RolesArrive(c) PROVE RoleInv'
  <2>1. asks' = asks \ {c} /\ c \notin OpenAsks
    BY <1>3 DEF RolesArrive, OpenAsks
  <2> QED
    BY <1>3, <2>1, FormAside DEF RolesArrive, OpenAsks
<1>4. CASE \/ \E p \in Perms : ClickBox(p)
           \/ \E g \in Groups : ClickGroup(g)
           \/ HideRoleForm
  BY <1>4 DEF ClickBox, ClickGroup, HideRoleForm, Hide, RoleInv, OpenAsks,
              SettledFormShowsItsRole
<1>5. CASE SubmitRoleForm
  <2> DEFINE n == [kind |-> "save", ans |-> "none", role |-> roleId, perms |-> ticked]
  <2>1. IsAsk(n) /\ n.kind # "open"
    BY DEF IsAsk
  <2>2. asks' = asks \cup {n}
    BY <1>5 DEF SubmitRoleForm, AskChange
  <2> HIDE DEF n
  <2>3. OpenAsks' = OpenAsks /\ \A c \in asks' \ asks : IsAsk(c) /\ c.kind # "open"
    BY <2>1, <2>2 DEF OpenAsks
  <2> QED
    BY <1>5, <2>3, FormAside DEF SubmitRoleForm
<1>6. ASSUME NEW c \in asks, RoleSaveArrives(c) PROVE RoleInv'
  <2>1. asks' = asks \ {c} \/ asks' = (asks \ {c}) \cup {ListAsk(TRUE)}
    BY <1>6 DEF RoleSaveArrives
  <2>2. /\ OpenAsks' = OpenAsks
        /\ \A d \in asks' \ asks : IsAsk(d) /\ d.kind # "open"
    BY <1>6, <2>1, ListAskIsAsk DEF OpenAsks, RoleSaveArrives
  <2>3. CASE UNCHANGED <<roleFormOpen, opened>>
    BY <1>6, <2>2, <2>3, FormAside DEF RoleSaveArrives
  <2>4. CASE opened' = {}
    BY <2>2, <2>4 DEF RoleInv, SettledFormShowsItsRole
  <2> QED
    BY <1>6, <2>3, <2>4 DEF RoleSaveArrives, Hide
<1>7. ASSUME NEW kind \in {"drop", "register", "unregister"}, NEW n, AskChange(n),
             IsAsk(n), n.kind = kind, UNCHANGED roleForm
      PROVE  RoleInv'
  <2>1. /\ OpenAsks' = OpenAsks
        /\ \A d \in asks' \ asks : IsAsk(d) /\ d.kind # "open"
    BY <1>7 DEF OpenAsks, AskChange
  <2> QED
    BY <1>7, <2>1, FormAside DEF roleForm
<1>8. ASSUME NEW r \in Roles, DeleteRole(r) PROVE RoleInv'
  <2> DEFINE n == [kind |-> "drop", ans |-> "none", role |-> r]
  <2>1. IsAsk(n) /\ n.kind = "drop"
    BY DEF IsAsk
  <2>2. AskChange(n) /\ UNCHANGED roleForm
    BY <1>8 DEF DeleteRole
  <2> HIDE DEF n
  <2> QED
    BY <1>7, <2>1, <2>2
<1>9. ASSUME NEW p \in Perms, RegisterPermission(p) \/ DeletePermission(p)
      PROVE  RoleInv'
  <2>1. PICK kind \in {"register", "unregister"} :
           /\ AskChange([kind |-> kind, ans |-> "none", perm |-> p])
           /\ UNCHANGED roleForm
    BY <1>9 DEF RegisterPermission, DeletePermission
  <2> DEFINE n == [kind |-> kind, ans |-> "none", perm |-> p]
  <2>2. IsAsk(n) /\ n.kind = kind
    BY DEF IsAsk
  <2> HIDE DEF n
  <2> QED
    BY <1>7, <2>1, <2>2 DEF n
<1>10. ASSUME NEW c \in asks, ChangeOfRolesArrives(c) PROVE RoleInv'
  <2> DEFINE n == [ListAsk(FALSE) EXCEPT !.fetch = ~cached']
  <2>1. IsAsk(n) /\ n.kind = "list"
    BY DEF IsAsk, ListAsk
  <2>2. asks' = asks \ {c} \/ asks' = (asks \ {c}) \cup {n}
    BY <1>10 DEF ChangeOfRolesArrives
  <2> HIDE DEF n
  <2>3. c \notin OpenAsks /\ UNCHANGED roleForm
    BY <1>10 DEF ChangeOfRolesArrives, OpenAsks
  <2>4. /\ OpenAsks' = OpenAsks
        /\ \A d \in asks' \ asks : IsAsk(d) /\ d.kind # "open"
    BY <2>1, <2>2, <2>3 DEF OpenAsks
  <2> QED
    BY <2>3, <2>4, FormAside DEF roleForm
<1>11. ASSUME NEW c \in asks, NEW n, AnswerTo(c, n), IsAsk(n), n.kind = c.kind,
              c.kind = "open" => n.preset = c.preset, UNCHANGED roleForm
       PROVE  RoleInv'
  <2>1. asks' = (asks \ {c}) \cup {n} /\ IsAsk(n) /\ n.kind = c.kind
        /\ (c.kind = "open" => n.preset = c.preset)
    BY <1>11 DEF AnswerTo
  <2>2. \A d \in OpenAsks' : \E e \in OpenAsks : d.preset = e.preset
    BY <2>1 DEF OpenAsks
  <2>3. OpenAsks' = {} => OpenAsks = {}
    BY <2>1 DEF OpenAsks
  <2> QED
    BY <1>11, <2>1, <2>2, <2>3 DEF RoleInv, SettledFormShowsItsRole, roleForm
<1>12. ASSUME NEW c \in asks, ServeCatalogue(c) PROVE RoleInv'
  <2> DEFINE n == [kind |-> "open", ans |-> "ok", preset |-> c.preset, cat |-> known]
  <2>1. IsAsk(n) /\ n.kind = c.kind /\ n.preset = c.preset
    BY <1>12 DEF IsAsk, ServeCatalogue
  <2>2. AnswerTo(c, n) /\ UNCHANGED roleForm
    BY <1>12 DEF ServeCatalogue
  <2> HIDE DEF n
  <2> QED
    BY <1>11, <2>1, <2>2
<1>13. ASSUME NEW c \in asks, ServeRoles(c) PROVE RoleInv'
  <2> DEFINE n == [kind |-> "list", ans |-> "ok", fetch |-> c.fetch, saved |-> c.saved,
                   rows |-> rightsOf, cat |-> IF c.fetch THEN known ELSE {}]
  <2>1. IsAsk(n) /\ n.kind = "list" /\ c.kind = "list"
    BY <1>13 DEF IsAsk, ServeRoles
  <2>2. AnswerTo(c, n) /\ UNCHANGED roleForm
    BY <1>13 DEF ServeRoles
  <2> HIDE DEF n
  <2> QED
    BY <1>11, <2>1, <2>2
<1>14. ASSUME NEW c \in asks, ServeChangeOfRoles(c) \/ FailAsk(c) PROVE RoleInv'
  <2>1. PICK ans : AnswerTo(c, [c EXCEPT !.ans = ans]) /\ UNCHANGED roleForm
    BY <1>14 DEF ServeChangeOfRoles, FailAsk
  <2>2. IsAsk(c)
    BY DEF RoleInv
  <2> QED
    BY <1>11, <2>1, <2>2, FailedAskIsAsk
<1>15. CASE UNCHANGED roleVars
  BY <1>15 DEF roleVars, roleForm, RoleInv, OpenAsks, SettledFormShowsItsRole
<1>16. CASE RoleUser
  BY <1>1, <1>4, <1>5, <1>8, <1>9, <1>16 DEF RoleUser, ShowRoleForm
<1>17. CASE RoleServes \/ RoleDelivers
  BY <1>2, <1>3, <1>6, <1>10, <1>12, <1>13, <1>14, <1>17 DEF RoleServes, RoleDelivers
<1> QED
  BY <1>15, <1>16, <1>17 DEF RoleNext

LEMMA RoleFormHolds == RoleRuns => []SettledFormShowsItsRole
<1>1. RoleInit => RoleInv
  BY ListAskIsAsk DEF RoleInit, RoleInv, OpenAsks, SettledFormShowsItsRole
<1>2. RoleInv => SettledFormShowsItsRole
  BY DEF RoleInv
<1> QED
  BY <1>1, <1>2, RoleInvStep, PTL DEF RoleRuns

(* An untouched role form shows the rights its role was listed with, for   *)
(* any roles, permissions, implications and calls under way, once no       *)
(* catalogue is awaited (showRoleForm).                                    *)
THEOREM FormShowsItsRole == RoleSpec => []SettledFormShowsItsRole
  BY RoleFormHolds, PTL DEF RoleSpec, RoleRuns

-----------------------------------------------------------------------------
(* What the boxes of the role form become by a click.  A forEach runs its  *)
(* steps one after the other, and where something first goes wrong it does *)
(* so at a least number.                                                   *)

LEMMA LeastOfNaturals ==
    ASSUME NEW T, T \subseteq Nat, T # {}
    PROVE  \E n \in T : \A m \in T : n <= m
<1>1. \E n \in T : \A m \in T : <<m, n>> \notin OpToRel(<, Nat)
  BY NatLessThanWellFounded, WFMin
<1>2. \A m \in Nat, n \in Nat : m < n => <<m, n>> \in OpToRel(<, Nat)
  BY Zenon DEF OpToRel
<1>3. PICK n \in T : \A m \in T : <<m, n>> \notin OpToRel(<, Nat)
  BY <1>1
<1>4. \A m \in T : ~(m < n)
  BY <1>2, <1>3
<1> QED
  BY <1>4

(* made is what the steps make of t, one after the other.                  *)
IsTrace(made, n, t, step) ==
    made = [i \in 0 .. n |-> IF i = 0 THEN t ELSE step[i][made[i - 1]]]

LEMMA TraceExists ==
    ASSUME NEW t, NEW step, NEW n \in Nat
    PROVE  \E made : IsTrace(made, n, t, step)
<1> DEFINE T == {k \in Nat : ~ \E made : IsTrace(made, k, t, step)}
<1>1. SUFFICES ASSUME T # {} PROVE FALSE
  OBVIOUS
<1>2. PICK k \in T : \A m \in T : k <= m
  BY <1>1, LeastOfNaturals
<1>3. CASE k = 0
  <2> DEFINE w == [i \in 0 .. 0 |-> t]
  <2>1. IsTrace(w, 0, t, step)
    BY DEF IsTrace
  <2> QED
    BY <1>3, <2>1
<1>4. CASE k # 0
  <2>1. k - 1 \in Nat /\ k - 1 \notin T
    BY <1>2, <1>4
  <2>2. PICK w : IsTrace(w, k - 1, t, step)
    BY <2>1
  <2> DEFINE x == [i \in 0 .. k |-> IF i = k THEN step[k][w[k - 1]] ELSE w[i]]
  <2>3. \A i \in 0 .. k : x[i] = IF i = 0 THEN t ELSE step[i][x[i - 1]]
    <3> SUFFICES ASSUME NEW i \in 0 .. k
                 PROVE  x[i] = IF i = 0 THEN t ELSE step[i][x[i - 1]]
      OBVIOUS
    <3>1. CASE i = k
      BY <2>1, <3>1
    <3>2. CASE i # k
      <4>1. i \in 0 .. k - 1 /\ (i # 0 => i - 1 \in 0 .. k - 1 /\ i - 1 \in 0 .. k /\ i - 1 # k)
        BY <2>1, <3>2
      <4>2. w[i] = IF i = 0 THEN t ELSE step[i][w[i - 1]]
        BY <2>2, <4>1 DEF IsTrace
      <4> QED
        BY <3>2, <4>1, <4>2
    <3> QED
      BY <3>1, <3>2
  <2>4. IsTrace(x, k, t, step)
    BY <2>3 DEF IsTrace
  <2> QED
    BY <2>4
<1> QED
  BY <1>3, <1>4

(* ... and all its states are in S when the steps keep to S.               *)
RunsIn(made, S, n, t, step) ==
    /\ made \in [0 .. n -> S]
    /\ made[0] = t /\ made[n] = InTurn(n, t, step)
    /\ \A i \in 1 .. n : made[i] = step[i][made[i - 1]]

LEMMA InTurnRuns ==
    ASSUME NEW S, NEW t \in S, NEW n \in Nat, NEW step \in [1 .. n -> [S -> S]]
    PROVE  \E made : RunsIn(made, S, n, t, step)
<1> DEFINE w == CHOOSE made : IsTrace(made, n, t, step)
<1>1. IsTrace(w, n, t, step)
  BY TraceExists
<1>2. InTurn(n, t, step) = w[n]
  BY DEF InTurn, IsTrace
<1> HIDE DEF w
<1>3. \A i \in 0 .. n : w[i] = IF i = 0 THEN t ELSE step[i][w[i - 1]]
  BY <1>1 DEF IsTrace
<1>4. \A i \in 0 .. n : w[i] \in S
  <2> DEFINE T == {i \in 0 .. n : w[i] \notin S}
  <2>1. SUFFICES ASSUME T # {} PROVE FALSE
    OBVIOUS
  <2>2. T \subseteq Nat
    OBVIOUS
  <2>3. PICK i \in T : \A m \in T : i <= m
    <3> HIDE DEF T
    <3> QED
      BY <2>1, <2>2, LeastOfNaturals
  <2>4. CASE i = 0
    BY <1>3, <2>4
  <2>5. CASE i # 0
    <3>1. i - 1 \in 0 .. n /\ i \in 1 .. n /\ w[i - 1] \in S
      BY <2>3, <2>5
    <3> QED
      BY <1>3, <3>1
  <2> QED
    BY <2>4, <2>5
<1>5. w \in [0 .. n -> S]
  BY <1>1, <1>4 DEF IsTrace
<1>6. RunsIn(w, S, n, t, step)
  BY <1>2, <1>3, <1>5 DEF RunsIn
<1> QED
  BY <1>6

(* A box that follows another is one of the boxes.                         *)
LEMMA FollowKeeps ==
    ASSUME NEW p, NEW q, NEW on \in BOOLEAN, NEW t \in SUBSET boxes
    PROVE  Follow(p, on, q, t) \in SUBSET boxes
BY DEF Follow

LEMMA CascadeRuns ==
    ASSUME NEW p \in Perms, NEW on \in BOOLEAN,
           NEW t \in SUBSET boxes
    PROVE  \E n \in Nat : \E made \in [0 .. n -> SUBSET boxes] :
              /\ DOMAIN Implied[p] = 1 .. n
              /\ made[0] = t /\ made[n] = Cascade(p, on, t)
              /\ \A i \in 1 .. n :
                    made[i] = Follow(p, on, Implied[p][i], made[i - 1])
<1> DEFINE n == Len(Implied[p])
           step == [i \in 1 .. n |->
                      [u \in SUBSET boxes |-> Follow(p, on, Implied[p][i], u)]]
<1>1. Implied[p] \in Seq(Perms) /\ n \in Nat /\ DOMAIN Implied[p] = 1 .. n
  BY RoleAssumption
<1>2. step \in [1 .. n -> [SUBSET boxes -> SUBSET boxes]]
  BY FollowKeeps
<1>3. Cascade(p, on, t) = InTurn(n, t, step)
  BY DEF Cascade
<1>4. \A i \in 1 .. n : \A u \in SUBSET boxes :
         step[i][u] = Follow(p, on, Implied[p][i], u)
  OBVIOUS
<1> HIDE DEF n, step
<1>5. PICK made \in [0 .. n -> SUBSET boxes] :
              /\ made[0] = t /\ made[n] = InTurn(n, t, step)
              /\ \A i \in 1 .. n : made[i] = step[i][made[i - 1]]
  <2>1. PICK S : S = SUBSET boxes
    OBVIOUS
  <2>2. t \in S /\ step \in [1 .. n -> [S -> S]]
    BY <1>2, <2>1
  <2>3. \E made : RunsIn(made, S, n, t, step)
    BY <1>1, <2>2, InTurnRuns, Zenon
  <2> QED
    BY <2>1, <2>3 DEF RunsIn
<1>6. \A i \in 1 .. n : made[i - 1] \in SUBSET boxes
  BY <1>1
<1>7. \A i \in 1 .. n : made[i] = Follow(p, on, Implied[p][i], made[i - 1])
  BY <1>4, <1>5, <1>6
<1> QED
  BY <1>1, <1>3, <1>5, <1>7

(* What a forEach only takes from, it takes from to the end ...            *)
LEMMA ShrinksInTurn ==
    ASSUME NEW n \in Nat, NEW made,
           \A i \in 1 .. n : made[i] \subseteq made[i - 1]
    PROVE  \A i \in 0 .. n : made[n] \subseteq made[i]
<1> DEFINE T == {k \in Nat : k <= n /\ ~(made[n] \subseteq made[n - k])}
<1>1. SUFFICES T = {}
  <2>1. \A i \in 0 .. n : n - i \in Nat /\ n - i <= n /\ n - (n - i) = i
    OBVIOUS
  <2> QED
    BY <2>1
<1>2. SUFFICES ASSUME T # {} PROVE FALSE
  OBVIOUS
<1>3. T \subseteq Nat
  OBVIOUS
<1>4. PICK k \in T : \A m \in T : k <= m
  <2> HIDE DEF T
  <2> QED
    BY <1>2, <1>3, LeastOfNaturals
<1>5. CASE k = 0
  BY <1>5
<1>6. CASE k # 0
  <2>1. /\ k - 1 \in Nat /\ k - 1 <= n /\ k - 1 \notin T
        /\ n - (k - 1) \in 1 .. n /\ n - (k - 1) - 1 = n - k
    BY <1>4, <1>6
  <2>2. made[n] \subseteq made[n - (k - 1)]
    BY <2>1
  <2>3. made[n - (k - 1)] \subseteq made[n - k]
    BY <2>1
  <2> QED
    BY <2>2, <2>3
<1> QED
  BY <1>5, <1>6

(* ... and what it only adds to stays.                                     *)
LEMMA GrowsInTurn ==
    ASSUME NEW n \in Nat, NEW made,
           \A i \in 1 .. n : made[i - 1] \subseteq made[i]
    PROVE  made[0] \subseteq made[n]
<1> DEFINE T == {k \in Nat : k <= n /\ ~(made[0] \subseteq made[k])}
<1>1. SUFFICES T = {}
  OBVIOUS
<1>2. SUFFICES ASSUME T # {} PROVE FALSE
  OBVIOUS
<1>3. T \subseteq Nat
  OBVIOUS
<1>4. PICK k \in T : \A m \in T : k <= m
  <2> HIDE DEF T
  <2> QED
    BY <1>2, <1>3, LeastOfNaturals
<1>5. CASE k = 0
  BY <1>5
<1>6. CASE k # 0
  <2>1. k - 1 \in Nat /\ k - 1 <= n /\ k - 1 \notin T /\ k \in 1 .. n
    BY <1>4, <1>6
  <2> QED
    BY <2>1
<1> QED
  BY <1>5, <1>6

(* What is gone in the end was taken by some step.                         *)
LEMMA TakenInTurn ==
    ASSUME NEW n \in Nat, NEW made, NEW q, q \in made[0], q \notin made[n]
    PROVE  \E i \in 1 .. n : q \in made[i - 1] /\ q \notin made[i]
<1> DEFINE T == {k \in Nat : k <= n /\ q \notin made[k]}
<1>1. T \subseteq Nat /\ T # {}
  OBVIOUS
<1>2. PICK k \in T : \A m \in T : k <= m
  <2> HIDE DEF T
  <2> QED
    BY <1>1, LeastOfNaturals
<1>3. k # 0 /\ k \in Nat /\ k <= n /\ q \notin made[k]
  OBVIOUS
<1>4. k \in 1 .. n /\ k - 1 \in Nat /\ k - 1 <= n /\ k - 1 \notin T
  BY <1>2, <1>3
<1> QED
  BY <1>3, <1>4

(* One cascade: with a tick come more of them, and without it goes only    *)
(* what no box left implies.                                               *)
LEMMA CascadeSpares ==
    ASSUME NEW p \in Perms, NEW on \in BOOLEAN,
           NEW t \in SUBSET boxes
    PROVE  /\ Cascade(p, on, t) \in SUBSET boxes
           /\ on => t \subseteq Cascade(p, on, t)
           /\ ~on => Cascade(p, on, t) \subseteq t
           /\ ~on /\ p \notin t =>
                 \A q \in t \ Cascade(p, on, t), s \in Cascade(p, on, t) :
                    q \notin Implies(s)
<1>1. PICK n \in Nat : \E made \in [0 .. n -> SUBSET boxes] :
              /\ DOMAIN Implied[p] = 1 .. n
              /\ made[0] = t /\ made[n] = Cascade(p, on, t)
              /\ \A i \in 1 .. n :
                    made[i] = Follow(p, on, Implied[p][i], made[i - 1])
  BY CascadeRuns
<1>2. PICK made \in [0 .. n -> SUBSET boxes] :
              /\ DOMAIN Implied[p] = 1 .. n
              /\ made[0] = t /\ made[n] = Cascade(p, on, t)
              /\ \A i \in 1 .. n :
                    made[i] = Follow(p, on, Implied[p][i], made[i - 1])
  BY <1>1
<1>3. made[n] \in SUBSET boxes
  OBVIOUS
<1>4. ASSUME on PROVE t \subseteq Cascade(p, on, t)
  <2>1. \A i \in 1 .. n : made[i - 1] \subseteq made[i]
    BY <1>2, <1>4 DEF Follow
  <2>2. made[0] \subseteq made[n]
    BY <2>1, GrowsInTurn
  <2> QED
    BY <1>2, <2>2
<1>5. ASSUME ~on PROVE \A i \in 0 .. n : made[n] \subseteq made[i]
  <2>1. \A i \in 1 .. n : made[i] \subseteq made[i - 1]
    BY <1>2, <1>5 DEF Follow
  <2> QED
    BY <2>1, ShrinksInTurn
<1>6. ASSUME ~on PROVE made[n] \subseteq t
  <2>1. made[n] \subseteq made[0]
    BY <1>5, <1>6
  <2> QED
    BY <1>2, <2>1
<1>7. ASSUME ~on, p \notin t, NEW q \in t, q \notin made[n], NEW s \in made[n]
      PROVE  q \notin Implies(s)
  <2>1. PICK i \in 1 .. n : q \in made[i - 1] /\ q \notin made[i]
    BY <1>2, <1>7, TakenInTurn
  <2>2. q = Implied[p][i] /\ \A r \in made[i - 1] \ {p} : q \notin Implies(r)
    <3>1. made[i] = Follow(p, on, Implied[p][i], made[i - 1])
      BY <1>2
    <3>2. made[i] = made[i - 1] \ {Implied[p][i]}
      BY <1>7, <2>1, <3>1 DEF Follow
    <3>3. q = Implied[p][i]
      BY <2>1, <3>2
    <3> QED
      BY <1>7, <2>1, <3>1, <3>3 DEF Follow
  <2>3. i - 1 \in 0 .. n
    OBVIOUS
  <2>4. s \in made[i - 1] /\ s # p
    BY <1>5, <1>6, <1>7, <2>3
  <2> QED
    BY <2>2, <2>4
<1> QED
  BY <1>2, <1>3, <1>4, <1>6, <1>7

(* So it is with a click, the box clicked aside ...                        *)
LEMMA ToggleSpares ==
    ASSUME boxes \subseteq Perms, NEW p \in boxes,
           NEW on \in BOOLEAN, NEW t \in SUBSET boxes
    PROVE  /\ Toggle(p, on, t) \in SUBSET boxes
           /\ on => t \subseteq Toggle(p, on, t)
           /\ ~on => Toggle(p, on, t) \subseteq t
           /\ \A q \in t \ Toggle(p, on, t), s \in Toggle(p, on, t) :
                 q # p => q \notin Implies(s)
<1>1. CASE on
  <2>1. t \cup {p} \in SUBSET boxes /\ Toggle(p, on, t) = Cascade(p, on, t \cup {p})
    BY <1>1 DEF Toggle
  <2>2. /\ Cascade(p, on, t \cup {p}) \in SUBSET boxes
        /\ t \cup {p} \subseteq Cascade(p, on, t \cup {p})
    <3>1. PICK u : u = t \cup {p}
      OBVIOUS
    <3>2. u \in SUBSET boxes /\ p \in Perms
      BY <2>1, <3>1
    <3>3. Cascade(p, on, u) \in SUBSET boxes /\ u \subseteq Cascade(p, on, u)
      BY <1>1, <3>2, CascadeSpares, Zenon
    <3> QED
      BY <3>1, <3>3
  <2> QED
    BY <1>1, <2>1, <2>2
<1>2. CASE ~on
  <2>1. /\ t \ {p} \in SUBSET boxes /\ p \notin t \ {p}
        /\ Toggle(p, on, t) = Cascade(p, on, t \ {p})
    BY <1>2 DEF Toggle
  <2>2. /\ Cascade(p, on, t \ {p}) \in SUBSET boxes
        /\ Cascade(p, on, t \ {p}) \subseteq t \ {p}
        /\ \A q \in (t \ {p}) \ Cascade(p, on, t \ {p}),
              s \in Cascade(p, on, t \ {p}) : q \notin Implies(s)
    BY <1>2, <2>1, CascadeSpares
  <2> QED
    BY <1>2, <2>1, <2>2
<1> QED
  BY <1>1, <1>2

(* ... and with a click on a group, its boxes aside.                       *)
LEMMA GroupSpares ==
    ASSUME boxes \subseteq Perms, ticked \subseteq boxes,
           NEW g \in Groups, ClickGroup(g)
    PROVE  /\ ticked' \subseteq boxes
           /\ \A q \in GoneUnclicked(Among(g)), s \in ticked' :
                 q \notin Implies(s)
<1> DEFINE On == ~(Among(g) \cap boxes \subseteq ticked)
           n == Len(g)
           Set(p, t) == IF p \in boxes THEN Toggle(p, On, t) ELSE t
           step == [i \in 1 .. n |-> [t \in SUBSET boxes |-> Set(g[i], t)]]
<1>1. PICK on \in BOOLEAN : on = On
  OBVIOUS
<1>2. /\ g \in Seq(Perms) /\ n \in Nat /\ DOMAIN g = 1 .. n
      /\ \A i \in 1 .. n : g[i] \in Among(g)
  BY RoleAssumption DEF Among
<1>3. ticked' = InTurn(n, ticked, step)
  BY DEF ClickGroup
<1>4. \A p : \A t \in SUBSET boxes :
         Set(p, t) = IF p \in boxes THEN Toggle(p, on, t) ELSE t
  BY <1>1
<1> HIDE DEF On
<1>5. \A p : \A t \in SUBSET boxes : Set(p, t) \in SUBSET boxes
  BY <1>4, ToggleSpares
<1>6. \A i \in 1 .. n : \A t \in SUBSET boxes : step[i][t] = Set(g[i], t)
  OBVIOUS
<1>7. step \in [1 .. n -> [SUBSET boxes -> SUBSET boxes]]
  <2> HIDE DEF Set
  <2> QED
    BY <1>5
<1> HIDE DEF n, step, Set
<1>8. PICK made \in [0 .. n -> SUBSET boxes] :
              /\ made[0] = ticked /\ made[n] = ticked'
              /\ \A i \in 1 .. n : made[i] = step[i][made[i - 1]]
  <2>1. PICK S : S = SUBSET boxes
    OBVIOUS
  <2>2. ticked \in S /\ step \in [1 .. n -> [S -> S]]
    BY <1>7, <2>1
  <2>3. \E made : RunsIn(made, S, n, ticked, step)
    BY <1>2, <2>2, InTurnRuns, Zenon
  <2> QED
    BY <1>3, <2>1, <2>3 DEF RunsIn
<1>9. ASSUME NEW i \in 1 .. n
      PROVE  made[i - 1] \in SUBSET boxes /\ made[i] = Set(g[i], made[i - 1])
  <2>1. i - 1 \in 0 .. n
    BY <1>2
  <2>2. made[i - 1] \in SUBSET boxes
    BY <1>8, <2>1
  <2>3. made[i] = step[i][made[i - 1]]
    BY <1>8
  <2> QED
    BY <1>6, <2>2, <2>3
<1>10. ASSUME NEW i \in 1 .. n
       PROVE  /\ on => made[i - 1] \subseteq made[i]
              /\ ~on => made[i] \subseteq made[i - 1]
              /\ \A q \in made[i - 1] \ made[i], s \in made[i] :
                    q # g[i] => q \notin Implies(s)
  <2>1. PICK t \in SUBSET boxes : t = made[i - 1]
    BY <1>9
  <2>2. made[i] = Set(g[i], t)
    BY <1>9, <2>1
  <2>3. CASE g[i] \in boxes
    <3>1. made[i] = Toggle(g[i], on, t)
      BY <1>4, <2>2, <2>3
    <3> QED
      BY <2>1, <2>3, <3>1, ToggleSpares
  <2>4. CASE g[i] \notin boxes
    BY <1>4, <2>1, <2>2, <2>4
  <2> QED
    BY <2>3, <2>4
<1>11. ASSUME NEW q \in GoneUnclicked(Among(g)), NEW s \in ticked'
       PROVE  q \notin Implies(s)
  <2>1. q \in ticked /\ q \notin ticked' /\ q \notin Among(g)
    BY <1>11 DEF GoneUnclicked
  <2>2. PICK i \in 1 .. n : q \in made[i - 1] /\ q \notin made[i]
    BY <1>2, <1>8, <2>1, TakenInTurn
  <2>3. ~on
    <3>1. SUFFICES ASSUME on PROVE FALSE
      OBVIOUS
    <3> QED
      BY <1>10, <2>2, <3>1
  <2>4. made[n] \subseteq made[i]
    <3>1. \A j \in 1 .. n : made[j] \subseteq made[j - 1]
      BY <1>10, <2>3
    <3>2. \A j \in 0 .. n : made[n] \subseteq made[j]
      BY <1>2, <3>1, ShrinksInTurn
    <3> QED
      BY <1>2, <3>2
  <2>5. s \in made[i] /\ q # g[i]
    BY <1>2, <1>8, <2>1, <2>4
  <2> QED
    BY <1>10, <2>2, <2>5
<1>12. ticked' \subseteq boxes
  BY <1>2, <1>8
<1> QED
  BY <1>11, <1>12

-----------------------------------------------------------------------------
(* The types of the roles page.                                            *)

LEMMA TableIs == \A f : f \in Table <=> \E D \in SUBSET Roles : f \in [D -> SUBSET Perms]
BY DEF Table

LEMMA NoRoleRows == <<>> \in Table
<1>1. <<>> \in [{} -> SUBSET Perms]
  OBVIOUS
<1> QED
  BY <1>1, TableIs

LEMMA RightsOfTable ==
    ASSUME NEW f \in Table
    PROVE  DOMAIN f \subseteq Roles /\ \A r \in DOMAIN f : f[r] \subseteq Perms
<1>1. PICK D \in SUBSET Roles : f \in [D -> SUBSET Perms]
  BY TableIs
<1> QED
  BY <1>1

(* A call that has failed, or a change that is done, is one of the calls.  *)
LEMMA AnsweredAskIsAsk ==
    ASSUME NEW c \in RoleAsk, c.ans = "none", NEW ans \in {"ok", "refused", "lost"},
           ans = "ok" => c.kind \notin {"list", "open"}
    PROVE  [c EXCEPT !.ans = ans] \in RoleAsk
<1> DEFINE d == [c EXCEPT !.ans = ans]
<1>1. CASE c \in [kind : {"list"}, ans : {"none", "refused", "lost"},
                  fetch : BOOLEAN, saved : BOOLEAN]
  <2>1. d \in [kind : {"list"}, ans : {"none", "refused", "lost"},
               fetch : BOOLEAN, saved : BOOLEAN]
    BY <1>1
  <2> QED
    BY <2>1, Zenon DEF RoleAsk
<1>2. CASE c \in [kind : {"open"}, ans : {"none", "refused", "lost"},
                  preset : SUBSET Perms]
  <2>1. d \in [kind : {"open"}, ans : {"none", "refused", "lost"},
               preset : SUBSET Perms]
    BY <1>2
  <2> QED
    BY <2>1, Zenon DEF RoleAsk
<1>3. CASE c \in [kind : {"save"}, ans : Answers, role : Roles \cup {NewRole},
                  perms : SUBSET Perms]
  <2>1. d \in [kind : {"save"}, ans : Answers, role : Roles \cup {NewRole},
               perms : SUBSET Perms]
    BY <1>3 DEF Answers
  <2> QED
    BY <2>1, Zenon DEF RoleAsk
<1>4. CASE c \in [kind : {"drop"}, ans : Answers, role : Roles]
  <2>1. d \in [kind : {"drop"}, ans : Answers, role : Roles]
    BY <1>4 DEF Answers
  <2> QED
    BY <2>1, Zenon DEF RoleAsk
<1>5. CASE c \in [kind : {"register", "unregister"}, ans : Answers, perm : Perms]
  <2>1. d \in [kind : {"register", "unregister"}, ans : Answers, perm : Perms]
    BY <1>5 DEF Answers
  <2> QED
    BY <2>1, Zenon DEF RoleAsk
<1> QED
  BY <1>1, <1>2, <1>3, <1>4, <1>5 DEF RoleAsk

LEMMA NewAsks ==
    /\ \A s \in SUBSET Perms : [kind |-> "open", ans |-> "none", preset |-> s] \in RoleAsk
    /\ \A r \in Roles \cup {NewRole}, s \in SUBSET Perms :
          [kind |-> "save", ans |-> "none", role |-> r, perms |-> s] \in RoleAsk
    /\ \A r \in Roles : [kind |-> "drop", ans |-> "none", role |-> r] \in RoleAsk
    /\ \A k \in {"register", "unregister"}, p \in Perms :
          [kind |-> k, ans |-> "none", perm |-> p] \in RoleAsk
BY DEF RoleAsk, Answers

LEMMA ListAskIsTyped == cached \in BOOLEAN => \A b \in BOOLEAN : ListAsk(b) \in RoleAsk
BY DEF ListAsk, RoleAsk

LEMMA AskFields ==
    ASSUME NEW c \in RoleAsk
    PROVE  /\ c.kind = "list" => c.fetch \in BOOLEAN /\ c.saved \in BOOLEAN
           /\ c.kind = "list" /\ c.ans = "ok" => c.rows \in Table
           /\ c.kind \in {"list", "open"} /\ c.ans = "ok" => c.cat \subseteq Perms
           /\ c.kind = "open" => c.preset \subseteq Perms
           /\ c.kind = "save" => c.perms \subseteq Perms /\ c.role \in Roles \cup {NewRole}
           /\ c.kind = "drop" => c.role \in Roles
           /\ c.kind \in {"register", "unregister"} => c.perm \in Perms
<1>1. CASE c \in [kind : {"list"}, ans : {"none", "refused", "lost"},
                  fetch : BOOLEAN, saved : BOOLEAN]
  BY <1>1
<1>2. CASE c \in [kind : {"list"}, ans : {"ok"}, fetch : BOOLEAN, saved : BOOLEAN,
                  rows : Table, cat : SUBSET Perms]
  BY <1>2
<1>3. CASE c \in [kind : {"open"}, ans : {"none", "refused", "lost"},
                  preset : SUBSET Perms]
  BY <1>3
<1>4. CASE c \in [kind : {"open"}, ans : {"ok"}, preset : SUBSET Perms,
                  cat : SUBSET Perms]
  BY <1>4
<1>5. CASE c \in [kind : {"save"}, ans : Answers, role : Roles \cup {NewRole},
                  perms : SUBSET Perms]
  BY <1>5
<1>6. CASE c \in [kind : {"drop"}, ans : Answers, role : Roles]
  BY <1>6
<1>7. CASE c \in [kind : {"register", "unregister"}, ans : Answers, perm : Perms]
  BY <1>7
<1> QED
  BY <1>1, <1>2, <1>3, <1>4, <1>5, <1>6, <1>7, Zenon DEF RoleAsk

LEMMA RoleTypeStep == RoleTypeOK /\ [RoleNext]_roleVars => RoleTypeOK'
<1> SUFFICES ASSUME RoleTypeOK, [RoleNext]_roleVars PROVE RoleTypeOK'
  OBVIOUS
<1> USE RoleAssumption DEF RoleTypeOK
<1>1. ASSUME NEW r \in Roles \cup {NewRole}, NEW s \in SUBSET Perms, ShowRole(r, s)
      PROVE  RoleTypeOK'
  <2>1. asks' \subseteq RoleAsk
    BY <1>1, NewAsks DEF ShowRole, DrawBoxes
  <2>2. boxes' \subseteq Perms /\ ticked' \subseteq boxes'
    BY <1>1 DEF ShowRole, DrawBoxes
  <2> QED
    BY <1>1, <2>1, <2>2 DEF ShowRole, roleServer
<1>2. ASSUME NEW c \in asks, CatalogueArrives(c) PROVE RoleTypeOK'
  <2>1. c \in RoleAsk /\ AnsweredCat(c) \subseteq Perms
    BY <1>2, AskFields DEF CatalogueArrives, AnsweredCat
  <2> QED
    BY <1>2, <2>1 DEF CatalogueArrives, KeepCatalogue, DrawBoxes, roleServer
<1>3. ASSUME NEW c \in asks, RolesArrive(c) PROVE RoleTypeOK'
  <2>1. c \in RoleAsk /\ AnsweredCat(c) \subseteq Perms /\ roleRows' \in Table
    BY <1>3, AskFields, NoRoleRows DEF RolesArrive, AnsweredCat
  <2>2. cached' \in BOOLEAN /\ cache' \subseteq Perms
    BY <1>3, <2>1 DEF RolesArrive, KeepCatalogue
  <2>3. saving' \in BOOLEAN
    BY <1>3 DEF RolesArrive
  <2>4. asks' \subseteq RoleAsk
    BY <1>3 DEF RolesArrive
  <2> QED
    BY <1>3, <2>1, <2>2, <2>3, <2>4 DEF RolesArrive, roleServer
<1>4. ASSUME NEW p \in Perms, ClickBox(p) PROVE RoleTypeOK'
  <2>1. PICK on \in BOOLEAN : on = (p \notin ticked)
    OBVIOUS
  <2>2. ticked' = Toggle(p, on, ticked) /\ p \in boxes
    BY <1>4, <2>1 DEF ClickBox
  <2>3. ticked' \subseteq boxes
    BY <2>2, ToggleSpares
  <2> QED
    BY <1>4, <2>3 DEF ClickBox, roleServer
<1>5. ASSUME NEW g \in Groups, ClickGroup(g) PROVE RoleTypeOK'
  <2>1. ticked' \subseteq boxes
    BY <1>5, GroupSpares
  <2> QED
    BY <1>5, <2>1 DEF ClickGroup, roleServer
<1>6. CASE HideRoleForm
  BY <1>6 DEF HideRoleForm, Hide, roleServer
<1>7. ASSUME NEW n \in RoleAsk, AskChange(n), changes < MaxRoleChanges,
             UNCHANGED <<roleServer, roleRows, cached, cache, roleFormOpen,
                         roleId, boxes, ticked, opened>>, saving' \in BOOLEAN
      PROVE  RoleTypeOK'
  BY <1>7 DEF AskChange, roleServer
<1>8. CASE SubmitRoleForm
  <2>1. [kind |-> "save", ans |-> "none", role |-> roleId, perms |-> ticked] \in RoleAsk
    BY NewAsks
  <2> QED
    BY <1>7, <1>8, <2>1 DEF SubmitRoleForm
<1>9. ASSUME NEW c \in asks, RoleSaveArrives(c) PROVE RoleTypeOK'
  <2>1. asks' \subseteq RoleAsk
    BY <1>9, ListAskIsTyped DEF RoleSaveArrives
  <2>2. roleRows' \in Table
    BY <1>9, NoRoleRows DEF RoleSaveArrives
  <2> QED
    BY <1>9, <2>1, <2>2 DEF RoleSaveArrives, Hide, roleServer
<1>10. ASSUME NEW r \in Roles, DeleteRole(r) PROVE RoleTypeOK'
  <2>1. [kind |-> "drop", ans |-> "none", role |-> r] \in RoleAsk
    BY NewAsks
  <2> QED
    BY <1>7, <1>10, <2>1 DEF DeleteRole, RoleQuiet, roleForm
<1>11. ASSUME NEW p \in Perms, RegisterPermission(p) \/ DeletePermission(p)
       PROVE  RoleTypeOK'
  <2>1. \A k \in {"register", "unregister"} :
           [kind |-> k, ans |-> "none", perm |-> p] \in RoleAsk
    BY NewAsks
  <2> QED
    BY <1>7, <1>11, <2>1 DEF RegisterPermission, DeletePermission, RoleQuiet, roleForm
<1>12. ASSUME NEW c \in asks, ChangeOfRolesArrives(c) PROVE RoleTypeOK'
  <2>1. cached' \in BOOLEAN /\ cache' \subseteq Perms
    BY <1>12 DEF ChangeOfRolesArrives
  <2>2. [ListAsk(FALSE) EXCEPT !.fetch = ~cached'] \in RoleAsk
    BY <2>1 DEF ListAsk, RoleAsk
  <2>3. asks' \subseteq RoleAsk
    BY <1>12, <2>2 DEF ChangeOfRolesArrives
  <2>4. roleRows' \in Table
    BY <1>12, NoRoleRows DEF ChangeOfRolesArrives
  <2> QED
    BY <1>12, <2>1, <2>3, <2>4 DEF ChangeOfRolesArrives, roleServer, roleForm
<1>13. ASSUME NEW c \in asks, NEW n \in RoleAsk, AnswerTo(c, n),
              UNCHANGED <<roleRows, cached, cache, roleForm, changes>>,
              rightsOf' \in Table, known' \subseteq Perms
       PROVE  RoleTypeOK'
  BY <1>13 DEF AnswerTo, roleForm
<1>14. ASSUME NEW c \in asks, ServeCatalogue(c) PROVE RoleTypeOK'
  <2>1. c.preset \subseteq Perms
    BY <1>14, AskFields DEF ServeCatalogue
  <2>2. [kind |-> "open", ans |-> "ok", preset |-> c.preset, cat |-> known] \in RoleAsk
    BY <2>1 DEF RoleAsk
  <2> QED
    BY <1>13, <1>14, <2>2 DEF ServeCatalogue, roleServer
<1>15. ASSUME NEW c \in asks, ServeRoles(c) PROVE RoleTypeOK'
  <2>1. c.fetch \in BOOLEAN /\ c.saved \in BOOLEAN
    BY <1>15, AskFields DEF ServeRoles
  <2>2. [kind |-> "list", ans |-> "ok", fetch |-> c.fetch, saved |-> c.saved,
         rows |-> rightsOf, cat |-> IF c.fetch THEN known ELSE {}] \in RoleAsk
    BY <2>1 DEF RoleAsk
  <2> QED
    BY <1>13, <1>15, <2>2 DEF ServeRoles, roleServer
<1>16. ASSUME NEW c \in asks, ServeChangeOfRoles(c) PROVE RoleTypeOK'
  <2>1. c \in RoleAsk /\ c.ans = "none" /\ c.kind \notin {"list", "open"}
    BY <1>16 DEF ServeChangeOfRoles
  <2>2. [c EXCEPT !.ans = "ok"] \in RoleAsk
    BY <2>1, AnsweredAskIsAsk
  <2>3. \A s : Granted(s) \subseteq Perms
    BY DEF Granted, Expand
  <2>4. PICK D \in SUBSET Roles : rightsOf \in [D -> SUBSET Perms]
    BY TableIs
  <2>5. known' \subseteq Perms
    BY <1>16, <2>1, AskFields DEF ServeChangeOfRoles
  <2>6. \E E \in SUBSET Roles : rightsOf' \in [E -> SUBSET Perms]
    <3>1. CASE c.kind = "save" /\ c.role \in DOMAIN rightsOf
      <4>1. c.role # NewRole
        BY <2>4, <3>1
      <4>2. rightsOf' = [rightsOf EXCEPT ![c.role] = Granted(c.perms)]
        BY <1>16, <3>1, <4>1 DEF ServeChangeOfRoles
      <4>3. rightsOf' \in [D -> SUBSET Perms]
        BY <2>3, <2>4, <4>2
      <4> QED
        BY <4>3
    <3>2. CASE c.kind = "save" /\ c.role = NewRole
      <4>1. PICK r \in Roles \ DOMAIN rightsOf :
               rightsOf' = [q \in DOMAIN rightsOf \cup {r} |->
                              IF q = r THEN Granted(c.perms) ELSE rightsOf[q]]
        BY <1>16, <2>4, <3>2 DEF ServeChangeOfRoles
      <4>2. rightsOf' \in [D \cup {r} -> SUBSET Perms]
        BY <2>3, <2>4, <4>1
      <4> QED
        BY <4>2
    <3>3. CASE c.kind = "drop"
      <4>1. rightsOf' = [q \in DOMAIN rightsOf \ {c.role} |-> rightsOf[q]]
        BY <1>16, <3>3 DEF ServeChangeOfRoles
      <4>2. rightsOf' \in [D \ {c.role} -> SUBSET Perms]
        BY <2>4, <4>1
      <4> QED
        BY <4>2
    <3>4. CASE c.kind = "register"
      BY <1>16, <2>4, <3>4 DEF ServeChangeOfRoles
    <3>5. CASE c.kind = "unregister"
      <4>1. rightsOf' = [r \in DOMAIN rightsOf |-> rightsOf[r] \ {c.perm}]
        BY <1>16, <3>5 DEF ServeChangeOfRoles
      <4>2. rightsOf' \in [D -> SUBSET Perms]
        BY <2>4, <4>1
      <4> QED
        BY <4>2
    <3> QED
      BY <1>16, <3>1, <3>2, <3>3, <3>4, <3>5 DEF ServeChangeOfRoles
  <2>7. rightsOf' \in Table
    BY <2>6, TableIs
  <2> QED
    BY <1>13, <1>16, <2>2, <2>5, <2>7 DEF ServeChangeOfRoles
<1>17. ASSUME NEW c \in asks, FailAsk(c) PROVE RoleTypeOK'
  <2>1. PICK ans \in {"refused", "lost"} : AnswerTo(c, [c EXCEPT !.ans = ans])
    BY <1>17 DEF FailAsk
  <2>2. [c EXCEPT !.ans = ans] \in RoleAsk
    BY <1>17, AnsweredAskIsAsk DEF FailAsk
  <2> QED
    BY <1>13, <1>17, <2>1, <2>2 DEF FailAsk, roleServer
<1>18. CASE UNCHANGED roleVars
  BY <1>18 DEF roleVars, roleForm, roleServer
<1>19. ASSUME NEW r \in DOMAIN roleRows, ShowRole(r, roleRows[r]) PROVE RoleTypeOK'
  BY <1>1, <1>19, RightsOfTable
<1>20. CASE RoleUser
  BY <1>1, <1>4, <1>5, <1>6, <1>8, <1>10, <1>11, <1>19, <1>20 DEF RoleUser, ShowRoleForm
<1>21. CASE RoleServes \/ RoleDelivers
  BY <1>2, <1>3, <1>9, <1>12, <1>14, <1>15, <1>16, <1>17, <1>21
     DEF RoleServes, RoleDelivers
<1> QED
  BY <1>18, <1>20, <1>21 DEF RoleNext

LEMMA RoleTypeHolds == RoleRuns => []RoleTypeOK
<1>1. ASSUME RoleInit PROVE RoleTypeOK
  <2>1. ListAsk(FALSE) \in RoleAsk
    BY <1>1, ListAskIsTyped DEF RoleInit
  <2>2. 0 \in 0 .. MaxRoleChanges
    BY RoleAssumption
  <2>3. opened \subseteq SUBSET Perms /\ ticked \subseteq boxes
    BY <1>1 DEF RoleInit
  <2> QED
    BY <1>1, <2>1, <2>2, <2>3, RoleAssumption, NoRoleRows DEF RoleInit, RoleTypeOK
<1> QED
  BY <1>1, RoleTypeStep, PTL DEF RoleRuns

(* The variables of the roles page keep their types: the boxes are among   *)
(* the permissions there are, and the ticked ones among the boxes, through *)
(* every cascade.                                                          *)
THEOREM RoleTypeCorrect == RoleSpec => []RoleTypeOK
  BY RoleTypeHolds, PTL DEF RoleSpec, RoleRuns

LEMMA SparesHold == RoleRuns => CascadeSparesShared
<1>1. RoleTypeOK /\ [RoleNext]_roleVars =>
         [\A q \in Perms, g \in Groups, s \in ticked' :
            /\ ClickBox(q) => GoneUnclicked({q}) \cap Implies(s) = {}
            /\ ClickGroup(g) => GoneUnclicked(Among(g)) \cap Implies(s) = {}]_roleVars
  <2> SUFFICES ASSUME RoleTypeOK, NEW q \in Perms, NEW g \in Groups, NEW s \in ticked'
               PROVE  /\ ClickBox(q) => GoneUnclicked({q}) \cap Implies(s) = {}
                      /\ ClickGroup(g) => GoneUnclicked(Among(g)) \cap Implies(s) = {}
    OBVIOUS
  <2>1. boxes \subseteq Perms /\ ticked \in SUBSET boxes
    BY DEF RoleTypeOK
  <2>2. ASSUME ClickBox(q) PROVE GoneUnclicked({q}) \cap Implies(s) = {}
    <3>1. PICK on \in BOOLEAN : on = (q \notin ticked)
      OBVIOUS
    <3>2. ticked' = Toggle(q, on, ticked) /\ q \in boxes
      BY <2>2, <3>1 DEF ClickBox
    <3> QED
      BY <2>1, <3>2, ToggleSpares DEF GoneUnclicked
  <2>3. ASSUME ClickGroup(g) PROVE GoneUnclicked(Among(g)) \cap Implies(s) = {}
    BY <2>1, <2>3, GroupSpares
  <2> QED
    BY <2>2, <2>3
<1> QED
  BY <1>1, RoleTypeHolds, PTL DEF RoleRuns, CascadeSparesShared

(* A right that loses its tick without having been clicked, by itself or   *)
(* with its group, is implied by no box that is still ticked, for any      *)
(* permissions, any rules of implication, circular ones too, and any       *)
(* groups (cascadeImpliedCheck, togglePermGroup).                          *)
THEOREM UntickingSpares == RoleSpec => CascadeSparesShared
  BY SparesHold, PTL DEF RoleSpec, RoleRuns

-----------------------------------------------------------------------------
(* --- UserForm ---------------------------------------------------------- *)

(* What replaces a call keeps what it was asked for.                       *)
IsCall(c) ==
    /\ c = [x \in DOMAIN c |-> c[x]]
    /\ "kind" \in DOMAIN c /\ "ans" \in DOMAIN c
    /\ c.ans \in {"none", "ok", "refused", "lost"}
    /\ c.kind = "open" => "user" \in DOMAIN c /\ "role" \in DOMAIN c

(* The roles that are awaited are for the account the form was opened for, *)
(* and the form names it for as long.  Nothing else is awaited, nothing    *)
(* kept and nothing offered by then: a list kept before leaves nothing to  *)
(* await.                                                                  *)
UserInv ==
    /\ kept \in {"nothing", "roles", "error"}
    /\ \A c \in userCalls : IsCall(c)
    /\ \A w \in showing : /\ userTarget = w.user
                          /\ \A c \in OpenCalls : c.user = w.user /\ c.role = w.role
    /\ showing # {} /\ OpenCalls # {} =>
          /\ kept = "nothing" /\ offered = {}
          /\ \A c, d \in OpenCalls : c = d
    /\ OpenCalls = {} => \A w \in showing :
          IF kept = "error" THEN offered = {} ELSE ShowsAll(w)

LEMMA ListCallIsCall == \A b : IsCall(ListUsers(b)) /\ ListUsers(b).kind = "list"
BY DEF IsCall, ListUsers

LEMMA AnsweredCallIsCall ==
    ASSUME NEW c, IsCall(c), NEW ans \in {"ok", "refused", "lost"}
    PROVE  LET n == [c EXCEPT !.ans = ans]
           IN  /\ IsCall(n) /\ n.kind = c.kind
               /\ c.kind = "open" => n.user = c.user /\ n.role = c.role
BY DEF IsCall

(* Steps that leave the form alone and neither await the roles nor bring   *)
(* them.                                                                   *)
UserFormAside ==
    UNCHANGED <<kept, userTarget, offered, roleChosen, emailShown, roleLocked, showing>>

LEMMA UserFormAsideKeeps ==
    ASSUME UserInv, UserFormAside, OpenCalls' = OpenCalls,
           \A c \in userCalls' \ userCalls : IsCall(c)
    PROVE  UserInv'
BY DEF UserInv, UserFormAside, ShowsAll

LEMMA OpenUserStep ==
    ASSUME UserInv, NEW u, NEW role, OpenUser(u, role)
    PROVE  UserInv'
<1> DEFINE w == [user |-> u, role |-> role]
<1>1. /\ userTarget' = u
      /\ showing' = IF OpenCalls = {} THEN {w} ELSE {}
      /\ w.user = u /\ w.role = role
  BY DEF OpenUser
<1> HIDE DEF w
<1>k. kept' = kept /\ kept \in {"nothing", "roles", "error"}
  BY DEF OpenUser, keptCache, UserInv
<1>2. CASE kept = "nothing"
  <2> DEFINE n == [kind |-> "open", ans |-> "none", user |-> u, role |-> role]
  <2>1. IsCall(n) /\ n.kind = "open" /\ n.user = u /\ n.role = role
    BY DEF IsCall
  <2>2. userCalls' = userCalls \cup {n} /\ offered' = {}
    BY <1>2 DEF OpenUser
  <2> HIDE DEF n
  <2>3. OpenCalls' = OpenCalls \cup {n}
    BY <2>1, <2>2 DEF OpenCalls
  <2>4. OpenCalls' # {} /\ \A d \in userCalls' : IsCall(d)
    BY <2>1, <2>2, <2>3 DEF UserInv
  <2>5. CASE OpenCalls # {}
    BY <1>k, <1>1, <2>4, <2>5 DEF UserInv
  <2>6. CASE OpenCalls = {}
    BY <1>k, <1>1, <1>2, <2>1, <2>2, <2>3, <2>4, <2>6 DEF UserInv
  <2> QED
    BY <2>5, <2>6
<1>3. CASE kept = "error"
  <2>1. userCalls' = userCalls /\ offered' = {}
    BY <1>1, <1>3 DEF OpenUser
  <2> QED
    BY <1>k, <1>1, <1>3, <2>1 DEF UserInv, OpenCalls
<1>4. CASE kept = "roles"
  <2>1. /\ userCalls' = userCalls
        /\ offered' = keptRoles
        /\ roleChosen' = IF role \in keptRoles THEN role ELSE TopRole
        /\ emailShown' = u
        /\ roleLocked' = IF u = NewUser THEN roleLocked ELSE u = Self /\ SelfIsRoot
    BY <1>4 DEF OpenUser
  <2>2. OpenCalls' = OpenCalls
    BY <2>1 DEF OpenCalls
  <2>3. CASE OpenCalls # {}
    BY <1>k, <1>1, <2>1, <2>2, <2>3 DEF UserInv
  <2>4. CASE OpenCalls = {}
    <3>1. showing' = {w}
      BY <1>1, <1>4, <2>4
    <3>2. role \in offered' => roleChosen' = role
      BY <2>1
    <3>3. u # NewUser => (roleLocked' <=> u = Self /\ SelfIsRoot)
      BY <2>1
    <3> QED
      BY <1>k, <1>1, <1>4, <2>1, <2>2, <2>4, <3>1, <3>2, <3>3 DEF UserInv, ShowsAll
  <2> QED
    BY <2>3, <2>4
<1> QED
  BY <1>k, <1>2, <1>3, <1>4

LEMMA RoleNamesStep ==
    ASSUME UserInv, NEW c \in userCalls, RoleNamesArrive(c)
    PROVE  UserInv'
<1>1. /\ c \in OpenCalls /\ userCalls' = userCalls \ {c} /\ OpenCalls' = OpenCalls \ {c}
      /\ userTarget' = userTarget
  BY DEF RoleNamesArrive, OpenCalls
<1>a. c.ans \in {"ok", "refused", "lost"}
  BY DEF RoleNamesArrive, UserInv, IsCall
<1>2. CASE c.ans = "refused"
  <2>1. UNCHANGED <<showing, offered>> /\ kept' = "error"
    BY <1>2 DEF RoleNamesArrive
  <2> QED
    BY <1>1, <2>1 DEF UserInv
<1>3. CASE c.ans # "refused"
  <2>1. PICK names : FillForm(c.user, names, c.role)
    BY <1>a, <1>3 DEF RoleNamesArrive
  <2>5. kept' \in {"nothing", "roles", "error"}
    BY <1>a, <1>3 DEF RoleNamesArrive, keptCache, UserInv
  <2>2. showing' = showing
    BY <1>3 DEF RoleNamesArrive
  <2>3. \A w \in showing : c.user = w.user /\ c.role = w.role
    BY <1>1 DEF UserInv
  <2>4. /\ emailShown' = c.user
        /\ c.role \in offered' => roleChosen' = c.role
        /\ c.user # NewUser => (roleLocked' <=> c.user = Self /\ SelfIsRoot)
    BY <2>1 DEF FillForm, Select
  <2>6. showing # {} => kept' # "error" /\ OpenCalls' = {}
    BY <1>1, <1>3, <1>a DEF RoleNamesArrive, keptCache, UserInv
  <2>7. \A w \in showing' : userTarget' = w.user /\ ShowsAll(w)'
    BY <1>1, <2>2, <2>3, <2>4 DEF UserInv, ShowsAll
  <2>8. \A d \in userCalls' : IsCall(d)
    BY <1>1 DEF UserInv
  <2> QED
    BY <2>2, <2>5, <2>6, <2>7, <2>8 DEF UserInv
<1> QED
  BY <1>2, <1>3

LEMMA UserInvStep == UserInv /\ [UserNext]_userVars => UserInv'
<1> SUFFICES ASSUME UserInv, [UserNext]_userVars PROVE UserInv'
  OBVIOUS
<1>1. CASE ShowUserForm \/ \E u \in Accounts : ShowUserEditForm(u)
  BY <1>1, OpenUserStep DEF ShowUserForm, ShowUserEditForm
<1>2. CASE HideUserForm
  BY <1>2 DEF HideUserForm, CloseForm, UserInv, OpenCalls, keptCache
<1>3. CASE SubmitUserForm
  <2> DEFINE n == [kind |-> "save", ans |-> "none", user |-> userTarget,
                   role |-> IF userTarget = Self /\ SelfIsRoot THEN NoRole
                            ELSE roleChosen,
                   email |-> emailShown]
  <2>1. IsCall(n) /\ n.kind = "save"
    BY DEF IsCall
  <2>2. userCalls' = userCalls \cup {n} /\ UserFormAside
    BY <1>3 DEF SubmitUserForm, UserFormAside, keptCache
  <2> HIDE DEF n
  <2>3. OpenCalls' = OpenCalls /\ \A c \in userCalls' \ userCalls : IsCall(c)
    BY <2>1, <2>2 DEF OpenCalls
  <2> QED
    BY <2>2, <2>3, UserFormAsideKeeps
<1>4. ASSUME NEW u \in Accounts, ChangeUser(u) PROVE UserInv'
  <2>1. PICK k \in {"status", "delete"} :
           userCalls' = userCalls \cup {[kind |-> k, ans |-> "none", user |-> u]}
    BY <1>4 DEF ChangeUser
  <2>2. PICK n : n = [kind |-> k, ans |-> "none", user |-> u]
    OBVIOUS
  <2>3. IsCall(n) /\ n.kind # "open"
    BY <2>2 DEF IsCall
  <2>4. userCalls' = userCalls \cup {n} /\ UserFormAside
    BY <1>4, <2>1, <2>2 DEF ChangeUser, UserFormAside, keptCache, formFields
  <2>5. OpenCalls' = OpenCalls /\ \A c \in userCalls' \ userCalls : IsCall(c)
    BY <2>3, <2>4 DEF OpenCalls
  <2> QED
    BY <2>4, <2>5, UserFormAsideKeeps
<1>5. ASSUME NEW r \in RoleNames, ChooseRole(r) \/ RoleAdded(r) PROVE UserInv'
  <2>1. CASE ChooseRole(r)
    BY <2>1 DEF ChooseRole, UserInv, OpenCalls, keptCache
  <2>2. CASE RoleAdded(r)
    <3>1. userCalls' = userCalls /\ UserFormAside /\ OpenCalls' = OpenCalls
      BY <2>2 DEF RoleAdded, userPage, formFields, keptCache, UserFormAside, OpenCalls
    <3> QED
      BY <3>1, UserFormAsideKeeps
  <2> QED
    BY <1>5, <2>1, <2>2
<1>6. ASSUME NEW c \in userCalls, RoleNamesArrive(c) PROVE UserInv'
  BY <1>6, RoleNamesStep
<1>7. ASSUME NEW c \in userCalls, UserSaved(c) PROVE UserInv'
  <2>1. PICK new \in {{}, {ListUsers(TRUE)}} : userCalls' = (userCalls \ {c}) \cup new
    BY <1>7 DEF UserSaved
  <2>2. OpenCalls' = OpenCalls /\ \A d \in userCalls' \ userCalls : IsCall(d)
    BY <1>7, <2>1, ListCallIsCall DEF UserSaved, OpenCalls
  <2>3. CASE c.ans = "ok"
    <3>1. showing' = {} /\ kept' = kept
      BY <1>7, <2>3 DEF UserSaved, CloseForm, keptCache
    <3> QED
      BY <2>2, <3>1 DEF UserInv
  <2>4. CASE c.ans # "ok"
    <3>1. UserFormAside
      BY <1>7, <2>4 DEF UserSaved, UserFormAside, keptCache
    <3> QED
      BY <2>2, <3>1, UserFormAsideKeeps
  <2> QED
    BY <2>3, <2>4
<1>8. ASSUME NEW c \in userCalls, UserChanged(c) \/ UsersArrive(c) PROVE UserInv'
  <2>1. PICK new \in {{}, {ListUsers(FALSE)}} : userCalls' = (userCalls \ {c}) \cup new
    BY <1>8 DEF UserChanged, UsersArrive
  <2>2. c.kind # "open" /\ UserFormAside
    BY <1>8 DEF UserChanged, UsersArrive, UserFormAside, formFields, keptCache
  <2>3. OpenCalls' = OpenCalls /\ \A d \in userCalls' \ userCalls : IsCall(d)
    BY <2>1, <2>2, ListCallIsCall DEF OpenCalls
  <2> QED
    BY <2>2, <2>3, UserFormAsideKeeps
<1>9. ASSUME NEW c \in userCalls, NEW n, Answer(c, n), IsCall(n), n.kind = c.kind,
             c.kind = "open" => n.user = c.user /\ n.role = c.role, UserFormAside
      PROVE  UserInv'
  <2>1. userCalls' = (userCalls \ {c}) \cup {n}
    BY <1>9 DEF Answer
  <2>2. \A d \in OpenCalls' :
           \E e \in OpenCalls : d.user = e.user /\ d.role = e.role
    BY <1>9, <2>1 DEF OpenCalls
  <2>3. OpenCalls' = {} => OpenCalls = {}
    BY <1>9, <2>1 DEF OpenCalls
  <2>4. \/ OpenCalls' = OpenCalls
        \/ OpenCalls' = (OpenCalls \ {c}) \cup {n} /\ c \in OpenCalls
    BY <1>9, <2>1 DEF OpenCalls
  <2>5. (\A d, e \in OpenCalls : d = e) => \A d, e \in OpenCalls' : d = e
    BY <2>4
  <2>6. UNCHANGED <<kept, userTarget, offered, roleChosen, emailShown, roleLocked, showing>>
    BY <1>9 DEF UserFormAside
  <2> QED
    BY <1>9, <2>1, <2>2, <2>3, <2>5, <2>6 DEF UserInv, ShowsAll
<1>10. ASSUME NEW c \in userCalls, ServeUserPage(c) \/ ServeUserChange(c)
       PROVE  UserInv'
  <2>1. IsCall(c) /\ UserFormAside
    BY <1>10 DEF UserInv, ServeUserPage, ServeUserChange, userPage, formFields,
                 keptCache, UserFormAside
  <2>2. PICK n : /\ Answer(c, n)
                 /\ \/ /\ c.kind = "list"
                       /\ n = [kind |-> "list", saved |-> c.saved, ans |-> "ok",
                               rows |-> roleOf]
                    \/ /\ c.kind = "open"
                       /\ n = [kind |-> "open", ans |-> "ok", user |-> c.user,
                               role |-> c.role, names |-> roleNames]
                    \/ \E a \in {"ok", "refused", "lost"} : n = [c EXCEPT !.ans = a]
    BY <1>10 DEF ServeUserPage, ServeUserChange
  <2>3. /\ IsCall(n) /\ n.kind = c.kind
        /\ c.kind = "open" => n.user = c.user /\ n.role = c.role
    <3>1. CASE c.kind = "list" /\ n = [kind |-> "list", saved |-> c.saved, ans |-> "ok",
                                       rows |-> roleOf]
      BY <3>1 DEF IsCall
    <3>2. CASE c.kind = "open" /\ n = [kind |-> "open", ans |-> "ok", user |-> c.user,
                                       role |-> c.role, names |-> roleNames]
      BY <3>2 DEF IsCall
    <3>3. CASE \E a \in {"ok", "refused", "lost"} : n = [c EXCEPT !.ans = a]
      BY <2>1, <3>3, AnsweredCallIsCall
    <3> QED
      BY <2>2, <3>1, <3>2, <3>3
  <2> QED
    BY <1>9, <2>1, <2>2, <2>3
<1>11. CASE UNCHANGED userVars
  BY <1>11 DEF userVars, formFields, keptCache, UserInv, OpenCalls, ShowsAll
<1> QED
  BY <1>1, <1>2, <1>3, <1>4, <1>5, <1>6, <1>7, <1>8, <1>10, <1>11 DEF UserNext

(* A form opened by itself names its account and shows its address, role   *)
(* and lock once no list of roles is awaited, or, where an error was kept  *)
(* in place of the list, names it and offers no role (showUserEditForm),   *)
(* for any accounts, roles and calls under way.                            *)
THEOREM FormShowsItsUser == UserSpec => []SettledUserFormShowsItsUser
<1>1. UserInit => UserInv
  BY ListCallIsCall DEF UserInit, UserInv, OpenCalls
<1>2. UserInv => SettledUserFormShowsItsUser
  BY DEF UserInv, SettledUserFormShowsItsUser
<1> QED
  BY <1>1, <1>2, UserInvStep, PTL DEF UserSpec

-----------------------------------------------------------------------------
(* --- UserForm: types ---------------------------------------------------- *)

LEMMA PeopleAre == \A f : f \in People <=> \E D \in SUBSET Accounts : f \in [D -> RoleNames]
BY DEF People

LEMMA NobodyListed == <<>> \in People
<1>1. <<>> \in [{} -> RoleNames]
  OBVIOUS
<1> QED
  BY <1>1, PeopleAre

LEMMA NewCalls ==
    /\ \A b \in BOOLEAN : ListUsers(b) \in UserCall /\ ListUsers(b).kind = "list"
    /\ \A u \in Somebody, r \in RoleNames :
          [kind |-> "open", ans |-> "none", user |-> u, role |-> r] \in UserCall
    /\ \A u \in Somebody, e \in Somebody, r \in RoleNames \cup {NoRole} :
          [kind |-> "save", ans |-> "none", user |-> u, role |-> r, email |-> e]
             \in UserCall
    /\ \A k \in {"status", "delete"}, u \in Accounts :
          [kind |-> k, ans |-> "none", user |-> u] \in UserCall
BY DEF UserCall, ListUsers

LEMMA CallFields ==
    ASSUME NEW c \in UserCall
    PROVE  /\ c.kind = "list" => c.saved \in BOOLEAN
           /\ c.kind = "list" /\ c.ans = "ok" => c.rows \in People
           /\ c.kind = "open" => c.user \in Somebody /\ c.role \in RoleNames
           /\ c.kind = "open" /\ c.ans = "ok" => c.names \subseteq RoleNames
           /\ c.kind = "save" => c.user \in Somebody /\ c.role \in RoleNames \cup {NoRole}
           /\ c.kind \in {"status", "delete"} => c.user \in Accounts
           /\ c.ans \in {"none", "ok", "refused", "lost"}
<1>1. CASE c \in [kind : {"list"}, saved : BOOLEAN, ans : {"none", "refused", "lost"}]
  BY <1>1
<1>2. CASE c \in [kind : {"list"}, saved : BOOLEAN, ans : {"ok"}, rows : People]
  BY <1>2
<1>3. CASE c \in [kind : {"open"}, ans : {"none", "refused", "lost"}, user : Somebody,
                  role : RoleNames]
  BY <1>3
<1>4. CASE c \in [kind : {"open"}, ans : {"ok"}, user : Somebody, role : RoleNames,
                  names : SUBSET RoleNames]
  BY <1>4
<1>5. CASE c \in [kind : {"save"}, ans : {"none", "ok", "refused", "lost"},
                  user : Somebody, role : RoleNames \cup {NoRole}, email : Somebody]
  BY <1>5
<1>6. CASE c \in [kind : {"status", "delete"},
                  ans : {"none", "ok", "refused", "lost"}, user : Accounts]
  BY <1>6
<1> QED
  BY <1>1, <1>2, <1>3, <1>4, <1>5, <1>6, Zenon DEF UserCall

LEMMA AnsweredCallHasType ==
    ASSUME NEW c \in UserCall, c.ans = "none", NEW ans \in {"ok", "refused", "lost"},
           ans = "ok" => c.kind \notin {"list", "open"}
    PROVE  [c EXCEPT !.ans = ans] \in UserCall
<1> DEFINE d == [c EXCEPT !.ans = ans]
<1>1. CASE c \in [kind : {"list"}, saved : BOOLEAN, ans : {"none", "refused", "lost"}]
  <2>1. d \in [kind : {"list"}, saved : BOOLEAN, ans : {"none", "refused", "lost"}]
    BY <1>1
  <2> QED
    BY <2>1, Zenon DEF UserCall
<1>2. CASE c \in [kind : {"open"}, ans : {"none", "refused", "lost"}, user : Somebody,
                  role : RoleNames]
  <2>1. d \in [kind : {"open"}, ans : {"none", "refused", "lost"}, user : Somebody,
               role : RoleNames]
    BY <1>2
  <2> QED
    BY <2>1, Zenon DEF UserCall
<1>3. CASE c \in [kind : {"save"}, ans : {"none", "ok", "refused", "lost"},
                  user : Somebody, role : RoleNames \cup {NoRole}, email : Somebody]
  <2>1. d \in [kind : {"save"}, ans : {"none", "ok", "refused", "lost"},
               user : Somebody, role : RoleNames \cup {NoRole}, email : Somebody]
    BY <1>3
  <2> QED
    BY <2>1, Zenon DEF UserCall
<1>4. CASE c \in [kind : {"status", "delete"},
                  ans : {"none", "ok", "refused", "lost"}, user : Accounts]
  <2>1. d \in [kind : {"status", "delete"},
               ans : {"none", "ok", "refused", "lost"}, user : Accounts]
    BY <1>4
  <2> QED
    BY <2>1, Zenon DEF UserCall
<1> QED
  BY <1>1, <1>2, <1>3, <1>4 DEF UserCall

(* The role that comes first is among the roles, and among the options as  *)
(* soon as there are any.                                                  *)
TopIsOffered ==
    /\ TopRole \in roleNames
    /\ kept = "roles" => TopRole \in keptRoles
    /\ offered # {} => TopRole \in offered
    /\ \A c \in OpenCalls : c.ans = "ok" => TopRole \in c.names
UserShape == UserTypeOK /\ TopIsOffered

(* Steps that bring no catalogue of roles.                                 *)
LEMMA CallsKeepShape ==
    ASSUME UserShape, userCalls' \subseteq UserCall,
           UNCHANGED <<roleNames, keptCache, offered>>,
           \A c \in userCalls' \ userCalls : c.kind # "open" \/ c.ans # "ok"
    PROVE  TopIsOffered'
BY DEF UserShape, TopIsOffered, OpenCalls, keptCache

LEMMA OpenUserShape ==
    ASSUME UserShape, NEW u \in Somebody, NEW r \in RoleNames, OpenUser(u, r)
    PROVE  UserShape'
<1> USE UserAssumption DEF UserShape, UserTypeOK
<1>1. showing' \subseteq [user : Somebody, role : RoleNames]
  <2>1. [user |-> u, role |-> r] \in [user : Somebody, role : RoleNames]
    OBVIOUS
  <2> QED
    BY <2>1 DEF OpenUser
<1>2. CASE kept = "nothing"
  <2> DEFINE n == [kind |-> "open", ans |-> "none", user |-> u, role |-> r]
  <2>1. n \in UserCall /\ n.ans = "none"
    BY NewCalls
  <2>2. /\ userCalls' = userCalls \cup {n} /\ offered' = {} /\ roleChosen' = NoRole
        /\ UNCHANGED <<emailShown, roleLocked>>
    BY <1>2 DEF OpenUser
  <2> HIDE DEF n
  <2>3. TopIsOffered'
    BY <1>2, <2>1, <2>2 DEF OpenUser, TopIsOffered, OpenCalls, userServer, keptCache
  <2> QED
    BY <1>1, <2>1, <2>2, <2>3 DEF OpenUser, userServer, keptCache
<1>3. CASE kept = "error"
  <2>1. /\ offered' = {} /\ roleChosen' = NoRole
        /\ UNCHANGED <<emailShown, roleLocked, userCalls>>
    BY <1>3 DEF OpenUser
  <2>2. TopIsOffered'
    BY <1>3, <2>1 DEF OpenUser, TopIsOffered, OpenCalls, userServer, keptCache
  <2> QED
    BY <1>1, <2>1, <2>2 DEF OpenUser, userServer, keptCache
<1>4. CASE kept = "roles"
  <2>1. /\ offered' = keptRoles
        /\ roleChosen' = IF r \in keptRoles THEN r ELSE TopRole
        /\ emailShown' = u /\ UNCHANGED userCalls
        /\ roleLocked' = IF u = NewUser THEN roleLocked ELSE u = Self /\ SelfIsRoot
    BY <1>4 DEF OpenUser
  <2>2. TopIsOffered' /\ roleChosen' \in offered' \cup {NoRole}
    BY <1>4, <2>1 DEF OpenUser, TopIsOffered, OpenCalls, userServer, keptCache
  <2>3. roleLocked' \in BOOLEAN
    BY <2>1
  <2> QED
    BY <1>1, <2>1, <2>2, <2>3 DEF OpenUser, userServer, keptCache
<1> QED
  BY <1>2, <1>3, <1>4

LEMMA RoleNamesShape ==
    ASSUME UserShape, NEW c \in userCalls, RoleNamesArrive(c) PROVE UserShape'
<1> USE UserAssumption DEF UserShape, UserTypeOK
<1>1. /\ c \in UserCall /\ c \in OpenCalls
      /\ c.user \in Somebody /\ c.role \in RoleNames
      /\ c.ans \in {"ok", "refused", "lost"}
  BY CallFields DEF RoleNamesArrive, OpenCalls
<1>2. userCalls' = userCalls \ {c} /\ OpenCalls' \subseteq OpenCalls
  BY DEF RoleNamesArrive, OpenCalls
<1>3. /\ showing' \subseteq showing
      /\ UNCHANGED <<userServer, userRows, userFormOpen, userTarget, userSaving, asked>>
  BY DEF RoleNamesArrive
<1>4. ASSUME NEW names \in SUBSET RoleNames, FillForm(c.user, names, c.role),
             names = {} \/ TopRole \in names
      PROVE  /\ offered' = offered \cup names
             /\ offered' # {} => TopRole \in offered'
             /\ roleChosen' \in offered' \cup {NoRole}
             /\ emailShown' \in Somebody /\ roleLocked' \in BOOLEAN
  <2>1. /\ offered' = offered \cup names
        /\ roleChosen' = IF c.role \in offered' THEN c.role
                         ELSE IF offered' # {} THEN TopRole ELSE NoRole
        /\ emailShown' = c.user
        /\ roleLocked' = IF c.user = NewUser THEN roleLocked
                         ELSE c.user = Self /\ SelfIsRoot
    BY <1>4 DEF FillForm, Select
  <2>2. offered' # {} => TopRole \in offered'
    BY <1>4, <2>1 DEF TopIsOffered
  <2> QED
    BY <1>1, <2>1, <2>2
<1>5. CASE c.ans = "ok"
  <2>1. /\ kept' = "roles" /\ keptRoles' = c.names /\ FillForm(c.user, c.names, c.role)
    BY <1>5 DEF RoleNamesArrive
  <2>2. c.names \in SUBSET RoleNames /\ TopRole \in c.names
    BY <1>1, <1>5, CallFields DEF OpenCalls, TopIsOffered
  <2>3. /\ offered' = offered \cup c.names
        /\ offered' # {} => TopRole \in offered'
        /\ roleChosen' \in offered' \cup {NoRole}
        /\ emailShown' \in Somebody /\ roleLocked' \in BOOLEAN
    BY <1>4, <2>1, <2>2
  <2> QED
    BY <1>2, <1>3, <2>1, <2>2, <2>3 DEF TopIsOffered, userServer
<1>6. CASE c.ans = "refused"
  <2>1. /\ kept' = "error" /\ keptRoles' = {}
        /\ UNCHANGED <<offered, roleChosen, emailShown, roleLocked>>
    BY <1>6 DEF RoleNamesArrive
  <2> QED
    BY <1>2, <1>3, <2>1 DEF TopIsOffered, userServer
<1>7. CASE c.ans = "lost"
  <2>1. FillForm(c.user, {}, c.role) /\ UNCHANGED keptCache
    BY <1>7 DEF RoleNamesArrive
  <2>2. /\ offered' = offered \cup {}
        /\ offered' # {} => TopRole \in offered'
        /\ roleChosen' \in offered' \cup {NoRole}
        /\ emailShown' \in Somebody /\ roleLocked' \in BOOLEAN
    <3>1. PICK none \in SUBSET RoleNames : none = {}
      OBVIOUS
    <3>2. FillForm(c.user, none, c.role)
      BY <2>1, <3>1
    <3> QED
      BY <1>4, <3>1, <3>2
  <2> QED
    BY <1>2, <1>3, <2>1, <2>2 DEF TopIsOffered, userServer, keptCache
<1> QED
  BY <1>1, <1>5, <1>6, <1>7

LEMMA UserShapeStep == UserShape /\ [UserNext]_userVars => UserShape'
<1> SUFFICES ASSUME UserShape, [UserNext]_userVars PROVE UserShape'
  OBVIOUS
<1> USE UserAssumption DEF UserShape, UserTypeOK
<1>1. CASE ShowUserForm
  BY <1>1, OpenUserShape DEF ShowUserForm, Somebody
<1>2. ASSUME NEW u \in Accounts, ShowUserEditForm(u) PROVE UserShape'
  <2>1. PICK D \in SUBSET Accounts : userRows \in [D -> RoleNames]
    BY PeopleAre
  <2>2. userRows[u] \in RoleNames /\ u \in Somebody /\ OpenUser(u, userRows[u])
    BY <1>2, <2>1 DEF ShowUserEditForm, Somebody
  <2> QED
    BY <2>2, OpenUserShape
<1>3. ASSUME NEW c \in userCalls, RoleNamesArrive(c) PROVE UserShape'
  BY <1>3, RoleNamesShape
<1>4. ASSUME NEW r \in RoleNames, ChooseRole(r) PROVE UserShape'
  BY <1>4 DEF ChooseRole, TopIsOffered, OpenCalls, userServer, keptCache
<1>5. CASE HideUserForm
  BY <1>5 DEF HideUserForm, CloseForm, TopIsOffered, OpenCalls, userServer, keptCache,
              Somebody
<1>6. CASE SubmitUserForm
  <2> DEFINE n == [kind |-> "save", ans |-> "none", user |-> userTarget,
                   role |-> IF userTarget = Self /\ SelfIsRoot THEN NoRole
                            ELSE roleChosen,
                   email |-> emailShown]
  <2>1. n \in UserCall /\ n.ans = "none"
    BY NewCalls
  <2>2. userCalls' = userCalls \cup {n}
    BY <1>6 DEF SubmitUserForm
  <2> HIDE DEF n
  <2>3. TopIsOffered'
    BY <1>6, <2>1, <2>2, CallsKeepShape DEF SubmitUserForm, userServer
  <2> QED
    BY <1>6, <2>1, <2>2, <2>3 DEF SubmitUserForm, userServer, keptCache, MayAsk
<1>7. ASSUME NEW c \in userCalls, UserSaved(c) PROVE UserShape'
  <2>1. userCalls' \subseteq UserCall
        /\ \A d \in userCalls' \ userCalls : d.kind # "open" \/ d.ans # "ok"
    BY <1>7, NewCalls DEF UserSaved
  <2>2. TopIsOffered'
    BY <1>7, <2>1, CallsKeepShape DEF UserSaved, userServer
  <2> QED
    BY <1>7, <2>1, <2>2 DEF UserSaved, CloseForm, userServer, keptCache, Somebody
<1>8. ASSUME NEW u \in Accounts, ChangeUser(u) PROVE UserShape'
  <2>1. PICK k \in {"status", "delete"} :
           userCalls' = userCalls \cup {[kind |-> k, ans |-> "none", user |-> u]}
    BY <1>8 DEF ChangeUser
  <2> DEFINE n == [kind |-> k, ans |-> "none", user |-> u]
  <2>2. n \in UserCall /\ n.ans = "none"
    BY NewCalls
  <2> HIDE DEF n
  <2>3. userCalls' = userCalls \cup {n}
    BY <2>1 DEF n
  <2>4. TopIsOffered'
    BY <1>8, <2>2, <2>3, CallsKeepShape DEF ChangeUser, userServer, formFields
  <2> QED
    BY <1>8, <2>2, <2>3, <2>4 DEF ChangeUser, userServer, keptCache, formFields
<1>9. ASSUME NEW c \in userCalls, UserChanged(c) PROVE UserShape'
  <2>1. userCalls' \subseteq UserCall
        /\ \A d \in userCalls' \ userCalls : d.kind # "open" \/ d.ans # "ok"
    BY <1>9, NewCalls DEF UserChanged
  <2>2. TopIsOffered'
    BY <1>9, <2>1, CallsKeepShape DEF UserChanged, userServer, formFields
  <2> QED
    BY <1>9, <2>1, <2>2 DEF UserChanged, userServer, keptCache, formFields
<1>10. ASSUME NEW c \in userCalls, UsersArrive(c) PROVE UserShape'
  <2>1. userRows' \in People
    BY <1>10, CallFields, NobodyListed DEF UsersArrive
  <2>2. userCalls' = userCalls \ {c} /\ userSaving' \in BOOLEAN
    BY <1>10 DEF UsersArrive
  <2>3. TopIsOffered'
    BY <1>10, <2>2, CallsKeepShape DEF UsersArrive, userServer
  <2> QED
    BY <1>10, <2>1, <2>2, <2>3 DEF UsersArrive, userServer, keptCache
<1>11. ASSUME NEW c \in userCalls, NEW n \in UserCall, Answer(c, n),
              UNCHANGED <<roleNames, userPage>>, roleOf' \in People,
              n.kind = "open" /\ n.ans = "ok" => TopRole \in n.names
       PROVE  UserShape'
  <2>1. userCalls' = (userCalls \ {c}) \cup {n}
    BY <1>11 DEF Answer
  <2>2. TopIsOffered'
    BY <1>11, <2>1 DEF TopIsOffered, OpenCalls, userPage, keptCache, formFields
  <2> QED
    BY <1>11, <2>1, <2>2 DEF userPage, keptCache, formFields
<1>12. ASSUME NEW c \in userCalls, c.ans = "none",
              NEW ans \in {"ok", "refused", "lost"}, Answer(c, [c EXCEPT !.ans = ans]),
              ans = "ok" => c.kind \notin {"list", "open"},
              UNCHANGED <<roleNames, userPage>>, roleOf' \in People
       PROVE  UserShape'
  <2> DEFINE n == [c EXCEPT !.ans = ans]
  <2>1. n \in UserCall
    BY <1>12, AnsweredCallHasType
  <2>2. n.kind = c.kind /\ n.ans = ans
    <3>1. c \in UserCall
      OBVIOUS
    <3> QED
      BY <3>1 DEF UserCall
  <2>3. n.kind = "open" /\ n.ans = "ok" => TopRole \in n.names
    BY <1>12, <2>2
  <2> HIDE DEF n
  <2> QED
    BY <1>11, <1>12, <2>1, <2>3 DEF n
<1>13. ASSUME NEW c \in userCalls, ServeUserPage(c) PROVE UserShape'
  <2>1. c \in UserCall /\ c.ans = "none" /\ UNCHANGED <<userServer, userPage>>
    BY <1>13 DEF ServeUserPage
  <2>2. UNCHANGED <<roleNames, userPage>> /\ roleOf' \in People
    BY <2>1 DEF userServer
  <2>3. CASE c.kind = "list" /\ Answer(c, [kind |-> "list", saved |-> c.saved,
                                           ans |-> "ok", rows |-> roleOf])
    <3> DEFINE n == [kind |-> "list", saved |-> c.saved, ans |-> "ok", rows |-> roleOf]
    <3>1. n \in UserCall /\ n.kind = "list"
      BY <2>1, <2>3, CallFields DEF UserCall
    <3>2. Answer(c, n)
      BY <2>3
    <3> HIDE DEF n
    <3> QED
      BY <1>11, <2>2, <3>1, <3>2
  <2>4. CASE c.kind = "open" /\ Answer(c, [kind |-> "open", ans |-> "ok",
                 user |-> c.user, role |-> c.role, names |-> roleNames])
    <3> DEFINE n == [kind |-> "open", ans |-> "ok", user |-> c.user, role |-> c.role,
                     names |-> roleNames]
    <3>1. n \in UserCall
      BY <2>1, <2>4, CallFields DEF UserCall
    <3>2. n.names = roleNames /\ TopRole \in roleNames
      BY DEF TopIsOffered
    <3>3. Answer(c, n)
      BY <2>4
    <3> HIDE DEF n
    <3> QED
      BY <1>11, <2>2, <3>1, <3>2, <3>3
  <2>5. CASE \E a \in {"refused", "lost"} : Answer(c, [c EXCEPT !.ans = a])
    BY <1>12, <2>1, <2>2, <2>5
  <2> QED
    BY <1>13, <2>3, <2>4, <2>5 DEF ServeUserPage
<1>14. ASSUME NEW c \in userCalls, ServeUserChange(c) PROVE UserShape'
  <2>1. /\ c \in UserCall /\ c.ans = "none" /\ c.kind \notin {"list", "open"}
        /\ Answer(c, [c EXCEPT !.ans = "ok"]) /\ UNCHANGED <<roleNames, userPage>>
    BY <1>14 DEF ServeUserChange
  <2>2. PICK D \in SUBSET Accounts : roleOf \in [D -> RoleNames]
    BY PeopleAre
  <2>3. \E E \in SUBSET Accounts : roleOf' \in [E -> RoleNames]
    <3>1. CASE c.kind = "save" /\ c.user \in DOMAIN roleOf
      <4>1. c.user # NewUser
        BY <2>2, <3>1
      <4>2. roleOf' = IF c.role = NoRole THEN roleOf
                      ELSE [roleOf EXCEPT ![c.user] = c.role]
        BY <1>14, <3>1, <4>1 DEF ServeUserChange
      <4>3. roleOf' \in [D -> RoleNames]
        BY <2>1, <2>2, <3>1, <4>2, CallFields
      <4> QED
        BY <4>3
    <3>2. CASE c.kind = "save" /\ c.user = NewUser
      <4>1. /\ c.role # NoRole
            /\ \E u \in Accounts \ DOMAIN roleOf :
                  roleOf' = [v \in DOMAIN roleOf \cup {u} |->
                               IF v = u THEN c.role ELSE roleOf[v]]
        BY <1>14, <2>2, <3>2 DEF ServeUserChange
      <4>2. PICK u \in Accounts \ DOMAIN roleOf :
               roleOf' = [v \in DOMAIN roleOf \cup {u} |->
                            IF v = u THEN c.role ELSE roleOf[v]]
        BY <4>1
      <4>3. c.role \in RoleNames
        BY <2>1, <3>2, <4>1, CallFields
      <4>4. roleOf' \in [D \cup {u} -> RoleNames]
        BY <2>2, <4>2, <4>3
      <4> QED
        BY <4>4
    <3>3. CASE c.kind = "status"
      BY <1>14, <2>2, <3>3 DEF ServeUserChange
    <3>4. CASE c.kind = "delete"
      <4>1. roleOf' = [v \in DOMAIN roleOf \ {c.user} |-> roleOf[v]]
        BY <1>14, <3>4 DEF ServeUserChange
      <4>2. roleOf' \in [D \ {c.user} -> RoleNames]
        BY <2>2, <4>1
      <4> QED
        BY <4>2
    <3> QED
      BY <1>14, <3>1, <3>2, <3>3, <3>4 DEF ServeUserChange
  <2>4. roleOf' \in People
    BY <2>3, PeopleAre
  <2> QED
    BY <1>12, <2>1, <2>4
<1>15. ASSUME NEW r \in RoleNames, RoleAdded(r) PROVE UserShape'
  BY <1>15 DEF RoleAdded, TopIsOffered, OpenCalls, userPage, keptCache, formFields
<1>16. CASE UNCHANGED userVars
  BY <1>16 DEF userVars, userServer, keptCache, formFields, TopIsOffered, OpenCalls
<1> QED
  BY <1>1, <1>2, <1>3, <1>4, <1>5, <1>6, <1>7, <1>8, <1>9, <1>10, <1>13, <1>14, <1>15,
     <1>16 DEF UserNext

(* The variables of the users page keep their types; in particular what is *)
(* chosen in the select is always one of its options, or nothing is.       *)
THEOREM UserTypeCorrect == UserSpec => []UserTypeOK
<1>1. ASSUME UserInit PROVE UserShape
  <2>1. ListUsers(FALSE) \in UserCall /\ ListUsers(FALSE).kind = "list"
    BY NewCalls
  <2>2. TopIsOffered
    BY <1>1, <2>1, UserAssumption DEF UserInit, TopIsOffered, OpenCalls
  <2>3. 0 \in 0 .. MaxUserChanges
    BY UserAssumption
  <2> QED
    BY <1>1, <2>1, <2>2, <2>3, UserAssumption, NobodyListed
       DEF UserInit, UserShape, UserTypeOK, Somebody
<1>2. UserShape => UserTypeOK
  BY DEF UserShape
<1> QED
  BY <1>1, <1>2, UserShapeStep, PTL DEF UserSpec

-----------------------------------------------------------------------------
(* --- IntegratedService ------------------------------------------------- *)

(* What an order has read of a service without a token says so: the way    *)
(* "reuse" always has a token to switch on.                                *)
ReadsAreSound == \A o \in orders : o.seen.token # "absent" => o.seen.bound # NoToken
FrozenOnSqlite == Driver = "sqlite" => FrozenTokenIsDead
ServiceInv == ServiceTypeOK /\ ReadsAreSound /\ FrozenOnSqlite

LEMMA StateHasType ==
    ASSUME ServiceTypeOK
    PROVE  State \in States /\ (State.token # "absent" => State.bound # NoToken)
BY DEF ServiceTypeOK, State, States, Kinds

LEMMA NewOrderHasType ==
    ASSUME NEW who \in Admins, NEW what \in {"load", "enable", "disable"},
           NEW said \in Questions
    PROVE  /\ NewOrder(who, what, said) \in Order
           /\ NewOrder(who, what, said).seen.token = "absent"
BY DEF NewOrder, Order, NoState, States, Kinds

(* The requests after a step that replaces or drops one of them.           *)
LEMMA StepKeepsOrders ==
    ASSUME ServiceTypeOK, ReadsAreSound, NEW o \in orders, NEW n \in Order,
           n.seen.token # "absent" => n.seen.bound # NoToken,
           Step(o, n) \/ Place(n)
    PROVE  orders' \subseteq Order /\ ReadsAreSound'
BY DEF ServiceTypeOK, ReadsAreSound, Step, Place

LEMMA ReadStateStep ==
    ASSUME ServiceInv, NEW o \in orders, ReadState(o)
    PROVE  ServiceInv'
<1> DEFINE at == CASE o.what = "load" -> "ok"
                   [] o.what = "enable" -> IF Usable(State) THEN "refused" ELSE "read"
                   [] o.what = "disable" -> IF enabled THEN "read" ELSE "refused"
           n == [o EXCEPT !.seen = State, !.at = at]
<1>1. o \in Order /\ o.what \in {"load", "enable", "disable"}
  BY DEF ServiceInv, ServiceTypeOK, Order
<1>2. at \in {"ok", "refused", "read"}
  BY <1>1
<1>3. State \in States /\ (State.token # "absent" => State.bound # NoToken)
  BY StateHasType DEF ServiceInv
<1> HIDE DEF at
<1>4. n \in Order /\ n.seen = State
  BY <1>1, <1>2, <1>3 DEF Order
<1>5. Step(o, n) /\ UNCHANGED <<serverVars, cardVars, serviceActs, disturbed>>
  BY DEF ReadState, at
<1> HIDE DEF n
<1>6. orders' \subseteq Order /\ ReadsAreSound'
  BY <1>3, <1>4, <1>5 DEF ServiceInv, ServiceTypeOK, ReadsAreSound, Step
<1> QED
  BY <1>5, <1>6 DEF ServiceInv, ServiceTypeOK, FrozenOnSqlite, FrozenTokenIsDead, serverVars, cardVars

LEMMA EnableStep ==
    ASSUME ServiceInv, NEW o \in orders, EnableTransaction(o)
    PROVE  ServiceInv'
<1> USE DEF ServiceInv
<1>1. /\ o \in Order /\ o.seen \in States
      /\ enabled' = TRUE
      /\ UNCHANGED <<burned, card, cardShown, cardTicked, cardLocked, asking, plain,
                     serviceActs, disturbed>>
  BY DEF ServiceTypeOK, Order, EnableTransaction, cardVars
<1>2. CASE WayOf(o.seen) = "reuse"
  <2>1. o.seen.bound \in ServiceTokens
    BY <1>1, <1>2 DEF WayOf, ReadsAreSound, States
  <2>2. /\ token' = [token EXCEPT ![o.seen.bound] = IF @ = "off" THEN "on" ELSE @]
        /\ bound' = o.seen.bound
        /\ Step(o, [o EXCEPT !.at = "reused"])
    BY <1>2 DEF EnableTransaction
  <2>3. token' \in [ServiceTokens -> Kinds] /\ bound' \in ServiceTokens
    BY <2>1, <2>2 DEF ServiceTypeOK, Kinds
  <2>4. [o EXCEPT !.at = "reused"] \in Order /\ [o EXCEPT !.at = "reused"].seen = o.seen
    BY <1>1 DEF Order
  <2>5. orders' \subseteq Order /\ ReadsAreSound'
    BY <2>2, <2>4 DEF ServiceTypeOK, ReadsAreSound, Step
  <2> QED
    BY <1>1, <2>3, <2>5, ServiceAssumption DEF ServiceTypeOK, FrozenOnSqlite, FrozenTokenIsDead
<1>3. CASE WayOf(o.seen) # "reuse"
  <2>1. PICK t \in ServiceTokens :
          /\ bound' = t
          /\ token' = [u \in ServiceTokens |->
                IF u = t THEN "on"
                ELSE IF o.seen.enabled /\ u = o.seen.bound /\ token[u] = "on"
                  THEN "off" ELSE token[u]]
          /\ Step(o, [o EXCEPT !.at = "issued", !.got = t])
    BY <1>3 DEF EnableTransaction
  <2>2. token' \in [ServiceTokens -> Kinds]
    BY <2>1 DEF ServiceTypeOK, Kinds
  <2> DEFINE n == [o EXCEPT !.at = "issued", !.got = t]
  <2>3. n \in Order /\ n.seen = o.seen
    BY <1>1 DEF Order
  <2>4. orders' \subseteq Order /\ ReadsAreSound'
    BY <2>1, <2>3 DEF ServiceTypeOK, ReadsAreSound, Step
  <2> QED
    BY <1>1, <2>1, <2>2, <2>4, ServiceAssumption DEF ServiceTypeOK, FrozenOnSqlite, FrozenTokenIsDead
<1> QED
  BY <1>2, <1>3

LEMMA FindBoundStep ==
    ASSUME ServiceInv, NEW o \in orders, FindBound(o)
    PROVE  ServiceInv'
<1> USE DEF ServiceInv
<1> DEFINE n == [o EXCEPT !.at = "found", !.got = bound]
<1>1. o \in Order /\ n \in Order /\ n.seen = o.seen
  BY DEF ServiceTypeOK, Order
<1>2. Step(o, n) /\ UNCHANGED <<serverVars, cardVars, serviceActs, disturbed>>
  BY DEF FindBound
<1> HIDE DEF n
<1>3. orders' \subseteq Order /\ ReadsAreSound'
  BY <1>1, <1>2 DEF ServiceTypeOK, ReadsAreSound, Step
<1> QED
  BY <1>2, <1>3 DEF ServiceTypeOK, FrozenOnSqlite, FrozenTokenIsDead, serverVars, cardVars

LEMMA DisableStep ==
    ASSUME ServiceInv, NEW o \in orders, DisableTransaction(o)
    PROVE  ServiceInv'
<1> USE DEF ServiceInv
<1>1. /\ o \in Order /\ enabled' = FALSE /\ (Driver = "sqlite" => o.got = bound)
      /\ token' = [t \in ServiceTokens |->
            IF t = o.got /\ token[t] = "on" THEN "off" ELSE token[t]]
      /\ UNCHANGED <<bound, burned, card, cardShown, cardTicked, cardLocked, asking,
                     plain, serviceActs, disturbed>>
  BY DEF ServiceTypeOK, DisableTransaction, Revoked, cardVars
<1>2. token' \in [ServiceTokens -> Kinds] /\ FrozenOnSqlite'
  BY <1>1 DEF ServiceTypeOK, Kinds, FrozenOnSqlite, FrozenTokenIsDead
<1>3. [o EXCEPT !.at = "ok"] \in Order /\ [o EXCEPT !.at = "ok"].seen = o.seen
  BY <1>1 DEF Order
<1>4. orders' \subseteq Order /\ ReadsAreSound'
  BY <1>3 DEF DisableTransaction, ServiceTypeOK, ReadsAreSound, Step
<1> QED
  BY <1>1, <1>2, <1>4 DEF ServiceTypeOK

LEMMA BurnStep ==
    ASSUME ServiceInv, NEW t \in ServiceTokens, BurnToken(t)
    PROVE  ServiceInv'
<1> USE DEF ServiceInv
<1>1. /\ \/ token' = [token EXCEPT ![t] = "off"]
         \/ token' = [token EXCEPT ![t] = "gone"]
      /\ UNCHANGED <<enabled, bound, card, cardTicked, cardLocked, asking, plain>>
      /\ burned' = burned \cup {t} /\ disturbed' = TRUE
      /\ cardShown' \in {cardShown, FALSE}
  BY DEF BurnToken
<1>2. token' \in [ServiceTokens -> Kinds] /\ FrozenOnSqlite'
  BY <1>1 DEF ServiceTypeOK, Kinds, FrozenOnSqlite, FrozenTokenIsDead
<1>3. orders' \subseteq Order /\ ReadsAreSound'
  <2>1. CASE orders' = orders
    BY <2>1 DEF ServiceTypeOK, ReadsAreSound
  <2>2. CASE Place(NewOrder("page", "load", "none"))
    BY <2>2, NewOrderHasType DEF ServiceTypeOK, ReadsAreSound, Place, Admins, Questions
  <2> QED
    BY <2>1, <2>2 DEF BurnToken
<1>4. serviceActs' \in 0 .. MaxServiceActs
  BY ServiceAssumption DEF BurnToken, ServiceAct, ServiceTypeOK
<1> QED
  BY <1>1, <1>2, <1>3, <1>4 DEF ServiceTypeOK

(* The steps of the card, which leave the service and its tokens alone.    *)
LEMMA CardStep ==
    ASSUME ServiceInv, UNCHANGED serverVars,
           orders' \subseteq Order, ReadsAreSound',
           card' \in States, cardShown' \in BOOLEAN, cardTicked' \in BOOLEAN,
           cardLocked' \in BOOLEAN, asking' \in Questions,
           plain' \in ServiceTokens \cup {NoToken},
           serviceActs' \in 0 .. MaxServiceActs, disturbed' \in BOOLEAN
    PROVE  ServiceInv'
BY DEF ServiceInv, ServiceTypeOK, FrozenOnSqlite, FrozenTokenIsDead, serverVars

LEMMA FewerOrders ==
    ASSUME ServiceInv, orders' \subseteq orders
    PROVE  orders' \subseteq Order /\ ReadsAreSound'
BY DEF ServiceInv, ServiceTypeOK, ReadsAreSound

LEMMA ActsAreCounted ==
    ASSUME ServiceTypeOK, ServiceAct PROVE serviceActs' \in 0 .. MaxServiceActs
BY ServiceAssumption DEF ServiceTypeOK, ServiceAct

LEMMA AnsweredStep ==
    ASSUME ServiceInv, NEW o \in orders,
           CardArrives(o) \/ ChangeAnswered(o) \/ OtherIsAnswered(o) \/ LoseOrder(o)
    PROVE  ServiceInv'
<1> USE DEF ServiceInv
<1>1. o \in Order /\ o.seen \in States
  BY DEF ServiceTypeOK, Order
<1>2. CASE CardArrives(o)
  <2>1. orders' \subseteq Order /\ ReadsAreSound'
    BY <1>2, FewerOrders DEF CardArrives
  <2>2. Usable(o.seen) \in BOOLEAN
    BY <1>1 DEF Usable, States
  <2> QED
    BY <1>1, <1>2, <2>1, <2>2, CardStep DEF CardArrives, ServiceTypeOK
<1>3. CASE ChangeAnswered(o)
  <2>1. orders' \subseteq Order /\ ReadsAreSound'
    <3>1. CASE o.at \in {"refused", "lost"}
      BY <1>3, <3>1, FewerOrders DEF ChangeAnswered
    <3>2. CASE o.at \notin {"refused", "lost"}
      <4>1. Step(o, NewOrder("page", "load", "none"))
        BY <1>3, <3>2 DEF ChangeAnswered
      <4> QED
        BY <4>1, NewOrderHasType DEF ServiceTypeOK, ReadsAreSound, Step, Admins, Questions
    <3> QED
      BY <3>1, <3>2
  <2>2. o.got \in ServiceTokens \cup {NoToken} /\ (o.what = "enable") \in BOOLEAN
    BY <1>1 DEF Order
  <2> QED
    BY <1>3, <2>1, <2>2, CardStep DEF ChangeAnswered, GoBack, ServiceTypeOK
<1>4. CASE OtherIsAnswered(o)
  <2>1. orders' \subseteq Order /\ ReadsAreSound'
    BY <1>4, FewerOrders DEF OtherIsAnswered
  <2> QED
    BY <1>4, <2>1, CardStep DEF OtherIsAnswered, ServiceTypeOK, cardVars
<1>5. CASE LoseOrder(o)
  <2> DEFINE n == [o EXCEPT !.at = "lost"]
  <2>1. n \in Order /\ n.seen = o.seen
    BY <1>1 DEF Order
  <2>2. orders' \subseteq Order /\ ReadsAreSound'
    BY <1>5, <2>1 DEF LoseOrder, ServiceTypeOK, ReadsAreSound, Step
  <2> QED
    BY <1>5, <2>2, CardStep DEF LoseOrder, ServiceTypeOK, cardVars
<1> QED
  BY <1>2, <1>3, <1>4, <1>5

LEMMA ClickStep ==
    ASSUME ServiceInv,
           OtherOrders \/ EnterTab \/ Tick_ \/ Decline \/ Accept \/ HideToken
    PROVE  ServiceInv'
<1> USE DEF ServiceInv
<1>1. ASSUME NEW who \in Admins, NEW what \in {"load", "enable", "disable"},
             NEW said \in Questions, Place(NewOrder(who, what, said))
      PROVE  orders' \subseteq Order /\ ReadsAreSound'
  BY <1>1, NewOrderHasType DEF ServiceTypeOK, ReadsAreSound, Place
<1>2. CASE OtherOrders
  <2>1. orders' \subseteq Order /\ ReadsAreSound'
    BY <1>1, <1>2 DEF OtherOrders, Admins, Questions
  <2>2. serviceActs' \in 0 .. MaxServiceActs
    BY <1>2, ActsAreCounted DEF OtherOrders
  <2> QED
    BY <1>2, <2>1, <2>2, CardStep DEF OtherOrders, ServiceTypeOK, cardVars
<1>3. CASE EnterTab
  <2>1. orders' \subseteq Order /\ ReadsAreSound'
    BY <1>1, <1>3 DEF EnterTab, Admins, Questions
  <2>2. serviceActs' \in 0 .. MaxServiceActs
    BY <1>3, ActsAreCounted DEF EnterTab
  <2>3. disturbed' \in BOOLEAN
    BY <1>3 DEF EnterTab, ServiceTypeOK
  <2> QED
    BY <1>3, <2>1, <2>2, <2>3, CardStep DEF EnterTab, ServiceTypeOK
<1>4. CASE Tick_
  <2>1. orders' \subseteq Order /\ ReadsAreSound'
    BY <1>4, FewerOrders DEF Tick_
  <2>2. serviceActs' \in 0 .. MaxServiceActs
    BY <1>4, ActsAreCounted DEF Tick_
  <2>3. asking' \in Questions /\ cardTicked' \in BOOLEAN /\ disturbed' \in BOOLEAN
    BY <1>4 DEF Tick_, Announced, Questions, Ways, ServiceTypeOK
  <2> QED
    BY <1>4, <2>1, <2>2, <2>3, CardStep DEF Tick_, ServiceTypeOK
<1>5. CASE Decline
  <2>1. orders' \subseteq Order /\ ReadsAreSound'
    BY <1>5, FewerOrders DEF Decline
  <2>2. asking' \in Questions /\ cardTicked' \in BOOLEAN /\ cardLocked' \in BOOLEAN
    BY <1>5 DEF Decline, GoBack, Questions
  <2> QED
    BY <1>5, <2>1, <2>2, CardStep DEF Decline, ServiceTypeOK
<1>6. CASE Accept
  <2>1. orders' \subseteq Order /\ ReadsAreSound'
    BY <1>1, <1>6 DEF Accept, ServiceTypeOK, Admins
  <2>2. asking' \in Questions
    BY <1>6 DEF Accept, Questions
  <2> QED
    BY <1>6, <2>1, <2>2, CardStep DEF Accept, ServiceTypeOK
<1>7. CASE HideToken
  <2>1. orders' \subseteq Order /\ ReadsAreSound'
    BY <1>7, FewerOrders DEF HideToken
  <2> QED
    BY <1>7, <2>1, CardStep DEF HideToken, ServiceTypeOK
<1> QED
  BY <1>2, <1>3, <1>4, <1>5, <1>6, <1>7

LEMMA ServiceInvStep == ServiceInv /\ [ServiceNext]_serviceVars => ServiceInv'
<1> SUFFICES ASSUME ServiceInv, [ServiceNext]_serviceVars PROVE ServiceInv'
  OBVIOUS
<1>1. ASSUME NEW o \in orders, OrderGoesOn(o) \/ LoseOrder(o) PROVE ServiceInv'
  BY <1>1, ReadStateStep, EnableStep, FindBoundStep, DisableStep, AnsweredStep
     DEF OrderGoesOn
<1>2. ASSUME NEW t \in ServiceTokens, BurnToken(t) PROVE ServiceInv'
  BY <1>2, BurnStep
<1>3. CASE OtherOrders \/ EnterTab \/ Tick_ \/ Decline \/ Accept \/ HideToken
  BY <1>3, ClickStep
<1>4. CASE UNCHANGED serviceVars
  <2>1. orders' \subseteq Order /\ ReadsAreSound'
    BY <1>4, FewerOrders DEF serviceVars
  <2> QED
    BY <1>4, <2>1 DEF serviceVars, serverVars, cardVars, ServiceInv, ServiceTypeOK,
                      FrozenOnSqlite, FrozenTokenIsDead
<1> QED
  BY <1>1, <1>2, <1>3, <1>4 DEF ServiceNext

LEMMA ServiceInvHolds == ServiceSpec => []ServiceInv
<1>1. ServiceInit => ServiceInv
  <2> SUFFICES ASSUME ServiceInit PROVE ServiceInv
    OBVIOUS
  <2>1. /\ NewOrder("page", "load", "none") \in Order
        /\ NewOrder("page", "load", "none").seen.token = "absent"
    BY NewOrderHasType DEF Admins, Questions
  <2>2. NoState \in States
    BY DEF NoState, States, Kinds
  <2>3. token \in [ServiceTokens -> Kinds] /\ 0 \in 0 .. MaxServiceActs
    BY ServiceAssumption DEF ServiceInit, Kinds
  <2> QED
    BY <2>1, <2>2, <2>3 DEF ServiceInit, ServiceInv, ServiceTypeOK, ReadsAreSound,
                            FrozenOnSqlite, FrozenTokenIsDead, Questions
<1> QED
  BY <1>1, ServiceInvStep, PTL DEF ServiceSpec

(* The variables keep their types, and a service that is on has a token.   *)
THEOREM ServiceTypeCorrect == ServiceSpec => []ServiceTypeOK
<1>1. ServiceInv => ServiceTypeOK
  BY DEF ServiceInv
<1> QED
  BY <1>1, ServiceInvHolds, PTL

(* On SQLite, however many requests read the state and run their           *)
(* transactions later, in whatever order, the token bound to a service     *)
(* that is off is off.                                                     *)
THEOREM FrozenForGood ==
    ASSUME Driver = "sqlite"
    PROVE  ServiceSpec => []FrozenTokenIsDead
<1>1. ServiceInv => FrozenTokenIsDead
  BY DEF ServiceInv, FrozenOnSqlite
<1> QED
  BY <1>1, ServiceInvHolds, PTL
-----------------------------------------------------------------------------
(* While nothing has come between, at most one exchange of the page is     *)
(* under way.  Without one the card shows the row as it is, and an open    *)
(* dialog asks about the row as it is; with one no dialog is open, and     *)
(* until its transaction it is about the row as it is.                     *)
CardIsTrue ==
    /\ cardShown /\ card = State
    /\ asking = "none" => cardTicked = Usable(State) /\ ~cardLocked
    /\ asking # "none" =>
          asking = IF Usable(State) THEN "disable" ELSE Announced(State)

LoadIsTrue(o) == o.at = "sent" \/ (o.at = "ok" /\ o.seen = State)

EnableIsAnnounced(o) ==
    \/ o.at = "sent" /\ ~Usable(State) /\ o.said = WayOf(State)
    \/ o.at = "read" /\ o.said = WayOf(o.seen)
    \/ o.at \in {"reused", "issued"}

DisableIsInOrder(o) == (o.at = "sent" /\ enabled) \/ o.at \in {"read", "found", "ok"}

Exchange(o) ==
    /\ o.by = "page"
    /\ o.what = "load" => LoadIsTrue(o)
    /\ o.what = "enable" => EnableIsAnnounced(o)
    /\ o.what = "disable" => DisableIsInOrder(o)

Calm ==
    \/ orders = {} /\ CardIsTrue
    \/ \E o \in Order : orders = {o} /\ asking = "none" /\ Exchange(o)

CalmInv == ~disturbed => Calm

LEMMA TheOneExchange ==
    ASSUME CalmInv, ~disturbed, NEW o \in orders
    PROVE  orders = {o} /\ asking = "none" /\ Exchange(o)
BY DEF CalmInv, Calm

LEMMA NewLoadIsTrue ==
    ASSUME orders' = {NewOrder("page", "load", "none")}, asking' = "none"
    PROVE  Calm'
<1> DEFINE n == NewOrder("page", "load", "none")
<1>1. n \in Order /\ n.by = "page" /\ n.what = "load" /\ n.at = "sent"
  BY NewOrderHasType DEF NewOrder, Admins, Questions
<1> HIDE DEF n
<1>2. Exchange(n)'
  BY <1>1 DEF Exchange, LoadIsTrue
<1> QED
  BY <1>1, <1>2 DEF Calm, n

LEMMA CalmReadState ==
    ASSUME ServiceInv, CalmInv, NEW o \in orders, ReadState(o)
    PROVE  CalmInv'
<1> SUFFICES ASSUME ~disturbed' PROVE Calm'
  BY DEF CalmInv
<1>1. o \in Order /\ o.what \in {"load", "enable", "disable"} /\ o.at = "sent"
  BY DEF ServiceInv, ServiceTypeOK, Order, ReadState
<1>2. orders = {o} /\ asking = "none" /\ Exchange(o)
  BY TheOneExchange DEF ReadState
<1>3. State \in States /\ State' = State
  BY StateHasType DEF ServiceInv, ReadState, serverVars, State
<1>4. PICK at : at = CASE o.what = "load" -> "ok"
                   [] o.what = "enable" -> IF Usable(State) THEN "refused" ELSE "read"
                   [] o.what = "disable" -> IF enabled THEN "read" ELSE "refused"
  OBVIOUS
<1>5. PICK n : n = [o EXCEPT !.seen = State, !.at = at]
  OBVIOUS
<1>6. /\ o.what = "load" => at = "ok"
      /\ o.what # "load" => at = "read"
  BY <1>1, <1>2, <1>4 DEF Exchange, EnableIsAnnounced, DisableIsInOrder
<1>7. orders' = {n} /\ asking' = "none"
  BY <1>2, <1>4, <1>5 DEF ReadState, Step, cardVars
<1>8. /\ n \in Order /\ n.seen = State /\ n.at = at /\ n.by = o.by
      /\ n.what = o.what /\ n.said = o.said
  BY <1>1, <1>3, <1>5, <1>6 DEF Order
<1>9. Exchange(n)'
  BY <1>1, <1>2, <1>3, <1>6, <1>8
     DEF Exchange, LoadIsTrue, EnableIsAnnounced, DisableIsInOrder
<1> QED
  BY <1>7, <1>8, <1>9 DEF Calm

LEMMA CalmTransaction ==
    ASSUME ServiceInv, CalmInv, NEW o \in orders,
           EnableTransaction(o) \/ FindBound(o) \/ DisableTransaction(o)
    PROVE  CalmInv'
<1> SUFFICES ASSUME ~disturbed' PROVE Calm'
  BY DEF CalmInv
<1>1. o \in Order
  BY DEF ServiceInv, ServiceTypeOK
<1>b. ~disturbed /\ asking' = asking
  <2>1. CASE EnableTransaction(o)
    BY <2>1 DEF EnableTransaction, cardVars
  <2>2. CASE DisableTransaction(o)
    BY <2>2 DEF DisableTransaction, cardVars
  <2>3. CASE FindBound(o)
    BY <2>3 DEF FindBound, cardVars
  <2> QED
    BY <2>1, <2>2, <2>3
<1>2. orders = {o} /\ asking' = "none" /\ Exchange(o)
  BY <1>b, TheOneExchange
<1>3. CASE EnableTransaction(o)
  <2>1. PICK n : /\ orders' = {n}
                 /\ \/ n = [o EXCEPT !.at = "reused"]
                    \/ \E t \in ServiceTokens : n = [o EXCEPT !.at = "issued", !.got = t]
    BY <1>2, <1>3 DEF EnableTransaction, Step
  <2>2. /\ n \in Order /\ n.by = o.by /\ n.what = "enable"
        /\ n.at \in {"reused", "issued"}
    BY <1>1, <1>3, <2>1 DEF Order, EnableTransaction
  <2>3. Exchange(n)'
    BY <1>2, <2>2 DEF Exchange, EnableIsAnnounced
  <2> QED
    BY <1>2, <2>1, <2>2, <2>3 DEF Calm
<1>4. CASE DisableTransaction(o)
  <2> DEFINE n == [o EXCEPT !.at = "ok"]
  <2>1. n \in Order /\ n.by = o.by /\ n.what = "disable" /\ n.at = "ok"
    BY <1>1, <1>4 DEF Order, DisableTransaction
  <2>2. orders' = {n}
    BY <1>2, <1>4 DEF DisableTransaction, Step
  <2> HIDE DEF n
  <2>3. Exchange(n)'
    BY <1>2, <2>1 DEF Exchange, DisableIsInOrder
  <2> QED
    BY <1>2, <2>1, <2>2, <2>3 DEF Calm
<1>5. CASE FindBound(o)
  <2>0. PICK n : n = [o EXCEPT !.at = "found", !.got = bound]
    OBVIOUS
  <2>1. n \in Order /\ n.by = o.by /\ n.what = "disable" /\ n.at = "found"
    BY <1>1, <1>5, <2>0 DEF Order, FindBound, ServiceInv, ServiceTypeOK
  <2>2. orders' = {n}
    BY <1>2, <1>5, <2>0 DEF FindBound, Step
  <2>3. Exchange(n)'
    BY <1>2, <2>1 DEF Exchange, DisableIsInOrder
  <2> QED
    BY <1>2, <2>1, <2>2, <2>3 DEF Calm
<1> QED
  BY <1>3, <1>4, <1>5

LEMMA CalmAnswered ==
    ASSUME ServiceInv, CalmInv, NEW o \in orders,
           CardArrives(o) \/ ChangeAnswered(o) \/ OtherIsAnswered(o) \/ LoseOrder(o)
    PROVE  CalmInv'
<1> SUFFICES ASSUME ~disturbed' PROVE Calm'
  BY DEF CalmInv
<1>1. o \in Order /\ disturbed \in BOOLEAN
  BY DEF ServiceInv, ServiceTypeOK
<1>2. CASE CardArrives(o)
  <2>1. orders = {o} /\ asking = "none" /\ o.at = "ok" /\ o.seen = State
    <3>1. CASE disturbed
      BY <1>1, <1>2, <3>1 DEF CardArrives
    <3>2. CASE ~disturbed
      BY <1>2, <3>2, TheOneExchange DEF CardArrives, Exchange, LoadIsTrue
    <3> QED
      BY <3>1, <3>2
  <2>2. State' = State /\ asking' = "none" /\ orders' = {}
    BY <1>2, <2>1 DEF CardArrives, serverVars, State
  <2> QED
    BY <1>2, <2>1, <2>2 DEF CardArrives, Calm, CardIsTrue
<1>3. CASE ChangeAnswered(o)
  <2>1. orders = {o} /\ asking = "none" /\ Exchange(o)
    BY <1>3, TheOneExchange DEF ChangeAnswered
  <2>2. o.at \notin {"refused", "lost"}
    BY <1>3, <2>1 DEF ChangeAnswered, Exchange, EnableIsAnnounced, DisableIsInOrder
  <2> QED
    BY <1>3, <2>1, <2>2, NewLoadIsTrue DEF ChangeAnswered, Step
<1>4. CASE OtherIsAnswered(o)
  BY <1>4, TheOneExchange DEF OtherIsAnswered, Exchange
<1>5. CASE LoseOrder(o)
  BY <1>5 DEF LoseOrder
<1> QED
  BY <1>2, <1>3, <1>4, <1>5

LEMMA CalmClick ==
    ASSUME ServiceInv, CalmInv, EnterTab \/ Tick_ \/ Decline \/ Accept \/ HideToken
    PROVE  CalmInv'
<1> SUFFICES ASSUME ~disturbed' PROVE Calm'
  BY DEF CalmInv
<1>1. State' = State
  BY DEF EnterTab, Tick_, Decline, Accept, HideToken, serverVars, State
<1>2. ~disturbed
  BY DEF EnterTab, Tick_, Decline, Accept, HideToken, ServiceInv, ServiceTypeOK
<1>3. CASE EnterTab
  BY <1>2, <1>3, NewLoadIsTrue DEF EnterTab, Place
<1>4. CASE Tick_
  <2>1. orders = {} /\ CardIsTrue /\ asking = "none"
    BY <1>2, <1>4 DEF Tick_, CalmInv, Calm
  <2>2. cardTicked = Usable(State) /\ cardTicked' = ~Usable(State)
    BY <1>4, <2>1 DEF Tick_, CardIsTrue
  <2>3. asking' = IF Usable(State) THEN "disable" ELSE Announced(State)
    BY <1>4, <2>1, <2>2 DEF Tick_, CardIsTrue
  <2>4. asking' # "none" /\ cardShown' = cardShown /\ card' = card /\ orders' = orders
    BY <1>4, <2>3 DEF Tick_, Announced
  <2> QED
    BY <1>1, <2>1, <2>3, <2>4 DEF Calm, CardIsTrue
<1>5. CASE Decline
  <2>1. orders = {} /\ CardIsTrue /\ asking # "none"
    BY <1>2, <1>5 DEF Decline, CalmInv, Calm
  <2>2. (asking = "disable") = Usable(State)
    BY <2>1 DEF CardIsTrue, Announced, Usable
  <2>3. cardTicked' = Usable(State) /\ ~cardLocked'
    BY <1>5, <2>2 DEF Decline, GoBack
  <2>4. asking' = "none" /\ cardShown' = cardShown /\ card' = card /\ orders' = orders
    BY <1>5 DEF Decline
  <2> QED
    BY <1>1, <2>1, <2>3, <2>4 DEF Calm, CardIsTrue
<1>6. CASE Accept
  <2>1. orders = {} /\ CardIsTrue /\ asking # "none"
    BY <1>2, <1>6 DEF Accept, CalmInv, Calm
  <2>0. PICK what : what = IF asking = "disable" THEN "disable" ELSE "enable"
    OBVIOUS
  <2>9. PICK n : n = NewOrder("page", what, asking)
    OBVIOUS
  <2>2. /\ n \in Order /\ n.by = "page" /\ n.what = what /\ n.said = asking
        /\ n.at = "sent"
    BY <2>0, <2>9, NewOrderHasType DEF NewOrder, Admins, ServiceInv, ServiceTypeOK
  <2>3. orders' = {n} /\ asking' = "none"
    BY <1>6, <2>0, <2>1, <2>9 DEF Accept, Place
  <2>4. asking = "disable" => enabled'
    BY <1>6, <2>1 DEF CardIsTrue, Announced, Usable, State, Accept, serverVars
  <2>5. asking # "disable" => ~Usable(State') /\ asking = WayOf(State')
    BY <1>1, <2>1 DEF CardIsTrue, Announced, Usable, WayOf
  <2>6. Exchange(n)'
    BY <1>1, <2>0, <2>2, <2>4, <2>5 DEF Exchange, EnableIsAnnounced, DisableIsInOrder
  <2> QED
    BY <2>2, <2>3, <2>6 DEF Calm
<1>7. CASE HideToken
  BY <1>1, <1>2, <1>7
     DEF HideToken, serverVars, CalmInv, Calm, CardIsTrue, Exchange, LoadIsTrue,
         EnableIsAnnounced, DisableIsInOrder
<1> QED
  BY <1>3, <1>4, <1>5, <1>6, <1>7

LEMMA CalmInvStep == ServiceInv /\ CalmInv /\ [ServiceNext]_serviceVars => CalmInv'
<1> SUFFICES ASSUME ServiceInv, CalmInv, [ServiceNext]_serviceVars PROVE CalmInv'
  OBVIOUS
<1>1. ASSUME NEW o \in orders, OrderGoesOn(o) \/ LoseOrder(o) PROVE CalmInv'
  BY <1>1, CalmReadState, CalmTransaction, CalmAnswered DEF OrderGoesOn
<1>2. CASE OtherOrders \/ \E t \in ServiceTokens : BurnToken(t)
  BY <1>2 DEF OtherOrders, BurnToken, CalmInv
<1>3. CASE EnterTab \/ Tick_ \/ Decline \/ Accept \/ HideToken
  BY <1>3, CalmClick
<1>4. CASE UNCHANGED serviceVars
  BY <1>4 DEF serviceVars, serverVars, cardVars, State, CalmInv, Calm, CardIsTrue,
              Exchange, LoadIsTrue, EnableIsAnnounced, DisableIsInOrder
<1> QED
  BY <1>1, <1>2, <1>3, <1>4 DEF ServiceNext

LEMMA CalmInvHolds == ServiceSpec => []CalmInv
<1>1. ServiceInit => CalmInv
  <2> SUFFICES ASSUME ServiceInit PROVE Calm
    BY DEF CalmInv
  <2> DEFINE n == NewOrder("page", "load", "none")
  <2>1. n \in Order /\ Exchange(n)
    BY NewOrderHasType DEF NewOrder, Exchange, LoadIsTrue, Admins, Questions
  <2> QED
    BY <2>1 DEF ServiceInit, Calm
<1> QED
  BY <1>1, CalmInvStep, ServiceInvHolds, PTL DEF ServiceSpec

(* The way an enabling takes is the one its dialog announced, for any      *)
(* number of tokens, as long as nobody else changed the service or its     *)
(* token since the card was drawn (onIntegratedServiceToggle against the   *)
(* branch of IntegratedServiceController::enable).                         *)
THEOREM AnnouncedWayIsTaken == ServiceSpec => []WayIsAnnounced
<1>1. CalmInv => WayIsAnnounced
  BY TheOneExchange DEF WayIsAnnounced, Exchange, EnableIsAnnounced
<1> QED
  BY <1>1, CalmInvHolds, PTL

(* The box of a card at rest is ticked exactly when the service can be     *)
(* used, and can be clicked, after any dialogs accepted or declined.       *)
THEOREM BoxShowsTheService == ServiceSpec => []RestingCardIsTrue
<1>1. CalmInv => RestingCardIsTrue
  BY DEF CalmInv, Calm, CardIsTrue, RestingCardIsTrue
<1> QED
  BY <1>1, CalmInvHolds, PTL
=============================================================================
