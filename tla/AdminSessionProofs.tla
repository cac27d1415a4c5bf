-------------------------- MODULE AdminSessionProofs --------------------------
(***************************************************************************)
(* Theorems about the session of the console, for any accounts, tabs and   *)
(* number of logins and requests.                                          *)
(***************************************************************************)
EXTENDS AdminSession, TLAPS

(* The two copies of the session (core/auth.js) agree: a reload at any     *)
(* moment goes on with the session the console showed.  Only the answers   *)
(* of a login and of the permissions, logging out and reloading touch      *)
(* either, and each touches both.                                          *)
LEMMA CopiesStep == StoredSessionIsTheShownOne /\ [Next]_vars
                        => StoredSessionIsTheShownOne'
<1> SUFFICES ASSUME StoredSessionIsTheShownOne, [Next]_vars
             PROVE  StoredSessionIsTheShownOne'
  OBVIOUS
<1> USE DEF StoredSessionIsTheShownOne
<1>1. UNCHANGED client => StoredSessionIsTheShownOne'
  BY DEF client
<1>2. ASSUME ClearSession PROVE StoredSessionIsTheShownOne'
  BY <1>2 DEF ClearSession, NoSession
<1>3. ASSUME NEW f \in flights, PermsArrive(f) PROVE StoredSessionIsTheShownOne'
  BY <1>1, <1>2, <1>3 DEF PermsArrive
<1>4. ASSUME NEW f \in flights, Answered(f) PROVE StoredSessionIsTheShownOne'
  <2>1. CASE LoginAnswered(f)
    BY <2>1 DEF LoginAnswered
  <2>2. CASE LoginCompletes(f) \/ BootCompletes(f)
    BY <1>3, <2>2 DEF LoginCompletes, BootCompletes
  <2>3. CASE RefusedArrives(f)
    BY <1>2, <2>3 DEF RefusedArrives, DoLogout
  <2>4. CASE PasswordChanged(f)
    BY <1>1, <2>4 DEF PasswordChanged
  <2> QED
    BY <1>4, <2>1, <2>2, <2>3, <2>4 DEF Answered
<1>5. ASSUME NEW f \in flights, Served(f) \/ LoseFlight(f) PROVE UNCHANGED client
  BY <1>5 DEF Served, LoseFlight, ServeLogin, ServePerms, ServeLoad, ServeLogout,
              ServePassword
<1>6. CASE Reload
  BY <1>6 DEF Reload
<1>7. CASE UserLogsOut \/ LogoutTimerFires
  BY <1>2, <1>7 DEF UserLogsOut, LogoutTimerFires, DoLogout
<1>8. CASE \/ \E u \in Users : SubmitLogin(u)
           \/ \E t \in Tabs : Navigate(t)
           \/ \E t \in Tabs \cup {Elsewhere} : HashChange(t)
           \/ \E t \in Tokens : SessionEnds(t)
           \/ AutoRefresh \/ SubmitPassword \/ UNCHANGED vars
  <2>1. UNCHANGED client
    BY <1>8 DEF SubmitLogin, Navigate, HashChange, SessionEnds, AutoRefresh,
                SubmitPassword, vars
  <2> QED
    BY <1>1, <2>1
<1> QED
  BY <1>1, <1>4, <1>5, <1>6, <1>7, <1>8 DEF Next

(* At every moment sessionStorage holds the session the console shows.     *)
THEOREM CopiesAgree == Spec => []StoredSessionIsTheShownOne
<1>1. Init => StoredSessionIsTheShownOne
  BY DEF Init, StoredSessionIsTheShownOne, NoSession
<1> QED
  BY <1>1, CopiesStep, PTL DEF Spec

-----------------------------------------------------------------------------
(* What requests are made of.                                              *)
LoginsNameUsers == \A f \in flights : f.kind = "login" => f.user \in Users
TypeInv == SessTypeOK /\ LoginsNameUsers

LEMMA RequestHasType ==
    ASSUME token \in Tokens, NEW k \in Kinds
    PROVE  /\ Request(k) \in Flight
           /\ Request(k).kind = k /\ Request(k).tok = token /\ Request(k).ans = "none"
BY SessionAssumption DEF Request, Flight, Tokens

LEMMA AskPermsHasType ==
    ASSUME token \in Tokens, NEW t \in Tokens, NEW next \in {"login", "boot"},
           NEW m \in BOOLEAN
    PROVE  AskPerms(t, next, m) \in Flight /\ AskPerms(t, next, m).kind = "perms"
<1>1. Request("perms") \in Flight /\ Request("perms").kind = "perms"
  BY RequestHasType DEF Kinds
<1> QED
  BY <1>1 DEF AskPerms, Flight

LEMMA LoadsHaveType ==
    ASSUME token \in Tokens, NEW tok \in Tokens, NEW t, NEW l \in LoadsOf(t, tok)
    PROVE  l \in Flight /\ l.kind = "load"
<1>1. Request("load") \in Flight /\ Request("load").kind = "load"
  BY RequestHasType DEF Kinds
<1> QED
  BY <1>1 DEF LoadsOf, Flight

LEMMA LogoutsHaveType ==
    ASSUME token \in Tokens, NEW l \in LogoutRequest
    PROVE  l \in Flight /\ l.kind = "logout" /\ l.tok = token /\ token # 0
BY RequestHasType DEF LogoutRequest, Kinds

(* The requests may become fewer, and more by others than logins.          *)
LEMMA FlightsKeepType ==
    ASSUME TypeInv,
           \A f \in flights' : f \in flights \/ (f \in Flight /\ f.kind # "login")
    PROVE  flights' \subseteq Flight /\ LoginsNameUsers'
BY DEF TypeInv, SessTypeOK, LoginsNameUsers

ClientTyped ==
    /\ token \in Tokens /\ user \in Users \cup {NoUser}
    /\ must \in BOOLEAN /\ perms \subseteq Rights
    /\ store \in [token : Tokens, user : Users \cup {NoUser},
                  must : BOOLEAN, perms : SUBSET Rights]
ScreenTyped ==
    /\ page \in {"login", "app"} /\ tab \in Tabs
    /\ hash \in Tabs \cup {Elsewhere}
    /\ menu \subseteq Tabs
    /\ pullTimer \in BOOLEAN /\ logoutTimer \in BOOLEAN
ServerTyped ==
    /\ sessions \in [Tokens -> Users \cup {NoUser}]
    /\ srvMust \in [Users -> BOOLEAN]
    /\ issued \in Tokens

LEMMA TypeInParts ==
    TypeInv <=> /\ ClientTyped /\ ScreenTyped /\ ServerTyped
                /\ flights \subseteq Flight /\ LoginsNameUsers
BY DEF TypeInv, SessTypeOK, ClientTyped, ScreenTyped, ServerTyped

LEMMA TypeInPartsNext ==
    TypeInv' <=> /\ ClientTyped' /\ ScreenTyped' /\ ServerTyped'
                 /\ (flights \subseteq Flight)' /\ LoginsNameUsers'
BY DEF TypeInv, SessTypeOK, ClientTyped, ScreenTyped, ServerTyped

LEMMA PartsUnchanged ==
    ASSUME TypeInv
    PROVE  /\ UNCHANGED client => ClientTyped'
           /\ UNCHANGED screen => ScreenTyped'
           /\ UNCHANGED server => ServerTyped'
BY TypeInParts DEF client, screen, server, ClientTyped, ScreenTyped, ServerTyped

LEMMA SwitchHasType ==
    ASSUME NEW t, DoSwitch(t)
    PROVE  tab' \in Tabs /\ pullTimer' \in BOOLEAN
<1>1. tab' \in Tabs
  BY SessionAssumption DEF DoSwitch, Whitelisted
<1>2. pullTimer' \in BOOLEAN
  BY Zenon DEF DoSwitch
<1> QED
  BY <1>1, <1>2

LEMMA ClearedHasType ==
    ASSUME ClearSession PROVE ClientTyped' /\ token' = 0
<1>1. 0 \in Tokens
  BY SessionAssumption DEF Tokens
<1>2. NoSession \in [token : Tokens, user : Users \cup {NoUser},
                     must : BOOLEAN, perms : SUBSET Rights]
  BY <1>1 DEF NoSession
<1> QED
  BY <1>1, <1>2 DEF ClearSession, ClientTyped

LEMMA PermsArriveType ==
    ASSUME TypeInv, NEW f \in flights, PermsArrive(f)
    PROVE  ClientTyped'
<1>1. f.rights \subseteq Rights
  BY DEF TypeInv, SessTypeOK, Flight
<1> QED
  BY <1>1, TypeInParts, ClearedHasType, PartsUnchanged DEF PermsArrive, ClientTyped

LEMMA AfterPermsType ==
    ASSUME TypeInv, NEW f \in flights, NEW t, AfterPerms(f, t), ClientTyped',
           page' \in {"login", "app"}
    PROVE  TypeInv'
<1>1. ScreenTyped'
  BY TypeInParts, SwitchHasType DEF AfterPerms, Menu, ScreenTyped
<1>2. token \in Tokens /\ token' \in Tokens
  BY TypeInParts DEF ClientTyped
<1>3. flights' \subseteq Flight /\ LoginsNameUsers'
  BY <1>2, FlightsKeepType, LoadsHaveType, LogoutsHaveType DEF AfterPerms
<1> QED
  BY <1>1, <1>3, TypeInPartsNext, PartsUnchanged DEF AfterPerms

LEMMA LogoutType ==
    ASSUME TypeInv, NEW rest \in SUBSET flights, DoLogout(rest),
           logoutTimer' \in BOOLEAN
    PROVE  TypeInv'
<1>1. ClientTyped'
  BY ClearedHasType DEF DoLogout
<1>2. ScreenTyped'
  BY TypeInParts DEF DoLogout, ScreenTyped
<1>3. flights' \subseteq Flight /\ LoginsNameUsers'
  BY FlightsKeepType, LogoutsHaveType, TypeInParts DEF DoLogout, ClientTyped
<1> QED
  BY <1>1, <1>2, <1>3, TypeInPartsNext, PartsUnchanged DEF DoLogout

LEMMA AnsweredType ==
    ASSUME TypeInv, NEW f \in flights, Answered(f)
    PROVE  TypeInv'
<1>0. f \in Flight /\ token \in Tokens
  BY TypeInParts DEF ClientTyped
<1>1. CASE LoginAnswered(f)
  <2>1. f.new \in Tokens /\ f.user \in Users \cup {NoUser} /\ f.must \in BOOLEAN
    BY <1>0 DEF Flight
  <2>2. ClientTyped'
    BY <1>1, <2>1, TypeInParts DEF LoginAnswered, ClientTyped
  <2>3. flights' \subseteq Flight /\ LoginsNameUsers'
    BY <1>0, <1>1, <2>1, AskPermsHasType, FlightsKeepType DEF LoginAnswered
  <2> QED
    BY <1>1, <2>2, <2>3, TypeInPartsNext, PartsUnchanged DEF LoginAnswered
<1>2. CASE LoginCompletes(f)
  BY <1>2, PermsArriveType, AfterPermsType DEF LoginCompletes
<1>3. CASE BootCompletes(f)
  <2>1. page' \in {"login", "app"}
    BY <1>3, TypeInParts DEF BootCompletes, ScreenTyped
  <2> QED
    BY <1>3, <2>1, PermsArriveType, AfterPermsType DEF BootCompletes
<1>4. CASE RefusedArrives(f)
  BY <1>4, LogoutType, TypeInParts DEF RefusedArrives, ScreenTyped
<1>5. CASE PasswordChanged(f)
  <2>1. flights' \subseteq Flight /\ LoginsNameUsers'
    BY <1>5, FlightsKeepType DEF PasswordChanged
  <2>2. ScreenTyped'
    BY <1>5, TypeInParts DEF PasswordChanged, ScreenTyped
  <2> QED
    BY <1>5, <2>1, <2>2, TypeInPartsNext, PartsUnchanged DEF PasswordChanged
<1> QED
  BY <1>1, <1>2, <1>3, <1>4, <1>5 DEF Answered

LEMMA ServedType ==
    ASSUME TypeInv, NEW f \in flights, Served(f) \/ LoseFlight(f)
    PROVE  TypeInv'
<1>0. f \in Flight /\ (f.kind = "login" => f.user \in Users)
  BY TypeInParts DEF LoginsNameUsers
<1>1. \A a \in {"none", "ok", "401", "403"} :
        [f EXCEPT !.ans = a] \in Flight /\ [f EXCEPT !.ans = a].kind = f.kind
  BY <1>0 DEF Flight
<1>2. CASE ServeLogin(f)
  <2>1. f.user \in Users /\ issued + 1 \in Tokens /\ srvMust[f.user] \in BOOLEAN
    BY <1>0, <1>2, TypeInParts, SessionAssumption DEF ServeLogin, ServerTyped, Tokens
  <2> DEFINE n == [f EXCEPT !.ans = "ok", !.new = issued + 1, !.must = srvMust[f.user]]
  <2>2. n \in Flight /\ n.user = f.user
    BY <1>0, <2>1 DEF Flight
  <2>3. flights' = (flights \ {f}) \cup {n}
    BY <1>2 DEF ServeLogin
  <2>4. flights' \subseteq Flight /\ LoginsNameUsers'
    BY <2>1, <2>2, <2>3, TypeInParts DEF LoginsNameUsers
  <2>5. ServerTyped'
    BY <1>2, <2>1, TypeInParts DEF ServeLogin, ServerTyped
  <2> QED
    BY <1>2, <2>4, <2>5, TypeInPartsNext, PartsUnchanged DEF ServeLogin
<1>3. CASE ServePerms(f)
  <2>1. ASSUME NEW a \in {"none", "ok", "401", "403"}, Serve(f, a)
        PROVE  flights' \subseteq Flight /\ LoginsNameUsers'
    BY <1>1, <1>3, <2>1, FlightsKeepType DEF Serve, ServePerms
  <2>2. ASSUME Live(f.tok)
        PROVE  [f EXCEPT !.ans = "ok", !.rights = RightsOf[sessions[f.tok]]] \in Flight
    <3>1. sessions[f.tok] \in Users
      BY <1>0, <2>2, TypeInParts DEF Live, ServerTyped, Flight
    <3>2. RightsOf[sessions[f.tok]] \subseteq Rights
      BY <3>1 DEF Rights
    <3> QED
      BY <1>0, <3>2 DEF Flight
  <2>3. [f EXCEPT !.ans = "ok", !.rights = RightsOf[sessions[f.tok]]].kind = f.kind
    BY <1>0 DEF Flight
  <2>4. flights' \subseteq Flight /\ LoginsNameUsers'
    BY <1>3, <2>1, <2>2, <2>3, FlightsKeepType DEF ServePerms
  <2> QED
    BY <1>3, <2>4, TypeInPartsNext, PartsUnchanged DEF ServePerms
<1>4. CASE ServeLoad(f)
  <2>1. flights' \subseteq Flight /\ LoginsNameUsers'
    BY <1>1, <1>4, FlightsKeepType DEF ServeLoad
  <2> QED
    BY <1>4, <2>1, TypeInPartsNext, PartsUnchanged DEF ServeLoad
<1>5. CASE ServeLogout(f)
  <2>1. flights' \subseteq Flight /\ LoginsNameUsers'
    BY <1>5, FlightsKeepType DEF ServeLogout
  <2>2. ServerTyped'
    BY <1>5, TypeInParts DEF ServeLogout, ServerTyped
  <2> QED
    BY <1>5, <2>1, <2>2, TypeInPartsNext, PartsUnchanged DEF ServeLogout
<1>6. CASE ServePassword(f)
  <2>1. flights' \subseteq Flight /\ LoginsNameUsers'
    BY <1>1, <1>6, FlightsKeepType DEF ServePassword, Serve
  <2>2. ServerTyped'
    BY <1>6, TypeInParts DEF ServePassword, ServerTyped
  <2> QED
    BY <1>6, <2>1, <2>2, TypeInPartsNext, PartsUnchanged DEF ServePassword
<1>7. CASE LoseFlight(f)
  <2>1. flights' \subseteq Flight /\ LoginsNameUsers'
    BY <1>1, <1>7, FlightsKeepType DEF LoseFlight
  <2> QED
    BY <1>7, <2>1, TypeInPartsNext, PartsUnchanged DEF LoseFlight
<1> QED
  BY <1>2, <1>3, <1>4, <1>5, <1>6, <1>7 DEF Served

LEMMA UserType ==
    ASSUME TypeInv,
           \/ \E u \in Users : SubmitLogin(u)
           \/ \E t \in Tabs : Navigate(t)
           \/ \E t \in Tabs \cup {Elsewhere} : HashChange(t)
           \/ \E t \in Tokens : SessionEnds(t)
           \/ Reload \/ AutoRefresh \/ UserLogsOut \/ SubmitPassword
           \/ LogoutTimerFires
    PROVE  TypeInv'
<1>0. token \in Tokens
  BY TypeInParts DEF ClientTyped
<1>1. ASSUME NEW u \in Users, SubmitLogin(u) PROVE TypeInv'
  <2> DEFINE n == [Request("login") EXCEPT !.tok = 0, !.user = u]
  <2>1. Request("login") \in Flight /\ 0 \in Tokens
    BY <1>0, RequestHasType, SessionAssumption DEF Kinds, Tokens
  <2>2. n \in Flight /\ n.user = u
    BY <2>1 DEF Flight
  <2>3. flights' \subseteq Flight /\ LoginsNameUsers'
    BY <1>1, <2>2, TypeInParts DEF SubmitLogin, LoginsNameUsers
  <2> QED
    BY <1>1, <2>3, TypeInPartsNext, PartsUnchanged DEF SubmitLogin
<1>2. ASSUME NEW t \in Tabs \cup {Elsewhere}, Navigate(t) \/ HashChange(t)
      PROVE  TypeInv'
  <2>1. PICK shown : DoSwitch(shown) /\ flights' = flights \cup LoadsOf(shown, token)
    BY <1>2 DEF Navigate, HashChange
  <2>2. flights' \subseteq Flight /\ LoginsNameUsers'
    BY <1>0, <2>1, FlightsKeepType, LoadsHaveType
  <2>3. UNCHANGED <<client, page, menu, logoutTimer, server>> /\ hash' = t
    BY <1>2 DEF Navigate, HashChange
  <2>4. ScreenTyped'
    BY <2>1, <2>3, SwitchHasType, TypeInParts DEF ScreenTyped
  <2> QED
    BY <2>2, <2>3, <2>4, TypeInPartsNext, PartsUnchanged
<1>3. ASSUME NEW t \in Tokens, SessionEnds(t) PROVE TypeInv'
  <2>1. ServerTyped'
    BY <1>3, TypeInParts DEF SessionEnds, ServerTyped
  <2>2. flights' \subseteq Flight /\ LoginsNameUsers'
    BY <1>3, FlightsKeepType DEF SessionEnds
  <2> QED
    BY <1>3, <2>1, <2>2, TypeInPartsNext, PartsUnchanged DEF SessionEnds
<1>4. CASE Reload
  <2>1. store.token \in Tokens /\ ClientTyped'
    BY <1>4, TypeInParts DEF Reload, ClientTyped
  <2>2. ScreenTyped'
    BY <1>4, TypeInParts, SessionAssumption DEF Reload, ScreenTyped
  <2>3. flights' \subseteq Flight /\ LoginsNameUsers'
    BY <1>0, <1>4, <2>1, FlightsKeepType, AskPermsHasType DEF Reload
  <2> QED
    BY <1>4, <2>1, <2>2, <2>3, TypeInPartsNext, PartsUnchanged DEF Reload
<1>5. CASE AutoRefresh
  <2>1. flights' \subseteq Flight /\ LoginsNameUsers'
    BY <1>0, <1>5, FlightsKeepType, LoadsHaveType DEF AutoRefresh
  <2> QED
    BY <1>5, <2>1, TypeInPartsNext, PartsUnchanged DEF AutoRefresh
<1>6. CASE UserLogsOut \/ LogoutTimerFires
  BY <1>6, LogoutType, TypeInParts DEF UserLogsOut, LogoutTimerFires, ScreenTyped
<1>7. CASE SubmitPassword
  <2>1. Request("password") \in Flight /\ Request("password").kind = "password"
    BY <1>0, RequestHasType DEF Kinds
  <2>2. flights' \subseteq Flight /\ LoginsNameUsers'
    BY <1>7, <2>1, FlightsKeepType DEF SubmitPassword
  <2> QED
    BY <1>7, <2>2, TypeInPartsNext, PartsUnchanged DEF SubmitPassword
<1> QED
  BY <1>1, <1>2, <1>3, <1>4, <1>5, <1>6, <1>7

LEMMA TypeStep == TypeInv /\ [Next]_vars => TypeInv'
<1>1. ASSUME TypeInv, UNCHANGED vars PROVE TypeInv'
  BY <1>1, FlightsKeepType, TypeInPartsNext, PartsUnchanged DEF vars
<1> QED
  BY <1>1, AnsweredType, ServedType, UserType DEF Next

LEMMA TypeHolds == Spec => []TypeInv
<1>1. Init => TypeInv
  <2> SUFFICES ASSUME Init PROVE TypeInv
    OBVIOUS
  <2>1. 0 \in Tokens /\ "monitor" \in Tabs
    BY SessionAssumption DEF Tokens
  <2>2. ClientTyped
    BY <2>1 DEF Init, NoSession, ClientTyped
  <2>3. ScreenTyped
    BY <2>1 DEF Init, ScreenTyped
  <2>4. srvMust \in [Users -> BOOLEAN]
    BY DEF Init
  <2>5. sessions \in [Tokens -> Users \cup {NoUser}] /\ issued \in Tokens
    BY <2>1 DEF Init
  <2> QED
    BY <2>2, <2>3, <2>4, <2>5, TypeInParts DEF Init, ServerTyped, LoginsNameUsers
<1> QED
  BY <1>1, TypeStep, PTL DEF Spec

(* The session, the screen, the requests and the server keep their types,  *)
(* and no more tokens are issued than logins are allowed.                  *)
THEOREM SessionTypeCorrect == Spec => []SessTypeOK
<1>1. TypeInv => SessTypeOK
  BY DEF TypeInv
<1> QED
  BY <1>1, TypeHolds, PTL

-----------------------------------------------------------------------------
(* A token is issued once and goes to one answer.  It is then held by the  *)
(* console, and after that by requests to log out, never by two of these   *)
(* at a time: the tokens of the answers to come (Coming) are new, distinct *)
(* and named nowhere else.                                                 *)
Coming(f) == f.kind = "login" /\ f.ans = "ok"
Parting(f) == f.kind = "logout"
TokensPast ==
    /\ token \in 0 .. issued
    /\ \A f \in flights : /\ Coming(f) => f.new \in 1 .. issued /\ f.new # token
                          /\ Parting(f) => f.tok \in 1 .. issued
TokensDistinct ==
    /\ \A f, g \in flights : Coming(f) /\ Coming(g) /\ f.new = g.new => f = g
    /\ \A f, g \in flights : Coming(f) /\ Parting(g) => f.new # g.tok
TokenInv == TokensPast /\ TokensDistinct /\ LogoutNamesADroppedSession

(* Neither an answer of a login nor a request to log out.                  *)
Bystander(f) == ~Coming(f) /\ ~Parting(f)

LEMMA BystandersKeepTokens ==
    ASSUME TokenInv, UNCHANGED <<token, issued>>,
           \A f \in flights' : f \in flights \/ Bystander(f)
    PROVE  TokenInv'
BY DEF TokenInv, TokensPast, TokensDistinct, LogoutNamesADroppedSession, Bystander,
       Coming, Parting

(* doLogout and its likes: the token is dropped and its session named in a *)
(* request.                                                                *)
LEMMA DroppingKeepsTokens ==
    ASSUME TypeInv, TokenInv, token' = 0, UNCHANGED issued,
           \A f \in flights' : f \in flights \/ Bystander(f) \/ f \in LogoutRequest
    PROVE  TokenInv'
<1>1. token \in Tokens /\ token \in 0 .. issued /\ issued \in Nat
  BY SessionAssumption DEF TypeInv, SessTypeOK, TokenInv, TokensPast, Tokens
<1>2. \A f \in LogoutRequest : Parting(f) /\ ~Coming(f) /\ f.tok = token /\ token # 0
  BY <1>1, LogoutsHaveType DEF Parting, Coming
<1>3. TokensPast'
  BY <1>1, <1>2 DEF TokenInv, TokensPast, Bystander
<1>4. TokensDistinct'
  BY <1>1, <1>2 DEF TokenInv, TokensPast, TokensDistinct, Bystander
<1>5. LogoutNamesADroppedSession'
  BY <1>1, <1>2 DEF TokenInv, LogoutNamesADroppedSession, Bystander, Parting
<1> QED
  BY <1>3, <1>4, <1>5 DEF TokenInv

LEMMA AfterPermsTokens ==
    ASSUME TypeInv, TokenInv, NEW f \in flights, NEW t, PermsArrive(f), AfterPerms(f, t),
           TypeInv'
    PROVE  TokenInv'
<1>1. \A l \in LoadsOf(t, token') : Bystander(l)
  BY LoadsHaveType DEF TypeInv, SessTypeOK, Bystander, Coming, Parting
<1>2. CASE f.ans = "401"
  <2>1. token' = 0
    BY <1>2 DEF PermsArrive, ClearSession
  <2> QED
    BY <1>1, <2>1, DroppingKeepsTokens DEF AfterPerms, server
<1>3. CASE f.ans # "401"
  <2>1. token' = token
    BY <1>3 DEF PermsArrive, client
  <2> QED
    BY <1>1, <1>3, <2>1, BystandersKeepTokens DEF AfterPerms, server
<1> QED
  BY <1>2, <1>3

LEMMA LoginTokens ==
    ASSUME TypeInv, TokenInv, NEW f \in flights, LoginAnswered(f)
    PROVE  TokenInv'
<1>1. /\ Coming(f) /\ token' = f.new /\ issued' = issued
      /\ f.new \in 1 .. issued /\ issued \in Nat
  BY SessionAssumption DEF LoginAnswered, Coming, server, TokenInv, TokensPast, TypeInv,
                           SessTypeOK, Tokens
<1>2. /\ AskPerms(f.new, "login", f.must).kind = "perms"
      /\ flights' = (flights \ {f}) \cup {AskPerms(f.new, "login", f.must)}
  BY <1>1, AskPermsHasType DEF LoginAnswered, TypeInv, SessTypeOK, Flight
<1>3. \A g \in flights' : (g \in flights /\ g # f) \/ Bystander(g)
  BY <1>2 DEF Bystander, Coming, Parting
<1>4. \A g \in flights' : /\ Coming(g) => g.new # f.new
                          /\ Parting(g) => g.tok # f.new
  BY <1>1, <1>3 DEF TokenInv, TokensDistinct, Bystander
<1>5. TokensPast'
  BY <1>1, <1>3, <1>4 DEF TokenInv, TokensPast, Bystander
<1>6. TokensDistinct'
  BY <1>3 DEF TokenInv, TokensDistinct, Bystander
<1>7. LogoutNamesADroppedSession'
  BY <1>1, <1>3, <1>4 DEF TokenInv, TokensPast, LogoutNamesADroppedSession, Bystander,
                          Parting
<1> QED
  BY <1>5, <1>6, <1>7 DEF TokenInv

LEMMA IssueTokens ==
    ASSUME TypeInv, TokenInv, NEW f \in flights, ServeLogin(f)
    PROVE  TokenInv'
<1> DEFINE n == [f EXCEPT !.ans = "ok", !.new = issued + 1, !.must = srvMust[f.user]]
<1>1. n.kind = "login" /\ n.new = issued + 1
  BY DEF ServeLogin, TypeInv, SessTypeOK, Flight
<1>2. flights' = (flights \ {f}) \cup {n}
  BY DEF ServeLogin
<1> HIDE DEF n
<1>3. token' = token /\ issued' = issued + 1 /\ issued \in Nat /\ token \in 0 .. issued
  BY SessionAssumption DEF ServeLogin, client, TypeInv, SessTypeOK, Tokens, TokenInv, TokensPast
<1>4. TokensPast'
  BY <1>1, <1>2, <1>3 DEF TokenInv, TokensPast, Coming, Parting
<1>5. TokensDistinct'
  BY <1>1, <1>2, <1>3 DEF TokenInv, TokensPast, TokensDistinct, Coming, Parting
<1>6. LogoutNamesADroppedSession'
  BY <1>1, <1>2, <1>3 DEF TokenInv, LogoutNamesADroppedSession
<1> QED
  BY <1>4, <1>5, <1>6 DEF TokenInv

LEMMA AnsweredTokens ==
    ASSUME TypeInv, TokenInv, NEW f \in flights, Answered(f)
    PROVE  TokenInv'
<1>1. CASE LoginAnswered(f)
  BY <1>1, LoginTokens
<1>2. CASE LoginCompletes(f) \/ BootCompletes(f)
  <2>1. TypeInv'
    BY AnsweredType
  <2>2. PermsArrive(f) /\ \E t : AfterPerms(f, t)
    BY <1>2 DEF LoginCompletes, BootCompletes
  <2> QED
    BY <2>1, <2>2, AfterPermsTokens
<1>3. CASE RefusedArrives(f)
  BY <1>3, DroppingKeepsTokens DEF RefusedArrives, DoLogout, ClearSession, server
<1>4. CASE PasswordChanged(f)
  BY <1>4, BystandersKeepTokens DEF PasswordChanged, client, server
<1> QED
  BY <1>1, <1>2, <1>3, <1>4 DEF Answered

LEMMA ServedTokens ==
    ASSUME TypeInv, TokenInv, NEW f \in flights, Served(f) \/ LoseFlight(f)
    PROVE  TokenInv'
<1>0. f \in Flight
  BY DEF TypeInv, SessTypeOK
<1>1. CASE ServeLogin(f)
  BY <1>1, IssueTokens
<1>2. CASE \/ ServePerms(f) \/ ServeLoad(f) \/ ServePassword(f)
           \/ ServeLogout(f) \/ LoseFlight(f)
  <2>1. UNCHANGED <<token, issued>>
    BY <1>2 DEF ServePerms, ServeLoad, ServePassword, ServeLogout, LoseFlight, client, server
  <2>2. \A e : [f EXCEPT !.ans = e].kind = f.kind
    BY <1>0 DEF Flight
  <2>3. \A g \in flights' :
          g \in flights \/ (f.kind \in {"perms", "load", "password"} /\ g.kind = f.kind)
    <3>0. ASSUME NEW a, Serve(f, a), f.kind \in {"perms", "password"}
          PROVE  \A g \in flights' : g \in flights \/ g.kind = f.kind
      BY <2>2, <3>0 DEF Serve
    <3>1. CASE ServePerms(f)
      <4>1. CASE flights' = (flights \ {f}) \cup
                   {[f EXCEPT !.ans = "ok", !.rights = RightsOf[sessions[f.tok]]]}
        <5> DEFINE n == [f EXCEPT !.ans = "ok", !.rights = RightsOf[sessions[f.tok]]]
        <5>1. n.kind = f.kind
          BY <1>0 DEF Flight
        <5> HIDE DEF n
        <5>2. flights' = (flights \ {f}) \cup {n}
          BY <4>1 DEF n
        <5> QED
          BY <3>1, <5>1, <5>2 DEF ServePerms
      <4> QED
        BY <3>0, <3>1, <4>1 DEF ServePerms
    <3>2. CASE ServeLoad(f) \/ ServeLogout(f)
      BY <2>2, <3>2 DEF ServeLoad, ServeLogout
    <3>3. CASE ServePassword(f)
      BY <3>0, <3>3 DEF ServePassword
    <3>4. CASE LoseFlight(f)
      BY <2>2, <3>4 DEF LoseFlight
    <3> QED
      BY <1>2, <3>1, <3>2, <3>3, <3>4
  <2> QED
    BY <2>1, <2>3, BystandersKeepTokens DEF Bystander, Coming, Parting
<1> QED
  BY <1>1, <1>2 DEF Served

LEMMA UserTokens ==
    ASSUME TypeInv, TokenInv, StoredSessionIsTheShownOne,
           \/ \E u \in Users : SubmitLogin(u)
           \/ \E t \in Tabs : Navigate(t)
           \/ \E t \in Tabs \cup {Elsewhere} : HashChange(t)
           \/ \E t \in Tokens : SessionEnds(t)
           \/ Reload \/ AutoRefresh \/ UserLogsOut \/ SubmitPassword
           \/ LogoutTimerFires
    PROVE  TokenInv'
<1>0. token \in Tokens
  BY DEF TypeInv, SessTypeOK
<1> USE DEF Bystander, Coming, Parting, client, server
<1>1. ASSUME NEW u \in Users, SubmitLogin(u) PROVE TokenInv'
  <2>1. Request("login") \in Flight /\ Request("login").ans = "none"
                                    /\ Request("login").kind = "login"
    BY <1>0, RequestHasType DEF Kinds
  <2>2. Bystander([Request("login") EXCEPT !.tok = 0, !.user = u])
    BY <2>1 DEF Flight
  <2> QED
    BY <1>1, <2>2, BystandersKeepTokens DEF SubmitLogin
<1>2. ASSUME NEW t \in Tabs \cup {Elsewhere}, Navigate(t) \/ HashChange(t)
      PROVE  TokenInv'
  <2>1. PICK shown : flights' = flights \cup LoadsOf(shown, token)
    BY <1>2 DEF Navigate, HashChange
  <2>2. UNCHANGED <<token, issued>>
    BY <1>2 DEF Navigate, HashChange
  <2> QED
    BY <1>0, <2>1, <2>2, LoadsHaveType, BystandersKeepTokens
<1>3. ASSUME NEW t \in Tokens, SessionEnds(t) PROVE TokenInv'
  BY <1>3, BystandersKeepTokens DEF SessionEnds
<1>4. CASE Reload
  <2>1. token' = token /\ UNCHANGED issued
    BY <1>4 DEF Reload, StoredSessionIsTheShownOne
  <2>2. store.token = token
    BY DEF StoredSessionIsTheShownOne
  <2>3. \A f \in flights' : f \in flights \/ Bystander(f)
    BY <1>0, <1>4, <2>2, AskPermsHasType DEF Reload
  <2> QED
    BY <2>1, <2>3, BystandersKeepTokens
<1>5. CASE AutoRefresh
  BY <1>0, <1>5, LoadsHaveType, BystandersKeepTokens DEF AutoRefresh
<1>6. CASE UserLogsOut \/ LogoutTimerFires
  BY <1>6, DroppingKeepsTokens DEF UserLogsOut, LogoutTimerFires, DoLogout, ClearSession
<1>7. CASE SubmitPassword
  <2>1. Request("password").kind = "password"
    BY <1>0, RequestHasType DEF Kinds
  <2> QED
    BY <1>7, <2>1, BystandersKeepTokens DEF SubmitPassword
<1> QED
  BY <1>1, <1>2, <1>3, <1>4, <1>5, <1>6, <1>7

LEMMA TokenStep ==
    TypeInv /\ StoredSessionIsTheShownOne /\ TokenInv /\ [Next]_vars => TokenInv'
<1>1. ASSUME TokenInv, UNCHANGED vars PROVE TokenInv'
  BY <1>1, BystandersKeepTokens DEF vars, client, server
<1> QED
  BY <1>1, AnsweredTokens, ServedTokens, UserTokens DEF Next

(* A request to log out names a session, and never the one the console     *)
(* shows: however logins, refusals, reloads and clicks overlap, no session *)
(* just opened is revoked.                                                 *)
THEOREM NoLiveLogout == Spec => []LogoutNamesADroppedSession
<1>1. Init => TokenInv
  BY DEF Init, TokenInv, TokensPast, TokensDistinct, LogoutNamesADroppedSession
<1>2. TokenInv => LogoutNamesADroppedSession
  BY DEF TokenInv
<1> QED
  BY <1>1, <1>2, TokenStep, TypeHolds, CopiesAgree, PTL DEF Spec
=============================================================================
