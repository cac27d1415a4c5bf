-------------------------- MODULE IntegratedService --------------------------
(***************************************************************************)
(* The integrated service "cd": the row that says whether it is enabled    *)
(* and which API token it uses (IntegratedServiceController and its        *)
(* repository), and the card of the console that shows the row and turns   *)
(* the service on and off (modules/system.js).                             *)
(*                                                                         *)
(* Turning it on takes one of three ways: a first token is made; the token *)
(* that was switched off with the service is switched on again; or, when   *)
(* the service is on with a dead token, a new one replaces it.  The way is *)
(* chosen from a state read before the transaction, and the token that     *)
(* turning it off revokes is read in the transaction, by a plain SELECT.   *)
(* Tokens are also revoked and deleted from their own list, and another    *)
(* super admin does all of this at the same time.  A service token does    *)
(* not expire.  Left out: the mode of provision and the scopes.            *)
(***************************************************************************)
EXTENDS Naturals, FiniteSets

CONSTANTS
    Driver,                   \* "mysql" or "sqlite"
    ServiceTokens, NoToken,   \* the tokens that can be made for the service
    MaxOrders,                \* bound: requests under way
    MaxServiceActs            \* bound: what the two admins do

ASSUME ServiceAssumption ==
    /\ Driver \in {"mysql", "sqlite"} /\ NoToken \notin ServiceTokens
    /\ MaxOrders \in Nat \ {0} /\ MaxServiceActs \in Nat

Admins == {"page", "other"}

VARIABLES
    enabled,     \* server: integrated_services.enabled
    bound,       \* server: api_token_id
    token,       \* server: token[t], what the row of token t says
    burned,      \* (observed) tokens revoked or deleted in the list
    orders,      \* requests under way
    card,        \* _isvcState, as the card was last drawn
    cardShown,   \* #isvc-body is displayed
    cardTicked,  \* the check box
    cardLocked,  \* the check box is disabled
    asking,      \* the question of the open dialog
    plain,       \* the token whose plain text is displayed
    serviceActs,
    disturbed    \* (observed) something happened beside the one exchange of the
                 \* page, and the card was not drawn anew from what the server
                 \* has since

serverVars == <<enabled, bound, token, burned>>
cardVars == <<card, cardShown, cardTicked, cardLocked, asking, plain>>
serviceVars == <<serverVars, orders, cardVars, serviceActs, disturbed>>

Kinds == {"absent", "on", "off", "gone"}
States == [enabled : BOOLEAN, bound : ServiceTokens \cup {NoToken}, token : Kinds]
Ways == {"first", "reuse", "reissue"}
Questions == {"none", "disable"} \cup Ways

(* getState: the row joined with its token                                 *)
State == [enabled |-> enabled, bound |-> bound,
          token |-> IF bound = NoToken THEN "absent" ELSE token[bound]]
Usable(s) == s.enabled /\ s.token = "on"
NoState == [enabled |-> FALSE, bound |-> NoToken, token |-> "absent"]

Order == [by : Admins, what : {"load", "enable", "disable"}, seen : States,
          said : Questions,
          at : {"sent", "read", "found", "ok", "reused", "issued", "refused", "lost"},
          got : ServiceTokens \cup {NoToken}]
NewOrder(who, what, said) ==
    [by |-> who, what |-> what, seen |-> NoState, said |-> said, at |-> "sent",
     got |-> NoToken]
Place(o) == Cardinality(orders) < MaxOrders /\ orders' = orders \cup {o}
ServiceAct == serviceActs < MaxServiceActs /\ serviceActs' = serviceActs + 1
Step(o, n) == orders' = (orders \ {o}) \cup {n}

ServiceInit ==
    /\ enabled = FALSE /\ bound = NoToken
    /\ token = [t \in ServiceTokens |-> "absent"] /\ burned = {}
    /\ orders = {NewOrder("page", "load", "none")}
    /\ card = NoState /\ cardShown = FALSE /\ cardTicked = FALSE /\ cardLocked = FALSE
    /\ asking = "none" /\ plain = NoToken
    /\ serviceActs = 0 /\ disturbed = FALSE
-----------------------------------------------------------------------------
(* Slips a change could introduce, for checking that the properties below  *)
(* notice them.                                                            *)
RevokedAsRead(o) == {o.seen.bound}

GoBackTicked(want) == UNCHANGED cardTicked /\ cardLocked' = FALSE
-----------------------------------------------------------------------------
(* The server                                                              *)

(* enable, disable, status: the state is read.  A service already on with  *)
(* a live token is not turned on again, one that is off not turned off.    *)
ReadState(o) ==
    /\ o \in orders /\ o.at = "sent"
    /\ Step(o, [o EXCEPT !.seen = State,
          !.at = CASE o.what = "load" -> "ok"
                   [] o.what = "enable" -> IF Usable(State) THEN "refused" ELSE "read"
                   [] o.what = "disable" -> IF enabled THEN "read" ELSE "refused"])
    /\ UNCHANGED <<serverVars, cardVars, serviceActs, disturbed>>

WayOf(s) ==
    IF s.enabled THEN "reissue" ELSE IF s.token = "off" THEN "reuse" ELSE "first"

(* The transaction of enable.  It begins by writing and keeps the locks of *)
(* its rows, and what it writes was settled before it: the order in which  *)
(* transactions commit is the order they can be thought to run in.         *)
(* ApiTokenService::restore finds no row when the token was deleted        *)
(* meanwhile, and nobody looks at what it returns.                         *)
EnableTransaction(o) ==
    /\ o \in orders /\ o.what = "enable" /\ o.at = "read"
    /\ \/ /\ WayOf(o.seen) = "reuse"
          /\ token' = [token EXCEPT ![o.seen.bound] = IF @ = "off" THEN "on" ELSE @]
          /\ bound' = o.seen.bound
          /\ Step(o, [o EXCEPT !.at = "reused"])
       \/ /\ WayOf(o.seen) # "reuse"
          /\ \E t \in ServiceTokens :
                /\ token[t] = "absent" /\ bound' = t
                /\ token' = [u \in ServiceTokens |->
                      IF u = t THEN "on"
                      ELSE IF o.seen.enabled /\ u = o.seen.bound /\ token[u] = "on"
                        THEN "off" ELSE token[u]]
                /\ Step(o, [o EXCEPT !.at = "issued", !.got = t])
    /\ enabled' = TRUE
    /\ UNCHANGED <<burned, cardVars, serviceActs, disturbed>>

(* The transaction of disable begins with a plain SELECT of the token that *)
(* is bound (IntegratedServiceRepository::disable) ...                     *)
FindBound(o) ==
    /\ o \in orders /\ o.what = "disable" /\ o.at = "read"
    /\ Step(o, [o EXCEPT !.at = "found", !.got = bound])
    /\ UNCHANGED <<serverVars, cardVars, serviceActs, disturbed>>

(* ... then it switches the row off and revokes the token it has read.     *)
(* The binding stays as it is by then.  MySQL lets others bind another     *)
(* token between the two; SQLite refuses to write from a snapshot that has *)
(* gone stale, which then ends as a request that failed (LoseOrder).       *)
Revoked(o) == {o.got}

DisableTransaction(o) ==
    /\ o \in orders /\ o.what = "disable" /\ o.at = "found"
    /\ Driver = "sqlite" => o.got = bound
    /\ enabled' = FALSE
    /\ token' = [t \in ServiceTokens |->
          IF t \in Revoked(o) /\ token[t] = "on" THEN "off" ELSE token[t]]
    /\ Step(o, [o EXCEPT !.at = "ok"])
    /\ UNCHANGED <<bound, burned, cardVars, serviceActs, disturbed>>

(* The request fails, or its answer is lost on the way                     *)
LoseOrder(o) ==
    /\ o \in orders /\ o.at # "lost"
    /\ Step(o, [o EXCEPT !.at = "lost"])
    /\ disturbed' = TRUE
    /\ UNCHANGED <<serverVars, cardVars, serviceActs>>

(* The list of tokens (ApiTokenController): elsewhere, or on the page,     *)
(* which then loads the card anew (refreshIntegratedPanel)                 *)
BurnToken(t) ==
    /\ ServiceAct /\ token[t] \in {"on", "off"}
    /\ token' \in {[token EXCEPT ![t] = "off"], [token EXCEPT ![t] = "gone"]}
    /\ burned' = burned \cup {t}
    /\ disturbed' = TRUE
    /\ \/ UNCHANGED <<orders, cardShown>>
       \/ Place(NewOrder("page", "load", "none")) /\ cardShown' = FALSE
    /\ UNCHANGED <<enabled, bound, card, cardTicked, cardLocked, asking, plain>>

(* Another super admin                                                     *)
OtherOrders ==
    /\ ServiceAct
    /\ \E what \in {"enable", "disable"} : Place(NewOrder("other", what, "none"))
    /\ disturbed' = TRUE
    /\ UNCHANGED <<serverVars, cardVars>>

OtherIsAnswered(o) ==
    /\ o \in orders /\ o.by = "other"
    /\ o.at \in {"ok", "reused", "issued", "refused", "lost"}
    /\ orders' = orders \ {o}
    /\ UNCHANGED <<serverVars, cardVars, serviceActs, disturbed>>
-----------------------------------------------------------------------------
(* The card                                                                *)

(* loadIntegratedServices, called by its tab and after every change        *)
EnterTab ==
    /\ ServiceAct /\ asking = "none"
    /\ Place(NewOrder("page", "load", "none"))
    /\ cardShown' = FALSE
    /\ disturbed' = (disturbed \/ orders # {})
    /\ UNCHANGED <<serverVars, card, cardTicked, cardLocked, asking, plain>>

(* renderCdService: the box is ticked iff the service can be used          *)
CardArrives(o) ==
    /\ o \in orders /\ o.by = "page" /\ o.what = "load" /\ o.at \in {"ok", "lost"}
    /\ orders' = orders \ {o}
    /\ IF o.at = "ok"
         THEN /\ card' = o.seen /\ cardTicked' = Usable(o.seen)
              /\ cardLocked' = FALSE /\ cardShown' = TRUE
         ELSE UNCHANGED <<card, cardTicked, cardLocked, cardShown>>
    /\ disturbed' = (disturbed /\ ~(orders = {o} /\ asking = "none"
                                     /\ o.at = "ok" /\ o.seen = State))
    /\ UNCHANGED <<serverVars, asking, plain, serviceActs>>

(* onIntegratedServiceToggle: the box has flipped; the dialog says which   *)
(* way the server will take, as far as the card knows                      *)
Announced(s) ==
    IF ~s.enabled /\ s.token = "off" THEN "reuse"
    ELSE IF s.enabled /\ s.token # "on" THEN "reissue" ELSE "first"

Tick_ ==
    /\ ServiceAct /\ cardShown /\ ~cardLocked /\ asking = "none"
    /\ cardTicked' = ~cardTicked /\ cardLocked' = TRUE
    /\ asking' = IF cardTicked' THEN Announced(card) ELSE "disable"
    /\ disturbed' = (disturbed \/ orders # {})
    /\ UNCHANGED <<serverVars, orders, card, cardShown, plain>>

(* The box goes back to what it was before the click                       *)
GoBack(want) == cardTicked' = ~want /\ cardLocked' = FALSE

Decline ==
    /\ asking # "none" /\ asking' = "none"
    /\ GoBack(asking # "disable")
    /\ UNCHANGED <<serverVars, orders, card, cardShown, plain, serviceActs, disturbed>>

Accept ==
    /\ asking # "none" /\ asking' = "none"
    /\ Place(NewOrder("page", IF asking = "disable" THEN "disable" ELSE "enable", asking))
    /\ UNCHANGED <<serverVars, card, cardShown, cardTicked, cardLocked, plain,
                   serviceActs, disturbed>>

(* enableIntegratedService, disableIntegratedService after their await     *)
ChangeAnswered(o) ==
    /\ o \in orders /\ o.by = "page" /\ o.what \in {"enable", "disable"}
    /\ o.at \in {"ok", "reused", "issued", "refused", "lost"}
    /\ IF o.at \in {"refused", "lost"}
         THEN /\ orders' = orders \ {o}
              /\ GoBack(o.what = "enable")
              /\ UNCHANGED <<cardShown, plain>>
         ELSE /\ Step(o, NewOrder("page", "load", "none"))
              /\ plain' = IF o.at = "issued" THEN o.got ELSE NoToken
              /\ cardShown' = FALSE
              /\ cardLocked' = FALSE
              /\ UNCHANGED cardTicked
    /\ UNCHANGED <<serverVars, card, asking, serviceActs, disturbed>>

HideToken ==
    /\ plain # NoToken /\ plain' = NoToken
    /\ UNCHANGED <<serverVars, orders, card, cardShown, cardTicked, cardLocked, asking,
                   serviceActs, disturbed>>
-----------------------------------------------------------------------------
OrderGoesOn(o) ==
    \/ ReadState(o) \/ EnableTransaction(o) \/ FindBound(o) \/ DisableTransaction(o)
    \/ CardArrives(o) \/ ChangeAnswered(o) \/ OtherIsAnswered(o)

ServiceNext ==
    \/ \E o \in orders : OrderGoesOn(o) \/ LoseOrder(o)
    \/ \E t \in ServiceTokens : BurnToken(t)
    \/ OtherOrders \/ EnterTab \/ Tick_ \/ Decline \/ Accept \/ HideToken

ServiceSpec == ServiceInit /\ [][ServiceNext]_serviceVars
-----------------------------------------------------------------------------
ServiceTypeOK ==
    /\ enabled \in BOOLEAN /\ bound \in ServiceTokens \cup {NoToken}
    /\ token \in [ServiceTokens -> Kinds] /\ burned \subseteq ServiceTokens
    /\ orders \subseteq Order /\ card \in States
    /\ cardShown \in BOOLEAN /\ cardTicked \in BOOLEAN /\ cardLocked \in BOOLEAN
    /\ asking \in Questions /\ plain \in ServiceTokens \cup {NoToken}
    /\ enabled => bound # NoToken
    /\ serviceActs \in 0 .. MaxServiceActs /\ disturbed \in BOOLEAN

(* "Disable (freeze): in one transaction sets enabled=0 and disables (not  *)
(* burns) the bound token" (docs/API_Reference.md): whatever enabling and  *)
(* disabling have read, and in whatever order their transactions commit,   *)
(* the token bound to a service that is off is off as well.  It holds on   *)
(* SQLite.  On MySQL a new token can be bound after disable has read which *)
(* token to revoke, and stays on.                                          *)
FrozenTokenIsDead == ~enabled /\ bound # NoToken => token[bound] # "on"

(* "The dialog must say beforehand which of the three ways it is" (the     *)
(* comment of enableIntegratedService): the way the server is about to     *)
(* take is the one the user agreed to, as long as nobody else changed the  *)
(* service or its token since the card was drawn.                          *)
WayIsAnnounced ==
    \A o \in orders :
        o.by = "page" /\ o.what = "enable" /\ o.at = "read" /\ ~disturbed
            => o.said = WayOf(o.seen)

(* A card at rest shows in its box whether the service can be used, after  *)
(* a dialog that was declined, a change refused, and a change made.        *)
RestingCardIsTrue ==
    orders = {} /\ asking = "none" /\ cardShown /\ ~disturbed =>
        cardTicked = Usable(State) /\ ~cardLocked

(* A revoked or deleted token is burned: "the old one stays burned and     *)
(* never comes back", enabling again issues a new one (docs/USER_MANUAL.md *)
(* 6.4 and 6.5).                                                           *)
BurnedStaysBurned == \A t \in burned : token[t] # "on"
=============================================================================
