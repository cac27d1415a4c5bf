----------------------------- MODULE TokenScopes -----------------------------
(***************************************************************************)
(* The API-token page of the console (modules/apiTokens.js): the list, the *)
(* form that creates a token and the form that edits the scopes of one.    *)
(* Both forms fetch the catalogue of scopes each time they open and draw   *)
(* their boxes when it arrives; until then the boxes of the last drawing   *)
(* stay on the screen.                                                     *)
(*                                                                         *)
(* A token is its set of scopes on the server, empty for one that does not *)
(* exist: the server refuses an empty set.  Names, notes, expiry and       *)
(* revocation change no scope and are left out, with the panel of          *)
(* integrated services on the same tab.                                    *)
(***************************************************************************)
EXTENDS Naturals, FiniteSets

CONSTANTS
    TokenIds, NoId,
    Scopes,           \* the catalogue
    FirstGrants,      \* the tokens at the start
    MaxTokenCalls,    \* bound: requests under way when a form is opened
    MaxTokenChanges   \* bound: changes asked for

ASSUME TokenAssumption ==
    /\ NoId \notin TokenIds /\ MaxTokenCalls \in Nat /\ MaxTokenChanges \in Nat
    /\ FirstGrants \in [TokenIds -> SUBSET Scopes]

VARIABLES
    granted,      \* server: granted[i], the scopes of token i
    rows,         \* the rows of the table: granted as last listed, none of
                  \* them while a list is awaited
    catalogue,    \* _apiScopes
    createOpen,   \* #api-token-form is displayed
    createTicks,  \* the boxes ticked in it
    editing,      \* _editingTokenId; the scope form is displayed iff it is set
    editTicks,    \* the boxes ticked in the scope form
    calls,        \* requests under way
    sent,         \* changes asked for so far
    asOpened      \* (observed) while the form is open and nobody has touched a
                  \* box, the scopes its token was listed with; otherwise empty

tokenForms == <<createOpen, createTicks, editing, editTicks, asOpened>>
tokenVars == <<granted, rows, catalogue, createOpen, createTicks,
               editing, editTicks, calls, sent, asOpened>>

Listing == [TokenIds -> SUBSET Scopes]
Call == [kind : {"list"}, ans : {"none", "error", "lost"}]
   \cup [kind : {"list"}, ans : {"ok"}, rows : Listing]
   \cup [kind : {"scopes"}, ans : {"none", "ok", "error", "lost"},
         for : {"create", "edit", "refresh"}, preset : SUBSET Scopes]
   \cup [kind : {"create"}, ans : {"none", "ok", "refused"},
         id : {NoId}, scopes : SUBSET Scopes]
   \cup [kind : {"save"}, ans : {"none", "ok", "refused"},
         id : TokenIds, scopes : (SUBSET Scopes) \ {{}}]
   \cup [kind : {"revoke", "delete"}, ans : {"none", "ok", "refused"},
         id : TokenIds, scopes : {{}}]

AskList == [kind |-> "list", ans |-> "none"]
NoRows == [i \in TokenIds |-> {}]
AskScopes(form, preset) ==
    [kind |-> "scopes", ans |-> "none", for |-> form, preset |-> preset]
Ask(k, i, s) == [kind |-> k, ans |-> "none", id |-> i, scopes |-> s]
TokenRoom == Cardinality(calls) < MaxTokenCalls
TokenIdle == calls = {} /\ sent < MaxTokenChanges

TokenInit ==
    /\ granted = FirstGrants
    /\ rows = NoRows
    /\ catalogue = {}
    /\ createOpen = FALSE /\ createTicks = {}
    /\ editing = NoId /\ editTicks = {}
    /\ asOpened = {}
    /\ calls = {AskList} /\ sent = 0
-----------------------------------------------------------------------------
(* renderScopeBoxes: only scopes of the catalogue have a box               *)
Drawn(selected, cat) == selected \cap cat

(* showApiTokenForm                                                        *)
ShowCreate ==
    /\ TokenRoom
    /\ editing' = NoId /\ asOpened' = {}
    /\ createOpen' = TRUE
    /\ calls' = calls \cup {AskScopes("create", {})}
    /\ UNCHANGED <<sent, granted, rows, catalogue, createTicks, editTicks>>

(* showApiTokenScopeForm: the token is looked up now, its boxes are drawn  *)
(* when the catalogue arrives                                              *)
ShowEdit(i) ==
    /\ TokenRoom
    /\ rows[i] # {}
    /\ createOpen' = FALSE
    /\ editing' = i
    /\ asOpened' = rows[i]
    /\ calls' = calls \cup {AskScopes("edit", rows[i])}
    /\ UNCHANGED <<sent, granted, rows, catalogue, createTicks, editTicks>>

(* refreshApiTokenView, called when the language changes                   *)
SwitchLanguage ==
    /\ calls = {}
    /\ calls' = calls \cup {AskScopes("refresh", {})}
    /\ UNCHANGED <<sent, granted, rows, catalogue, tokenForms>>

(* loadApiTokenScopes after its await: an answer that is an error has no   *)
(* scopes and empties the catalogue, a failed request leaves it.  Then     *)
(* each caller draws its boxes.                                            *)
ScopesArrive(c) ==
    /\ c \in calls /\ c.kind = "scopes" /\ c.ans # "none"
    /\ catalogue' = CASE c.ans = "ok" -> Scopes
                      [] c.ans = "error" -> {}
                      [] c.ans = "lost" -> catalogue
    /\ calls' = (calls \ {c}) \cup (IF c.for = "refresh" THEN {AskList} ELSE {})
    /\ CASE c.for = "create" ->
              createTicks' = {} /\ UNCHANGED editTicks
         [] c.for = "edit" ->
              editTicks' = Drawn(c.preset, catalogue') /\ UNCHANGED createTicks
         [] c.for = "refresh" ->
              /\ createTicks' = Drawn(createTicks, catalogue')
              /\ editTicks' = IF editing = NoId THEN editTicks
                              ELSE Drawn(editTicks, catalogue')
    /\ rows' = IF c.for = "refresh" THEN NoRows ELSE rows
    /\ UNCHANGED <<sent, granted, createOpen, editing, asOpened>>

TickCreate(s) ==
    /\ createOpen /\ s \in catalogue
    /\ createTicks' = (createTicks \cup {s}) \ (createTicks \cap {s})
    /\ UNCHANGED <<sent, granted, rows, catalogue, calls, createOpen, editing,
                   editTicks, asOpened>>

TickEdit(s) ==
    /\ editing # NoId /\ s \in catalogue
    /\ editTicks' = (editTicks \cup {s}) \ (editTicks \cap {s})
    /\ asOpened' = {}
    /\ UNCHANGED <<sent, granted, rows, catalogue, calls, createOpen, createTicks,
                   editing>>

(* hideApiTokenForm, hideApiTokenScopeForm                                 *)
HideForms ==
    /\ createOpen' = FALSE /\ editing' = NoId /\ asOpened' = {}
    /\ UNCHANGED <<sent, granted, rows, catalogue, calls, createTicks, editTicks>>

(* submitApiTokenForm, submitApiTokenScopeForm; only the second looks      *)
(* whether a box is ticked, for the first the server does.                 *)
SubmitCreate ==
    /\ TokenIdle /\ createOpen
    /\ calls' = calls \cup {Ask("create", NoId, createTicks)}
    /\ sent' = sent + 1
    /\ UNCHANGED <<granted, rows, catalogue, tokenForms>>

SubmitEdit ==
    /\ TokenIdle /\ editing # NoId /\ editTicks # {}
    /\ calls' = calls \cup {Ask("save", editing, editTicks)}
    /\ sent' = sent + 1
    /\ UNCHANGED <<granted, rows, catalogue, tokenForms>>

(* revokeApiToken, deleteApiToken: the dialog asks about the token whose   *)
(* button was pressed, and the request names the same one                  *)
RevokeOrDelete(i) ==
    /\ TokenIdle /\ rows[i] # {}
    /\ \E k \in {"revoke", "delete"} : calls' = calls \cup {Ask(k, i, {})}
    /\ sent' = sent + 1
    /\ UNCHANGED <<granted, rows, catalogue, tokenForms>>

(* The answers of the four: a success reloads the list and closes the form *)
(* that happens to be open, a refusal only tells.                          *)
ChangeArrives(c) ==
    /\ c \in calls /\ c.kind \in {"save", "create", "revoke", "delete"}
    /\ c.ans # "none"
    /\ calls' = (calls \ {c}) \cup (IF c.ans = "ok" THEN {AskList} ELSE {})
    /\ rows' = IF c.ans = "ok" THEN NoRows ELSE rows
    /\ createOpen' = (createOpen /\ ~(c.kind = "create" /\ c.ans = "ok"))
    /\ IF c.kind = "save" /\ c.ans = "ok"
         THEN editing' = NoId /\ asOpened' = {}
         ELSE UNCHANGED <<editing, asOpened>>
    /\ UNCHANGED <<sent, granted, catalogue, createTicks, editTicks>>

(* loadApiTokens after its await: an answer that is an error has no tokens *)
ListArrives(c) ==
    /\ c \in calls /\ c.kind = "list" /\ c.ans # "none"
    /\ rows' = CASE c.ans = "ok" -> c.rows
                 [] c.ans = "error" -> NoRows
                 [] c.ans = "lost" -> rows
    /\ calls' = calls \ {c}
    /\ UNCHANGED <<sent, granted, catalogue, tokenForms>>
-----------------------------------------------------------------------------
(* The server (ApiTokenController)                                         *)
Exists(i) == granted[i] # {}
Reply(c, ans) == calls' = (calls \ {c}) \cup {[c EXCEPT !.ans = ans]}

ServeList(c) ==
    /\ c \in calls /\ c.kind = "list" /\ c.ans = "none"
    /\ \/ calls' = (calls \ {c}) \cup {[kind |-> "list", ans |-> "ok", rows |-> granted]}
       \/ \E ans \in {"error", "lost"} : Reply(c, ans)
    /\ UNCHANGED <<sent, granted, rows, catalogue, tokenForms>>

ServeScopes(c) ==
    /\ c \in calls /\ c.kind = "scopes" /\ c.ans = "none"
    /\ \E ans \in {"ok", "error", "lost"} : Reply(c, ans)
    /\ UNCHANGED <<sent, granted, rows, catalogue, tokenForms>>

ServeChange(c) ==
    /\ c \in calls /\ c.ans = "none"
    /\ \/ /\ c.kind = "create" /\ c.scopes # {}
          /\ \E i \in TokenIds : /\ ~Exists(i)
                                 /\ granted' = [granted EXCEPT ![i] = c.scopes]
          /\ Reply(c, "ok")
       \/ /\ c.kind = "save" /\ Exists(c.id)
          /\ granted' = [granted EXCEPT ![c.id] = c.scopes]
          /\ Reply(c, "ok")
       \/ /\ c.kind = "revoke" /\ Exists(c.id)
          /\ Reply(c, "ok") /\ UNCHANGED granted
       \/ /\ c.kind = "delete" /\ Exists(c.id)
          /\ granted' = [granted EXCEPT ![c.id] = {}]
          /\ Reply(c, "ok")
       \/ /\ c.kind \in {"create", "save", "revoke", "delete"}
          /\ Reply(c, "refused") /\ UNCHANGED granted
    /\ UNCHANGED <<sent, rows, catalogue, tokenForms>>
-----------------------------------------------------------------------------
TokenNext ==
    \/ ShowCreate \/ SwitchLanguage \/ HideForms \/ SubmitCreate \/ SubmitEdit
    \/ \E i \in TokenIds : ShowEdit(i) \/ RevokeOrDelete(i)
    \/ \E s \in Scopes : TickCreate(s) \/ TickEdit(s)
    \/ \E c \in calls : \/ ScopesArrive(c) \/ ChangeArrives(c) \/ ListArrives(c)
                        \/ ServeList(c) \/ ServeScopes(c) \/ ServeChange(c)

TokenSpec == TokenInit /\ [][TokenNext]_tokenVars
-----------------------------------------------------------------------------
TokenTypeOK ==
    /\ granted \in Listing /\ rows \in Listing /\ catalogue \subseteq Scopes
    /\ createOpen \in BOOLEAN /\ createTicks \subseteq Scopes
    /\ editing \in TokenIds \cup {NoId} /\ editTicks \subseteq Scopes
    /\ calls \subseteq Call /\ sent \in 0 .. MaxTokenChanges
    /\ asOpened \subseteq Scopes

(* "Mutually exclusive with editing, lest both sets of boxes are visible   *)
(* and one reads the wrong line" (the comment of showApiTokenForm): in no  *)
(* order of clicks and answers are both forms open.                        *)
FormsExclude == ~(createOpen /\ editing # NoId)

(* "Opens the form that edits the scopes of one token, ticked with its     *)
(* current scopes" (the comment of showApiTokenScopeForm): a form nobody   *)
(* has touched shows the scopes its token was listed with, or no boxes.    *)
UntouchedFormShowsItsToken ==
    asOpened # {} => editTicks \in {asOpened, {}}
=============================================================================
