---------------------------- MODULE ConnectionForm ----------------------------
(***************************************************************************)
(* The form of the platform connections (modules/platforms.js): one row    *)
(* for each CI, Git and registry platform, filled from a snapshot of what  *)
(* the server has.  Saving sends the rows that differ from the snapshot;   *)
(* the answer is the new snapshot and fills the form anew.  A load draws   *)
(* the form twice: from the list of connections, and again when the health *)
(* check has answered.                                                     *)
(*                                                                         *)
(* A row is one value: its address, user and secret together.  Left out:   *)
(* the CI switches, of which the server keeps those of the Git platforms   *)
(* in one list (it reads the list before its transaction and writes it     *)
(* back whole, so the switch of another admin may be lost); the row of the *)
(* registry, which changes its name with its type; and a row with a secret *)
(* but no address, which is refused before it is sent.                     *)
(***************************************************************************)
EXTENDS Naturals, FiniteSets

CONSTANTS
    Platforms,         \* the rows
    Settings,          \* what a row may hold
    Blank,             \* a platform that is not configured
    MaxPosts,          \* bound: requests under way
    MaxEdits           \* bound: what the users do

ASSUME ConnectionAssumption ==
    Blank \in Settings /\ MaxPosts \in Nat \ {0} /\ MaxEdits \in Nat

VARIABLES
    stored,     \* server: the connections
    snapshot,   \* _pc
    drawn,      \* the form was drawn, _pc is set
    inputs,     \* what the inputs of each row hold
    typed,      \* (observed) the rows typed in since the form was drawn
    posts,      \* requests under way
    edits,
    crossed     \* (observed) two exchanges overlapped, or another admin saved,
                \* and the form was not drawn from the truth since

connVars == <<stored, snapshot, drawn, inputs, typed, posts, edits, crossed>>

Rows_ == [Platforms -> Settings]
Changes == UNION {[R -> Settings] : R \in SUBSET Platforms}
Post == [is : {"list", "health", "save"}, rows : Changes, hand : SUBSET Platforms,
         ans : {"none", "ok", "failed"}, told : Rows_]
PostOf(is, rows) == [is |-> is, rows |-> rows, hand |-> typed, ans |-> "none",
                     told |-> [p \in Platforms |-> Blank]]
Nothing == [p \in {} |-> Blank]
Edit == edits < MaxEdits /\ edits' = edits + 1
Send(m) == /\ Cardinality(posts) < MaxPosts
           /\ posts' = posts \cup {m}
           /\ crossed' = (crossed \/ posts # {})

ConnInit ==
    /\ stored \in Rows_ /\ snapshot = [p \in Platforms |-> Blank] /\ drawn = FALSE
    /\ inputs = snapshot /\ typed = {} /\ edits = 0 /\ crossed = FALSE
    /\ posts = {}
-----------------------------------------------------------------------------
(* Slips a change could introduce, for checking that the properties below  *)
(* notice them.                                                            *)
WholePayload == inputs

DrawTypedOver(rows) ==
    /\ snapshot' = rows /\ typed' = {} /\ drawn' = TRUE
    /\ inputs' = [p \in Platforms |-> IF inputs[p] = Blank THEN rows[p] ELSE inputs[p]]
-----------------------------------------------------------------------------
(* loadPlatformConnections, with every visit of the tab                    *)
LoadConnections ==
    /\ Edit /\ Send(PostOf("list", Nothing))
    /\ UNCHANGED <<stored, snapshot, drawn, inputs, typed>>

TypeIn(p) ==
    /\ Edit /\ drawn
    /\ \E v \in Settings : v # inputs[p] /\ inputs' = [inputs EXCEPT ![p] = v]
    /\ typed' = typed \cup {p}
    /\ UNCHANGED <<stored, snapshot, drawn, posts, crossed>>

(* collectPayload                                                          *)
Payload == [p \in {q \in Platforms : inputs[q] # snapshot[q]} |-> inputs[p]]

(* savePlatformConnections                                                 *)
SaveRows ==
    /\ Edit /\ drawn /\ Send(PostOf("save", Payload))
    /\ UNCHANGED <<stored, snapshot, drawn, inputs, typed>>

(* onPlatformDelete, after its dialog                                      *)
DeleteRow(p) ==
    /\ Edit /\ drawn
    /\ Send([PostOf("save", [q \in {p} |-> Blank]) EXCEPT !.hand = {p}])
    /\ UNCHANGED <<stored, snapshot, drawn, inputs, typed>>

(* renderPlatforms: every input is drawn anew                              *)
Draw(rows) == snapshot' = rows /\ inputs' = rows /\ typed' = {} /\ drawn' = TRUE

(* The list has come, and the health check is asked for; the form is drawn *)
(* from _pc, and again from whatever _pc is when that answer comes.        *)
ListComes(m) ==
    /\ m \in posts /\ m.is = "list" /\ m.ans # "none"
    /\ IF m.ans = "ok"
         THEN /\ Draw(m.told)
              /\ posts' = (posts \ {m}) \cup {PostOf("health", Nothing)}
              /\ crossed' = (crossed /\ (m.told # stored \/ posts # {m}))
         ELSE /\ posts' = posts \ {m}
              /\ UNCHANGED <<snapshot, inputs, typed, drawn, crossed>>
    /\ UNCHANGED <<stored, edits>>

HealthComes(m) ==
    /\ m \in posts /\ m.is = "health" /\ m.ans # "none"
    /\ posts' = posts \ {m}
    /\ IF m.ans = "ok" THEN Draw(snapshot) ELSE UNCHANGED <<snapshot, inputs, typed, drawn>>
    /\ UNCHANGED <<stored, edits, crossed>>

SaveComes(m) ==
    /\ m \in posts /\ m.is = "save" /\ m.ans # "none"
    /\ posts' = posts \ {m}
    /\ IF m.ans = "ok" THEN Draw(m.told) ELSE UNCHANGED <<snapshot, inputs, typed, drawn>>
    /\ UNCHANGED <<stored, edits, crossed>>
-----------------------------------------------------------------------------
(* The server (ConnectionController)                                       *)
Merged(rows) == [p \in Platforms |-> IF p \in DOMAIN rows THEN rows[p] ELSE stored[p]]

ServePost(m) ==
    /\ m \in posts /\ m.ans = "none"
    /\ \/ /\ stored' = Merged(m.rows)
          /\ posts' = (posts \ {m}) \cup {[m EXCEPT !.ans = "ok", !.told = stored']}
          /\ UNCHANGED crossed
       \/ /\ posts' = (posts \ {m}) \cup {[m EXCEPT !.ans = "failed"]}
          /\ UNCHANGED <<stored, crossed>>
       \/ /\ m.is = "save" /\ stored' = Merged(m.rows)     \* the answer is lost
          /\ posts' = (posts \ {m}) \cup {[m EXCEPT !.ans = "failed"]}
          /\ crossed' = TRUE
    /\ UNCHANGED <<snapshot, drawn, inputs, typed, edits>>

OtherAdminSaves(p) ==
    /\ Edit
    /\ \E v \in Settings : v # stored[p] /\ stored' = [stored EXCEPT ![p] = v]
    /\ crossed' = TRUE
    /\ UNCHANGED <<snapshot, drawn, inputs, typed, posts>>

ConnNext ==
    \/ LoadConnections \/ SaveRows
    \/ \E p \in Platforms : TypeIn(p) \/ DeleteRow(p) \/ OtherAdminSaves(p)
    \/ \E m \in posts : ListComes(m) \/ HealthComes(m) \/ SaveComes(m) \/ ServePost(m)

ConnSpec == ConnInit /\ [][ConnNext]_connVars
-----------------------------------------------------------------------------
ConnTypeOK ==
    /\ stored \in Rows_ /\ snapshot \in Rows_ /\ drawn \in BOOLEAN
    /\ inputs \in Rows_ /\ typed \subseteq Platforms /\ posts \subseteq Post
    /\ ~drawn => typed = {} /\ inputs = snapshot
    /\ edits \in 0 .. MaxEdits /\ crossed \in BOOLEAN

(* "Only platforms that were changed are sent" (the comment of             *)
(* collectPayload): a row nobody typed in is not sent, even when other     *)
(* answers drew the form anew meanwhile.                                   *)
OnlyTouchedRowsAreSent ==
    \A m \in posts : m.is = "save" => DOMAIN m.rows \subseteq m.hand

(* A form at rest that nobody has typed in shows what the server has, once *)
(* exchanges that overlapped are cleared up by a load.                     *)
RestingFormIsTrue ==
    drawn /\ posts = {} /\ typed = {} /\ ~crossed => inputs = stored
=============================================================================
