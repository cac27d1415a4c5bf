--------------------------- MODULE SettingsToggles ---------------------------
(***************************************************************************)
(* The switches of the settings (modules/mode.js): custom-push builds, the *)
(* cleanup of stale tags, the backfill of tags and the cleanup of the API  *)
(* log; and the two buttons that run a tag job at once.  A switch is a     *)
(* check box the browser flips first; a dialog (core/toast.js) then asks,  *)
(* and the change is sent.  Beside its box each switch has a variable that *)
(* holds its last known value, to which the box goes back when the user    *)
(* says no or the change fails.                                            *)
(*                                                                         *)
(* The dialog covers the page: nothing is clicked while it is open.  While *)
(* a request is under way the page is free.  The builds modes are one      *)
(* Boolean, "some pull mode is enabled".  Left out: the keyword, level and *)
(* days beside the switches, and the flow chart of the modes.              *)
(***************************************************************************)
EXTENDS Naturals, FiniteSets

CONSTANTS
    MaxWaiting,        \* bound: requests under way
    MaxFlips           \* bound: what the users do

ASSUME SettingsAssumption == MaxWaiting \in Nat \ {0} /\ MaxFlips \in Nat

Jobs == {"cleanup", "backfill"}
Switches == Jobs \cup {"push", "log"}

VARIABLES
    setting,    \* server: the value of each switch
    modesOn,    \* server: some pull mode is enabled
    box,        \* what each check box shows
    current,    \* currentCpEnabled, currentStaleCleanupEnabled, ...
    seenModes,  \* currentBuildModes
    bodyShown,  \* #pc-body: the settings but "push" are displayed
    runOff,     \* the run button of each job is disabled
    dialog,     \* the question asked, or None
    waiting,    \* requests under way
    flips,
    overlapped  \* (observed) something was begun while a request was under way

settingsVars == <<setting, modesOn, box, current, seenModes, bodyShown, runOff,
                  dialog, waiting, flips, overlapped>>
page_ == <<box, current, seenModes, bodyShown, runOff>>

None == [is |-> "none"]
Answer_ == {"none", "ok", "failed", "error"}
Flags == [Switches -> BOOLEAN]
Dialogs == {None} \cup [is : {"flip"}, of : Switches, want : BOOLEAN, old : BOOLEAN]
                  \cup [is : {"run"}, of : Jobs]
Calls == [is : {"modes", "config"}, ans : Answer_, told : Flags, modes : BOOLEAN]
    \cup [is : {"save"}, of : Switches, want : BOOLEAN, old : BOOLEAN,
          modes : BOOLEAN, ans : Answer_]
    \cup [is : {"run"}, of : Jobs, ans : Answer_]

AskFor(what) == [is |-> what, ans |-> "none",
                 told |-> [s \in Switches |-> FALSE], modes |-> FALSE]
Save(s, want, old) == [is |-> "save", of |-> s, want |-> want, old |-> old,
                       modes |-> seenModes, ans |-> "none"]
Begin(c) == /\ Cardinality(waiting) < MaxWaiting
            /\ waiting' = waiting \cup {c}
Quiet == waiting = {} /\ dialog = None
Flipped == flips < MaxFlips /\ flips' = flips + 1
Noted == overlapped' = (overlapped \/ waiting # {})

SettingsInit ==
    /\ setting \in {[s \in Switches |-> FALSE], [s \in Switches |-> s \in Jobs]}
    /\ modesOn = TRUE
    /\ box = [s \in Switches |-> FALSE]
    /\ current = [s \in Switches |-> s = "log"]
    /\ seenModes = TRUE /\ bodyShown = FALSE
    /\ runOff = [j \in Jobs |-> TRUE]
    /\ dialog = None /\ waiting = {} /\ flips = 0 /\ overlapped = FALSE
-----------------------------------------------------------------------------
(* Slips a change could introduce, for checking that the properties below  *)
(* notice them.                                                            *)
SayNoOnly ==
    /\ dialog # None /\ dialog' = None
    /\ UNCHANGED <<setting, modesOn, page_, waiting, flips, overlapped>>
-----------------------------------------------------------------------------
(* loadSettings, called by the tab of the modes; loadPlatformConfig, which *)
(* hides the switches of its tab until they are known                      *)
OpenModes ==
    /\ dialog = None /\ Flipped /\ Noted /\ Begin(AskFor("modes"))
    /\ UNCHANGED <<setting, modesOn, page_, dialog>>

OpenConfig ==
    /\ dialog = None /\ Flipped /\ Noted /\ Begin(AskFor("config"))
    /\ bodyShown' = FALSE
    /\ UNCHANGED <<setting, modesOn, box, current, seenModes, runOff, dialog>>

(* onCustomPushToggle, onStaleTagCleanupToggle, onBackfillTagToggle,       *)
(* onApiLogCleanupToggle: the box has flipped, the question is asked       *)
Flip(s) ==
    /\ dialog = None /\ Flipped /\ Noted
    /\ s = "push" \/ bodyShown
    /\ box' = [box EXCEPT ![s] = ~@]
    /\ dialog' = [is |-> "flip", of |-> s, want |-> box'[s], old |-> current[s]]
    /\ UNCHANGED <<setting, modesOn, current, seenModes, bodyShown, runOff, waiting>>

(* runTagJob: the button is looked at before the question, not after       *)
PressRun(j) ==
    /\ dialog = None /\ Flipped /\ Noted /\ bodyShown /\ ~runOff[j]
    /\ dialog' = [is |-> "run", of |-> j]
    /\ UNCHANGED <<setting, modesOn, page_, waiting>>

SayNo ==
    /\ dialog # None /\ dialog' = None
    /\ box' = IF dialog.is = "flip" THEN [box EXCEPT ![dialog.of] = dialog.old] ELSE box
    /\ UNCHANGED <<setting, modesOn, current, seenModes, bodyShown, runOff,
                   waiting, flips, overlapped>>

(* The switch of the log sends what its box shows by now, and takes the    *)
(* new value for known before the answer.                                  *)
SayYes ==
    /\ dialog # None /\ dialog' = None
    /\ \/ /\ dialog.is = "flip" /\ dialog.of # "log"
          /\ Begin(Save(dialog.of, dialog.want, dialog.old))
          /\ UNCHANGED <<current, runOff>>
       \/ /\ dialog.is = "flip" /\ dialog.of = "log"
          /\ Begin(Save("log", box["log"], dialog.old))
          /\ current' = [current EXCEPT !["log"] = dialog.want]
          /\ UNCHANGED runOff
       \/ /\ dialog.is = "run"
          /\ Begin([is |-> "run", of |-> dialog.of, ans |-> "none"])
          /\ runOff' = [runOff EXCEPT ![dialog.of] = TRUE]
          /\ UNCHANGED current
    /\ UNCHANGED <<setting, modesOn, box, seenModes, bodyShown, flips, overlapped>>
-----------------------------------------------------------------------------
(* syncTagRunButtons                                                       *)
Synced == [j \in Jobs |-> ~current'[j]]
Arrive(c) == c \in waiting /\ c.ans # "none" /\ waiting' = waiting \ {c}

(* loadSettings after its await: an answer that is an error is read like   *)
(* one that says nothing is enabled                                        *)
ModesArrive(c) ==
    /\ Arrive(c) /\ c.is = "modes"
    /\ IF c.ans = "failed" THEN UNCHANGED <<box, current, seenModes>>
       ELSE LET on == c.ans = "ok" /\ c.told["push"] IN
            /\ box' = [box EXCEPT !["push"] = on]
            /\ current' = [current EXCEPT !["push"] = on]
            /\ seenModes' = (c.ans = "ok" /\ c.modes)
    /\ UNCHANGED <<setting, modesOn, bodyShown, runOff, dialog, flips, overlapped>>

(* loadPlatformConfig: applyTagSettings, applyApiLogSettings               *)
ConfigArrives(c) ==
    /\ Arrive(c) /\ c.is = "config"
    /\ IF c.ans # "ok" THEN UNCHANGED <<box, current, bodyShown, runOff>>
       ELSE /\ box' = [c.told EXCEPT !["push"] = box["push"]]
            /\ current' = [c.told EXCEPT !["push"] = current["push"]]
            /\ bodyShown' = TRUE
            /\ runOff' = Synced
    /\ UNCHANGED <<setting, modesOn, seenModes, dialog, flips, overlapped>>

(* The value an answered save leaves behind                                *)
Kept(c) == IF c.ans = "ok" THEN c.want ELSE c.old

(* push, cleanup, backfill: the box stays as it is when the change is in   *)
SaveArrives(c) ==
    /\ c.is = "save" /\ c.of # "log"
    /\ c \in waiting /\ c.ans # "none"
    /\ IF c.ans = "ok"
         THEN /\ current' = [current EXCEPT ![c.of] = Kept(c)]
              /\ UNCHANGED box
         ELSE /\ box' = [box EXCEPT ![c.of] = Kept(c)]
              /\ UNCHANGED current
    /\ waiting' = (waiting \ {c}) \cup
          (IF c.of = "push" /\ c.ans = "ok" THEN {AskFor("modes")} ELSE {})
    /\ runOff' = IF c.of \in Jobs /\ c.ans = "ok" THEN Synced ELSE runOff
    /\ UNCHANGED <<setting, modesOn, seenModes, bodyShown, dialog, flips, overlapped>>

(* saveApiLogSettings and onApiLogCleanupToggle after it                   *)
LogSaveArrives(c) ==
    /\ Arrive(c) /\ c.is = "save" /\ c.of = "log"
    /\ box' = [box EXCEPT !["log"] = Kept(c)]
    /\ current' = [current EXCEPT !["log"] = Kept(c)]
    /\ UNCHANGED <<setting, modesOn, seenModes, bodyShown, runOff, dialog, flips, overlapped>>

(* runTagJob: finally                                                      *)
RunArrives(c) ==
    /\ Arrive(c) /\ c.is = "run"
    /\ runOff' = [j \in Jobs |-> ~current[j]]
    /\ UNCHANGED <<setting, modesOn, box, current, seenModes, bodyShown, dialog,
                   flips, overlapped>>
-----------------------------------------------------------------------------
(* The server (ConfigController); a save it refuses, an error and a        *)
(* request that is lost before or after it was served.                     *)
ServeSettings(c) ==
    /\ c \in waiting /\ c.ans = "none" /\ c.is \in {"modes", "config"}
    /\ \E ans \in Answer_ \ {"none"} :
          waiting' = (waiting \ {c}) \cup
              {[c EXCEPT !.ans = ans, !.told = setting, !.modes = modesOn]}
    /\ UNCHANGED <<setting, modesOn, page_, dialog, flips, overlapped>>

ServeSave(c) ==
    /\ c \in waiting /\ c.ans = "none" /\ c.is \in {"save", "run"}
    /\ \E ans \in {"ok", "failed"}, done \in BOOLEAN :
          /\ ans = "ok" => done
          /\ waiting' = (waiting \ {c}) \cup {[c EXCEPT !.ans = ans]}
          /\ IF done /\ c.is = "save"
               THEN /\ setting' = [setting EXCEPT ![c.of] = c.want]
                    /\ modesOn' = IF c.of = "push" THEN c.modes ELSE modesOn
               ELSE UNCHANGED <<setting, modesOn>>
    /\ UNCHANGED <<page_, dialog, flips, overlapped>>

(* The CI switches of the platform page, used by this or another admin     *)
ModesChange ==
    /\ Flipped /\ modesOn' = ~modesOn
    /\ UNCHANGED <<setting, page_, dialog, waiting, overlapped>>

SettingsNext ==
    \/ OpenModes \/ OpenConfig \/ SayNo \/ SayYes \/ ModesChange
    \/ \E s \in Switches : Flip(s)
    \/ \E j \in Jobs : PressRun(j)
    \/ \E c \in waiting : \/ ModesArrive(c) \/ ConfigArrives(c) \/ SaveArrives(c)
                          \/ LogSaveArrives(c) \/ RunArrives(c)
                          \/ ServeSettings(c) \/ ServeSave(c)

SettingsSpec == SettingsInit /\ [][SettingsNext]_settingsVars
-----------------------------------------------------------------------------
SettingsTypeOK ==
    /\ setting \in Flags /\ box \in Flags /\ current \in Flags
    /\ modesOn \in BOOLEAN /\ seenModes \in BOOLEAN /\ bodyShown \in BOOLEAN
    /\ runOff \in [Jobs -> BOOLEAN] /\ dialog \in Dialogs
    /\ dialog.is = "run" \/ (dialog.is = "flip" /\ dialog.of # "push") => bodyShown
    /\ waiting \subseteq Calls /\ flips \in 0 .. MaxFlips /\ overlapped \in BOOLEAN

(* A box that is displayed and at rest shows the value its switch is known *)
(* to have, whether the user said no, the change was refused, or it was    *)
(* made, as long as no two of these ran side by side.                      *)
RestingBoxIsTrue ==
    Quiet /\ ~overlapped =>
        \A s \in Switches : (s = "push" \/ bodyShown) => box[s] = current[s]

(* "Keep in step with the switch: a run is possible only while it is on,   *)
(* so that no click is refused" (the comment of syncTagRunButtons): with   *)
(* no run under way each button is as its switch is known to be, whatever  *)
(* loads, saves and runs overlapped.                                       *)
RunFollowsItsSwitch ==
    bodyShown /\ (\A c \in waiting : c.is # "run")
        => \A j \in Jobs : runOff[j] = ~current[j]

(* "Once confirmed the button is disabled" (the comment of runTagJob):     *)
(* while a run is under way its button stays so.                           *)
RunningJobIsDisabled == \A c \in waiting : c.is = "run" => runOff[c.of]
=============================================================================
