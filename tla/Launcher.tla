------------------------------ MODULE Launcher -------------------------------
(***************************************************************************)
(* The Electron main process (src/electron/main.ts): the phase of the      *)
(* launcher, the operations the window asks for, the game it starts and    *)
(* when the process may quit.  An operation is an asynchronous handler: it *)
(* checks its guards when it is called, then runs in steps between which   *)
(* other handlers, the game, the window and the updater are served.        *)
(*                                                                         *)
(* The renderer (src/src/App.tsx) awaits one operation at a time and       *)
(* disables its controls meanwhile; a window that is closed and opened     *)
(* again awaits nothing, whatever the main process is still doing.         *)
(*                                                                         *)
(* What a launch does between its report and the process it spawns is one  *)
(* step here.  Account keys, the server menu and the news are left out:    *)
(* they touch none of this state.                                          *)
(***************************************************************************)

VARIABLES
  app,                \* "up", or "quit" once app.quit() or the updater ran
  mainWindow,         \* is there a window?
  busy,               \* the operation the renderer of that window awaits
  quitWhenGameExits,  \* the window was closed while the process had to stay
  phase,              \* LauncherPhase
  play,               \* where the play handler is
  child,              \* the game process: "none" or "running"
  recording,          \* diagnostics.active: "none", "open" or "finalizing"
  uploading,          \* a report of an earlier run is being uploaded
  debugSettingWrite,  \* the Debug setting is being saved
  installed,          \* does the configuration name an installation?
  selection,          \* the folders chosen: "none", "direct", "copy" or "target"
  selecting,          \* the folder dialog that is open: "none", "source", "destination"
  detecting,          \* is detectSource running?
  install,            \* where the install handler is
  assetSyncEnabled,
  assetSyncRunning,   \* the operation that holds the asset lock, or "none"
  restoring,          \* is a vanilla restore running?
  updateKnown,        \* must a launcher update be installed before Play?
  upsets              \* history: what the guards of the handlers do not see

windowVars    == <<app, mainWindow, quitWhenGameExits>>
sessionVars   == <<play, child, recording>>
settingVars   == <<uploading, debugSettingWrite, updateKnown>>
selectionVars == <<selection, selecting, detecting>>
assetVars     == <<assetSyncEnabled, assetSyncRunning, restoring>>
setupVars     == <<installed, install, selectionVars>>

vars == <<windowVars, busy, phase, sessionVars, settingVars, setupVars,
          assetVars, upsets>>

Phases == {"unconfigured", "source-selected", "destination-selected",
           "installing", "ready", "launching", "running", "error"}

(***************************************************************************)
(* initialize(): the installation was found valid, found broken, or there  *)
(* is none.  With Debug on, the last report may still have to be uploaded. *)
(***************************************************************************)
Init ==
  /\ app = "up" /\ mainWindow = TRUE /\ quitWhenGameExits = FALSE
  /\ busy = "none"
  /\ installed \in BOOLEAN
  /\ phase \in IF installed THEN {"ready", "error"} ELSE {"unconfigured"}
  /\ play = "idle" /\ child = "none" /\ recording = "none"
  /\ uploading \in BOOLEAN
  /\ debugSettingWrite = FALSE /\ updateKnown = FALSE
  /\ selection = "none" /\ selecting = "none" /\ detecting = FALSE
  /\ install = "idle"
  /\ assetSyncEnabled \in BOOLEAN /\ assetSyncRunning = "none" /\ restoring = FALSE
  /\ upsets = {}

(* The guard most handlers share: isSelectionLocked and its copies *)
GameInUse == child = "running" \/ phase \in {"launching", "running"}

DiagnosticWork == debugSettingWrite \/ recording = "finalizing" \/ uploading

(* A control of the renderer that is not disabled: App.tsx working *)
Free == mainWindow /\ busy = "none" /\ ~uploading

Reply(op) == busy' = IF busy = op THEN "none" ELSE busy

(* The check the ends of a session make once the window is closed *)
QuitIfClosed ==
  app' = IF quitWhenGameExits /\ ~mainWindow /\ ~DiagnosticWork'
           THEN "quit" ELSE app

SessionUnderWay == play # "idle" \/ child = "running" \/ recording # "none"

(* Nothing has overwritten the phase of a session *)
PhaseIntact == upsets \subseteq {"abandoned"}

(* Bound: it happens once in a behaviour *)
Overwritten(by) ==
  IF SessionUnderWay THEN upsets = {} /\ upsets' = {by} ELSE UNCHANGED upsets

-----------------------------------------------------------------------------
(***************************************************************************)
(* play: synchronize the assets, open a report, launch, wait until the     *)
(* game has survived its start-up.                                         *)
(***************************************************************************)
(* Bound: once something else has overwritten the phase of a launch, a second
   play handler beside the first is not followed *)
OnePlayHandler == PhaseIntact \/ play = "idle"

Play ==
  /\ OnePlayHandler
  /\ Free
  /\ phase = "ready" /\ ~updateKnown /\ ~DiagnosticWork
  /\ phase' = "launching" /\ play' = "start" /\ busy' = "play"
  /\ UNCHANGED <<windowVars, child, recording, settingVars, setupVars,
                 assetVars, upsets>>

PlaySkipsSync ==
  /\ play = "start" /\ ~assetSyncEnabled
  /\ play' = "begin"
  /\ UNCHANGED <<windowVars, busy, phase, child, recording, settingVars,
                 setupVars, assetVars, upsets>>

PlaySync ==
  /\ play = "start" /\ assetSyncEnabled /\ assetSyncRunning = "none"
  /\ play' = "sync" /\ assetSyncRunning' = "play"
  /\ UNCHANGED <<windowVars, busy, phase, child, recording, settingVars,
                 setupVars, assetSyncEnabled, restoring, upsets>>

PlaySynced ==
  /\ play = "sync"
  /\ play' = "begin" /\ assetSyncRunning' = "none"
  /\ UNCHANGED <<windowVars, busy, phase, child, recording, settingVars,
                 setupVars, assetSyncEnabled, restoring, upsets>>

(* The lock is taken, or the feed could not be installed: back to "ready",
   without the check for a closed window the other ends of a session make *)
PlayAssetsFail ==
  /\ \/ /\ play = "start" /\ assetSyncEnabled /\ assetSyncRunning # "none"
        /\ UNCHANGED assetSyncRunning
     \/ /\ play = "sync"
        /\ assetSyncRunning' = "none"
  /\ play' = "idle" /\ phase' = "ready"
  /\ Reply("play")
  /\ UNCHANGED <<windowVars, child, recording, settingVars, setupVars,
                 assetSyncEnabled, restoring, upsets>>

(* A report that cannot be opened does not stop the launch *)
PlayBegins ==
  /\ play = "begin"
  /\ play' = "launch"
  /\ recording' \in IF recording = "none" THEN {"none", "open"} ELSE {recording}
  /\ UNCHANGED <<windowVars, busy, phase, child, settingVars, setupVars,
                 assetVars, upsets>>

PlaySpawns ==
  /\ play = "launch" /\ child = "none"
  /\ play' = "startup" /\ child' = "running"
  /\ UNCHANGED <<windowVars, busy, phase, recording, settingVars, setupVars,
                 assetVars, upsets>>

StartupStable ==
  /\ play = "startup" /\ child = "running"
  /\ play' = "idle" /\ phase' = "running"
  /\ Reply("play")
  /\ UNCHANGED <<windowVars, child, recording, settingVars, setupVars,
                 assetVars, upsets>>

(* Mutant of EndSession: the play handler goes on waiting *)
EndSessionForgetsPlay == phase' = "ready" /\ UNCHANGED <<play, busy>>

(* onExit and the catch of play: they follow the end of the report, or the
   end of the game when there is no report, without another event between *)
EndSession ==
  /\ phase' = "ready"
  /\ IF play \in {"launch", "startup", "failing"}
       THEN play' = "idle" /\ Reply("play")
       ELSE UNCHANGED <<play, busy>>

(* Refused before the spawn: an invalid client, the server, the patch... *)
LaunchFails ==
  /\ play = "launch"
  /\ updateKnown' \in {updateKnown, TRUE}
  /\ IF recording = "open"
       THEN /\ recording' = "finalizing" /\ play' = "failing"
            /\ UNCHANGED <<app, busy, phase>>
       ELSE /\ EndSession
            /\ UNCHANGED <<recording, uploading, debugSettingWrite>>
            /\ QuitIfClosed
  /\ UNCHANGED <<mainWindow, quitWhenGameExits, child, uploading,
                 debugSettingWrite, setupVars, assetVars, upsets>>

(* Mutant of GameExits: the phase does not wait for the report *)
GameExitsAtOnce ==
  /\ child = "running"
  /\ child' = "none"
  /\ recording' = IF recording = "open" THEN "finalizing" ELSE recording
  /\ EndSession
  /\ UNCHANGED <<mainWindow, quitWhenGameExits, settingVars, setupVars,
                 assetVars, upsets>>
  /\ QuitIfClosed

GameExits ==
  /\ child = "running"
  /\ child' = "none"
  /\ IF recording = "open"
       THEN /\ recording' = "finalizing"
            /\ play' = IF play = "startup" THEN "failing" ELSE play
            /\ UNCHANGED <<app, busy, phase>>
       ELSE /\ EndSession
            /\ UNCHANGED <<recording, uploading, debugSettingWrite>>
            /\ QuitIfClosed
  /\ UNCHANGED <<mainWindow, quitWhenGameExits, settingVars, setupVars,
                 assetVars, upsets>>

(* Mutant of ReportPersisted: a closed window is not looked at *)
ReportPersistedStays ==
  /\ recording = "finalizing"
  /\ recording' = "none"
  /\ EndSession
  /\ UNCHANGED <<windowVars, child, settingVars, setupVars, assetVars, upsets>>

ReportPersisted ==
  /\ recording = "finalizing"
  /\ recording' = "none"
  /\ EndSession
  /\ UNCHANGED <<mainWindow, quitWhenGameExits, child, settingVars, setupVars,
                 assetVars, upsets>>
  /\ QuitIfClosed

-----------------------------------------------------------------------------
(***************************************************************************)
(* The window: closing the last one quits, unless a session or diagnostic  *)
(* work is under way; a second launcher gives the window back.  upsets     *)
(* remembers a restore that outlives its window.                           *)
(***************************************************************************)
CloseWindow ==
  /\ mainWindow
  /\ mainWindow' = FALSE /\ busy' = "none"
  /\ IF GameInUse \/ DiagnosticWork
       THEN quitWhenGameExits' = TRUE /\ UNCHANGED app
       ELSE app' = "quit" /\ UNCHANGED quitWhenGameExits
  /\ upsets' = IF restoring THEN upsets \cup {"abandoned"} ELSE upsets
  /\ UNCHANGED <<phase, sessionVars, settingVars, setupVars, assetVars>>

SecondInstance ==
  /\ ~mainWindow
  /\ mainWindow' = TRUE /\ quitWhenGameExits' = FALSE
  /\ UNCHANGED <<app, busy, phase, sessionVars, settingVars, setupVars,
                 assetVars, upsets>>

UncaughtException ==
  /\ phase' = "error"
  /\ Overwritten("exception")
  /\ UNCHANGED <<windowVars, busy, sessionVars, settingVars, setupVars, assetVars>>

UpdateFound ==
  /\ ~updateKnown
  /\ updateKnown' = TRUE
  /\ UNCHANGED <<windowVars, busy, phase, sessionVars, uploading,
                 debugSettingWrite, setupVars, assetVars, upsets>>

(* installLauncherUpdate, once downloaded: quitAndInstall *)
InstallUpdate ==
  /\ Free /\ updateKnown /\ ~GameInUse
  /\ app' = "quit"
  /\ UNCHANGED <<mainWindow, quitWhenGameExits, busy, phase, sessionVars,
                 settingVars, setupVars, assetVars, upsets>>

UploadEnds ==
  /\ uploading
  /\ uploading' = FALSE
  /\ UNCHANGED <<windowVars, busy, phase, sessionVars, debugSettingWrite,
                 updateKnown, setupVars, assetVars, upsets>>

SetDebugSession ==
  /\ Free
  /\ ~GameInUse /\ phase # "installing"
  /\ ~DiagnosticWork /\ assetSyncRunning = "none"
  /\ debugSettingWrite' = TRUE /\ busy' = "debug"
  /\ UNCHANGED <<windowVars, phase, sessionVars, uploading, updateKnown,
                 setupVars, assetVars, upsets>>

DebugSessionSaved ==
  /\ debugSettingWrite
  /\ debugSettingWrite' = FALSE
  /\ Reply("debug")
  /\ UNCHANGED <<mainWindow, quitWhenGameExits, phase, sessionVars, uploading,
                 updateKnown, setupVars, assetVars, upsets>>
  /\ IF child = "none" THEN QuitIfClosed ELSE UNCHANGED app

-----------------------------------------------------------------------------
(***************************************************************************)
(* Choosing the folders and installing.                                    *)
(***************************************************************************)
Selections == {"direct", "copy", "target"}

PhaseOf(c) == IF c = "target" THEN "destination-selected" ELSE "source-selected"

(* detectSource: the guard is not checked again when the search returns *)
DetectSource ==
  /\ mainWindow /\ ~installed /\ ~detecting
  /\ ~GameInUse /\ install = "idle" /\ selection = "none"
  /\ detecting' = TRUE
  /\ UNCHANGED <<windowVars, busy, phase, sessionVars, settingVars, installed,
                 install, selection, selecting, assetVars, upsets>>

DetectEnds ==
  /\ detecting
  /\ detecting' = FALSE
  /\ \/ UNCHANGED <<selection, phase, upsets>>
     \/ \E c \in Selections :
          /\ selection' = c /\ phase' = PhaseOf(c)
          /\ Overwritten("detection")
  /\ UNCHANGED <<windowVars, busy, sessionVars, settingVars, installed, install,
                 selecting, assetVars>>

SelectSource ==
  /\ Free /\ ~GameInUse /\ phase # "installing"
  /\ selecting' = "source" /\ busy' = "select"
  /\ UNCHANGED <<windowVars, phase, sessionVars, settingVars, installed, install,
                 selection, detecting, assetVars, upsets>>

(* No guard against a running game here *)
SelectDestination ==
  /\ Free /\ phase # "installing"
  /\ selection \in {"copy", "target"}
  /\ selecting' = "destination" /\ busy' = "select"
  /\ UNCHANGED <<windowVars, phase, sessionVars, settingVars, installed, install,
                 selection, detecting, assetVars, upsets>>

(* The dialog is cancelled, the folder is refused, or it is taken *)
SelectionEnds ==
  /\ selecting # "none"
  /\ selecting' = "none"
  /\ Reply("select")
  /\ \/ UNCHANGED <<selection, phase, upsets>>
     \/ /\ \/ phase' = "error" /\ UNCHANGED selection
           \/ \E c \in IF selecting = "source" THEN Selections ELSE {"target"} :
                selection' = c /\ phase' = PhaseOf(c)
        /\ Overwritten("selection")
  /\ UNCHANGED <<windowVars, sessionVars, settingVars, installed, install,
                 detecting, assetVars>>

Install ==
  /\ Free /\ ~GameInUse /\ install = "idle"
  /\ selection \in {"direct", "target"}
  /\ install' = "copying" /\ phase' = "installing" /\ busy' = "install"
  /\ UNCHANGED <<windowVars, sessionVars, settingVars, installed,
                 selectionVars, assetVars, upsets>>

InstallFails ==
  /\ install = "copying"
  /\ install' = "idle" /\ phase' = "error"
  /\ Reply("install")
  /\ UNCHANGED <<windowVars, sessionVars, settingVars, installed,
                 selectionVars, assetVars, upsets>>

InstallDone ==
  /\ install = "copying"
  /\ installed' = TRUE /\ phase' = "ready"
  /\ IF assetSyncEnabled /\ assetSyncRunning = "none"
       THEN /\ install' = "syncing" /\ assetSyncRunning' = "install"
            /\ UNCHANGED busy
       ELSE install' = "idle" /\ Reply("install") /\ UNCHANGED assetSyncRunning
  /\ UNCHANGED <<windowVars, sessionVars, settingVars, selectionVars,
                 assetSyncEnabled, restoring, upsets>>

InstallSynced ==
  /\ install = "syncing"
  /\ install' = "idle" /\ assetSyncRunning' = "none"
  /\ Reply("install")
  /\ UNCHANGED <<windowVars, phase, sessionVars, settingVars, installed,
                 selectionVars, assetSyncEnabled, restoring, upsets>>

-----------------------------------------------------------------------------
(* Mutant of MayTouchAssets: the session is not looked at *)
MayAlwaysTouchAssets == Free /\ installed /\ assetSyncRunning = "none"

(***************************************************************************)
(* The asset operations of the setup panel.                                *)
(***************************************************************************)
MayTouchAssets ==
  /\ Free /\ installed
  /\ ~GameInUse /\ phase # "installing"
  /\ assetSyncRunning = "none"

VerifyAssets ==
  /\ MayTouchAssets /\ assetSyncEnabled
  /\ assetSyncRunning' = "verify" /\ busy' = "verify"
  /\ UNCHANGED <<windowVars, phase, sessionVars, settingVars, setupVars,
                 assetSyncEnabled, restoring, upsets>>

VerifyEnds ==
  /\ assetSyncRunning = "verify"
  /\ assetSyncRunning' = "none"
  /\ Reply("verify")
  /\ UNCHANGED <<windowVars, phase, sessionVars, settingVars, setupVars,
                 assetSyncEnabled, restoring, upsets>>

RestoreVanillaAssets ==
  /\ MayTouchAssets
  /\ restoring' = TRUE /\ busy' = "restore"
  /\ UNCHANGED <<windowVars, phase, sessionVars, settingVars, setupVars,
                 assetSyncEnabled, assetSyncRunning, upsets>>

RestoreEnds ==
  /\ restoring
  /\ restoring' = FALSE
  /\ Reply("restore")
  /\ UNCHANGED <<windowVars, phase, sessionVars, settingVars, setupVars,
                 assetSyncEnabled, assetSyncRunning, upsets>>

SetAssetSyncEnabled ==
  /\ Free /\ installed /\ assetSyncRunning = "none"
  /\ assetSyncEnabled' = ~assetSyncEnabled
  /\ UNCHANGED <<windowVars, busy, phase, sessionVars, settingVars, setupVars,
                 assetSyncRunning, restoring, upsets>>

-----------------------------------------------------------------------------
PlayStep ==
  \/ PlaySkipsSync \/ PlaySync \/ PlaySynced \/ PlayAssetsFail
  \/ PlayBegins \/ PlaySpawns \/ StartupStable \/ LaunchFails

InstallStep == InstallFails \/ InstallDone \/ InstallSynced

Request ==
  \/ Play \/ SetDebugSession \/ InstallUpdate
  \/ DetectSource \/ SelectSource \/ SelectDestination \/ Install
  \/ VerifyAssets \/ RestoreVanillaAssets \/ SetAssetSyncEnabled

Event ==
  \/ GameExits \/ ReportPersisted
  \/ CloseWindow \/ SecondInstance \/ UncaughtException \/ UpdateFound
  \/ UploadEnds \/ DebugSessionSaved \/ DetectEnds \/ SelectionEnds
  \/ VerifyEnds \/ RestoreEnds

(* The process has quit *)
Stopped == app = "quit" /\ UNCHANGED vars

Next ==
  \/ app = "up" /\ (Request \/ PlayStep \/ InstallStep \/ Event)
  \/ Stopped

(* Every operation ends: downloads, requests and dialogs have time limits or
   a user in front of them.  Neither the game nor the user has to do anything *)
Fairness ==
  /\ WF_vars(app = "up" /\ PlayStep)
  /\ WF_vars(app = "up" /\ ReportPersisted)
  /\ WF_vars(app = "up" /\ InstallStep)
  /\ WF_vars(app = "up" /\ UploadEnds)
  /\ WF_vars(app = "up" /\ DebugSessionSaved)
  /\ WF_vars(app = "up" /\ VerifyEnds)
  /\ WF_vars(app = "up" /\ RestoreEnds)

Spec == Init /\ [][Next]_vars /\ Fairness
==============================================================================
