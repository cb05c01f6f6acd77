---------------------------- MODULE LauncherProps ----------------------------
(***************************************************************************)
(* What the launcher promises about sessions, the window and the client.   *)
(***************************************************************************)
EXTENDS Launcher

(* Play, verify, restore and install exclude each other by guards that read
   phase, the lock and the child at different times, and by the one operation
   the renderer awaits, which a new window forgets.  Unless the phase of a launch
   was overwritten, or a restore outlived its window, nobody writes the
   installation of a game that runs. *)
GameHasSettledClient ==
  child = "running" /\ upsets = {} =>
    assetSyncRunning = "none" /\ ~restoring /\ install = "idle"

(* The phase, which guards most handlers, tells exactly when a session is under
   way, from the click on Play to the end of its report. *)
PhaseTellsSession ==
  PhaseIntact =>
    (SessionUnderWay <=> phase \in {"launching", "running"})

(* CRASH_REPORTS.md has the process of a closed window stay "jusqu'a la fin de
   la preparation": once the game is over and its report written, it quits. *)
QuitsAfterReport ==
  (~mainWindow /\ recording = "finalizing") ~> (app = "quit" \/ mainWindow)

(* A launch comes to an end: the game runs, or the player may try again. *)
LaunchSettles == play # "idle" ~> (play = "idle" \/ app = "quit")

(* CRASH_REPORTS.md: without a window the process stays "pendant le jeu et
   jusqu'à la fin de la préparation": once a window is closed and no game comes
   of the launch, the process goes away or gets a window back. *)
NoWindowlessProcess ==
  (~mainWindow /\ PhaseIntact)
    ~> (app = "quit" \/ mainWindow \/ child = "running" \/ ~PhaseIntact)
==============================================================================
