\* The whole main process: every operation, the game, the window, the updater.
SPECIFICATION Spec
INVARIANTS
  GameHasSettledClient
  PhaseTellsSession
PROPERTIES
  QuitsAfterReport
  LaunchSettles
