--------------------------- MODULE ConfigStoreProps --------------------------
(***************************************************************************)
(* What the settings store promises.                                       *)
(***************************************************************************)
EXTENDS ConfigStore

Recoverable ==
  /\ troubles \cap {"overlap", "override"} = {}
  /\ "damage" \in troubles => troubles \cap {"backup", "offline"} = {}

(* A launcher that is not saving remembers exactly the choices that reached the
   disk, across crashes, failed saves and restarts; one unreadable file costs
   nothing as long as the backup was written and its client is there.  What can
   cost a choice is two saves at once, or an old document with an installation. *)
NoChoiceLost ==
  up = "up" /\ ~Saving /\ Recoverable =>
    /\ memory = chosen
    /\ file["config"] = Document(chosen, FALSE)

(* README.md: the setup panel comes back only "si aucune installation valide
   n'a encore été enregistrée": an installation that reached the disk is still
   known after any restart, one installation or another, also when saves failed
   and when an older document took over. *)
InstallationRemembered ==
  up = "up" /\ ~Saving /\ "overlap" \notin troubles
  /\ ("damage" \in troubles => troubles \cap {"backup", "offline"} = {})
  /\ chosen # None /\ chosen["installation"] # Unset
    => memory["installation"] # Unset

(* config-store.ts:206, "The canonical file is authoritative", and the test
   "remembers the selected server and role across restarts": with no damage, no
   failed backup and no two saves at once, a load takes every setting that the
   player chose with this launcher. *)
ChoicesSurviveRestart ==
  [][Load /\ chosen # None /\ troubles \subseteq {"offline"} =>
       \A f \in Settings :
         chosen[f] # Unset => save'["startup"].next[f] = chosen[f]]_storeVars
==============================================================================
