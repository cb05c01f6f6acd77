--------------------------- MODULE LauncherProofs ---------------------------
(***************************************************************************)
(* Proofs about the main process and its settings store.  Of the process:  *)
(* the phase tells the session, and nobody writes the installation of a    *)
(* game that runs.  Of the store: no choice is lost, for any settings,     *)
(* values, installations and any number of older launchers.  Both rest on  *)
(* an inductive invariant, MainInv and StoreInv.                           *)
(***************************************************************************)
EXTENDS LauncherProps, ConfigStoreProps, WellFoundedInduction, TLAPS

(* Who may hold the lock of the assets. *)
Owners == {"play", "install", "verify"}

(* The types of what the guards read. *)
MainTyped ==
  /\ app \in {"up", "quit"}
  /\ phase \in Phases
  /\ play \in {"idle", "start", "sync", "begin", "launch", "startup", "failing"}
  /\ child \in {"none", "running"}
  /\ recording \in {"none", "open", "finalizing"}
  /\ install \in {"idle", "copying", "syncing"}
  /\ assetSyncRunning \in Owners \cup {"none"}

(* The lock of the assets is held by the operation that says so, and only while
   the feed is enabled. *)
Locked ==
  /\ install = "syncing" <=> assetSyncRunning = "install"
  /\ play = "sync" <=> assetSyncRunning = "play"
  /\ assetSyncRunning # "none" => assetSyncEnabled

(* What the phase tells of play, game and report. *)
Staged ==
  /\ SessionUnderWay <=> phase \in {"launching", "running"}
  /\ play # "idle" => phase = "launching"
  /\ play \in {"start", "sync", "begin"} => child = "none" /\ recording = "none"
  /\ play = "launch" => child = "none" /\ recording # "finalizing"
  /\ play = "startup" => child = "running"
  /\ child = "running" => play \in {"idle", "startup"} /\ recording # "finalizing"
  /\ play = "failing" => recording = "finalizing"
  /\ recording = "open" => child = "running" \/ play = "launch"
  /\ recording = "finalizing" => play \in {"idle", "failing"}
  /\ install = "copying" => phase # "ready" /\ ~SessionUnderWay

(* From the end of the sync to the end of the report nobody has the lock. *)
Beyond == child = "running" \/ recording # "none" \/ play \in {"begin", "launch"}

Kept ==
  /\ Beyond => assetSyncRunning = "none"
  /\ restoring /\ upsets = {} => busy = "restore" /\ ~SessionUnderWay

(* The inductive invariant of the main process. *)
MainInv == MainTyped /\ Locked /\ (PhaseIntact => Staged /\ Kept)

(* The launcher starts with no session, and with the lock free. *)
LEMMA MainBegins == Init => MainInv
BY DEF Init, MainInv, MainTyped, Owners, Phases, Locked, Staged, Kept, Beyond,
       SessionUnderWay, PhaseIntact

(* Every handler, every reply and every event keeps the invariant. *)
LEMMA MainHolds == MainInv /\ [Next]_vars => MainInv'
<1> SUFFICES ASSUME MainInv, [Next]_vars PROVE MainInv'
  OBVIOUS
<1> USE DEF MainInv, MainTyped, Owners, Phases, Locked, Staged, Kept, Beyond,
            SessionUnderWay, PhaseIntact, windowVars, sessionVars, settingVars,
            selectionVars, setupVars, assetVars
<1>1. CASE Play
  BY <1>1 DEF Play, OnePlayHandler, Free
<1>2. CASE PlaySkipsSync
  BY <1>2 DEF PlaySkipsSync
<1>3. CASE PlaySync
  BY <1>3 DEF PlaySync
<1>4. CASE PlaySynced
  BY <1>4 DEF PlaySynced
<1>5. CASE PlayAssetsFail
  BY <1>5 DEF PlayAssetsFail, Reply
<1>6. CASE PlayBegins
  BY <1>6 DEF PlayBegins
<1>7. CASE PlaySpawns
  BY <1>7 DEF PlaySpawns
<1>8. CASE StartupStable
  BY <1>8 DEF StartupStable, Reply
<1>9. CASE LaunchFails
  BY <1>9 DEF LaunchFails, EndSession, Reply, QuitIfClosed
<1>10. CASE GameExits
  BY <1>10 DEF GameExits, EndSession, Reply, QuitIfClosed
<1>11. CASE ReportPersisted
  BY <1>11 DEF ReportPersisted, EndSession, Reply, QuitIfClosed
<1>12. CASE InstallFails
  BY <1>12 DEF InstallFails, Reply
<1>13. CASE InstallDone
  BY <1>13 DEF InstallDone, Reply
<1>14. CASE InstallSynced
  BY <1>14 DEF InstallSynced, Reply
<1>15. CASE SetDebugSession
  BY <1>15 DEF SetDebugSession, Free, GameInUse
<1>16. CASE InstallUpdate
  BY <1>16 DEF InstallUpdate, Free
<1>17. CASE DetectSource
  BY <1>17 DEF DetectSource, GameInUse
<1>18. CASE SelectSource
  BY <1>18 DEF SelectSource, Free
<1>19. CASE SelectDestination
  BY <1>19 DEF SelectDestination, Free
<1>20. CASE Install
  BY <1>20 DEF Install, Free, GameInUse
<1>21. CASE VerifyAssets
  BY <1>21 DEF VerifyAssets, MayTouchAssets, Free, GameInUse
<1>22. CASE RestoreVanillaAssets
  BY <1>22 DEF RestoreVanillaAssets, MayTouchAssets, Free, GameInUse
<1>23. CASE SetAssetSyncEnabled
  BY <1>23 DEF SetAssetSyncEnabled, Free
<1>24. CASE CloseWindow
  BY <1>24 DEF CloseWindow
<1>25. CASE SecondInstance
  BY <1>25 DEF SecondInstance
<1>26. CASE UncaughtException
  BY <1>26 DEF UncaughtException, Overwritten
<1>27. CASE UpdateFound
  BY <1>27 DEF UpdateFound
<1>28. CASE UploadEnds
  BY <1>28 DEF UploadEnds
<1>29. CASE DebugSessionSaved
  BY <1>29 DEF DebugSessionSaved, Reply, QuitIfClosed
<1>30. CASE DetectEnds
  BY <1>30 DEF DetectEnds, Overwritten, PhaseOf
<1>31. CASE SelectionEnds
  BY <1>31 DEF SelectionEnds, Reply, Overwritten, PhaseOf
<1>32. CASE VerifyEnds
  BY <1>32 DEF VerifyEnds, Reply
<1>33. CASE RestoreEnds
  BY <1>33 DEF RestoreEnds, Reply
<1>34. CASE UNCHANGED vars
  BY <1>34 DEF vars
<1> QED
  BY <1>1, <1>2, <1>3, <1>4, <1>5, <1>6, <1>7, <1>8, <1>9, <1>10, <1>11, <1>12,
     <1>13, <1>14, <1>15, <1>16, <1>17, <1>18, <1>19, <1>20, <1>21, <1>22, <1>23,
     <1>24, <1>25, <1>26, <1>27, <1>28, <1>29, <1>30, <1>31, <1>32, <1>33, <1>34
  DEF Next, Request, PlayStep, InstallStep, Event, Stopped

(* Unless something else overwrote the phase, it is "launching" or "running"
   exactly while play, the game or its report is under way (main.ts): what most
   handlers look at before they start. *)
THEOREM PhaseTheorem == Spec => []PhaseTellsSession
<1>1. MainInv => PhaseTellsSession
  BY DEF MainInv, Staged, PhaseTellsSession
<1> QED BY <1>1, MainBegins, MainHolds, PTL DEF Spec

(* A game that runs has a client that no sync, restore or installation writes,
   whatever windows were closed and opened meanwhile (main.ts). *)
THEOREM SettledTheorem == Spec => []GameHasSettledClient
<1>1. MainInv => GameHasSettledClient
  BY DEF MainInv, MainTyped, Locked, Staged, Kept, Beyond, SessionUnderWay,
         PhaseIntact, Owners, GameHasSettledClient
<1> QED BY <1>1, MainBegins, MainHolds, PTL DEF Spec

-----------------------------------------------------------------------------
(* What a save may be. *)
Saves ==
  [pc : {"idle", "write", "remember", "backup", "clean"}, next : Configs,
   field : Fields \cup {None}, clean : Paths \cup {None}]

(* Documents in the files, in memory and in the saves. *)
StoreTyped ==
  /\ file \in [Paths -> Stored]
  /\ memory \in Configs \cup {None}
  /\ up \in {"down", "starting", "up"}
  /\ save \in [Writers -> Saves]
  /\ chosen \in Configs \cup {None}

(* p is a document of this launcher *)
Current(p) == Readable(p) /\ ~file[p].identity

(* The points of a save after its rename *)
Written == {"remember", "backup", "clean"}

(* Who saves when, and what a launcher that is up, or about to be, has. *)
Sequenced ==
  /\ up # "up" => save["debug"].pc = "idle" /\ save["window"].pc = "idle"
  /\ up = "starting" <=> save["startup"].pc # "idle"
  /\ up = "up" => memory # None /\ chosen # None /\ Current("config")
  /\ save["startup"].pc \in Written => chosen # None /\ Current("config")
  /\ save["startup"].pc \in {"backup", "clean"} => memory = save["startup"].next
  /\ save["startup"].clean # "config"
  /\ save["startup"].pc = "clean" => save["startup"].clean # None
  /\ \A w \in {"debug", "window"} :
       save[w].pc # "idle" => /\ save[w].field # None /\ save[w].clean = None
                              /\ save[w].pc # "clean"
  /\ chosen = None /\ Readable("config") => file["config"].identity

(* Nothing happened that the store does not make up for. *)
Mended ==
  /\ "overlap" \notin troubles
  /\ "damage" \in troubles => troubles \cap {"backup", "offline"} = {}

(* The document that the next load begins with *)
Held == IF Readable("config") THEN file["config"].config ELSE file["backup"].config

(* c is what the player chose, as far as no older document was preferred. *)
Means(c) ==
  /\ "override" \notin troubles => c = chosen
  /\ chosen["installation"] # Unset => c["installation"] # Unset

(* One of the two files is good, and both are alike between two saves. *)
OnDisk ==
  /\ \/ Current("config")
     \/ "damage" \in troubles /\ ~Readable("config") /\ Current("backup")
  /\ Means(Held)
  /\ troubles \cap {"damage", "backup"} = {}
       /\ (\A w \in Writers : save[w].pc \notin {"remember", "backup"})
     => file["backup"] = file["config"]

(* The load at startup, and the one save of a launcher that is up. *)
InFlight ==
  /\ save["startup"].pc # "idle" => Means(save["startup"].next)
  /\ \A w \in Writers :
       save[w].pc \in Written => save[w].next = file["config"].config
  /\ \A v, w \in Writers : save[v].pc # "idle" /\ save[w].pc # "idle" => v = w
  /\ \A w \in {"debug", "window"} :
       save[w].pc = "write" =>
         save[w].next = [memory EXCEPT ![save[w].field] = save[w].next[save[w].field]]
  /\ up = "up" /\ (\A w \in Writers : save[w].pc # "remember")
       => memory = file["config"].config

(* The inductive invariant of the store. *)
StoreInv ==
  /\ StoreTyped /\ Sequenced
  /\ Mended /\ chosen # None => OnDisk /\ InFlight

(* A set of naturals that is not empty has a least element. *)
LEMMA LeastOf ==
  ASSUME NEW T \in SUBSET Nat, T # {}
  PROVE  \E m \in T : \A k \in T : m <= k
<1> DEFINE R == {p \in Nat \X Nat : p[1] < p[2]}
<1>1. OpToRel(<, Nat) = R
  BY DEF OpToRel
<1>2. IsWellFoundedOn(R, Nat)
  BY <1>1, NatLessThanWellFounded
<1> HIDE DEF R
<1>3. PICK m \in T : \A k \in T : ~(<<k, m>> \in R)
  BY <1>2, WFMin
<1>4. \A k \in T : ~(k < m)
  BY <1>3 DEF R
<1> QED BY <1>4

(* The candidates begin with config.v1.json and its backup. *)
LEMMA CandidatesBegin ==
  /\ DOMAIN Candidates \in SUBSET Nat
  /\ {1, 2} \subseteq DOMAIN Candidates
  /\ Candidates[1] = "config" /\ Candidates[2] = "backup"
  /\ \A i \in DOMAIN Candidates : i >= 1
<1> DEFINE S == {LegacyPaths[i] : i \in DOMAIN LegacyPaths} \cup {"config", "backup"}
<1>1. LegacyPaths \in Seq(S) /\ <<"config", "backup">> \in Seq(S)
  BY StoreAssumption
<1> QED BY <1>1 DEF Candidates

(* First takes the earliest candidate of a set of paths. *)
LEMMA FirstIs ==
  ASSUME NEW S \in SUBSET Paths, S # {}
  PROVE  /\ First(S) \in S
         /\ "config" \in S => First(S) = "config"
         /\ "config" \notin S /\ "backup" \in S => First(S) = "backup"
<1> DEFINE at == {i \in DOMAIN Candidates : Candidates[i] \in S}
<1>1. at \in SUBSET Nat /\ at # {}
  BY CandidatesBegin DEF Paths
<1>2. \E i \in at : \A j \in at : i <= j
  BY <1>1, LeastOf
<1> DEFINE least == CHOOSE i \in at : \A j \in at : i <= j
<1>3. least \in at /\ \A j \in at : least <= j
  BY <1>2
<1>4. First(S) = Candidates[least]
  BY DEF First
<1> HIDE DEF least
<1>5. First(S) \in S
  BY <1>3, <1>4
<1>6. ASSUME "config" \in S PROVE First(S) = "config"
  <2>1. 1 \in at
    BY <1>6, CandidatesBegin
  <2>2. least = 1
    BY <2>1, <1>3, <1>1, CandidatesBegin
  <2> QED BY <2>2, <1>4, CandidatesBegin
<1>7. ASSUME "config" \notin S, "backup" \in S PROVE First(S) = "backup"
  <2>1. 2 \in at /\ 1 \notin at
    BY <1>7, CandidatesBegin
  <2>2. least = 2
    BY <2>1, <1>3, <1>1, CandidatesBegin
  <2> QED BY <2>2, <1>4, CandidatesBegin
<1> QED BY <1>5, <1>6, <1>7

(* The two files of this launcher are among the paths. *)
LEMMA OwnPaths == "config" \in Paths /\ "backup" \in Paths
BY CandidatesBegin DEF Paths

(* A choice that replaces another leaves a configuration. *)
LEMMA ChoiceIsConfig ==
  ASSUME NEW c \in Configs, NEW f \in Fields,
         NEW v \in (IF f = "installation" THEN Installations ELSE Values)
  PROVE  [c EXCEPT ![f] = v] \in Configs
BY DEF Configs

(* Configurations are functions of the fields, one of them the installation. *)
LEMMA ConfigShape ==
  /\ \A c \in Configs : c = [f \in Fields |-> c[f]]
  /\ freshConfig \in Configs
  /\ "installation" \in Fields
BY DEF Configs, freshConfig, Fields

(* What a file holds is no document or the document of a configuration. *)
LEMMA StoredShape ==
  /\ \A x \in Stored :
       \/ x \in Unreadable
       \/ /\ x.config \in Configs /\ x.identity \in BOOLEAN
          /\ x = Document(x.config, x.identity)
  /\ \A c \in Configs, b \in BOOLEAN :
       /\ Document(c, b) \in Stored /\ Document(c, b) \notin Unreadable
       /\ Document(c, b).config = c /\ Document(c, b).identity = b
  /\ Missing \in Unreadable /\ Broken \in Unreadable /\ Unreadable \subseteq Stored
<1>1. \A c \in Configs, b \in BOOLEAN : Document(c, b) \notin Unreadable
  BY DocumentAssumption
<1> QED BY <1>1 DEF Stored, Document, Unreadable

(* A load takes a usable document, and not the first one only for one that
   names an installation. *)
LEMMA SelectedIs ==
  ASSUME UsablePaths # {}
  PROVE  /\ Selected \in UsablePaths
         /\ First(UsablePaths) \in UsablePaths
         /\ Selected = First(UsablePaths) \/ Installed(Selected)
<1> DEFINE naming == {p \in UsablePaths : Installed(p)}
<1>1. UsablePaths \in SUBSET Paths /\ naming \in SUBSET Paths
  BY DEF UsablePaths
<1>2. First(UsablePaths) \in UsablePaths
  BY <1>1, FirstIs
<1>3. naming # {} => First(naming) \in naming
  BY <1>1, FirstIs
<1>4. Selected = First(IF naming # {} THEN naming ELSE UsablePaths)
  BY DEF Selected
<1> QED BY <1>2, <1>3, <1>4

(* A usable path holds the document of a configuration. *)
LEMMA UsableIs ==
  ASSUME StoreTyped, NEW p \in UsablePaths
  PROVE  /\ p \in Paths /\ Readable(p)
         /\ file[p].config \in Configs /\ file[p].identity \in BOOLEAN
<1>1. p \in Paths /\ Readable(p) /\ file[p] \in Stored
  BY DEF UsablePaths, Usable, StoreTyped
<1> QED BY <1>1, StoredShape DEF Readable

(* A load begins the save of the document it selected, and may skip what is
   written already; with no usable document it begins anew. *)
LEMMA LoadIs ==
  ASSUME StoreTyped, Load
  PROVE  \E s \in Saves :
           /\ save' = [save EXCEPT !["startup"] = s]
           /\ s.clean # "config" /\ s.pc \in {"write", "backup"}
           /\ \/ /\ UsablePaths = {} /\ s.pc = "write" /\ s.next = freshConfig
                 /\ file' = [file EXCEPT !["config"] = Missing]
                 /\ memory' = freshConfig
              \/ /\ UsablePaths # {} /\ s.next = file[Selected].config
                 /\ UNCHANGED file
                 /\ \/ s.pc = "write" /\ UNCHANGED memory
                    \/ /\ s.pc = "backup" /\ memory' = s.next
                       /\ Selected = "config" /\ Current("config")
<1>0. /\ "startup" \in Writers /\ save \in [Writers -> Saves]
      /\ None # "config" /\ freshConfig \in Configs
  BY ConfigShape, OwnPaths, DocumentAssumption DEF Writers, StoreTyped
<1>1. ASSUME NEW pc, NEW c, NEW k, StartLoad(pc, c, k)
      PROVE  save' = [save EXCEPT !["startup"] =
               [pc |-> pc, next |-> c, field |-> None, clean |-> k]]
  BY <1>1, Zenon DEF StartLoad
<1>2. CASE UsablePaths = {}
  <2>1. /\ file' = [file EXCEPT !["config"] = Missing]
        /\ memory' = freshConfig /\ StartLoad("write", freshConfig, None)
    BY <1>2 DEF Load, LoadFresh, LoadSelected
  <2> DEFINE s == [pc |-> "write", next |-> freshConfig, field |-> None, clean |-> None]
  <2>2. save' = [save EXCEPT !["startup"] = s]
    BY <2>1, <1>1
  <2>3. s \in Saves
    BY <1>0 DEF Saves
  <2> QED BY <2>1, <2>2, <2>3, <1>2, <1>0
<1>3. CASE UsablePaths # {}
  <2> DEFINE p == Selected  c == file[Selected].config
  <2>1. p \in Paths /\ Readable(p) /\ c \in Configs
    BY <1>3, SelectedIs, UsableIs
  <2>2. UNCHANGED file
    BY <1>3 DEF Load, LoadFresh, LoadSelected
  <2>3. CASE p = "config" /\ ~file[p].identity
    <3> DEFINE s == [pc |-> "backup", next |-> c, field |-> None, clean |-> None]
    <3>1. memory' = c /\ StartLoad("backup", c, None)
      BY <1>3, <2>3 DEF Load, LoadSelected, LoadFresh
    <3>2. s \in Saves
      BY <2>1 DEF Saves
    <3>3. Current("config")
      BY <2>1, <2>3 DEF Current
    <3> HIDE DEF p, c
    <3>4. save' = [save EXCEPT !["startup"] = s]
      BY <3>1, <1>1
    <3> QED BY <3>1, <3>2, <3>3, <3>4, <2>2, <2>3, <1>0, <1>3 DEF p, c
  <2>4. CASE ~(p = "config" /\ ~file[p].identity)
    <3> DEFINE k == IF p # "config" /\ file[p].identity THEN p ELSE None
               s == [pc |-> "write", next |-> c, field |-> None, clean |-> k]
    <3>1. UNCHANGED memory /\ StartLoad("write", c, k)
      BY <1>3, <2>4 DEF Load, LoadSelected, LoadFresh
    <3>2. s \in Saves /\ s.clean # "config"
      BY <2>1, <1>0 DEF Saves
    <3> HIDE DEF p, c, k
    <3>3. save' = [save EXCEPT !["startup"] = s]
      BY <3>1, <1>1
    <3> QED BY <3>1, <3>2, <3>3, <2>2, <1>0, <1>3 DEF p, c
  <2> QED BY <2>3, <2>4
<1> QED BY <1>2, <1>3

(* A save of the window or of the Debug switch has a choice in flight. *)
LEMMA SaveIs ==
  ASSUME StoreTyped, Sequenced, NEW w \in Writers, save[w].pc # "idle"
  PROVE  /\ save[w] \in Saves /\ save[w].next \in Configs
         /\ w # "startup" =>
              /\ up = "up" /\ chosen \in Configs /\ memory \in Configs
              /\ save[w].field \in Fields /\ save[w].clean = None
              /\ save[w].pc # "clean"
         /\ w = "startup" => up = "starting"
<1>1. save[w] \in Saves
  BY DEF StoreTyped
<1>2. save[w].next \in Configs /\ save[w].field \in Fields \cup {None}
  BY <1>1 DEF Saves
<1> QED BY <1>1, <1>2 DEF Sequenced, StoreTyped, Writers

(* A choice on the disk is part of a configuration that has been chosen. *)
LEMMA ChosenIs ==
  ASSUME StoreTyped, Sequenced, NEW w \in Writers, WriteConfig(w)
  PROVE  chosen' \in Configs
<1>1. save[w].next \in Configs
  BY SaveIs DEF WriteConfig
<1>2. CASE w # "startup"
  <2>1. chosen \in Configs /\ save[w].field \in Fields
    BY <1>2, SaveIs DEF WriteConfig
  <2>2. chosen' = [chosen EXCEPT ![save[w].field] = save[w].next[save[w].field]]
    BY <1>2 DEF WriteConfig
  <2> QED BY <2>1, <2>2, <1>1 DEF Configs
<1>3. CASE w = "startup"
  <2>1. chosen' = IF chosen = None THEN save[w].next ELSE chosen
    BY <1>3 DEF WriteConfig
  <2> QED BY <2>1, <1>1 DEF StoreTyped
<1> QED BY <1>2, <1>3

(* A save that goes on keeps its document, its choice and what it cleans. *)
LEMMA SaveMoves ==
  ASSUME save \in [Writers -> Saves], NEW w \in Writers, NEW k,
         save' = [save EXCEPT ![w].pc = k]
  PROVE  \A v \in Writers :
           /\ save'[v].pc = (IF v = w THEN k ELSE save[v].pc)
           /\ save'[v].next = save[v].next /\ save'[v].field = save[v].field
           /\ save'[v].clean = save[v].clean
<1>1. \A v \in Writers : save[v] \in Saves
  OBVIOUS
<1>2. \A v \in Writers : save'[v] = IF v = w THEN [save[v] EXCEPT !.pc = k] ELSE save[v]
  OBVIOUS
<1> QED BY <1>1, <1>2 DEF Saves

(* What the store keeps in files, memory and saves stays typed. *)
LEMMA TypedHolds ==
  ASSUME StoreTyped, Sequenced, StoreNext
  PROVE  StoreTyped'
<1> USE DEF StoreTyped
<1>0. NoSave \in Saves /\ {"config", "backup"} \subseteq Paths /\ "startup" \in Writers
  BY ConfigShape, OwnPaths DEF NoSave, Saves, Writers
<1>1. CASE Load
  <2>1. PICK s \in Saves :
          /\ save' = [save EXCEPT !["startup"] = s]
          /\ file' \in {file, [file EXCEPT !["config"] = Missing]}
          /\ memory' \in {memory, s.next, freshConfig}
    BY <1>1, LoadIs
  <2>2. s.next \in Configs /\ freshConfig \in Configs /\ Missing \in Stored
    BY ConfigShape, StoredShape DEF Saves
  <2>3. UNCHANGED chosen /\ up' = "starting"
    BY <1>1 DEF Load
  <2> QED BY <2>1, <2>2, <2>3, <1>0
<1>2. CASE CleanSource
  <2>1. save["startup"] \in Saves /\ save["startup"].next \in Configs
    BY <1>0 DEF Saves
  <2>2. Document(save["startup"].next, FALSE) \in Stored /\ Missing \in Stored
    BY <2>1, StoredShape
  <2> QED BY <1>2, <2>2, <1>0 DEF CleanSource
<1>3. ASSUME NEW w \in Writers, NEW f \in Fields, NEW v \in Values \cup Installations,
             v \in (IF f = "installation" THEN Installations ELSE Values), Choose(w, f, v)
      PROVE  StoreTyped'
  <2>1. memory \in Configs
    BY <1>3 DEF Choose, Sequenced
  <2>2. [memory EXCEPT ![f] = v] \in Configs
    BY <1>3, <2>1, ChoiceIsConfig
  <2>3. [pc |-> "write", field |-> f, clean |-> None,
         next |-> [memory EXCEPT ![f] = v]] \in Saves
    BY <2>2 DEF Saves
  <2> QED BY <1>3, <2>3 DEF Choose
<1>4. ASSUME NEW w \in Writers, WriteConfig(w) PROVE StoreTyped'
  <2>1. save[w] \in Saves /\ save[w].next \in Configs
    BY <1>4, SaveIs DEF WriteConfig
  <2>2. file' \in [Paths -> Stored]
    BY <1>4, <2>1, <1>0, StoredShape DEF WriteConfig
  <2>3. save' \in [Writers -> Saves]
    BY <1>4, <2>1 DEF WriteConfig, Saves
  <2>4. chosen' \in Configs
    BY <1>4, ChosenIs
  <2> QED BY <1>4, <2>2, <2>3, <2>4 DEF WriteConfig
<1>5. ASSUME NEW w \in Writers, Remember(w) PROVE StoreTyped'
  <2>1. save[w] \in Saves /\ save[w].next \in Configs
    BY <1>5, SaveIs DEF Remember
  <2>2. save' \in [Writers -> Saves]
    BY <1>5, <2>1 DEF Remember, Saves
  <2> QED BY <1>5, <2>1, <2>2 DEF Remember
<1>6. ASSUME NEW w \in Writers, EndBackup(w)
      PROVE  memory' = memory /\ chosen' = chosen
             /\ up' \in {up, "up"} /\ save' \in [Writers -> Saves]
  <2>1. save[w] \in Saves
    OBVIOUS
  <2> QED BY <1>6, <2>1, <1>0 DEF EndBackup, Saves
<1>7. ASSUME NEW w \in Writers, WriteBackup(w) PROVE StoreTyped'
  <2>1. save[w].pc # "idle"
    BY <1>7 DEF WriteBackup, EndBackup
  <2>2. Document(save[w].next, FALSE) \in Stored
    BY <2>1, SaveIs, StoredShape
  <2>3. file' \in [Paths -> Stored]
    BY <1>7, <2>2 DEF WriteBackup
  <2> QED BY <1>6, <1>7, <2>3 DEF WriteBackup
<1>8. ASSUME NEW w \in Writers, BackupFails(w) PROVE StoreTyped'
  BY <1>6, <1>8 DEF BackupFails
<1>9. ASSUME NEW w \in Writers, SaveFails(w) PROVE StoreTyped'
  BY <1>9, <1>0 DEF SaveFails
<1>10. CASE Dies
  BY <1>10, <1>0 DEF Dies
<1>11. ASSUME NEW p \in Paths, Damage(p) PROVE StoreTyped'
  BY <1>11, StoredShape DEF Damage
<1>12. CASE DriveChanges
  BY <1>12 DEF DriveChanges
<1> QED
  BY <1>1, <1>2, <1>3, <1>4, <1>5, <1>7, <1>8, <1>9, <1>10, <1>11, <1>12
  DEF StoreNext

(* Who saves when stays in sequence. *)
LEMMA SequencedHolds ==
  ASSUME StoreTyped, Sequenced, StoreNext
  PROVE  Sequenced'
<1>0. /\ {"config", "backup"} \subseteq Paths /\ Writers = {"startup", "debug", "window"}
      /\ file \in [Paths -> Stored] /\ save \in [Writers -> Saves]
      /\ None # "config"
  BY OwnPaths, DocumentAssumption DEF Writers, StoreTyped
<1>00. NoSave.pc = "idle" /\ NoSave.clean = None
  BY DEF NoSave
<1>000. ASSUME NEW c \in Configs
        PROVE  Document(c, FALSE) \notin Unreadable /\ ~Document(c, FALSE).identity
  BY StoredShape
<1> HIDE DEF NoSave
<1> USE DEF Sequenced, Current, Readable, Written
<1>1. CASE Load
  <2>1. PICK s \in Saves :
           /\ save' = [save EXCEPT !["startup"] = s]
           /\ s.clean # "config" /\ s.pc \in {"write", "backup"}
           /\ \/ s.pc = "write" /\ UNCHANGED file
              \/ s.pc = "write" /\ file' = [file EXCEPT !["config"] = Missing]
              \/ s.pc = "backup" /\ memory' = s.next /\ Current("config") /\ UNCHANGED file
    BY <1>1, LoadIs
  <2>2. up = "down" /\ up' = "starting" /\ UNCHANGED chosen
    BY <1>1 DEF Load
  <2>3. Missing \in Unreadable
    BY StoredShape
  <2> QED BY <2>1, <2>2, <2>3, <1>0
<1>2. CASE CleanSource
  <2>1. save["startup"].clean \in Paths /\ save["startup"].clean # "config"
    BY <1>2, <1>0 DEF CleanSource, Saves
  <2>2. file'["config"] = file["config"] /\ memory' = memory /\ chosen' = chosen /\ up' = "up"
        /\ save' = [save EXCEPT !["startup"] = NoSave]
    BY <1>2, <2>1, <1>0 DEF CleanSource
  <2>3. up = "starting" /\ memory # None
    <3>1. save["startup"].next \in Configs /\ None \notin Configs
      BY <1>0, DocumentAssumption DEF Saves
    <3> QED BY <1>2, <3>1, <1>0 DEF CleanSource
  <2> QED BY <1>2, <2>2, <2>3, <1>0, <1>00 DEF CleanSource
<1>3. ASSUME NEW w \in Writers, NEW f \in Fields, NEW v, Choose(w, f, v)
      PROVE  Sequenced'
  <2>1. /\ save' = [save EXCEPT ![w] = [pc |-> "write", field |-> f, clean |-> None,
                                        next |-> [memory EXCEPT ![f] = v]]]
        /\ w \in {"debug", "window"} /\ up = "up"
        /\ UNCHANGED <<file, memory, up, chosen>>
    BY <1>3, <1>0 DEF Choose
  <2>2. None \notin Fields
    BY DocumentAssumption
  <2> QED BY <2>1, <2>2, <1>0
<1>4. ASSUME NEW w \in Writers, WriteConfig(w) PROVE Sequenced'
  <2>1. save[w].next \in Configs
    BY <1>4, SaveIs DEF WriteConfig
  <2>2. /\ file'["config"] = Document(save[w].next, FALSE)
        /\ save' = [save EXCEPT ![w].pc = "remember"]
        /\ UNCHANGED <<memory, up>> /\ save[w].pc = "write"
    BY <1>4, <1>0 DEF WriteConfig
  <2>4. \A v \in Writers :
          /\ save'[v].pc = (IF v = w THEN "remember" ELSE save[v].pc)
          /\ save'[v].next = save[v].next /\ save'[v].field = save[v].field
          /\ save'[v].clean = save[v].clean
    BY <2>2, <1>0, SaveMoves
  <2>3. chosen' # None
    BY <1>4, ChosenIs, DocumentAssumption
  <2>5. Current("config")'
    BY <2>1, <2>2, <1>000
  <2>6. UNCHANGED <<memory, up>> /\ save[w].pc = "write"
    BY <2>2
  <2> QED BY <2>3, <2>4, <2>5, <2>6, <1>0
<1>5. ASSUME NEW w \in Writers, Remember(w) PROVE Sequenced'
  <2>1. save[w].next \in Configs /\ None \notin Configs
    BY <1>5, SaveIs, DocumentAssumption DEF Remember
  <2>2. /\ save[w].pc = "remember" /\ memory' = save[w].next
        /\ save' = [save EXCEPT ![w].pc = "backup"]
        /\ UNCHANGED <<file, up, chosen>>
    BY <1>5 DEF Remember
  <2> QED BY <2>1, <2>2, <1>0
<1>6. ASSUME NEW w \in Writers, EndBackup(w), file'["config"] = file["config"]
      PROVE  Sequenced'
  <2>1. /\ save[w].pc = "backup" /\ UNCHANGED <<memory, chosen>>
        /\ \/ save[w].clean = None /\ save' = [save EXCEPT ![w] = NoSave] /\ up' = "up"
           \/ save[w].clean # None /\ save' = [save EXCEPT ![w].pc = "clean"] /\ UNCHANGED up
    BY <1>6 DEF EndBackup
  <2>2. save[w].next \in Configs /\ None \notin Configs
    BY <2>1, SaveIs, DocumentAssumption
  <2>3. CASE save[w].clean = None
    BY <2>1, <2>2, <2>3, <1>0, <1>00, <1>6
  <2>4. CASE save[w].clean # None
    <3>1. \A v \in Writers :
            /\ save'[v].pc = (IF v = w THEN "clean" ELSE save[v].pc)
            /\ save'[v].next = save[v].next /\ save'[v].field = save[v].field
            /\ save'[v].clean = save[v].clean
      BY <2>1, <2>4, <1>0, SaveMoves
    <3>2. w = "startup"
      BY <2>1, <2>4, SaveIs
    <3> QED BY <2>1, <2>2, <2>4, <3>1, <3>2, <1>0, <1>6
  <2> QED BY <2>3, <2>4
<1>7. ASSUME NEW w \in Writers, WriteBackup(w) \/ BackupFails(w) PROVE Sequenced'
  <2>1. EndBackup(w) /\ file'["config"] = file["config"]
    BY <1>7, <1>0 DEF WriteBackup, BackupFails
  <2> QED BY <2>1, <1>6
<1>9. ASSUME NEW w \in Writers, SaveFails(w) PROVE Sequenced'
  BY <1>9, <1>0, <1>00 DEF SaveFails
<1>10. CASE Dies
  BY <1>10, <1>0, <1>00 DEF Dies
<1>11. ASSUME NEW p \in Paths, Damage(p) PROVE Sequenced'
  BY <1>11, <1>0, StoredShape DEF Damage
<1>12. CASE DriveChanges
  BY <1>12, <1>0 DEF DriveChanges
<1> QED
  BY <1>1, <1>2, <1>3, <1>4, <1>5, <1>7, <1>9, <1>10, <1>11, <1>12
  DEF StoreNext

(* A document of this launcher is told by its choices. *)
LEMMA CurrentIs ==
  ASSUME StoreTyped, NEW p \in Paths, Current(p)
  PROVE  file[p] = Document(file[p].config, FALSE) /\ file[p].config \in Configs
<1>1. file[p] \in Stored /\ file[p] \notin Unreadable /\ ~file[p].identity
  BY DEF StoreTyped, Current, Readable
<1> QED BY <1>1, StoredShape

(* Nothing makes a trouble undone. *)
LEMMA TroublesGrow ==
  ASSUME StoreNext
  PROVE  troubles \subseteq troubles' /\ (Mended' => Mended)
<1>1. troubles \subseteq troubles'
  BY DEF StoreNext, Load, CleanSource, Choose, WriteConfig, Remember, WriteBackup,
         BackupFails, SaveFails, Dies, Damage, DriveChanges
<1> QED BY <1>1 DEF Mended

(* A load takes the document it should begin with, or one of an older launcher
   that names an installation. *)
LEMMA LoadMeans ==
  ASSUME StoreTyped, OnDisk, Load, Mended'
  PROVE  /\ UsablePaths # {}
         /\ "override" \notin troubles' => file[Selected].config = chosen
         /\ chosen["installation"] # Unset =>
              file[Selected].config["installation"] # Unset
<1>1. troubles' = troubles \cup LoadTroubles
  BY DEF Load
<1>2. UsablePaths \in SUBSET Paths
  BY DEF UsablePaths
<1> DEFINE first == IF Readable("config") THEN "config" ELSE "backup"
<1>3. first \in UsablePaths /\ First(UsablePaths) = first
  <2>1. CASE Current("config")
    <3>1. "config" \in UsablePaths
      BY <2>1, OwnPaths DEF UsablePaths, Usable, Valid, Current
    <3> QED BY <3>1, <2>1, <1>2, FirstIs DEF Current
  <2>2. CASE "damage" \in troubles /\ ~Readable("config") /\ Current("backup")
    <3>1. "offline" \notin LoadTroubles
      BY <2>2, <1>1 DEF Mended
    <3>2. Valid("backup")
      BY <2>2, <3>1, OwnPaths DEF LoadTroubles, Current
    <3>3. "backup" \in UsablePaths /\ "config" \notin UsablePaths
      BY <2>2, <3>2, OwnPaths DEF UsablePaths, Usable, Current
    <3> QED BY <3>3, <2>2, <1>2, FirstIs
  <2> QED BY <2>1, <2>2 DEF OnDisk
<1>4. Held = file[first].config /\ Means(Held)
  BY DEF Held, OnDisk
<1>5. Selected = first \/ (Installed(Selected) /\ "override" \in troubles')
  BY <1>1, <1>3, SelectedIs DEF LoadTroubles
<1> HIDE DEF first
<1> QED BY <1>1, <1>3, <1>4, <1>5 DEF Means, Installed

(* The load at startup: from then on its document is in flight. *)
LEMMA LoadKeeps ==
  ASSUME StoreTyped, Sequenced, OnDisk, InFlight, Load, Mended'
  PROVE  OnDisk' /\ InFlight'
<1>1. /\ UsablePaths # {}
      /\ "override" \notin troubles' => file[Selected].config = chosen
      /\ chosen["installation"] # Unset =>
           file[Selected].config["installation"] # Unset
  BY LoadMeans
<1>2. PICK s \in Saves :
           /\ save' = [save EXCEPT !["startup"] = s]
           /\ s.next = file[Selected].config /\ UNCHANGED file
           /\ \/ s.pc = "write"
              \/ s.pc = "backup" /\ Selected = "config"
  BY <1>1, LoadIs
<1>3. /\ up = "down" /\ up' = "starting" /\ chosen' = chosen
      /\ troubles \subseteq troubles'
  BY DEF Load
<1>4. /\ save \in [Writers -> Saves] /\ Writers = {"startup", "debug", "window"}
      /\ \A w \in Writers : save[w].pc = "idle"
  BY <1>3 DEF StoreTyped, Writers, Sequenced
<1>5. OnDisk'
  BY <1>2, <1>3, <1>4 DEF OnDisk, Current, Readable, Means, Held
<1>6. InFlight'
  BY <1>1, <1>2, <1>3, <1>4 DEF InFlight, Means, Written
<1> QED BY <1>5, <1>6

(* The key of an older launcher goes, or the backup with it. *)
LEMMA CleanKeeps ==
  ASSUME StoreTyped, Sequenced, OnDisk, InFlight, CleanSource
  PROVE  OnDisk' /\ InFlight'
<1>1. /\ save["startup"].pc = "clean" /\ "startup" \in Writers
      /\ save' = [save EXCEPT !["startup"] = NoSave]
      /\ UNCHANGED <<memory, chosen>> /\ up' = "up"
      /\ troubles \subseteq troubles'
  BY DEF CleanSource, Writers
<1>2. /\ Writers = {"startup", "debug", "window"} /\ save \in [Writers -> Saves]
      /\ save["debug"].pc = "idle" /\ save["window"].pc = "idle" /\ NoSave.pc = "idle"
      /\ Current("config") /\ memory = save["startup"].next
      /\ memory = file["config"].config
  BY <1>1 DEF StoreTyped, Sequenced, InFlight, Written, Writers, NoSave
<1>3. file["config"] = Document(memory, FALSE)
  BY <1>2, OwnPaths, CurrentIs
<1>4. /\ file'["config"] = file["config"]
      /\ \/ file'["backup"] = file["backup"]
         \/ file'["backup"] = file["config"]
         \/ "backup" \in troubles'
  <2>1. save["startup"].clean \in Paths /\ save["startup"].clean # "config"
    BY <1>1, <1>2 DEF Sequenced, Saves
  <2> QED BY <1>2, <1>3, <2>1, OwnPaths DEF CleanSource, StoreTyped
<1>5. OnDisk'
  BY <1>1, <1>2, <1>4 DEF OnDisk, Current, Readable, Means, Held
<1>6. InFlight'
  BY <1>1, <1>2, <1>4 DEF InFlight, Written
<1> QED BY <1>5, <1>6

(* A choice made while nothing is saved. *)
LEMMA ChooseKeeps ==
  ASSUME StoreTyped, Sequenced, OnDisk, InFlight, Mended',
         NEW w \in Writers, NEW f \in Fields, NEW v, Choose(w, f, v)
  PROVE  OnDisk' /\ InFlight'
<1> DEFINE s == [pc |-> "write", field |-> f, clean |-> None,
                 next |-> [memory EXCEPT ![f] = v]]
<1>1. /\ save' = [save EXCEPT ![w] = s] /\ up = "up"
      /\ UNCHANGED <<file, memory, up, chosen>>
      /\ troubles' = troubles \cup (IF Saving THEN {"overlap"} ELSE {})
  BY DEF Choose
<1>2. /\ w # "startup" /\ Writers = {"startup", "debug", "window"}
      /\ save \in [Writers -> Saves] /\ memory \in Configs
  BY DEF Choose, Writers, StoreTyped, Sequenced
<1>3. \A u \in Writers : save[u].pc = "idle"
  BY <1>1 DEF Mended, Saving
<1>4. s.next = [memory EXCEPT ![f] = s.next[f]] /\ s.pc = "write" /\ s.field = f
  BY <1>2 DEF Configs
<1> HIDE DEF s
<1>5. OnDisk'
  BY <1>1, <1>2, <1>3, <1>4 DEF OnDisk, Current, Readable, Means, Held
<1>6. InFlight'
  BY <1>1, <1>2, <1>3, <1>4 DEF InFlight, Written
<1> QED BY <1>5, <1>6

(* The rename onto config.v1.json: the choice is on the disk and chosen. *)
LEMMA WriteKeeps ==
  ASSUME StoreTyped, Sequenced, chosen # None => OnDisk /\ InFlight,
         NEW w \in Writers, WriteConfig(w)
  PROVE  OnDisk' /\ InFlight'
<1> DEFINE c == save[w].next  f == save[w].field
<1>1. /\ save[w].pc = "write" /\ c \in Configs
      /\ file'["config"] = Document(c, FALSE)
      /\ save' = [save EXCEPT ![w].pc = "remember"]
      /\ UNCHANGED <<memory, up, troubles>>
  BY OwnPaths, SaveIs DEF WriteConfig, StoreTyped
<1>2. /\ Writers = {"startup", "debug", "window"} /\ save \in [Writers -> Saves]
  BY DEF Writers, StoreTyped
<1>3. \A v \in Writers :
        /\ save'[v].pc = (IF v = w THEN "remember" ELSE save[v].pc)
        /\ save'[v].next = save[v].next /\ save'[v].field = save[v].field
  BY <1>1, <1>2, SaveMoves
<1>4. Readable("config")' /\ Current("config")' /\ Held' = c /\ file'["config"].config = c
  <2>1. /\ Document(c, FALSE) \notin Unreadable /\ Document(c, FALSE).config = c
        /\ Document(c, FALSE).identity = FALSE
    BY <1>1, StoredShape
  <2> HIDE DEF c
  <2> QED BY <1>1, <2>1 DEF Readable, Current, Held
<1>5. /\ "override" \notin troubles => c = chosen'
      /\ chosen'["installation"] # Unset => c["installation"] # Unset
      /\ \A v \in Writers \ {w} : save[v].pc = "idle"
  <2>1. CASE w = "startup"
    <3>1. up = "starting" /\ chosen' = IF chosen = None THEN c ELSE chosen
      BY <2>1, <1>1, SaveIs DEF WriteConfig
    <3> QED BY <2>1, <3>1, <1>1, <1>2 DEF Sequenced, InFlight, Means
  <2>2. CASE w # "startup"
    <3>1. /\ up = "up" /\ chosen \in Configs /\ memory \in Configs /\ f \in Fields
          /\ chosen' = [chosen EXCEPT ![f] = c[f]]
          /\ chosen # None
      BY <2>2, <1>1, SaveIs, DocumentAssumption DEF WriteConfig
    <3>2. \A v \in Writers \ {w} : save[v].pc = "idle"
      BY <3>1, <1>1 DEF InFlight
    <3>3. /\ c = [memory EXCEPT ![f] = c[f]]
          /\ memory = file["config"].config
      BY <3>1, <3>2, <1>1, <1>2, <2>2 DEF InFlight
    <3>4. Means(memory)
      BY <3>1, <3>3 DEF OnDisk, Held, Sequenced, Current
    <3>5. "installation" \in Fields /\ DOMAIN chosen = Fields /\ DOMAIN memory = Fields
      BY <3>1 DEF Configs, Fields
    <3>6. "override" \notin troubles => c = chosen'
      BY <3>1, <3>3, <3>4 DEF Means
    <3>7. chosen'["installation"] # Unset => c["installation"] # Unset
      BY <3>1, <3>3, <3>4, <3>5 DEF Means
    <3> QED BY <3>2, <3>6, <3>7
  <2> QED BY <2>1, <2>2
<1> HIDE DEF c, f
<1>6. OnDisk'
  BY <1>1, <1>3, <1>4, <1>5 DEF OnDisk, Means
<1>7. InFlight'
  <2>1. \A v \in Writers \ {w} : save[v].pc = "idle" /\ save'[v].pc = "idle"
    BY <1>3, <1>5
  <2>2. save'[w].pc = "remember" /\ save'[w].next = c
    BY <1>3 DEF c
  <2>4. save'["startup"].pc # "idle" => Means(save["startup"].next)'
    <3>1. CASE w = "startup"
      BY <1>1, <1>5, <2>2, <3>1 DEF Means
    <3>2. CASE w # "startup"
      BY <2>1, <3>2, <1>2
    <3> QED BY <3>1, <3>2
  <2> QED BY <1>2, <1>4, <2>1, <2>2, <2>4 DEF InFlight, Written
<1> QED BY <1>6, <1>7

(* The document on the disk comes to memory. *)
LEMMA RememberKeeps ==
  ASSUME StoreTyped, Sequenced, OnDisk, InFlight, NEW w \in Writers, Remember(w)
  PROVE  OnDisk' /\ InFlight'
<1>1. /\ save[w].pc = "remember" /\ memory' = save[w].next
      /\ save' = [save EXCEPT ![w].pc = "backup"]
      /\ UNCHANGED <<file, up, chosen, troubles>>
  BY DEF Remember
<1>2. Writers = {"startup", "debug", "window"} /\ save \in [Writers -> Saves]
  BY DEF Writers, StoreTyped
<1>3. \A v \in Writers :
        /\ save'[v].pc = (IF v = w THEN "backup" ELSE save[v].pc)
        /\ save'[v].next = save[v].next /\ save'[v].field = save[v].field
  BY <1>1, <1>2, SaveMoves
<1>4. OnDisk'
  BY <1>1, <1>3 DEF OnDisk, Current, Readable, Means, Held
<1>5. InFlight'
  BY <1>1, <1>2, <1>3 DEF InFlight, Means, Written
<1> QED BY <1>4, <1>5

(* The backup is rewritten, or the trouble is remembered. *)
LEMMA BackupKeeps ==
  ASSUME StoreTyped, Sequenced, OnDisk, InFlight, Mended',
         NEW w \in Writers, WriteBackup(w) \/ BackupFails(w)
  PROVE  OnDisk' /\ InFlight'
<1>1. /\ save[w].pc = "backup" /\ UNCHANGED <<memory, chosen>>
      /\ troubles \subseteq troubles'
      /\ \/ save[w].clean = None /\ save' = [save EXCEPT ![w] = NoSave] /\ up' = "up"
         \/ /\ save[w].clean # None /\ save' = [save EXCEPT ![w].pc = "clean"]
            /\ UNCHANGED up
  BY DEF WriteBackup, BackupFails, EndBackup
<1>2. /\ Writers = {"startup", "debug", "window"} /\ save \in [Writers -> Saves]
      /\ NoSave.pc = "idle"
  BY DEF Writers, StoreTyped, NoSave
<1>3. /\ \A v \in Writers \ {w} : save[v].pc = "idle" /\ save'[v] = save[v]
      /\ save'[w].pc \in {"idle", "clean"}
      /\ save'[w].pc = "clean" => w = "startup" /\ save'[w].next = save[w].next
                                  /\ up' = "starting"
  <2>1. \A v \in Writers \ {w} : save[v].pc = "idle" /\ save'[v] = save[v]
    BY <1>1, <1>2 DEF InFlight
  <2>2. save[w].clean # None => w = "startup" /\ up = "starting"
    BY <1>1, SaveIs
  <2>3. save' = [save EXCEPT ![w].pc = "clean"] =>
          save'[w].pc = "clean" /\ save'[w].next = save[w].next
    BY <1>2, SaveMoves
  <2> QED BY <1>1, <1>2, <2>1, <2>2, <2>3
<1>4. /\ Current("config")
      /\ save[w].next = file["config"].config /\ memory = file["config"].config
  <2>1. w # "startup" => up = "up"
    BY <1>1, SaveIs
  <2>2. Current("config") /\ save[w].next = file["config"].config
    BY <1>1, <2>1 DEF Sequenced, InFlight, Written
  <2>3. w = "startup" => memory = save[w].next
    BY <1>1 DEF Sequenced
  <2>4. w # "startup" => memory = file["config"].config
    BY <1>1, <1>3, <2>1 DEF InFlight
  <2>5. memory = file["config"].config
    BY <2>2, <2>3, <2>4
  <2> QED BY <2>2, <2>5
<1>5. /\ file'["config"] = file["config"]
      /\ file'["backup"] = file["config"] \/ "backup" \in troubles'
  BY <1>4, OwnPaths, CurrentIs DEF WriteBackup, BackupFails, StoreTyped
<1>6. OnDisk'
  BY <1>1, <1>4, <1>5 DEF OnDisk, Current, Readable, Means, Held
<1>7. InFlight'
  BY <1>1, <1>2, <1>3, <1>4, <1>5 DEF InFlight, Means, Written
<1> QED BY <1>6, <1>7

(* The process dies, or a save gives up before its rename. *)
LEMMA EndKeeps ==
  ASSUME StoreTyped, Sequenced, OnDisk, InFlight, Mended',
         Dies \/ \E w \in Writers : SaveFails(w)
  PROVE  OnDisk' /\ InFlight'
<1>1. /\ Writers = {"startup", "debug", "window"} /\ save \in [Writers -> Saves]
      /\ NoSave.pc = "idle"
  BY DEF Writers, StoreTyped, NoSave
<1>2. CASE Dies
  <2>1. /\ \A w \in Writers : save'[w].pc = "idle"
        /\ up' = "down" /\ UNCHANGED <<file, chosen>> /\ troubles \subseteq troubles'
        /\ "backup" \in troubles' \/ \A w \in Writers : save[w].pc \notin {"remember", "backup"}
    BY <1>2, <1>1 DEF Dies
  <2>2. OnDisk'
    BY <2>1 DEF OnDisk, Current, Readable, Means, Held
  <2>3. InFlight'
    BY <2>1, <1>1 DEF InFlight, Written
  <2> QED BY <2>2, <2>3
<1>3. ASSUME NEW w \in Writers, SaveFails(w) PROVE OnDisk' /\ InFlight'
  <2>1. /\ save[w].pc = "write" /\ w # "startup" /\ save' = [save EXCEPT ![w] = NoSave]
        /\ UNCHANGED <<file, memory, up, chosen, troubles>>
    BY <1>3 DEF SaveFails
  <2>2. \A v \in Writers \ {w} : save[v].pc = "idle"
    BY <2>1 DEF InFlight
  <2>3. \A v \in Writers : save'[v].pc = "idle"
    BY <2>1, <2>2, <1>1
  <2>4. OnDisk'
    BY <2>1, <2>2, <2>3 DEF OnDisk, Current, Readable, Means, Held
  <2>5. InFlight'
    BY <2>1, <2>2, <2>3, <1>1 DEF InFlight, Written
  <2> QED BY <2>4, <2>5
<1> QED BY <1>2, <1>3

(* One file turns unreadable: the other is alike. *)
LEMMA DamageKeeps ==
  ASSUME StoreTyped, Sequenced, OnDisk, InFlight, Mended', NEW p \in Paths, Damage(p)
  PROVE  OnDisk' /\ InFlight'
<1>1. /\ Writers = {"startup", "debug", "window"}
      /\ file \in [Paths -> Stored] /\ "config" \in Paths /\ "backup" \in Paths
      /\ Broken \in Unreadable
  BY OwnPaths, StoredShape DEF Writers, StoreTyped
<1>2. /\ up = "down" /\ "damage" \notin troubles
      /\ file' = [file EXCEPT ![p] = Broken]
      /\ troubles' = troubles \cup {"damage"}
      /\ UNCHANGED <<memory, up, save, chosen>>
  BY DEF Damage
<1>3. \A w \in Writers : save[w].pc = "idle"
  BY <1>1, <1>2 DEF Sequenced
<1>4. Current("config") /\ file["backup"] = file["config"]
  BY <1>2, <1>3 DEF OnDisk, Mended
<1>5. OnDisk'
  BY <1>1, <1>2, <1>4 DEF OnDisk, Current, Readable, Means, Held
<1>6. InFlight'
  BY <1>1, <1>2, <1>3 DEF InFlight, Written
<1> QED BY <1>5, <1>6

(* Every step keeps the invariant. *)
LEMMA StoreHolds == StoreInv /\ [StoreNext]_storeVars => StoreInv'
<1> SUFFICES ASSUME StoreInv, [StoreNext]_storeVars PROVE StoreInv'
  OBVIOUS
<1>1. CASE UNCHANGED storeVars
  BY <1>1 DEF storeVars, StoreInv, StoreTyped, Sequenced, Mended, OnDisk, InFlight, Current,
              Readable, Means, Held
<1>2. CASE StoreNext
  <2>1. StoreTyped' /\ Sequenced'
    BY <1>2, TypedHolds, SequencedHolds DEF StoreInv
  <2>2. ASSUME Mended', chosen' # None PROVE OnDisk' /\ InFlight'
    <3>1. StoreTyped /\ Sequenced /\ (chosen # None => OnDisk /\ InFlight)
      BY <1>2, <2>2, TroublesGrow DEF StoreInv
    <3>2. CASE \E w \in Writers : WriteConfig(w)
      BY <3>1, <3>2, WriteKeeps
    <3>3. CASE chosen' = chosen
      <4>1. OnDisk /\ InFlight
        BY <3>1, <3>3, <2>2
      <4>2. CASE DriveChanges
        BY <4>1, <4>2 DEF DriveChanges, OnDisk, InFlight, Current, Readable, Means, Held
      <4> QED
        BY <1>2, <2>2, <3>1, <3>2, <4>1, <4>2, LoadKeeps, CleanKeeps, ChooseKeeps,
           RememberKeeps, BackupKeeps, EndKeeps, DamageKeeps DEF StoreNext
    <3>4. chosen' = chosen \/ \E w \in Writers : WriteConfig(w)
      BY <1>2 DEF StoreNext, Load, CleanSource, Choose, Remember, WriteBackup,
         BackupFails, EndBackup, SaveFails, Dies, Damage, DriveChanges
    <3> QED BY <3>2, <3>3, <3>4
  <2> QED BY <2>1, <2>2 DEF StoreInv
<1> QED BY <1>1, <1>2

(* The store starts without a choice, and with documents of older launchers
   at most. *)
LEMMA StoreBegins == StoreInit => StoreInv
<1> SUFFICES ASSUME StoreInit PROVE StoreInv
  OBVIOUS
<1>1. NoSave \in Saves /\ NoSave.pc = "idle" /\ NoSave.clean = None /\ None # "config"
  BY ConfigShape, OwnPaths, DocumentAssumption DEF NoSave, Saves
<1>2. file \in [Paths -> Stored]
  BY DEF StoreInit, Stored, Unreadable
<1>3. Readable("config") => file["config"].identity
  BY DEF StoreInit, Readable, Unreadable
<1> QED BY <1>1, <1>2, <1>3 DEF StoreInit, StoreInv, StoreTyped, Sequenced, Writers, Written

(* The invariant holds. *)
LEMMA StoreKeeps == StoreSpec => []StoreInv
BY StoreBegins, StoreHolds, PTL DEF StoreSpec

(* A launcher that is not saving holds what was chosen, in memory and in
   config.v1.json, after any crashes, failed saves, restarts and one unreadable
   file (config-store.ts). *)
THEOREM NoChoiceTheorem == StoreSpec => []NoChoiceLost
<1>1. StoreInv => NoChoiceLost
  <2> SUFFICES ASSUME StoreInv, up = "up", ~Saving, Recoverable
               PROVE  memory = chosen /\ file["config"] = Document(chosen, FALSE)
    BY DEF NoChoiceLost
  <2>1. /\ Mended /\ "override" \notin troubles
        /\ \A w \in Writers : save[w].pc = "idle"
    BY DEF Recoverable, Mended, Saving
  <2>2. chosen # None /\ Current("config")
    BY DEF StoreInv, Sequenced
  <2>3. Held = file["config"].config /\ Means(Held) /\ memory = file["config"].config
    BY <2>1, <2>2 DEF StoreInv, OnDisk, InFlight, Held, Current
  <2>4. file["config"] = Document(file["config"].config, FALSE)
    BY <2>2, OwnPaths, CurrentIs DEF StoreInv
  <2> QED BY <2>1, <2>3, <2>4 DEF Means
<1> QED BY <1>1, StoreKeeps, PTL

(* An installation that reached the disk is known after any restart, though an
   older document may name another (config-store.ts load). *)
THEOREM InstallationTheorem == StoreSpec => []InstallationRemembered
<1>1. StoreInv => InstallationRemembered
  <2> SUFFICES ASSUME StoreInv, up = "up", ~Saving, Mended, chosen # None,
                      chosen["installation"] # Unset
               PROVE  memory["installation"] # Unset
    BY DEF InstallationRemembered, Mended
  <2>1. Current("config") /\ \A w \in Writers : save[w].pc = "idle"
    BY DEF StoreInv, Sequenced, Saving
  <2>2. Held = file["config"].config /\ Means(Held) /\ memory = file["config"].config
    BY <2>1 DEF StoreInv, OnDisk, InFlight, Held, Current
  <2> QED BY <2>2 DEF Means
<1> QED BY <1>1, StoreKeeps, PTL
=============================================================================
