----------------------------- MODULE ConfigStore -----------------------------
(***************************************************************************)
(* The launcher's settings (src/electron/services/config-store.ts): one    *)
(* JSON document kept in memory, in config.v1.json and in a backup beside  *)
(* it.  load() runs once, at startup, and also looks into the directories  *)
(* of older launchers.  A save rewrites the whole document: it takes the   *)
(* one in memory, changes one choice, renames a temporary file onto        *)
(* config.v1.json, remembers the result, and rewrites the backup.          *)
(*                                                                         *)
(* Nothing in the store keeps two saves apart.  The window awaits one      *)
(* operation at a time, but a window closed while the Debug choice is      *)
(* saved, and opened again, does not wait for that save.                   *)
(*                                                                         *)
(* The process may die between any two steps; a renamed file is either the *)
(* old or the new one, and a file may turn unreadable while the launcher   *)
(* is down (nothing is flushed to the disk).                               *)
(***************************************************************************)
EXTENDS Naturals, Sequences

CONSTANTS
  Settings,      \* the choices besides the installation (server, assets, ...)
  DebugSetting,  \* the one that setDebugSessionEnabled saves
  Values,        \* the values of a setting
  Installations, \* installed clients
  LegacyPaths,   \* sequence: the files of older launchers, in order
  Unset,         \* a choice that was never made
  None,          \* no document in memory, no file to clean
  Missing,       \* no file
  Broken         \* a file that cannot be read as a valid document

ASSUME StoreAssumption ==
  /\ Unset \notin Values \cup Installations
  /\ "installation" \notin Settings /\ DebugSetting \in Settings
  /\ LegacyPaths \in Seq({LegacyPaths[i] : i \in DOMAIN LegacyPaths})
  /\ \A i \in DOMAIN LegacyPaths : LegacyPaths[i] \notin {"config", "backup"}

VARIABLES
  file,      \* what every path holds
  memory,    \* this.config
  up,        \* "down", "starting" (load is running) or "up"
  save,      \* the running save of each writer
  reachable, \* the installations that would be found valid now
  chosen,    \* history: the last choices that reached config.v1.json
  troubles   \* history: what may cost a choice

storeVars == <<file, memory, up, save, reachable, chosen, troubles>>

Fields  == Settings \cup {"installation"}
Configs ==
  {c \in [Fields -> Values \cup Installations \cup {Unset}] :
     \A f \in Fields :
       c[f] \in {Unset} \cup (IF f = "installation" THEN Installations ELSE Values)}

freshConfig == [f \in Fields |-> Unset]

(* The load at startup, the Debug switch, and whatever else a window asks *)
Writers == {"startup", "debug", "window"}

Candidates == <<"config", "backup">> \o LegacyPaths
Paths      == {Candidates[i] : i \in DOMAIN Candidates}

(* A valid document; one of an old launcher also holds the player's key *)
Document(c, identity) == [config |-> c, identity |-> identity]
Unreadable == {Missing, Broken}
Stored == Unreadable \cup [config : Configs, identity : BOOLEAN]

(* A document is told from no document, and from a file that holds none *)
ASSUME DocumentAssumption ==
  /\ None \notin Configs /\ None \notin Paths /\ None \notin Fields
  /\ \A c \in Configs, identity \in BOOLEAN : Document(c, identity) \notin Unreadable

NoSave == [pc |-> "idle", next |-> freshConfig, field |-> None, clean |-> None]

(* The user data directory is empty or an old launcher's; the directories of
   other launchers may hold anything a launcher writes *)
StoreInit ==
  /\ file \in {g \in [Paths -> {Missing} \cup [config : Configs, identity : BOOLEAN]] :
                 /\ g["config"] = Missing \/ g["config"].identity
                 /\ g["backup"] \in {Missing, g["config"]}}
  /\ memory = None /\ up = "down"
  /\ save = [w \in Writers |-> NoSave]
  /\ reachable \in SUBSET Installations
  /\ chosen = None
  /\ troubles = {}

-----------------------------------------------------------------------------
(***************************************************************************)
(* load(): the first candidate with an installation, or else the first     *)
(* candidate.  Away from config.v1.json an installation must be valid.     *)
(***************************************************************************)
Readable(p)  == file[p] \notin Unreadable
Installed(p) == file[p].config["installation"] # Unset

Valid(p) ==
  p = "config" \/ ~Installed(p) \/ file[p].config["installation"] \in reachable

Usable(p) == Readable(p) /\ Valid(p)

First(S) ==
  LET at == {i \in DOMAIN Candidates : Candidates[i] \in S}
  IN  Candidates[CHOOSE i \in at : \A j \in at : i <= j]

UsablePaths == {p \in Paths : Usable(p)}

Selected ==
  LET installed == {p \in UsablePaths : Installed(p)}
  IN  First(IF installed # {} THEN installed ELSE UsablePaths)

(* "override": a usable document lost to a later one that has an installation;
   "offline": a document was passed over because its installation is away *)
LoadTroubles ==
  (IF UsablePaths # {} /\ Selected # First(UsablePaths) THEN {"override"} ELSE {})
  \cup
  (IF \E p \in Paths : Readable(p) /\ ~Valid(p) THEN {"offline"} ELSE {})

StartLoad(pc, c, clean) ==
  save' = [save EXCEPT !["startup"] =
             [pc |-> pc, next |-> c, field |-> None, clean |-> clean]]

LoadSelected ==
  /\ UsablePaths # {}
  /\ LET p == Selected  c == file[p].config
     IN IF p = "config" /\ ~file[p].identity
          THEN memory' = c /\ StartLoad("backup", c, None)
          ELSE /\ StartLoad("write", c,
                            IF p # "config" /\ file[p].identity THEN p ELSE None)
               /\ UNCHANGED memory
  /\ UNCHANGED file

LoadFresh ==
  /\ UsablePaths = {}
  /\ file' = [file EXCEPT !["config"] = Missing]
  /\ memory' = freshConfig
  /\ StartLoad("write", freshConfig, None)

Load ==
  /\ up = "down"
  /\ up' = "starting"
  /\ LoadSelected \/ LoadFresh
  /\ troubles' = troubles \cup LoadTroubles
  /\ UNCHANGED <<reachable, chosen>>

(* The old document the choices came from loses its key or, when it cannot be
   rewritten, is deleted: it may be the backup *)
CleanSource ==
  /\ save["startup"].pc = "clean"
  /\ LET p == save["startup"].clean
     IN \/ /\ file' = [file EXCEPT ![p] = Document(save["startup"].next, FALSE)]
           /\ UNCHANGED troubles
        \/ /\ file' = [file EXCEPT ![p] = Missing]
           /\ troubles' = troubles \cup (IF p = "backup" THEN {"backup"} ELSE {})
  /\ save' = [save EXCEPT !["startup"] = NoSave]
  /\ up' = "up"
  /\ UNCHANGED <<memory, reachable, chosen>>

-----------------------------------------------------------------------------
(***************************************************************************)
(* setInstallation, setLaunchProfile, setAssetSyncEnabled and the saves of *)
(* main.ts: the document in memory with one choice changed.                *)
(***************************************************************************)
Saving == \E w \in Writers : save[w].pc # "idle"

(* Mutants of Choose: memory first, or the choice without the others *)
ChooseInMemory(w, f, v) ==
  /\ up = "up"
  /\ w = IF f = DebugSetting THEN "debug" ELSE "window"
  /\ save[w].pc = "idle"
  /\ memory' = [memory EXCEPT ![f] = v]
  /\ save' = [save EXCEPT ![w] = [pc |-> "write", field |-> f, clean |-> None,
                                  next |-> memory']]
  /\ troubles' = troubles \cup (IF Saving THEN {"overlap"} ELSE {})
  /\ UNCHANGED <<file, up, reachable, chosen>>

ChooseAlone(w, f, v) ==
  /\ up = "up"
  /\ w = IF f = DebugSetting THEN "debug" ELSE "window"
  /\ save[w].pc = "idle"
  /\ save' = [save EXCEPT ![w] = [pc |-> "write", field |-> f, clean |-> None,
                                  next |-> [freshConfig EXCEPT ![f] = v]]]
  /\ troubles' = troubles \cup (IF Saving THEN {"overlap"} ELSE {})
  /\ UNCHANGED <<file, memory, up, reachable, chosen>>

Choose(w, f, v) ==
  /\ up = "up"
  /\ w = IF f = DebugSetting THEN "debug" ELSE "window"
  /\ save[w].pc = "idle"
  /\ save' = [save EXCEPT ![w] = [pc |-> "write", field |-> f, clean |-> None,
                                  next |-> [memory EXCEPT ![f] = v]]]
  /\ troubles' = troubles \cup (IF Saving THEN {"overlap"} ELSE {})
  /\ UNCHANGED <<file, memory, up, reachable, chosen>>

(* save, writeAtomic: the rename onto config.v1.json *)
WriteConfig(w) ==
  /\ save[w].pc = "write"
  /\ file' = [file EXCEPT !["config"] = Document(save[w].next, FALSE)]
  /\ save' = [save EXCEPT ![w].pc = "remember"]
  /\ chosen' = CASE w # "startup" ->
                      [chosen EXCEPT ![save[w].field] = save[w].next[save[w].field]]
                 [] w = "startup" /\ chosen = None -> save[w].next
                 [] OTHER -> chosen
  /\ UNCHANGED <<memory, up, reachable, troubles>>

Remember(w) ==
  /\ save[w].pc = "remember"
  /\ memory' = save[w].next
  /\ save' = [save EXCEPT ![w].pc = "backup"]
  /\ UNCHANGED <<file, up, reachable, chosen, troubles>>

(* writeBackup: a failure is not reported *)
EndBackup(w) ==
  /\ save[w].pc = "backup"
  /\ IF save[w].clean = None
       THEN /\ save' = [save EXCEPT ![w] = NoSave]
            /\ up' = "up"
       ELSE /\ save' = [save EXCEPT ![w].pc = "clean"]
            /\ UNCHANGED up
  /\ UNCHANGED <<memory, reachable, chosen>>

WriteBackup(w) ==
  /\ EndBackup(w)
  /\ file' = [file EXCEPT !["backup"] = Document(save[w].next, FALSE)]
  /\ UNCHANGED troubles

BackupFails(w) ==
  /\ EndBackup(w)
  /\ troubles' = troubles \cup {"backup"}
  /\ UNCHANGED file

(* The temporary file cannot be written or renamed: the save throws; at
   startup this ends the launcher (Dies) *)
SaveFails(w) ==
  /\ save[w].pc = "write" /\ w # "startup"
  /\ save' = [save EXCEPT ![w] = NoSave]
  /\ UNCHANGED <<file, memory, up, reachable, chosen, troubles>>

-----------------------------------------------------------------------------
(***************************************************************************)
(* The environment.                                                        *)
(***************************************************************************)
Dies ==
  /\ up # "down"
  /\ up' = "down" /\ memory' = None
  /\ save' = [w \in Writers |-> NoSave]
  /\ troubles' = troubles \cup
       (IF \E w \in Writers : save[w].pc \in {"remember", "backup"}
          THEN {"backup"} ELSE {})
  /\ UNCHANGED <<file, reachable, chosen>>

(* Bound: one file turns unreadable in a behaviour *)
Damage(p) ==
  /\ up = "down"
  /\ "damage" \notin troubles /\ Readable(p)
  /\ file' = [file EXCEPT ![p] = Broken]
  /\ troubles' = troubles \cup {"damage"}
  /\ UNCHANGED <<memory, up, save, reachable, chosen>>

(* A drive comes or goes, a client folder is moved or repaired *)
DriveChanges ==
  /\ up = "down"
  /\ \E S \in SUBSET Installations : S # reachable /\ reachable' = S
  /\ UNCHANGED <<file, memory, up, save, chosen, troubles>>

StoreNext ==
  \/ Load \/ CleanSource
  \/ \E w \in Writers :
       \/ \E f \in Fields, v \in Values \cup Installations :
            /\ v \in (IF f = "installation" THEN Installations ELSE Values)
            /\ Choose(w, f, v)
       \/ WriteConfig(w) \/ Remember(w)
       \/ WriteBackup(w) \/ BackupFails(w) \/ SaveFails(w)
  \/ Dies \/ DriveChanges
  \/ \E p \in Paths : Damage(p)

StoreSpec == StoreInit /\ [][StoreNext]_storeVars
==============================================================================
