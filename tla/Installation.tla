---------------------------- MODULE Installation -----------------------------
(***************************************************************************)
(* The client on the disk: installed as a copy of the Steam client through *)
(* a staging directory, adopted in place, and repaired by every launch     *)
(* (src/electron/services/installer.ts, vivox-client.ts, game-launcher.ts) *)
(* with the installation that the launcher's settings remember (main.ts).  *)
(*                                                                         *)
(* Main.ts lets one of these operations run at a time.  Each may stop at   *)
(* any step, because something throws or because the launcher dies; a copy *)
(* that is not a rename may stop in the middle.  Meanwhile Steam updates   *)
(* the source, and the player or another tool changes files of the client. *)
(***************************************************************************)
EXTENDS Naturals

CONSTANTS
  MaxStops,  \* bound: operations that stop
  MaxDrifts  \* bound: files changed by others

ASSUME InstallationAssumption == MaxStops \in Nat /\ MaxDrifts \in Nat

VARIABLES
  source,    \* the Steam client
  client,    \* the staging directory and the installation root
  marker,    \* .rotk-installation.json: its install id and critical hashes
  settings,  \* the install id in the launcher's settings, 0 for none
  op,        \* the running operation
  nextId,    \* the next randomUUID
  stops, drifts

vars == <<source, client, marker, settings, op, nextId, stops, drifts>>

(* The files of the game, and those the launcher adds to them *)
Critical  == {"exe", "config", "steam"}
GameFiles == Critical \cup {"battleye", "vivox"}
Files     == GameFiles \cup {"configBackup", "steamBackup", "battleyeBackup",
                             "vivoxBackup", "vivoxLegacy", "runtime", "crouch"}

(* stock is what Steam installed for the supported build, ours what the
   launcher ships, foreign anything else of that name *)
Contents == {"absent", "stock", "ours", "torn", "foreign"}

Nothing     == [f \in Files |-> "absent"]
SteamClient == [f \in Files |-> IF f \in GameFiles THEN "stock" ELSE "absent"]

(* A client of an older launcher, whose Vivox backup has the old name *)
OldClient ==
  [SteamClient EXCEPT !.steam = "ours", !.steamBackup = "stock",
     !.configBackup = "stock", !.vivox = "foreign", !.vivoxLegacy = "stock"]

(* The originals that the client can be restored from *)
StockOf(f, backups, dir) == \E b \in {f} \cup backups : dir[b] = "stock"
VivoxStock(dir) == StockOf("vivox", {"vivoxBackup", "vivoxLegacy"}, dir)
SteamStock(dir) == StockOf("steam", {"steamBackup"}, dir)

NoMarker == [id |-> 0, hashes |-> [f \in Critical |-> "absent"]]
NoOp     == [kind |-> "none", pc |-> "idle", dir |-> "root", todo |-> {},
             hashes |-> NoMarker.hashes, vivox |-> "absent"]
Running  == op.kind # "none"

Init ==
  /\ source = SteamClient
  /\ \/ client = [staging |-> Nothing, root |-> Nothing] /\ marker = NoMarker
     \/ client = [staging |-> Nothing, root |-> SteamClient] /\ marker = NoMarker
     \/ client = [staging |-> Nothing, root |-> OldClient]
          /\ marker = [id |-> 1, hashes |-> [f \in Critical |-> "stock"]]
  /\ settings = marker.id /\ nextId = 2
  /\ op = NoOp /\ stops = 0 /\ drifts = 0

Dir    == client[op.dir]
Exists(dir) == client[dir] # Nothing

Put(f, c) == client' = [client EXCEPT ![op.dir][f] = c]

(* The step at pc is done, and the one at next follows *)
Step(pc, next) == op.pc = pc /\ op' = [op EXCEPT !.pc = next]

Books   == <<marker, settings, nextId>>
Outside == <<source, stops, drifts>>

-----------------------------------------------------------------------------
(***************************************************************************)
(* installClient up to the copied and verified staging directory.          *)
(***************************************************************************)
Hashes(dir) == [f \in Critical |-> dir[f]]

(* The destination must not exist, the build must be a supported one *)
BeginInstall ==
  /\ ~Running /\ ~Exists("root")
  /\ \A f \in Critical : source[f] # "absent"
  /\ source.exe = "stock"
  /\ op' = [NoOp EXCEPT !.kind = "install", !.pc = "copy", !.dir = "staging",
                        !.todo = GameFiles, !.hashes = Hashes(source)]
  /\ client' = [client EXCEPT !.staging = Nothing]
  /\ UNCHANGED <<Books, Outside>>

CopyFile(f) ==
  /\ op.pc = "copy" /\ f \in op.todo
  /\ Put(f, source[f])
  /\ op' = [op EXCEPT !.todo = @ \ {f},
                      !.pc = IF op.todo = {f} THEN "verify" ELSE "copy"]
  /\ UNCHANGED <<Books, Outside>>

(* The hashes of the copy and those of the source must still agree *)
VerifyCopy ==
  /\ Step("verify", "config")
  /\ Hashes(Dir) = op.hashes /\ Hashes(source) = op.hashes
  /\ UNCHANGED <<client, Books, Outside>>

-----------------------------------------------------------------------------
(***************************************************************************)
(* adoptExistingClient: the same configuration, in place.                  *)
(***************************************************************************)
BeginAdopt ==
  /\ ~Running /\ Exists("root")
  /\ \A f \in Critical : client.root[f] # "absent"
  /\ client.root.exe = "stock"
  /\ op' = [NoOp EXCEPT !.kind = "adopt", !.pc = "config",
                        !.hashes = Hashes(client.root)]
  /\ UNCHANGED <<client, Books, Outside>>

(* Mutant of CopyOnce: a copy that replaces what is there *)
CopyAgain(from, to, pc, next) ==
  /\ Step(pc, next)
  /\ Dir[from] # "absent"
  /\ Put(to, Dir[from])
  /\ UNCHANGED <<Books, Outside>>

(* copyOnce: what is there already stays, whatever it is *)
CopyOnce(from, to, pc, next) ==
  /\ Step(pc, next)
  /\ Dir[from] # "absent"
  /\ Put(to, IF Dir[to] = "absent" THEN Dir[from] ELSE Dir[to])
  /\ UNCHANGED <<Books, Outside>>

BackupConfig == CopyOnce("config", "configBackup", "config", "steam")

(* deployOpenSourceShim *)
BackupSteam == CopyOnce("steam", "steamBackup", "steam", "shim")
DeployShim ==
  /\ IF op.kind = "launch" THEN Step("shim", "assert") ELSE Step("shim", "vivox")
  /\ Put("steam", "ours")
  /\ UNCHANGED <<Books, Outside>>

(* patchBattlEye, when there is a stock configuration to patch *)
BackupBattlEye ==
  \/ Dir.battleye = "stock"
       /\ CopyOnce("battleye", "battleyeBackup", "battleye", "patch")
  \/ Dir.battleye # "stock" /\ Step("battleye", "marker")
       /\ UNCHANGED <<client, Books, Outside>>
PatchBattlEye ==
  /\ Step("patch", "marker")
  /\ Put("battleye", "ours")
  /\ UNCHANGED <<Books, Outside>>

-----------------------------------------------------------------------------
(***************************************************************************)
(* deployVivoxCompatibility.  Its copies are renames: done or not done.    *)
(***************************************************************************)
AfterVivox == IF op.kind = "launch" THEN "shim" ELSE "battleye"

(* Mutant of ReadVivox: a backup that is there is believed *)
ReadVivoxTrustsBackup ==
  /\ op.pc = "vivox"
  /\ Dir.exe = "stock" /\ Dir.vivox # "absent"
  /\ op' = [op EXCEPT !.vivox = Dir.vivox,
                      !.pc = IF Dir.vivoxBackup = "absent" THEN "vivoxBackup" ELSE "runtime"]
  /\ UNCHANGED <<client, Books, Outside>>

(* The active DLL is read once, at the beginning *)
ReadVivox ==
  /\ op.pc = "vivox"
  /\ Dir.exe = "stock" /\ Dir.vivox # "absent"
  /\ op' = [op EXCEPT !.pc = "vivoxBackup", !.vivox = Dir.vivox]
  /\ UNCHANGED <<client, Books, Outside>>

(* Without a stock backup: the legacy one, or the active DLL *)
BackupVivox ==
  /\ Step("vivoxBackup", "vivoxLegacy")
  /\ LET from == IF Dir.vivoxBackup = "stock" THEN "vivoxBackup"
                 ELSE IF Dir.vivoxLegacy = "stock" THEN "vivoxLegacy" ELSE "vivox"
     IN /\ from = "vivox" => op.vivox = "stock"
        /\ Put("vivoxBackup", Dir[from])
  /\ UNCHANGED <<Books, Outside>>

(* The backup is verified before the legacy one goes *)
RemoveLegacy ==
  /\ Step("vivoxLegacy", "runtime")
  /\ Dir.vivoxBackup = "stock"
  /\ Put("vivoxLegacy", IF Dir.vivoxLegacy = "stock" THEN "absent" ELSE Dir.vivoxLegacy)
  /\ UNCHANGED <<Books, Outside>>

RepairRuntime ==
  /\ Step("runtime", "proxy")
  /\ Put("runtime", "ours")
  /\ UNCHANGED <<Books, Outside>>

(* By what was read at the beginning *)
DeployProxy ==
  /\ Step("proxy", "crouch")
  /\ Put("vivox", IF op.vivox = "ours" THEN Dir.vivox ELSE "ours")
  /\ UNCHANGED <<Books, Outside>>

(* Mutant of WriteCrouch: a marker that is there is believed *)
WriteCrouchOnce ==
  /\ Step("crouch", AfterVivox)
  /\ Put("crouch", IF Dir.crouch = "absent" THEN "ours" ELSE Dir.crouch)
  /\ UNCHANGED <<Books, Outside>>

WriteCrouch ==
  /\ Step("crouch", AfterVivox)
  /\ Put("crouch", "ours")
  /\ UNCHANGED <<Books, Outside>>

Deploy ==
  \/ ReadVivox \/ BackupVivox \/ RemoveLegacy
  \/ RepairRuntime \/ DeployProxy \/ WriteCrouch

-----------------------------------------------------------------------------
(***************************************************************************)
(* The end of an installation or adoption: the marker, the rename of the   *)
(* staging directory, and the settings (main.ts).                          *)
(***************************************************************************)
(* Mutant of WriteMarker: every adoption is a new installation *)
WriteNewMarker ==
  /\ Step("marker", "settings")
  /\ marker' = [id |-> nextId, hashes |-> op.hashes]
  /\ nextId' = nextId + 1
  /\ client' = [client EXCEPT !.root = Dir, !.staging = Nothing]
  /\ UNCHANGED <<settings, Outside>>

(* The marker appears by a rename: in place, or with the whole directory;
   an adoption keeps the identity that it finds *)
WriteMarker ==
  /\ Step("marker", "settings")
  /\ LET keeps == op.kind = "adopt" /\ marker.id # 0
     IN /\ marker' = [id |-> IF keeps THEN marker.id ELSE nextId, hashes |-> op.hashes]
        /\ nextId' = IF keeps THEN nextId ELSE nextId + 1
  /\ op.kind = "install" => ~Exists("root")
  /\ client' = [client EXCEPT !.root = Dir, !.staging = Nothing]
  /\ UNCHANGED <<settings, Outside>>

SetInstallation ==
  /\ op.pc = "settings"
  /\ settings' = marker.id
  /\ op' = NoOp
  /\ UNCHANGED <<client, marker, nextId, Outside>>

-----------------------------------------------------------------------------
(***************************************************************************)
(* launch: validateInstalledClient, the repair, prepareClient.             *)
(***************************************************************************)
BeginLaunch ==
  /\ ~Running
  /\ settings # 0 /\ marker.id = settings
  /\ client.root.exe # "absent" /\ client.root.steamBackup # "absent"
  /\ op' = [NoOp EXCEPT !.kind = "launch", !.pc = "vivox"]
  /\ UNCHANGED <<client, Books, Outside>>

VivoxComplete(dir) ==
  /\ dir.exe = "stock" /\ dir.vivox = "ours" /\ dir.runtime = "ours"
  /\ dir.vivoxBackup = "stock" /\ dir.crouch = "ours"

(* assertVivoxCompatibility, then the configuration of the client *)
AssertVivox ==
  /\ Step("assert", "configBackup")
  /\ VivoxComplete(Dir)
  /\ UNCHANGED <<client, Books, Outside>>

KeepConfig == CopyOnce("config", "configBackup", "configBackup", "write")

WriteConfig ==
  /\ Step("write", "port")
  /\ Put("config", "ours")
  /\ UNCHANGED <<Books, Outside>>

(* The port of BattlEye, without a backup *)
WritePort ==
  /\ op.pc = "port"
  /\ client' = [client EXCEPT !.root.battleye = IF @ = "stock" THEN "ours" ELSE @]
  /\ op' = NoOp
  /\ UNCHANGED <<Books, Outside>>

OpStep ==
  \/ \E f \in GameFiles : CopyFile(f)
  \/ VerifyCopy \/ BackupConfig \/ BackupSteam \/ DeployShim
  \/ BackupBattlEye \/ PatchBattlEye \/ Deploy
  \/ WriteMarker \/ SetInstallation
  \/ AssertVivox \/ KeepConfig \/ WriteConfig \/ WritePort

-----------------------------------------------------------------------------
(***************************************************************************)
(* Mishaps.                                                                *)
(***************************************************************************)
(* What the step at pc writes without a rename *)
Written ==
  CASE op.pc \in {"config", "configBackup"} /\ Dir.configBackup = "absent" -> {"configBackup"}
    [] op.pc = "steam" /\ Dir.steamBackup = "absent" -> {"steamBackup"}
    [] op.pc = "battleye" /\ Dir.battleyeBackup = "absent" -> {"battleyeBackup"}
    [] op.pc = "shim"  -> {"steam"}
    [] op.pc = "write" -> {"config"}
    [] op.pc = "patch" \/ (op.pc = "port" /\ Dir.battleye = "stock") -> {"battleye"}
    [] OTHER -> {}

(* The operation throws or the launcher dies.  A staging directory is
   removed, or stays under a name that nobody looks up again. *)
Torn == {Dir} \cup {[Dir EXCEPT ![f] = "torn"] : f \in Written}
StopAs(dir) ==
  client' = IF op.dir = "root" THEN [client EXCEPT !.root = dir]
                               ELSE [client EXCEPT !.staging = Nothing]
Stop ==
  /\ Running /\ stops < MaxStops
  /\ \E dir \in Torn : StopAs(dir)
  /\ op' = NoOp /\ stops' = stops + 1
  /\ UNCHANGED <<Books, source, drifts>>

(* A step that cannot be taken is an error that ends the operation *)
Blocked == ~ENABLED OpStep
Refuse ==
  /\ Running /\ Blocked
  /\ StopAs(Dir)
  /\ op' = NoOp
  /\ UNCHANGED <<Books, Outside>>

(* Steam updates a file of its client to another build *)
SteamUpdates(f) ==
  /\ drifts < MaxDrifts /\ source[f] = "stock"
  /\ source' = [source EXCEPT ![f] = "foreign"] /\ drifts' = drifts + 1
  /\ UNCHANGED <<client, Books, op, stops>>

(* Others change the client, but do not take its last original, nor the backup
   of the Vivox DLL under the hands of an operation *)
FileDrifts(f, c) ==
  /\ drifts < MaxDrifts /\ Exists("root")
  /\ f = "vivoxBackup" => ~Running
  /\ client' = [client EXCEPT !.root[f] = c] /\ client' # client
  /\ VivoxStock(client.root) => VivoxStock(client'.root)
  /\ SteamStock(client.root) => SteamStock(client'.root)
  /\ drifts' = drifts + 1
  /\ UNCHANGED <<source, Books, op, stops>>

Drift ==
  \/ \E f \in Critical \cup {"vivox"} : SteamUpdates(f)
  \/ \E f \in {"steam", "vivox"}, c \in {"stock", "foreign"} : FileDrifts(f, c)
  \/ \E f \in {"runtime", "crouch", "vivoxBackup"} : FileDrifts(f, "foreign")

Next ==
  \/ BeginInstall \/ BeginAdopt \/ BeginLaunch \/ OpStep
  \/ Stop \/ Refuse \/ Drift

(* Nothing waits on anybody: an operation that has begun goes on or ends *)
Spec == Init /\ [][Next]_vars /\ WF_vars(OpStep) /\ WF_vars(Refuse)
==============================================================================
