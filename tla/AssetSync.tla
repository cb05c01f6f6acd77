------------------------------ MODULE AssetSync ------------------------------
(***************************************************************************)
(* The asset feed (src/electron/services/asset-sync.ts): sync and verify   *)
(* install the packs a published manifest lists over the client's files,   *)
(* keeping one backup of every file they overwrite; restore puts the       *)
(* client back.  The launcher runs at most one sync at a time, but a sync  *)
(* may start while a restore is still running: the restore handler of      *)
(* main.ts only looks at assetSyncRunning when it starts.                  *)
(*                                                                         *)
(* Four things live on disk: the client's files, the backups, the ledger   *)
(* (asset-state.v1.json) and the download cache.  The cache is left out:   *)
(* a cached pack is used only when its hash is the manifest's.             *)
(*                                                                         *)
(* A sync or a restore may stop before any of its steps, by an exception   *)
(* (refused download, locked file, full disk) or because the process dies. *)
(* Both leave the same files behind, so one action stands for both; the    *)
(* history variable mishaps remembers the stops that matter.               *)
(***************************************************************************)

CONSTANTS
  Files,         \* paths under the installation root
  Assets,        \* asset names of the feed
  Versions,      \* published versions of an asset
  FilesOf,       \* FilesOf[a][v]: the files version v of asset a installs
  Zips,          \* the assets whose type is "zip"; the others are "file"
  Manifests,     \* what the feed may publish: [Assets -> Versions or Absent]
  VanillaFiles,  \* the files the untouched client has
  SameSize,      \* files whose foreign variants have the size of the feed's
  Absent,        \* an asset a manifest or a ledger does not list
  None,          \* no ledger, no current asset, no staged file
  Vanilla,       \* content: the original file
  Missing,       \* content: no file
  Altered,       \* content: something the launcher never wrote
  Torn           \* content: a copy cut short by a crash

Payloads == Assets \X Versions
Contents == Payloads \cup {Vanilla, Missing, Altered, Torn}

ASSUME FeedAssumption ==
  /\ FilesOf \in [Assets -> [Versions -> SUBSET Files]]
  /\ Zips \subseteq Assets
  /\ Absent \notin Versions
  /\ Manifests \subseteq [Assets -> Versions \cup {Absent}]
  /\ VanillaFiles \subseteq Files

(* The launcher refuses two standalone files with one target; that packs do not
   overlap is up to those who publish the feed *)
ASSUME DisjointFeed ==
  \A m \in Manifests : \A a, b \in Assets :
    a # b /\ m[a] # Absent /\ m[b] # Absent =>
      FilesOf[a][m[a]] \cap FilesOf[b][m[b]] = {}

ASSUME ValueAssumption ==
  /\ None \notin Assets \cup Files \cup [Assets -> Versions \cup {Absent}]
  /\ {Vanilla, Missing, Altered, Torn} \cap Payloads = {}
  /\ Vanilla # Missing /\ Vanilla # Altered /\ Vanilla # Torn
  /\ Missing # Altered /\ Missing # Torn /\ Altered # Torn

VARIABLES
  client,   \* content of every file of the installation
  backup,   \* content of every file of asset-backups (Missing: no backup)
  ledger,   \* asset-state.v1.json: the version of each recorded asset, or None
  sync,     \* the running sync and its locals
  restore,  \* the running restore and its locals
  mishaps   \* history: the kinds of unfinished work since the installation

vars == <<client, backup, ledger, sync, restore, mishaps>>

(***************************************************************************)
(* What a ledger or a manifest stands for.                                 *)
(***************************************************************************)
AssetsOf(l)    == IF l = None THEN {} ELSE {a \in Assets : l[a] # Absent}
FilesListed(l) == UNION {FilesOf[a][l[a]] : a \in AssetsOf(l)}

Original(f)   == IF f \in VanillaFiles THEN Vanilla ELSE Missing
VanillaClient == [f \in Files |-> Original(f)]

NoSync ==
  [pc |-> "idle", base |-> None, manifest |-> None, thorough |-> FALSE,
   pending |-> {}, done |-> {}, asset |-> None, todo |-> {}, staged |-> None,
   owned |-> {}, orphans |-> {}]

NoRestore == [pc |-> "idle", todo |-> {}]

Init ==
  /\ client  = VanillaClient
  /\ backup  = [f \in Files |-> Missing]
  /\ ledger  = None
  /\ sync    = NoSync
  /\ restore = NoRestore
  /\ mishaps = {}

(***************************************************************************)
(* sync(): read the ledger, then fetch the manifest.  A manifest that      *)
(* cannot be fetched ends the sync with nothing changed (SyncStops).       *)
(***************************************************************************)
BeginSync(thorough) ==
  /\ sync.pc = "idle"
  /\ sync' = [NoSync EXCEPT !.pc = "fetch", !.base = ledger,
                            !.thorough = thorough]
  /\ mishaps' = mishaps \cup (IF restore.pc # "idle" THEN {"overlap"} ELSE {})
  /\ UNCHANGED <<client, backup, ledger, restore>>

(* recordNeedsRepair: a size check, and a hash for "file" assets and verify *)
LooksInstalled(a, v, f, hashed) ==
  \/ client[f] = <<a, v>>
  \/ ~hashed /\ f \in SameSize /\ client[f] # Missing

NeedsRepair(a, v, thorough) ==
  \E f \in FilesOf[a][v] : ~LooksInstalled(a, v, f, thorough \/ a \notin Zips)

DesiredFiles(m, done) == UNION {FilesOf[a][m[a]] : a \in done}

(* Mutant of Outdated: installed files are not looked at *)
OutdatedByVersion(m, base, thorough) ==
  {a \in AssetsOf(m) : a \notin AssetsOf(base) \/ base[a] # m[a]}

Outdated(m, base, thorough) ==
  {a \in AssetsOf(m) :
     \/ a \notin AssetsOf(base)
     \/ base[a] # m[a]
     \/ NeedsRepair(a, m[a], thorough)}

PlanSync(m) ==
  /\ sync.pc = "fetch"
  /\ LET pending == Outdated(m, sync.base, sync.thorough)
     IN sync' = [sync EXCEPT !.pc = "install", !.manifest = m,
                             !.pending = pending,
                             !.done = AssetsOf(m) \ pending,
                             !.owned = FilesListed(sync.base)]
  /\ UNCHANGED <<client, backup, ledger, restore, mishaps>>

(* ensureCachedAsset: the verified pack is in the cache, installAsset starts *)
FetchAsset(a) ==
  /\ sync.pc = "install"
  /\ sync.asset = None
  /\ a \in sync.pending
  /\ sync' = [sync EXCEPT !.asset = a, !.pending = @ \ {a},
                          !.todo = FilesOf[a][sync.manifest[a]]]
  /\ UNCHANGED <<client, backup, ledger, restore, mishaps>>

(* Mutants of WantsBackup: the copy is made every time, or of the feed's files *)
BacksUpEveryTime(f) == f \notin sync.owned /\ client[f] # Missing
BacksUpOwnedFiles(f) == client[f] # Missing /\ backup[f] = Missing

(* backupOriginal: once, and never of a file the ledger or this sync owns *)
WantsBackup(f) ==
  f \notin sync.owned /\ client[f] # Missing /\ backup[f] = Missing

BackupOriginal(f) ==
  /\ sync.pc = "install"
  /\ f \in sync.todo
  /\ sync.staged = None
  /\ backup' = IF WantsBackup(f) THEN [backup EXCEPT ![f] = client[f]] ELSE backup
  /\ sync' = [sync EXCEPT !.staged = f]
  /\ UNCHANGED <<client, ledger, restore, mishaps>>

(* placeFile, installAsset: the staging file is renamed onto the target *)
PlaceFile ==
  /\ sync.pc = "install"
  /\ sync.staged # None
  /\ client' = [client EXCEPT ![sync.staged] =
                  <<sync.asset, sync.manifest[sync.asset]>>]
  /\ sync' = [sync EXCEPT !.todo = @ \ {sync.staged},
                          !.owned = @ \cup {sync.staged}, !.staged = None]
  /\ UNCHANGED <<backup, ledger, restore, mishaps>>

RecordAsset ==
  /\ sync.pc = "install"
  /\ sync.asset # None
  /\ sync.todo = {}
  /\ sync' = [sync EXCEPT !.done = @ \cup {sync.asset}, !.asset = None]
  /\ UNCHANGED <<client, backup, ledger, restore, mishaps>>

(* Mutant of Orphans: files that left the feed stay *)
NoOrphans == {}

(* Files of the old ledger that no record provides any more *)
Orphans == FilesListed(sync.base) \ DesiredFiles(sync.manifest, sync.done)

BeginOrphans ==
  /\ sync.pc = "install"
  /\ sync.asset = None
  /\ sync.pending = {}
  /\ sync' = [sync EXCEPT !.pc = "orphans", !.orphans = Orphans]
  /\ UNCHANGED <<client, backup, ledger, restore, mishaps>>

(***************************************************************************)
(* restoreOrRemove: with a backup, copy it onto the target and delete it;  *)
(* without one, delete the target.  Both leave the content of the backup.  *)
(***************************************************************************)
RestoreOrRemove(f) ==
  /\ client' = [client EXCEPT ![f] = backup[f]]
  /\ backup' = [backup EXCEPT ![f] = Missing]

RestoreOrphan(f) ==
  /\ sync.pc = "orphans"
  /\ f \in sync.orphans
  /\ RestoreOrRemove(f)
  /\ sync' = [sync EXCEPT !.orphans = @ \ {f}]
  /\ UNCHANGED <<ledger, restore, mishaps>>

WriteLedger ==
  /\ sync.pc = "orphans"
  /\ sync.orphans = {}
  /\ ledger' = [a \in Assets |->
                  IF a \in sync.done THEN sync.manifest[a] ELSE Absent]
  /\ sync' = NoSync
  /\ UNCHANGED <<client, backup, restore, mishaps>>

(***************************************************************************)
(* A sync that stops: nothing is rolled back.  "stranded": files placed    *)
(* that no ledger lists.  "undone": files put back that the ledger still   *)
(* lists.  "torn": the process died inside the copy of a backup.           *)
(***************************************************************************)
SyncMishaps ==
  (IF sync.pc # "fetch" /\ sync.owned # FilesListed(sync.base)
     THEN {"stranded"} ELSE {})
  \cup
  (IF sync.pc = "orphans" /\ sync.orphans # Orphans THEN {"undone"} ELSE {})

SyncStops ==
  /\ sync.pc # "idle"
  /\ sync' = NoSync
  /\ mishaps' = mishaps \cup SyncMishaps
  /\ UNCHANGED <<client, backup, ledger, restore>>

SyncDiesInBackup(f) ==
  /\ sync.pc = "install"
  /\ f \in sync.todo
  /\ sync.staged = None
  /\ WantsBackup(f)
  /\ backup' = [backup EXCEPT ![f] = Torn]
  /\ sync' = NoSync
  /\ mishaps' = mishaps \cup SyncMishaps \cup {"torn"}
  /\ UNCHANGED <<client, ledger, restore>>

(* The rename happened, deleting the backup did not *)
SyncStopsInOrphan(f) ==
  /\ sync.pc = "orphans"
  /\ f \in sync.orphans
  /\ backup[f] # Missing
  /\ client' = [client EXCEPT ![f] = backup[f]]
  /\ sync' = NoSync
  /\ mishaps' = mishaps \cup SyncMishaps
  /\ UNCHANGED <<backup, ledger, restore>>

(***************************************************************************)
(* restore(): every recorded file, then the ledger, then the backups.      *)
(***************************************************************************)
BeginRestore ==
  /\ sync.pc = "idle"
  /\ restore.pc = "idle"
  /\ restore' = [pc |-> "files", todo |-> FilesListed(ledger)]
  /\ UNCHANGED <<client, backup, ledger, sync, mishaps>>

RestoreFile(f) ==
  /\ restore.pc = "files"
  /\ f \in restore.todo
  /\ RestoreOrRemove(f)
  /\ restore' = [restore EXCEPT !.todo = @ \ {f}]
  /\ UNCHANGED <<ledger, sync, mishaps>>

ForgetLedger ==
  /\ restore.pc = "files"
  /\ restore.todo = {}
  /\ ledger' = None
  /\ restore' = [restore EXCEPT !.pc = "purge"]
  /\ UNCHANGED <<client, backup, sync, mishaps>>

(* "forgotten": the backups of stranded files go with the others *)
PurgeBackups ==
  /\ restore.pc = "purge"
  /\ backup' = [f \in Files |-> Missing]
  /\ restore' = NoRestore
  /\ mishaps' = mishaps \cup (IF "stranded" \in mishaps THEN {"forgotten"} ELSE {})
  /\ UNCHANGED <<client, ledger, sync>>

(* Deleting the backup directory stops at a locked file *)
RestoreStopsInPurge(purged) ==
  /\ restore.pc = "purge"
  /\ backup' = [f \in Files |-> IF f \in purged THEN Missing ELSE backup[f]]
  /\ restore' = NoRestore
  /\ mishaps' = mishaps \cup (IF "stranded" \in mishaps THEN {"forgotten"} ELSE {})
  /\ UNCHANGED <<client, ledger, sync>>

RestoreMishaps ==
  IF restore.pc = "files" /\ restore.todo # FilesListed(ledger)
    THEN {"undone"} ELSE {}

RestoreStops ==
  /\ restore.pc # "idle"
  /\ restore' = NoRestore
  /\ mishaps' = mishaps \cup RestoreMishaps
  /\ UNCHANGED <<client, backup, ledger, sync>>

RestoreStopsInFile(f) ==
  /\ restore.pc = "files"
  /\ f \in restore.todo
  /\ backup[f] # Missing
  /\ client' = [client EXCEPT ![f] = backup[f]]
  /\ restore' = NoRestore
  /\ mishaps' = mishaps \cup RestoreMishaps
  /\ UNCHANGED <<backup, ledger, sync>>

(***************************************************************************)
(* Environment: between two operations somebody deletes, edits or replaces *)
(* an installed file (README.md: "une variante vanilla de même taille").   *)
(***************************************************************************)
FileDrifts(f, c) ==
  /\ sync.pc = "idle" /\ restore.pc = "idle"
  /\ client[f] \in Payloads
  /\ c \in {Missing, Altered, Original(f)}
  /\ client' = [client EXCEPT ![f] = c]
  /\ UNCHANGED <<backup, ledger, sync, restore, mishaps>>

SyncStep ==
  \/ \E m \in Manifests : PlanSync(m)
  \/ \E a \in Assets : FetchAsset(a)
  \/ \E f \in Files : BackupOriginal(f)
  \/ PlaceFile
  \/ RecordAsset
  \/ BeginOrphans
  \/ \E f \in Files : RestoreOrphan(f)
  \/ WriteLedger

RestoreStep ==
  \/ \E f \in Files : RestoreFile(f)
  \/ ForgetLedger
  \/ PurgeBackups

Stops ==
  \/ SyncStops
  \/ RestoreStops
  \/ \E f \in Files : \/ SyncDiesInBackup(f)
                      \/ SyncStopsInOrphan(f)
                      \/ RestoreStopsInFile(f)
  \/ \E purged \in SUBSET Files : RestoreStopsInPurge(purged)

Next ==
  \/ \E thorough \in BOOLEAN : BeginSync(thorough)
  \/ BeginRestore
  \/ SyncStep
  \/ RestoreStep
  \/ Stops
  \/ \E f \in Files, c \in Contents : FileDrifts(f, c)

Spec == Init /\ [][Next]_vars
==============================================================================
