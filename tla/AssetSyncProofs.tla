--------------------------- MODULE AssetSyncProofs ---------------------------
(***************************************************************************)
(* Proofs that the asset feed keeps the player's original files, for every *)
(* set of files, assets, versions and manifests.                           *)
(***************************************************************************)
EXTENDS AssetSyncProps, TLAPS

(* The files the feed may be hiding, by the work under way. *)
Covered ==
  CASE restore.pc = "purge" -> {}
    [] restore.pc = "files" -> restore.todo
    [] restore.pc = "idle" /\ sync.pc = "install" -> sync.owned
    [] restore.pc = "idle" /\ sync.pc = "orphans" ->
         DesiredFiles(sync.manifest, sync.done) \cup sync.orphans
    [] OTHER -> FilesListed(ledger)

AssetFiles == FilesOf[sync.asset][sync.manifest[sync.asset]]

(* How the locals of a sync relate to each other, whatever happened before. *)
SyncLocals ==
  /\ sync.pc \in {"install", "orphans"} =>
       /\ FilesListed(sync.base) \subseteq sync.owned
       /\ DesiredFiles(sync.manifest, sync.done) \subseteq sync.owned
  /\ sync.pc = "install" /\ sync.asset = None =>
       sync.owned \subseteq FilesListed(sync.base)
                              \cup DesiredFiles(sync.manifest, sync.done)
  /\ sync.pc = "install" /\ sync.asset # None =>
       /\ sync.todo \subseteq AssetFiles
       /\ AssetFiles \subseteq sync.owned \cup sync.todo
       /\ sync.owned \subseteq FilesListed(sync.base) \cup AssetFiles
                              \cup DesiredFiles(sync.manifest, sync.done)
  /\ sync.pc = "orphans" =>
       /\ sync.asset = None
       /\ sync.orphans \subseteq Orphans

Calm == mishaps \subseteq {"stranded"}

(* No restore beside a sync, and each works from the ledger on disk. *)
OneAtATime ==
  /\ sync.pc = "idle" \/ restore.pc = "idle"
  /\ sync.pc # "idle" => sync.base = ledger
  /\ restore.pc = "files" => restore.todo \subseteq FilesListed(ledger)
  /\ restore.pc = "purge" => ledger = None

(* Originals are in place or backed up, and backed up where covered. *)
Kept ==
  /\ sync.staged \in VanillaFiles => backup[sync.staged] = Vanilla
  /\ \A f \in VanillaFiles :
       /\ client[f] # Vanilla => backup[f] = Vanilla
       /\ backup[f] \in {Missing, Vanilla}
       /\ f \in Covered => backup[f] = Vanilla

(* Everything that is not covered is original. *)
Untouched ==
  \A f \in Files :
    /\ f \notin Covered => client[f] = Original(f)
    /\ backup[f] \in {Missing, Original(f)}

IInv ==
  /\ TypeOK
  /\ SyncLocals
  /\ Calm => OneAtATime /\ Kept
  /\ mishaps = {} => Untouched

-----------------------------------------------------------------------------

USE FeedAssumption, ValueAssumption

(* A ledger or a manifest lists files of the installation. *)
LEMMA ListedFiles ==
  ASSUME NEW l \in Ledgers \cup {None}
  PROVE  /\ AssetsOf(l) \subseteq Assets
         /\ FilesListed(l) \subseteq Files
         /\ \A a \in AssetsOf(l) : l[a] \in Versions
         /\ \A a \in AssetsOf(l) : FilesOf[a][l[a]] \subseteq FilesListed(l)
<1>1. /\ AssetsOf(l) \subseteq Assets
      /\ \A a \in AssetsOf(l) : l[a] \in Versions
  BY DEF AssetsOf, Ledgers
<1>2. \A a \in AssetsOf(l) : FilesOf[a][l[a]] \in SUBSET Files
  BY <1>1
<1>3. FilesListed(l) \subseteq Files
  BY <1>2 DEF FilesListed
<1>4. \A a \in AssetsOf(l) : FilesOf[a][l[a]] \subseteq FilesListed(l)
  BY DEF FilesListed
<1>. QED
  BY <1>1, <1>3, <1>4

(* Without a ledger nothing is listed. *)
LEMMA NothingListed ==
  AssetsOf(None) = {} /\ FilesListed(None) = {}
BY DEF AssetsOf, FilesListed

(* A manifest lists versions like a ledger, and is not "none". *)
LEMMA ManifestIsLedger ==
  ASSUME NEW m \in Manifests
  PROVE  m \in Ledgers /\ m # None
BY DEF Ledgers

(* Types are preserved by every step of a sync, a restore or the environment. *)
THEOREM TypeInvariant == Spec => []TypeOK
<1>1. Init => TypeOK
  BY NothingListed DEF Init, TypeOK, SyncType, SyncShape,
                        NoSync, NoRestore, VanillaClient, Original, Contents
<1>2. TypeOK /\ [Next]_vars => TypeOK'
  <2>. SUFFICES ASSUME TypeOK, [Next]_vars
                PROVE  TypeOK'
    OBVIOUS
  <2>. USE DEF TypeOK, SyncType, SyncShape
  <2>1. ASSUME NEW thorough \in BOOLEAN, BeginSync(thorough)
        PROVE  TypeOK'
    BY <2>1, NothingListed DEF BeginSync, NoSync
  <2>2. CASE BeginRestore
    BY <2>2, ListedFiles DEF BeginRestore
  <2>3. ASSUME NEW m \in Manifests, PlanSync(m)
        PROVE  TypeOK'
    <3>1. Outdated(m, sync.base, sync.thorough) \subseteq AssetsOf(m)
      BY DEF Outdated
    <3>2. AssetsOf(m) \subseteq Assets /\ FilesListed(sync.base) \subseteq Files
      BY ListedFiles, ManifestIsLedger
    <3>3. sync.asset = None
      BY <2>3, NothingListed DEF PlanSync
    <3>. QED
      BY <2>3, <3>1, <3>2, <3>3, ManifestIsLedger DEF PlanSync
  <2>4. ASSUME NEW a \in Assets, FetchAsset(a)
        PROVE  TypeOK'
    <3>1. FilesOf[a][sync.manifest[a]] \subseteq Files
      BY <2>4, ListedFiles, ManifestIsLedger DEF FetchAsset
    <3>. QED
      BY <2>4, <3>1 DEF FetchAsset
  <2>5. ASSUME NEW f \in Files, BackupOriginal(f)
        PROVE  TypeOK'
    BY <2>5 DEF BackupOriginal
  <2>6. CASE PlaceFile
    <3>1. <<sync.asset, sync.manifest[sync.asset]>> \in Contents
      BY <2>6, ListedFiles, ManifestIsLedger DEF PlaceFile, Contents, Payloads
    <3>. QED
      BY <2>6, <3>1 DEF PlaceFile
  <2>7. CASE RecordAsset
    <3>1. /\ sync.asset \in Assets
          /\ sync.asset \in AssetsOf(sync.manifest)
          /\ sync.staged = None
      BY <2>7 DEF RecordAsset
    <3>2. sync' = [sync EXCEPT !.done = sync.done \cup {sync.asset}, !.asset = None]
      BY <2>7 DEF RecordAsset
    <3>3. sync' \in SyncType
      BY <3>1, <3>2
    <3>4. /\ sync'.pc = sync.pc /\ sync'.manifest = sync.manifest
          /\ sync'.pending = sync.pending
          /\ sync'.done = sync.done \cup {sync.asset} /\ sync'.asset = None
          /\ sync'.todo = sync.todo /\ sync'.staged = sync.staged
      BY <3>2
    <3>5. /\ sync'.asset \notin sync'.pending \cup sync'.done
          /\ sync'.pending \cap sync'.done = {}
      BY <3>1, <3>4
    <3>6. SyncShape'
      BY <2>7, <3>1, <3>4, <3>5 DEF RecordAsset
    <3>. QED
      BY <2>7, <3>3, <3>6 DEF RecordAsset
  <2>8. CASE BeginOrphans
    <3>1. Orphans \subseteq Files
      BY ListedFiles DEF Orphans
    <3>. QED
      BY <2>8, <3>1 DEF BeginOrphans
  <2>9. ASSUME NEW f \in Files, RestoreOrphan(f)
        PROVE  TypeOK'
    BY <2>9 DEF RestoreOrphan, RestoreOrRemove, Contents
  <2>10. CASE WriteLedger
    <3>1. ledger' \in Ledgers
      BY <2>10, ListedFiles, ManifestIsLedger DEF WriteLedger, Ledgers
    <3>. QED
      BY <2>10, <3>1, NothingListed DEF WriteLedger, NoSync
  <2>11. ASSUME NEW f \in Files, RestoreFile(f)
         PROVE  TypeOK'
    BY <2>11 DEF RestoreFile, RestoreOrRemove, Contents
  <2>12. CASE ForgetLedger
    BY <2>12 DEF ForgetLedger
  <2>13. CASE PurgeBackups
    BY <2>13 DEF PurgeBackups, NoRestore, Contents
  <2>14. CASE SyncStops
    BY <2>14, NothingListed DEF SyncStops, NoSync, SyncMishaps
  <2>15. CASE RestoreStops
    BY <2>15 DEF RestoreStops, NoRestore, RestoreMishaps
  <2>16. ASSUME NEW f \in Files, SyncDiesInBackup(f)
         PROVE  TypeOK'
    BY <2>16, NothingListed DEF SyncDiesInBackup, NoSync, SyncMishaps, Contents
  <2>17. ASSUME NEW f \in Files, SyncStopsInOrphan(f)
         PROVE  TypeOK'
    BY <2>17, NothingListed DEF SyncStopsInOrphan, NoSync, SyncMishaps
  <2>18. ASSUME NEW f \in Files, RestoreStopsInFile(f)
         PROVE  TypeOK'
    BY <2>18 DEF RestoreStopsInFile, NoRestore, RestoreMishaps
  <2>19. ASSUME NEW f \in Files, NEW c \in Contents, FileDrifts(f, c)
         PROVE  TypeOK'
    BY <2>19 DEF FileDrifts
  <2>20. ASSUME NEW purged \in SUBSET Files, RestoreStopsInPurge(purged)
         PROVE  TypeOK'
    BY <2>20 DEF RestoreStopsInPurge, NoRestore, Contents
  <2>21. CASE UNCHANGED vars
    BY <2>21 DEF vars
  <2>. QED
    BY <2>1, <2>2, <2>3, <2>4, <2>5, <2>6, <2>7, <2>8, <2>9, <2>10, <2>11,
       <2>12, <2>13, <2>14, <2>15, <2>16, <2>17, <2>18, <2>19, <2>20, <2>21
       DEF Next, SyncStep, RestoreStep, Stops
<1>. QED
  BY <1>1, <1>2, PTL DEF Spec

(* The locals of a sync stay consistent, whatever runs beside it. *)
LEMMA SyncLocalsStep ==
  ASSUME TypeOK, SyncLocals, [Next]_vars
  PROVE  SyncLocals'
<1>. USE DEF TypeOK, SyncType, SyncShape
<1>1. ASSUME sync' = sync
      PROVE  SyncLocals'
  BY <1>1 DEF SyncLocals, AssetFiles, Orphans
<1>2. ASSUME sync'.pc \in {"idle", "fetch"}
      PROVE  SyncLocals'
  BY <1>2 DEF SyncLocals
<1>3. ASSUME NEW m \in Manifests, PlanSync(m)
      PROVE  SyncLocals'
  <2>. DEFINE base == sync.base
              done == AssetsOf(m) \ Outdated(m, base, sync.thorough)
  <2>1. \A a \in done : FilesOf[a][m[a]] \subseteq FilesListed(base)
    <3>1. \A a \in done : a \in AssetsOf(base) /\ base[a] = m[a]
      BY DEF Outdated
    <3>. QED
      BY <3>1, ListedFiles
  <2>2. DesiredFiles(m, done) \subseteq FilesListed(base)
    BY <2>1 DEF DesiredFiles
  <2>3. /\ sync'.pc = "install" /\ sync'.base = base /\ sync'.manifest = m
        /\ sync'.done = done /\ sync'.owned = FilesListed(base)
        /\ sync'.asset = None
    BY <1>3, NothingListed DEF PlanSync
  <2>. HIDE DEF base, done
  <2>. QED
    BY <2>2, <2>3 DEF SyncLocals
<1>4. ASSUME NEW a \in Assets, FetchAsset(a)
      PROVE  SyncLocals'
  <2>1. /\ sync'.pc = "install" /\ sync'.base = sync.base
        /\ sync'.manifest = sync.manifest /\ sync'.done = sync.done
        /\ sync'.owned = sync.owned /\ sync'.asset = a
        /\ sync'.todo = FilesOf[a][sync.manifest[a]]
    BY <1>4 DEF FetchAsset
  <2>. QED
    BY <1>4, <2>1 DEF SyncLocals, FetchAsset, AssetFiles
<1>5. ASSUME NEW f \in Files, BackupOriginal(f)
      PROVE  SyncLocals'
  <2>1. /\ sync'.pc = "install" /\ sync'.base = sync.base
        /\ sync'.manifest = sync.manifest /\ sync'.done = sync.done
        /\ sync'.owned = sync.owned /\ sync'.asset = sync.asset
        /\ sync'.todo = sync.todo
    BY <1>5 DEF BackupOriginal
  <2>. QED
    BY <1>5, <2>1 DEF SyncLocals, BackupOriginal, AssetFiles
<1>6. CASE PlaceFile
  <2>1. /\ sync'.pc = "install" /\ sync'.base = sync.base
        /\ sync'.manifest = sync.manifest /\ sync'.done = sync.done
        /\ sync'.owned = sync.owned \cup {sync.staged}
        /\ sync'.asset = sync.asset
        /\ sync'.todo = sync.todo \ {sync.staged}
    BY <1>6 DEF PlaceFile
  <2>2. sync.staged \in sync.todo /\ sync.asset # None
    BY <1>6 DEF PlaceFile
  <2>. QED
    BY <1>6, <2>1, <2>2 DEF SyncLocals, PlaceFile, AssetFiles
<1>7. CASE RecordAsset
  <2>. DEFINE grown == sync.done \cup {sync.asset}
  <2>1. /\ sync'.pc = "install" /\ sync'.base = sync.base
        /\ sync'.manifest = sync.manifest
        /\ sync'.done = grown
        /\ sync'.owned = sync.owned /\ sync'.asset = None
    BY <1>7 DEF RecordAsset
  <2>2. DesiredFiles(sync.manifest, grown)
          = DesiredFiles(sync.manifest, sync.done) \cup AssetFiles
    BY DEF DesiredFiles, AssetFiles
  <2>3. /\ AssetFiles \subseteq sync.owned
        /\ DesiredFiles(sync.manifest, sync.done) \subseteq sync.owned
        /\ FilesListed(sync.base) \subseteq sync.owned
        /\ sync.owned \subseteq FilesListed(sync.base) \cup AssetFiles
                                \cup DesiredFiles(sync.manifest, sync.done)
    BY <1>7 DEF SyncLocals, RecordAsset
  <2>. HIDE DEF grown
  <2>. QED
    BY <2>1, <2>2, <2>3 DEF SyncLocals
<1>8. CASE BeginOrphans
  <2>1. /\ sync'.pc = "orphans" /\ sync'.base = sync.base
        /\ sync'.manifest = sync.manifest /\ sync'.done = sync.done
        /\ sync'.owned = sync.owned /\ sync'.asset = None
        /\ sync'.orphans = Orphans
    BY <1>8 DEF BeginOrphans
  <2>. QED
    BY <1>8, <2>1 DEF SyncLocals, BeginOrphans, Orphans
<1>9. ASSUME NEW f \in Files, RestoreOrphan(f)
      PROVE  SyncLocals'
  <2>1. /\ sync'.pc = "orphans" /\ sync'.base = sync.base
        /\ sync'.manifest = sync.manifest /\ sync'.done = sync.done
        /\ sync'.owned = sync.owned /\ sync'.asset = sync.asset
        /\ sync'.orphans = sync.orphans \ {f}
    BY <1>9 DEF RestoreOrphan
  <2>. QED
    BY <1>9, <2>1 DEF SyncLocals, RestoreOrphan, Orphans
<1>10. CASE \E thorough \in BOOLEAN : BeginSync(thorough)
  BY <1>2, <1>10 DEF BeginSync, NoSync
<1>11. CASE Stops
  BY <1>1, <1>2, <1>11 DEF Stops, SyncStops, RestoreStops, SyncDiesInBackup,
       SyncStopsInOrphan, RestoreStopsInFile, RestoreStopsInPurge, NoSync
<1>12. CASE WriteLedger
  BY <1>2, <1>12 DEF WriteLedger, NoSync
<1>13. CASE BeginRestore \/ RestoreStep
  BY <1>1, <1>13 DEF BeginRestore, RestoreStep, RestoreFile, ForgetLedger,
       PurgeBackups
<1>14. CASE \E f \in Files, c \in Contents : FileDrifts(f, c)
  BY <1>1, <1>14 DEF FileDrifts
<1>15. CASE UNCHANGED vars
  BY <1>1, <1>15 DEF vars
<1>. HIDE DEF TypeOK, SyncType, SyncShape
<1>. QED
  BY <1>3, <1>4, <1>5, <1>6, <1>7, <1>8, <1>9, <1>10, <1>11, <1>12, <1>13,
     <1>14, <1>15 DEF Next, SyncStep

(* What a finished sync records lists exactly the files it provides. *)
LEMMA WrittenLedger ==
  ASSUME TypeOK, WriteLedger
  PROVE  /\ ledger' \in Ledgers
         /\ FilesListed(ledger') = DesiredFiles(sync.manifest, sync.done)
<1>1. /\ sync.manifest \in Ledgers
      /\ sync.done \subseteq AssetsOf(sync.manifest)
  BY ManifestIsLedger DEF TypeOK, SyncType, SyncShape, WriteLedger
<1>2. \A a \in sync.done : a \in Assets /\ sync.manifest[a] # Absent
                             /\ sync.manifest[a] \in Versions
  BY <1>1, ListedFiles DEF AssetsOf
<1>3. /\ ledger' \in Ledgers
      /\ \A a \in sync.done : ledger'[a] = sync.manifest[a]
  BY <1>2 DEF WriteLedger, Ledgers
<1>4. ledger' # None
  BY <1>3 DEF Ledgers
<1>5. AssetsOf(ledger') = sync.done
  BY <1>2, <1>4 DEF AssetsOf, WriteLedger
<1>. QED
  BY <1>3, <1>5 DEF FilesListed, DesiredFiles

(* No step forgets a mishap. *)
LEMMA MishapsGrow ==
  ASSUME [Next]_vars
  PROVE  mishaps \subseteq mishaps'
BY DEF Next, SyncStep, RestoreStep, Stops, vars, BeginSync, PlanSync, FetchAsset,
       BackupOriginal, PlaceFile, RecordAsset, BeginOrphans, RestoreOrphan,
       WriteLedger, SyncStops, SyncDiesInBackup, SyncStopsInOrphan, BeginRestore,
       RestoreFile, ForgetLedger, PurgeBackups, RestoreStops, RestoreStopsInFile,
       RestoreStopsInPurge, FileDrifts

(* Putting back a covered file uncovers it and leaves the original. *)
LEMMA PutBack ==
  ASSUME NEW f \in Files, TypeOK, RestoreOrRemove(f), Kept,
         mishaps' = {} => Untouched,
         f \in Covered, f \notin Covered',
         \A g \in Files \ {f} : g \in Covered' <=> g \in Covered,
         sync'.staged = None
  PROVE  Kept' /\ (mishaps' = {} => Untouched')
<1>1. /\ client' = [client EXCEPT ![f] = backup[f]]
      /\ backup' = [backup EXCEPT ![f] = Missing]
      /\ client \in [Files -> Contents] /\ backup \in [Files -> Contents]
  BY DEF RestoreOrRemove, TypeOK
<1>2. f \in VanillaFiles => client'[f] = Vanilla
  BY <1>1 DEF Kept
<1>3. Kept'
  BY <1>1, <1>2 DEF Kept
<1>4. ASSUME Untouched
      PROVE  Untouched'
  <2>1. client'[f] = Original(f)
    BY <1>1, <1>2, <1>4 DEF Untouched, Original
  <2>. QED
    BY <1>1, <1>4, <2>1 DEF Untouched, Original
<1>. QED
  BY <1>3, <1>4

(* A sync that stops without damage covered what the ledger lists, and no more
   if it stranded nothing either. *)
LEMMA SyncGone ==
  ASSUME TypeOK, SyncLocals, sync.pc # "idle", restore.pc = "idle",
         sync.base = ledger, sync' = NoSync, restore' = restore,
         ledger' = ledger, mishaps' = mishaps \cup SyncMishaps, Calm'
  PROVE  /\ OneAtATime'
         /\ sync'.staged = None
         /\ Covered' = FilesListed(ledger)
         /\ FilesListed(ledger) \subseteq Covered
         /\ mishaps' = {} => Covered \subseteq FilesListed(ledger)
<1>1. /\ sync.pc = "orphans" => sync.orphans = Orphans
      /\ mishaps' = {} /\ sync.pc # "fetch" => sync.owned = FilesListed(ledger)
  BY DEF Calm, SyncMishaps
<1>2. sync'.pc = "idle" /\ restore'.pc = "idle" /\ sync'.staged = None
  BY DEF NoSync
<1>3. OneAtATime' /\ Covered' = FilesListed(ledger)
  BY <1>2 DEF OneAtATime, Covered
<1>4. sync.pc \in {"fetch", "install", "orphans"}
  BY DEF TypeOK, SyncType
<1>5. /\ FilesListed(ledger) \subseteq Covered
      /\ mishaps' = {} => Covered \subseteq FilesListed(ledger)
  BY <1>1, <1>4 DEF Covered, SyncLocals, Orphans
<1>. QED
  BY <1>2, <1>3, <1>5

(* A restore that put everything back needs none of the backups it deletes. *)
LEMMA Purged ==
  ASSUME IInv, Calm', NEW purged \in SUBSET Files, restore.pc = "purge",
         backup' = [f \in Files |-> IF f \in purged THEN Missing ELSE backup[f]],
         restore' = NoRestore, sync' = sync, ledger' = ledger, client' = client,
         mishaps' = mishaps \cup (IF "stranded" \in mishaps THEN {"forgotten"} ELSE {})
  PROVE  OneAtATime' /\ Kept' /\ Untouched'
<1>1. mishaps = {}
  BY DEF Calm
<1>2. OneAtATime /\ Kept /\ Untouched /\ TypeOK
  BY <1>1 DEF IInv, Calm
<1>3. sync.pc = "idle" /\ ledger = None /\ sync.staged = None
  BY <1>2, NothingListed DEF OneAtATime, TypeOK, SyncType, SyncShape
<1>4. Covered = {} /\ Covered' = {}
  BY <1>3, NothingListed DEF Covered, NoRestore
<1>5. \A f \in Files : client[f] = Original(f)
  BY <1>2, <1>4 DEF Untouched
<1>6. OneAtATime'
  BY <1>3 DEF OneAtATime, NoRestore
<1>7. Kept'
  BY <1>2, <1>3, <1>4, <1>5 DEF Kept, Original
<1>8. Untouched'
  BY <1>2, <1>4, <1>5 DEF Untouched, Original
<1>. QED
  BY <1>6, <1>7, <1>8

(* The originals stay recoverable, and what the feed does not cover original,
   across every step of a behaviour without damage. *)
LEMMA SafetyStep ==
  ASSUME IInv, [Next]_vars, Calm'
  PROVE  /\ OneAtATime'
         /\ Kept'
         /\ mishaps' = {} => Untouched'
<1>. DEFINE Goal == OneAtATime' /\ Kept' /\ (mishaps' = {} => Untouched')
<1>1. /\ TypeOK
      /\ SyncLocals
      /\ OneAtATime
      /\ Kept
      /\ mishaps' = {} => mishaps = {} /\ Untouched
  BY MishapsGrow DEF IInv, Calm
<1>2. None \notin VanillaFiles /\ VanillaFiles \subseteq Files
  OBVIOUS
<1>. USE <1>1, <1>2 DEF TypeOK, SyncType, SyncShape
<1>3. ASSUME NEW thorough \in BOOLEAN, BeginSync(thorough)
      PROVE  Goal
  <2>1. restore.pc = "idle"
    BY <1>3 DEF BeginSync, Calm
  <2>. QED
    BY <1>3, <2>1 DEF BeginSync, NoSync, OneAtATime, Kept, Untouched, Covered
<1>4. CASE BeginRestore
  BY <1>4 DEF BeginRestore, OneAtATime, Kept, Untouched, Covered
<1>5. ASSUME NEW m \in Manifests, PlanSync(m)
      PROVE  Goal
  BY <1>5 DEF PlanSync, OneAtATime, Kept, Untouched, Covered
<1>6. ASSUME NEW a \in Assets, FetchAsset(a)
      PROVE  Goal
  BY <1>6 DEF FetchAsset, OneAtATime, Kept, Untouched, Covered
<1>7. ASSUME NEW f \in Files, BackupOriginal(f)
      PROVE  Goal
  BY <1>7 DEF BackupOriginal, WantsBackup, OneAtATime, Kept, Untouched, Covered, Original
<1>8. CASE PlaceFile
  BY <1>8 DEF PlaceFile, OneAtATime, Kept, Untouched, Covered, Payloads
<1>9. CASE RecordAsset
  BY <1>9 DEF RecordAsset, OneAtATime, Kept, Untouched, Covered
<1>10. CASE BeginOrphans
  BY <1>10 DEF BeginOrphans, SyncLocals, Orphans, OneAtATime, Kept, Untouched, Covered
<1>11. ASSUME NEW f \in Files, RestoreOrphan(f)
       PROVE  Goal
  <2>1. /\ sync.pc = "orphans" /\ restore.pc = "idle" /\ restore' = restore
        /\ ledger' = ledger /\ mishaps' = mishaps
        /\ sync' = [sync EXCEPT !.orphans = sync.orphans \ {f}]
        /\ sync.staged = None
    BY <1>11 DEF RestoreOrphan, OneAtATime, SyncLocals
  <2>2. /\ f \in sync.orphans
        /\ f \notin DesiredFiles(sync.manifest, sync.done)
    BY <1>11 DEF RestoreOrphan, SyncLocals, Orphans
  <2>3. /\ f \in Covered /\ f \notin Covered'
        /\ \A g \in Files \ {f} : g \in Covered' <=> g \in Covered
    BY <2>1, <2>2 DEF Covered
  <2>4. OneAtATime'
    BY <2>1 DEF OneAtATime
  <2>. QED
    BY <1>11, <2>1, <2>3, <2>4, PutBack DEF RestoreOrphan
<1>12. CASE WriteLedger
  <2>1. /\ sync.pc = "orphans" /\ sync.orphans = {} /\ restore.pc = "idle"
        /\ sync' = NoSync /\ restore' = restore
        /\ client' = client /\ backup' = backup /\ mishaps' = mishaps
    BY <1>12 DEF WriteLedger, OneAtATime
  <2>2. \A g \in Files : g \in Covered' <=> g \in Covered
    BY <1>12, <2>1, WrittenLedger DEF Covered, NoSync
  <2>3. OneAtATime'
    BY <2>1 DEF OneAtATime, NoSync
  <2>4. Kept'
    BY <2>1, <2>2 DEF Kept, NoSync
  <2>5. mishaps' = {} => Untouched'
    BY <2>1, <2>2 DEF Untouched, Original
  <2>. QED
    BY <2>3, <2>4, <2>5
<1>13. ASSUME NEW f \in Files, RestoreFile(f)
       PROVE  Goal
  <2>1. /\ restore.pc = "files" /\ f \in restore.todo /\ sync.pc = "idle"
        /\ restore' = [restore EXCEPT !.todo = restore.todo \ {f}]
        /\ sync' = sync /\ ledger' = ledger /\ mishaps' = mishaps
        /\ sync.staged = None
    BY <1>13, NothingListed DEF RestoreFile, OneAtATime
  <2>2. /\ f \in Covered /\ f \notin Covered'
        /\ \A g \in Files \ {f} : g \in Covered' <=> g \in Covered
    BY <2>1 DEF Covered
  <2>3. OneAtATime'
    BY <2>1 DEF OneAtATime
  <2>. QED
    BY <1>13, <2>1, <2>2, <2>3, PutBack DEF RestoreFile
<1>14. CASE ForgetLedger
  BY <1>14 DEF ForgetLedger, OneAtATime, Kept, Untouched, Covered
<1>15. CASE PurgeBackups
  <2>1. backup' = [f \in Files |-> IF f \in Files THEN Missing ELSE backup[f]]
    BY <1>15 DEF PurgeBackups
  <2>2. /\ restore.pc = "purge" /\ restore' = NoRestore
        /\ client' = client /\ ledger' = ledger /\ sync' = sync
        /\ mishaps' = mishaps \cup
             (IF "stranded" \in mishaps THEN {"forgotten"} ELSE {})
    BY <1>15 DEF PurgeBackups
  <2>3. Files \in SUBSET Files
    OBVIOUS
  <2>. HIDE DEF TypeOK, SyncType, SyncShape
  <2>. QED
    BY <2>1, <2>2, <2>3, Purged
<1>16. CASE SyncStops
  <2>1. /\ sync.pc # "idle" /\ restore.pc = "idle" /\ sync.base = ledger
        /\ sync' = NoSync /\ restore' = restore /\ ledger' = ledger
        /\ client' = client /\ backup' = backup
        /\ mishaps' = mishaps \cup SyncMishaps
    BY <1>16 DEF SyncStops, OneAtATime
  <2>. QED
    BY <2>1, SyncGone DEF Kept, Untouched, Original
<1>17. CASE RestoreStops
  BY <1>17, NothingListed DEF RestoreStops, RestoreMishaps, NoRestore, Calm, OneAtATime, Kept, Untouched, Covered
<1>18. ASSUME NEW f \in Files, SyncDiesInBackup(f)
       PROVE  Goal
  BY <1>18 DEF SyncDiesInBackup, Calm
<1>19. ASSUME NEW f \in Files, SyncStopsInOrphan(f)
       PROVE  Goal
  <2>1. /\ sync.pc = "orphans" /\ restore.pc = "idle" /\ sync.base = ledger
        /\ sync' = NoSync /\ restore' = restore /\ ledger' = ledger
        /\ client' = [client EXCEPT ![f] = backup[f]] /\ backup' = backup
        /\ mishaps' = mishaps \cup SyncMishaps
        /\ f \in sync.orphans
    BY <1>19 DEF SyncStopsInOrphan, OneAtATime
  <2>2. OneAtATime' /\ Covered' = FilesListed(ledger) /\ sync'.staged = None
    BY <2>1 DEF OneAtATime, Covered, NoSync
  <2>3. f \in Covered /\ f \in FilesListed(ledger)
    BY <2>1 DEF Covered, SyncLocals, Orphans
  <2>4. FilesListed(ledger) \subseteq Covered
    BY <2>1, SyncGone
  <2>5. mishaps' = {} => Covered \subseteq FilesListed(ledger)
    BY <2>1, SyncGone
  <2>6. Kept'
    BY <2>1, <2>2, <2>3, <2>4 DEF Kept
  <2>7. mishaps' = {} => Untouched'
    BY <2>1, <2>2, <2>3, <2>5 DEF Untouched, Original
  <2>. QED
    BY <2>2, <2>6, <2>7
<1>20. ASSUME NEW f \in Files, RestoreStopsInFile(f)
       PROVE  Goal
  <2>1. /\ restore.pc = "files" /\ f \in restore.todo /\ sync.pc = "idle"
        /\ restore' = NoRestore /\ sync' = sync /\ ledger' = ledger
        /\ client' = [client EXCEPT ![f] = backup[f]] /\ backup' = backup
        /\ sync.staged = None
    BY <1>20, NothingListed DEF RestoreStopsInFile, OneAtATime
  <2>2. restore.todo = FilesListed(ledger)
    BY <1>20, <2>1 DEF RestoreStopsInFile, RestoreMishaps, Calm
  <2>3. f \in Covered /\ Covered' = Covered
    BY <2>1, <2>2 DEF Covered, NoRestore
  <2>4. OneAtATime'
    BY <2>1 DEF OneAtATime, NoRestore
  <2>5. Kept'
    BY <2>1, <2>3 DEF Kept
  <2>6. mishaps' = {} => Untouched'
    BY <2>1, <2>3 DEF Untouched, Original
  <2>. QED
    BY <2>4, <2>5, <2>6
<1>21. ASSUME NEW f \in Files, NEW c \in Contents, FileDrifts(f, c)
       PROVE  Goal
  BY <1>21 DEF FileDrifts, OneAtATime, Kept, Untouched, Covered, Original, Payloads
<1>22. ASSUME NEW purged \in SUBSET Files, RestoreStopsInPurge(purged)
       PROVE  Goal
  BY <1>22, Purged DEF RestoreStopsInPurge
<1>23. CASE UNCHANGED vars
  BY <1>23 DEF vars, OneAtATime, Kept, Untouched, Covered
<1>. HIDE DEF TypeOK, SyncType, SyncShape
<1>. QED
  BY <1>3, <1>4, <1>5, <1>6, <1>7, <1>8, <1>9, <1>10, <1>11, <1>12, <1>13, <1>14,
     <1>15, <1>16, <1>17, <1>18, <1>19, <1>20, <1>21, <1>22, <1>23
     DEF Next, SyncStep, RestoreStep, Stops

(* The inductive invariant holds of every reachable state. *)
THEOREM Inductive == Spec => []IInv
<1>1. TypeOK /\ Init => IInv
  <2>. SUFFICES ASSUME TypeOK, Init
                PROVE  IInv
    OBVIOUS
  <2>1. /\ sync.pc = "idle" /\ restore.pc = "idle" /\ sync.staged = None
        /\ ledger = None
        /\ \A f \in Files : client[f] = Original(f) /\ backup[f] = Missing
    BY DEF Init, NoSync, NoRestore, VanillaClient
  <2>2. SyncLocals /\ OneAtATime
    BY <2>1 DEF SyncLocals, OneAtATime
  <2>3. Covered = {}
    BY <2>1, NothingListed DEF Covered
  <2>4. Kept
    BY <2>1, <2>3 DEF Kept, Original
  <2>5. Untouched
    BY <2>1, <2>3 DEF Untouched
  <2>. QED
    BY <2>2, <2>4, <2>5 DEF IInv
<1>2. IInv /\ TypeOK' /\ [Next]_vars => IInv'
  <2>. SUFFICES ASSUME IInv, TypeOK', [Next]_vars
                PROVE  IInv'
    OBVIOUS
  <2>1. SyncLocals'
    BY SyncLocalsStep DEF IInv
  <2>2. mishaps' = {} => Calm'
    BY DEF Calm
  <2>. QED
    BY <2>1, <2>2, SafetyStep DEF IInv
<1>. QED
  BY <1>1, <1>2, TypeInvariant, PTL DEF Spec

(* As long as nothing went wrong but syncs that stopped half-way, every file of
   the vanilla client is in place or in the backups. *)
THEOREM OriginalsTheorem == Spec => []OriginalsRecoverable
<1>1. IInv => OriginalsRecoverable
  BY DEF IInv, Calm, Kept, OriginalsRecoverable, Recoverable
<1>. QED
  BY <1>1, Inductive, PTL

(* Between operations, and before a restore drops the backups, the client is
   the vanilla client under the files of the ledger. *)
THEOREM OverlayTheorem == Spec => []ClientIsLedgerOverVanilla
<1>1. ASSUME IInv
      PROVE  ClientIsLedgerOverVanilla
  <2>1. SUFFICES ASSUME mishaps = {}, Quiet
                 PROVE  \A f \in Files :
                          /\ f \notin FilesListed(ledger) => client[f] = Original(f)
                          /\ f \in FilesListed(ledger) /\ f \in VanillaFiles
                               => backup[f] = Vanilla
                          /\ backup[f] \in {Missing, Original(f)}
    BY DEF ClientIsLedgerOverVanilla
  <2>2. Calm /\ Untouched /\ Kept /\ OneAtATime
    BY <1>1, <2>1 DEF IInv, Calm
  <2>3. Covered = FilesListed(ledger)
    BY <2>1, <2>2, NothingListed DEF Covered, Quiet, OneAtATime
  <2>. QED
    BY <2>2, <2>3 DEF Untouched, Kept
<1>. QED
  BY <1>1, Inductive, PTL

(***************************************************************************)
(* No file of the feed is left behind, and a sync installs what it says.   *)
(***************************************************************************)
Separate == "overlap" \notin mishaps
Slight   == mishaps \subseteq {"undone", "torn"}

(* Files of the feed are covered by the work under way or by the ledger, and
   never backed up. *)
OnlyCovered ==
  \A f \in Files :
    /\ client[f] \in Payloads => f \in Covered
    /\ backup[f] \notin Payloads

(* A sync accounts for every asset of its manifest, and what it has done is
   installed. *)
Progress ==
  sync.pc \in {"install", "orphans"} =>
    /\ AssetsOf(sync.manifest) \subseteq sync.pending \cup sync.done \cup {sync.asset}
    /\ sync.pc = "orphans" => sync.pending = {}
    /\ \A a \in sync.done :
         Installed(a, sync.manifest[a], sync.thorough \/ a \notin Zips)
    /\ sync.asset # None =>
         \A f \in AssetFiles \ sync.todo :
           client[f] = <<sync.asset, sync.manifest[sync.asset]>>

FeedInv ==
  /\ Separate => OneAtATime /\ Progress
  /\ Slight => OnlyCovered

(* A sync and a restore run beside each other only after an overlap. *)
LEMMA SeparateStep ==
  ASSUME TypeOK, SyncLocals, OneAtATime, [Next]_vars, Separate'
  PROVE  OneAtATime'
<1>. USE DEF TypeOK, SyncType, SyncShape, OneAtATime
<1>1. ASSUME NEW thorough \in BOOLEAN, BeginSync(thorough)
      PROVE  OneAtATime'
  BY <1>1 DEF BeginSync, NoSync, Separate
<1>2. CASE BeginRestore
  BY <1>2 DEF BeginRestore
<1>3. CASE SyncStep
  <2>1. CASE WriteLedger
    BY <2>1 DEF WriteLedger, NoSync
  <2>. DEFINE Goes == /\ sync.pc # "idle" /\ sync'.base = sync.base
                      /\ ledger' = ledger /\ restore' = restore
  <2>2. ASSUME NEW m \in Manifests, PlanSync(m) PROVE Goes
    BY <2>2 DEF PlanSync
  <2>3. ASSUME NEW a \in Assets, FetchAsset(a) PROVE Goes
    BY <2>3 DEF FetchAsset
  <2>4. ASSUME NEW f \in Files, BackupOriginal(f) PROVE Goes
    BY <2>4 DEF BackupOriginal
  <2>5. /\ PlaceFile => Goes
        /\ RecordAsset => Goes
        /\ BeginOrphans => Goes
    <3>1. PlaceFile => Goes
      BY DEF PlaceFile
    <3>2. RecordAsset => Goes
      BY DEF RecordAsset
    <3>3. BeginOrphans => Goes
      BY DEF BeginOrphans
    <3>. QED
      BY <3>1, <3>2, <3>3
  <2>6. ASSUME NEW f \in Files, RestoreOrphan(f) PROVE Goes
    BY <2>6 DEF RestoreOrphan
  <2>7. Goes => OneAtATime'
    OBVIOUS
  <2>. HIDE DEF Goes
  <2>. QED
    BY <1>3, <2>1, <2>2, <2>3, <2>4, <2>5, <2>6, <2>7 DEF SyncStep
<1>4. CASE RestoreStep
  BY <1>4 DEF RestoreStep, RestoreFile, ForgetLedger, PurgeBackups, NoRestore
<1>5. CASE Stops
  <2>1. ASSUME sync' = NoSync, ledger' = ledger, restore' = restore
        PROVE  OneAtATime'
    BY <2>1 DEF NoSync
  <2>2. ASSUME restore' = NoRestore, ledger' = ledger, sync' = sync
        PROVE  OneAtATime'
    BY <2>2 DEF NoRestore
  <2>. QED
    BY <1>5, <2>1, <2>2 DEF Stops, SyncStops, RestoreStops, SyncDiesInBackup,
         SyncStopsInOrphan, RestoreStopsInFile, RestoreStopsInPurge
<1>6. CASE \E f \in Files, c \in Contents : FileDrifts(f, c)
  BY <1>6 DEF FileDrifts
<1>7. CASE UNCHANGED vars
  BY <1>7 DEF vars
<1>. QED
  BY <1>1, <1>2, <1>3, <1>4, <1>5, <1>6, <1>7 DEF Next

(* A sync that stops without stranding a file covered what the ledger lists. *)
LEMMA SyncGoneClean ==
  ASSUME TypeOK, SyncLocals, OneAtATime, sync.pc # "idle",
         "stranded" \notin SyncMishaps
  PROVE  Covered \subseteq FilesListed(ledger)
<1>1. restore.pc = "idle" /\ sync.base = ledger
  BY DEF OneAtATime
<1>2. sync.pc # "fetch" => sync.owned = FilesListed(ledger)
  BY <1>1 DEF SyncMishaps
<1>3. sync.pc \in {"fetch", "install", "orphans"}
  BY DEF TypeOK, SyncType
<1>. QED
  BY <1>1, <1>2, <1>3 DEF Covered, SyncLocals, Orphans

(* Files of the feed stay covered, and out of the backups. *)
LEMMA CoveredStep ==
  ASSUME TypeOK, SyncLocals, OneAtATime, OneAtATime', OnlyCovered, [Next]_vars, Slight'
  PROVE  OnlyCovered'
<1>1. \A x \in {Vanilla, Missing, Altered, Torn} : x \notin Payloads
  OBVIOUS
<1>. USE <1>1 DEF TypeOK, SyncType, SyncShape, OneAtATime, OnlyCovered
<1>2. ASSUME client' = client, backup' = backup,
             \A f \in Files : f \in Covered => f \in Covered'
      PROVE  OnlyCovered'
  BY <1>2
<1>3. ASSUME NEW thorough \in BOOLEAN, BeginSync(thorough)
      PROVE  OnlyCovered'
  <2>1. Covered' = Covered
    BY <1>3 DEF BeginSync, NoSync, Covered
  <2>. QED
    BY <1>3, <2>1 DEF BeginSync
<1>4. CASE BeginRestore
  <2>1. Covered' = Covered
    BY <1>4 DEF BeginRestore, Covered
  <2>. QED
    BY <1>4, <2>1 DEF BeginRestore
<1>5. ASSUME NEW m \in Manifests, PlanSync(m)
      PROVE  OnlyCovered'
  <2>1. Covered' = Covered
    BY <1>5 DEF PlanSync, Covered
  <2>. QED
    BY <1>5, <2>1 DEF PlanSync
<1>6. ASSUME NEW a \in Assets, FetchAsset(a)
      PROVE  OnlyCovered'
  <2>1. Covered' = Covered
    BY <1>6 DEF FetchAsset, Covered
  <2>. QED
    BY <1>6, <2>1 DEF FetchAsset
<1>7. ASSUME NEW f \in Files, BackupOriginal(f)
      PROVE  OnlyCovered'
  <2>1. Covered' = Covered /\ Covered = sync.owned
    BY <1>7 DEF BackupOriginal, Covered
  <2>2. WantsBackup(f) => client[f] \notin Payloads
    BY <2>1 DEF WantsBackup
  <2>. QED
    BY <1>7, <2>1, <2>2 DEF BackupOriginal
<1>8. CASE PlaceFile
  <2>1. Covered' = Covered \cup {sync.staged}
    BY <1>8 DEF PlaceFile, Covered
  <2>. QED
    BY <1>8, <2>1 DEF PlaceFile
<1>9. CASE RecordAsset
  <2>1. Covered' = Covered
    BY <1>9 DEF RecordAsset, Covered
  <2>. QED
    BY <1>9, <2>1 DEF RecordAsset
<1>10. CASE BeginOrphans
  <2>1. Covered \subseteq Covered'
    BY <1>10 DEF BeginOrphans, Covered, SyncLocals, Orphans
  <2>. QED
    BY <1>10, <2>1 DEF BeginOrphans
<1>11. ASSUME NEW f \in Files, RestoreOrphan(f)
       PROVE  OnlyCovered'
  <2>1. Covered \subseteq Covered' \cup {f}
    BY <1>11 DEF RestoreOrphan, Covered
  <2>. QED
    BY <1>11, <2>1 DEF RestoreOrphan, RestoreOrRemove
<1>12. CASE WriteLedger
  <2>1. Covered = DesiredFiles(sync.manifest, sync.done)
    BY <1>12 DEF WriteLedger, Covered
  <2>2. Covered' = FilesListed(ledger')
    BY <1>12 DEF WriteLedger, Covered, NoSync
  <2>. QED
    BY <1>12, <2>1, <2>2, WrittenLedger DEF WriteLedger
<1>13. ASSUME NEW f \in Files, RestoreFile(f)
       PROVE  OnlyCovered'
  <2>1. Covered \subseteq Covered' \cup {f}
    BY <1>13 DEF RestoreFile, Covered
  <2>. QED
    BY <1>13, <2>1 DEF RestoreFile, RestoreOrRemove
<1>14. CASE ForgetLedger
  <2>1. Covered = {}
    BY <1>14 DEF ForgetLedger, Covered
  <2>. QED
    BY <1>14, <2>1 DEF ForgetLedger
<1>15. ASSUME restore.pc = "purge", restore' = NoRestore, client' = client,
              \A f \in Files : backup'[f] \in {Missing, backup[f]}
       PROVE  OnlyCovered'
  <2>1. Covered = {}
    BY <1>15 DEF Covered
  <2>. QED
    BY <1>15, <2>1
<1>16. CASE PurgeBackups
  BY <1>15, <1>16 DEF PurgeBackups
<1>17. ASSUME NEW purged \in SUBSET Files, RestoreStopsInPurge(purged)
       PROVE  OnlyCovered'
  BY <1>15, <1>17 DEF RestoreStopsInPurge
<1>18. ASSUME sync.pc # "idle", sync' = NoSync, restore' = restore, ledger' = ledger,
              SyncMishaps \subseteq mishaps'
       PROVE  Covered \subseteq Covered'
  <2>1. Covered \subseteq FilesListed(ledger)
    BY <1>18, SyncGoneClean DEF Slight
  <2>2. Covered' = FilesListed(ledger)
    BY <1>18 DEF Covered, NoSync
  <2>. QED
    BY <2>1, <2>2
<1>19. CASE SyncStops
  BY <1>18, <1>19 DEF SyncStops
<1>20. ASSUME NEW f \in Files, SyncDiesInBackup(f)
       PROVE  OnlyCovered'
  BY <1>18, <1>20 DEF SyncDiesInBackup
<1>21. ASSUME NEW f \in Files, SyncStopsInOrphan(f)
       PROVE  OnlyCovered'
  BY <1>18, <1>21 DEF SyncStopsInOrphan
<1>22. ASSUME restore.pc # "idle", restore' = NoRestore, sync' = sync, ledger' = ledger
       PROVE  Covered \subseteq Covered'
  <2>1. sync.pc = "idle"
    BY <1>22
  <2>. QED
    BY <1>22, <2>1 DEF Covered, NoRestore
<1>23. CASE RestoreStops
  BY <1>22, <1>23 DEF RestoreStops
<1>24. ASSUME NEW f \in Files, RestoreStopsInFile(f)
       PROVE  OnlyCovered'
  BY <1>22, <1>24 DEF RestoreStopsInFile
<1>25. ASSUME NEW f \in Files, NEW c \in Contents, FileDrifts(f, c)
       PROVE  OnlyCovered'
  <2>1. Covered' = Covered
    BY <1>25 DEF FileDrifts, Covered
  <2>. QED
    BY <1>25, <2>1 DEF FileDrifts, Original
<1>26. CASE UNCHANGED vars
  <2>1. Covered' = Covered
    BY <1>26 DEF vars, Covered
  <2>. QED
    BY <1>26, <2>1 DEF vars
<1>. HIDE DEF TypeOK, SyncType, SyncShape
<1>. QED
  BY <1>3, <1>4, <1>5, <1>6, <1>7, <1>8, <1>9, <1>10, <1>11, <1>12, <1>13, <1>14,
     <1>16, <1>17, <1>19, <1>20, <1>21, <1>23, <1>24, <1>25, <1>26
     DEF Next, SyncStep, RestoreStep, Stops

(* What a sync has done stays installed until it has ended. *)
LEMMA ProgressStep ==
  ASSUME TypeOK, SyncLocals, OneAtATime, Progress, [Next]_vars
  PROVE  Progress'
<1>. USE DEF TypeOK, SyncType, SyncShape
<1>1. ASSUME sync'.pc \in {"idle", "fetch"}
      PROVE  Progress'
  BY <1>1 DEF Progress
<1>2. ASSUME sync' = sync, client' = client
      PROVE  Progress'
  BY <1>2 DEF Progress, AssetFiles, Installed, LooksInstalled
<1>3. ASSUME NEW thorough \in BOOLEAN, BeginSync(thorough)
      PROVE  Progress'
  BY <1>1, <1>3 DEF BeginSync, NoSync
<1>4. ASSUME NEW m \in Manifests, PlanSync(m)
      PROVE  Progress'
  <2>. DEFINE pending == Outdated(m, sync.base, sync.thorough)
  <2>1. /\ sync'.pc = "install" /\ sync'.manifest = m /\ sync'.pending = pending
        /\ sync'.done = AssetsOf(m) \ pending /\ sync'.asset = None
        /\ sync'.thorough = sync.thorough /\ client' = client
    BY <1>4, NothingListed DEF PlanSync
  <2>2. \A a \in AssetsOf(m) \ pending :
          Installed(a, m[a], sync.thorough \/ a \notin Zips)
    BY DEF Outdated, NeedsRepair, Installed
  <2>. HIDE DEF pending
  <2>. QED
    BY <2>1, <2>2 DEF Progress, Installed, LooksInstalled
<1>5. ASSUME NEW a \in Assets, FetchAsset(a)
      PROVE  Progress'
  <2>1. /\ sync'.pc = "install" /\ sync'.manifest = sync.manifest
        /\ sync'.pending = sync.pending \ {a} /\ sync'.done = sync.done
        /\ sync'.asset = a /\ sync'.thorough = sync.thorough /\ client' = client
        /\ sync'.todo = FilesOf[a][sync.manifest[a]]
        /\ sync.pc = "install" /\ sync.asset = None
    BY <1>5 DEF FetchAsset
  <2>2. None \notin AssetsOf(sync.manifest)
    BY DEF AssetsOf
  <2>. QED
    BY <2>1, <2>2 DEF Progress, AssetFiles, Installed, LooksInstalled
<1>6. ASSUME NEW f \in Files, BackupOriginal(f)
      PROVE  Progress'
  <2>1. /\ sync'.pc = sync.pc /\ sync'.manifest = sync.manifest
        /\ sync'.pending = sync.pending /\ sync'.done = sync.done
        /\ sync'.asset = sync.asset /\ sync'.thorough = sync.thorough
        /\ client' = client /\ sync'.todo = sync.todo
    BY <1>6 DEF BackupOriginal
  <2>. QED
    BY <2>1 DEF Progress, AssetFiles, Installed, LooksInstalled
<1>7. CASE PlaceFile
  <2>. DEFINE f == sync.staged  new == <<sync.asset, sync.manifest[sync.asset]>>
  <2>1. /\ sync'.pc = sync.pc /\ sync'.manifest = sync.manifest
        /\ sync'.pending = sync.pending /\ sync'.done = sync.done
        /\ sync'.asset = sync.asset /\ sync'.thorough = sync.thorough
        /\ sync'.todo = sync.todo \ {f} /\ client' = [client EXCEPT ![f] = new]
        /\ sync.pc = "install"
    BY <1>7 DEF PlaceFile
  <2>2. /\ f \in sync.todo /\ f \in Files /\ sync.asset # None
        /\ f \in AssetFiles
    BY <1>7 DEF PlaceFile, SyncLocals
  <2>3. /\ sync.manifest \in Manifests
        /\ sync.asset \in Assets /\ sync.manifest[sync.asset] # Absent
        /\ \A a \in sync.done : a \in Assets /\ a # sync.asset /\ sync.manifest[a] # Absent
    BY <2>1, <2>2 DEF AssetsOf
  <2>4. \A a \in sync.done : f \notin FilesOf[a][sync.manifest[a]]
    BY <2>2, <2>3, DisjointFeed DEF AssetFiles
  <2>5. \A a \in sync.done :
          Installed(a, sync.manifest[a], sync.thorough \/ a \notin Zips)
    BY <2>1 DEF Progress
  <2>. HIDE DEF f, new
  <2>6. \A a \in sync.done :
          Installed(a, sync.manifest[a], sync.thorough \/ a \notin Zips)'
    BY <2>1, <2>2, <2>3, <2>4, <2>5 DEF Installed, LooksInstalled
  <2>7. \A g \in AssetFiles \ sync'.todo : client'[g] = new
    BY <2>1, <2>2 DEF Progress, new
  <2>. QED
    BY <2>1, <2>6, <2>7 DEF Progress, AssetFiles, new
<1>8. CASE RecordAsset
  <2>1. /\ sync'.pc = "install" /\ sync'.manifest = sync.manifest
        /\ sync'.pending = sync.pending /\ sync'.done = sync.done \cup {sync.asset}
        /\ sync'.asset = None /\ sync'.thorough = sync.thorough /\ client' = client
        /\ sync.todo = {} /\ sync.asset # None /\ sync.pc = "install"
    BY <1>8 DEF RecordAsset
  <2>2. Installed(sync.asset, sync.manifest[sync.asset],
                  sync.thorough \/ sync.asset \notin Zips)
    BY <2>1 DEF Progress, Installed, LooksInstalled, AssetFiles
  <2>. QED
    BY <2>1, <2>2 DEF Progress, Installed, LooksInstalled
<1>9. CASE BeginOrphans
  <2>1. /\ sync'.pc = "orphans" /\ sync'.manifest = sync.manifest
        /\ sync'.pending = sync.pending /\ sync'.done = sync.done
        /\ sync'.asset = None /\ sync'.thorough = sync.thorough /\ client' = client
        /\ sync.asset = None /\ sync.pending = {} /\ sync.pc = "install"
    BY <1>9 DEF BeginOrphans
  <2>. QED
    BY <2>1 DEF Progress, Installed, LooksInstalled
<1>10. ASSUME NEW f \in Files, RestoreOrphan(f)
       PROVE  Progress'
  <2>1. /\ sync'.pc = "orphans" /\ sync'.manifest = sync.manifest
        /\ sync'.pending = sync.pending /\ sync'.done = sync.done
        /\ sync'.asset = sync.asset /\ sync'.thorough = sync.thorough
        /\ sync.pc = "orphans" /\ client' = [client EXCEPT ![f] = backup[f]]
    BY <1>10 DEF RestoreOrphan, RestoreOrRemove
  <2>2. /\ sync.asset = None
        /\ \A a \in sync.done : f \notin FilesOf[a][sync.manifest[a]]
    BY <1>10, <2>1 DEF RestoreOrphan, SyncLocals, Orphans, DesiredFiles
  <2>3. \A a \in sync.done : FilesOf[a][sync.manifest[a]] \subseteq Files
    BY <2>1, ListedFiles, ManifestIsLedger
  <2>. QED
    BY <2>1, <2>2, <2>3 DEF Progress, Installed, LooksInstalled
<1>11. CASE WriteLedger
  BY <1>1, <1>11 DEF WriteLedger, NoSync
<1>12. CASE BeginRestore \/ RestoreStep
  BY <1>1, <1>2, <1>12 DEF BeginRestore, RestoreStep, RestoreFile, ForgetLedger,
       PurgeBackups, OneAtATime
<1>13. CASE Stops
  BY <1>1, <1>2, <1>13 DEF Stops, SyncStops, RestoreStops, SyncDiesInBackup,
       SyncStopsInOrphan, RestoreStopsInFile, RestoreStopsInPurge, NoSync, OneAtATime
<1>14. CASE \E f \in Files, c \in Contents : FileDrifts(f, c)
  BY <1>1, <1>14 DEF FileDrifts
<1>15. CASE UNCHANGED vars
  BY <1>2, <1>15 DEF vars
<1>. HIDE DEF TypeOK, SyncType, SyncShape
<1>. QED
  BY <1>3, <1>4, <1>5, <1>6, <1>7, <1>8, <1>9, <1>10, <1>11, <1>12, <1>13, <1>14,
     <1>15 DEF Next, SyncStep

(* The feed's files are covered and its progress is kept in every state. *)
LEMMA FeedInductive == Spec => []FeedInv
<1>1. Init => FeedInv
  <2>. SUFFICES ASSUME Init
                PROVE  FeedInv
    OBVIOUS
  <2>1. /\ sync.pc = "idle" /\ restore.pc = "idle"
        /\ \A f \in Files : client[f] = Original(f) /\ backup[f] = Missing
    BY DEF Init, NoSync, NoRestore, VanillaClient
  <2>2. \A f \in Files : Original(f) \notin Payloads
    BY DEF Original
  <2>. QED
    BY <2>1, <2>2 DEF FeedInv, OneAtATime, Progress, OnlyCovered
<1>2. FeedInv /\ IInv /\ [Next]_vars => FeedInv'
  <2>. SUFFICES ASSUME FeedInv, IInv, [Next]_vars
                PROVE  FeedInv'
    OBVIOUS
  <2>1. TypeOK /\ SyncLocals
    BY DEF IInv
  <2>2. Separate' => OneAtATime' /\ Progress'
    BY <2>1, MishapsGrow, SeparateStep, ProgressStep DEF FeedInv, Separate
  <2>3. Slight' => OnlyCovered'
    <3>1. Slight' => Slight /\ Separate /\ Separate'
      BY MishapsGrow DEF Slight, Separate
    <3>. QED
      BY <2>1, <2>2, <3>1, CoveredStep DEF FeedInv
  <2>. QED
    BY <2>2, <2>3 DEF FeedInv
<1>. QED
  BY <1>1, <1>2, Inductive, PTL DEF Spec

(* No file of the feed is left behind unlisted, also when a restore or a sync
   stopped while it put files back (asset-sync.ts restore, removeOrphans). *)
THEOREM UnlistedTheorem == Spec => []NoUnlistedFeedFile
<1>1. FeedInv => NoUnlistedFeedFile
  <2>. SUFFICES ASSUME FeedInv, Slight, sync.pc = "idle",
                       NEW f \in Files, client[f] \in Payloads
                PROVE  f \in FilesListed(ledger)
    BY DEF NoUnlistedFeedFile, Slight
  <2>1. OneAtATime /\ f \in Covered
    BY DEF FeedInv, Separate, Slight, OnlyCovered
  <2>. QED
    BY <2>1 DEF OneAtATime, Covered
<1>. QED
  BY <1>1, FeedInductive, PTL

(* A sync that ends well has installed what it records, whatever was left
   unfinished before it (asset-sync.ts runSync). *)
THEOREM InstallsTheorem == Spec => SyncInstallsManifest
<1> DEFINE Good ==
      \A a \in AssetsOf(sync.manifest) :
        /\ ledger'[a] = sync.manifest[a]
        /\ Installed(a, ledger'[a], sync.thorough \/ a \notin Zips)
<1>1. IInv /\ FeedInv => (WriteLedger /\ "overlap" \notin mishaps => Good)
  <2>. SUFFICES ASSUME IInv, FeedInv, WriteLedger, "overlap" \notin mishaps
                PROVE  Good
    OBVIOUS
  <2>1. /\ sync.pc = "orphans" /\ Progress /\ sync.manifest \in Ledgers
        /\ sync.asset = None
    BY ManifestIsLedger DEF FeedInv, IInv, SyncLocals, Separate, WriteLedger, TypeOK,
       SyncType, SyncShape
  <2>2. AssetsOf(sync.manifest) \subseteq sync.done /\ AssetsOf(sync.manifest) \subseteq Assets
    BY <2>1, ListedFiles DEF Progress, AssetsOf
  <2>. QED
    BY <2>1, <2>2 DEF Progress, WriteLedger
<1>2. IInv /\ FeedInv /\ [Next]_vars =>
        [WriteLedger /\ "overlap" \notin mishaps => Good]_vars
  BY <1>1
<1>. QED
  BY <1>2, Inductive, FeedInductive, PTL DEF Spec, SyncInstallsManifest
==============================================================================
