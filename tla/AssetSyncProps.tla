--------------------------- MODULE AssetSyncProps ----------------------------
(***************************************************************************)
(* What the asset feed promises of the player's files.                     *)
(***************************************************************************)
EXTENDS AssetSync

Ledgers == [Assets -> Versions \cup {Absent}]

SyncType ==
  [pc : {"idle", "fetch", "install", "orphans"},
   base : Ledgers \cup {None}, manifest : Manifests \cup {None},
   thorough : BOOLEAN, pending : SUBSET Assets, done : SUBSET Assets,
   asset : Assets \cup {None}, todo : SUBSET Files,
   staged : Files \cup {None}, owned : SUBSET Files, orphans : SUBSET Files]

SyncShape ==
  /\ sync.manifest = None <=> sync.pc \in {"idle", "fetch"}
  /\ sync.pending \cup sync.done \subseteq AssetsOf(sync.manifest)
  /\ sync.asset \in AssetsOf(sync.manifest) \cup {None}
  /\ sync.asset \notin sync.pending \cup sync.done
  /\ sync.pending \cap sync.done = {}
  /\ sync.todo # {} => sync.asset # None
  /\ sync.staged \in sync.todo \cup {None}

(* Types, and how the locals of a sync fit together: every asset it handles is
   listed by its manifest and is pending, current or done, never two of these;
   the staged file is one the current asset still has to install. *)
TypeOK ==
  /\ client \in [Files -> Contents]
  /\ backup \in [Files -> Contents]
  /\ ledger \in Ledgers \cup {None}
  /\ sync \in SyncType
  /\ SyncShape
  /\ restore \in [pc : {"idle", "files", "purge"}, todo : SUBSET Files]
  /\ mishaps \subseteq {"stranded", "undone", "torn", "overlap", "forgotten"}

Recoverable(f) == client[f] = Vanilla \/ backup[f] = Vanilla

(* "Keep a one-time copy of a client file the feed is about to overwrite":
   as long as nothing went wrong but syncs that stopped half-way, every file
   of the vanilla client is in place or in the backups. *)
OriginalsRecoverable ==
  mishaps \subseteq {"stranded"} => \A f \in VanillaFiles : Recoverable(f)

Quiet == sync.pc = "idle" /\ restore.pc \in {"idle", "purge"}

(* Between operations, and just before restore drops the backups, the client
   is the vanilla client under the files of the ledger: whatever the ledger
   does not list is original, whatever it hides is backed up, and no backup
   holds anything else.  With no ledger the client is vanilla: this is what
   "Restore vanilla client" promises, also after syncs that died before they
   placed a file the ledger did not list. *)
ClientIsLedgerOverVanilla ==
  mishaps = {} /\ Quiet =>
    \A f \in Files :
      /\ f \notin FilesListed(ledger) => client[f] = Original(f)
      /\ f \in FilesListed(ledger) /\ f \in VanillaFiles => backup[f] = Vanilla
      /\ backup[f] \in {Missing, Original(f)}

(* No file of the feed is left behind unlisted: a retried restore or sync may
   lose an original, but only a sync that died after it placed a new file, or
   one that ran beside a restore, leaves the feed's files without a record. *)
NoUnlistedFeedFile ==
  mishaps \subseteq {"undone", "torn"} /\ sync.pc = "idle" =>
    \A f \in Files : client[f] \in Payloads => f \in FilesListed(ledger)

(* A sync that ends well has installed what it records, whatever earlier syncs
   and restores left unfinished; all that can differ is a file of a zip pack
   that a quick sync compares by size only. *)
Installed(a, v, hashed) ==
  \A f \in FilesOf[a][v] : LooksInstalled(a, v, f, hashed)

SyncInstallsManifest ==
  [][WriteLedger /\ "overlap" \notin mishaps =>
       \A a \in AssetsOf(sync.manifest) :
         /\ ledger'[a] = sync.manifest[a]
         /\ Installed(a, ledger'[a], sync.thorough \/ a \notin Zips)]_vars

(* asset-sync.ts:802-804 and docs/asset-packs.md:29-31: the one-time copies are
   there so that "restore vanilla" can undo the feed.  Whatever stopped a
   restore, or a sync that was putting files back, no original is lost. *)
RestoreSurvivesRetry ==
  mishaps \subseteq {"undone"} => \A f \in VanillaFiles : Recoverable(f)

(* asset-sync.ts:570-573, for launchers whose only trouble was a sync that
   stopped and was run again: a restore that ends leaves no file of the feed. *)
RestoreRemovesFeedFiles ==
  [][PurgeBackups /\ mishaps = {"stranded"} =>
       \A f \in Files : client[f] \notin Payloads]_vars
==============================================================================
