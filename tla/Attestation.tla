------------------------------ MODULE Attestation ------------------------------
(***************************************************************************)
(* The measurement a launch is attested with (integrity-attestation.ts,    *)
(* base-manifest.ts, shared/attestation.ts, main.ts attestInstallation): a *)
(* signed challenge names a build and a patch mode, the signed manifest of *)
(* that build is fetched or taken from its cached copy, the launcher's own *)
(* files are laid over it, every declared file is hashed or found in the   *)
(* hash cache by its size and date, and the tree is walked for the rest.   *)
(*                                                                         *)
(* A version is a content a file can have, with the size and the date it   *)
(* comes with: copies keep their date.  A digest names a content, and the  *)
(* root of a measurement is the set of pairs it is computed from.  Other   *)
(* programs change the tree between any two steps.  Which mode a launch    *)
(* without a challenge falls back to is GameLaunch's; the asset feed, file *)
(* by file in AssetSync, changes the tree in one step here.                *)
(***************************************************************************)
EXTENDS FiniteSets, Naturals

CONSTANTS
  Paths,      \* the files of the installation
  Versions,   \* what a file can be
  Absent,     \* no file
  Stamp,      \* a version's size and mtimeMs
  Digest,     \* a version's sha256
  Builds,     \* client builds with a base manifest
  Installed,  \* the build of this installation
  Pristine,   \* per build, the version of each file of the stock client
  Artifacts,  \* the launcher's own files, by the path they are installed at
  PatchFile,  \* dinput8.dll
  Ledgers,    \* what the asset feed can have installed, by path
  PlayerFiles,  \* what the game and the player write into their own files
  ExcludedPaths, InterestingPaths,  \* never attested; reported if undeclared
  OutsideChanges,  \* bound: what other programs may put where
  MaxLost,         \* bound: artifacts whose .sha256 cannot be read
  MaxGone,         \* bound: files replaced while they are hashed
  DatesReturn      \* may a file replaced while it is hashed come back?

Modes == {"patched", "clean"}
Contents == Versions \cup {Absent}
Partial(f) == f \in [DOMAIN f -> Versions] /\ DOMAIN f \subseteq Paths

ASSUME FileAssumption ==
  /\ Absent \notin Versions /\ Installed \in Builds
  /\ PatchFile \in DOMAIN Artifacts
  /\ Partial(Artifacts) /\ Partial(PlayerFiles)
  /\ \A b \in Builds : Partial(Pristine[b])
  /\ \A l \in Ledgers : Partial(l)
  /\ InterestingPaths \subseteq Paths
  /\ OutsideChanges \subseteq Paths \X Contents
  /\ MaxLost \in Nat /\ MaxGone \in Nat /\ DatesReturn \in BOOLEAN
(* Two versions of one size and one date have one content *)
ASSUME StampAssumption ==
  \A v, w \in Versions : Stamp[v] = Stamp[w] => Digest[v] = Digest[w]

VARIABLES
  tree,       \* the installation
  ledger,     \* asset-state.v1.json
  manifest,   \* the cached manifest: its build, "none" or "damaged"
  cache,      \* integrity-hash-cache.v1.json; nothing in a damaged one is read
  run,        \* the attestation under way and its locals
  held,       \* the contents of the file being hashed since its stat
  seen,       \* history: per path, its contents since the measurement began
  gone        \* history: the stamps files had that were replaced meanwhile

runVars  == <<held, seen>>
diskVars == <<ledger, manifest, cache>>
vars == <<tree, ledger, manifest, cache, run, held, seen, gone>>

Over(f, g) == [p \in DOMAIN f \cup DOMAIN g |-> IF p \in DOMAIN f THEN f[p] ELSE g[p]]
But(f, S)  == [p \in DOMAIN f \ S |-> f[p]]

(* isAttestationExcluded *)
Attested(p) == p \notin ExcludedPaths

(* Mutant of Overrides: the proxy is expected in every mode *)
OverridesAlways(mode, lost) == But(Artifacts, lost)

(* readLauncherOverrides: no proxy in a clean client, and none whose digest
   cannot be read *)
Overrides(mode, lost) ==
  But(Artifacts, lost \cup (IF mode = "clean" THEN {PatchFile} ELSE {}))

(* mergeExpectedFiles *)
Expected(build, mode, lost) ==
  LET merged == Over(Overrides(mode, lost), Over(ledger, Pristine[build]))
  IN  [p \in {q \in DOMAIN merged : Attested(q)} |-> Digest[merged[p]]]

NoRun == [pc |-> "idle", build |-> "none", mode |-> "clean", lost |-> {},
          expected |-> <<>>, todo |-> {}, at |-> Absent, stamp |-> Absent,
          next |-> {}, observed |-> {}, deviations |-> {}]

(* What the tree becomes when files are installed over it *)
Install(files, base) == [p \in Paths |-> IF p \in DOMAIN files THEN files[p] ELSE base[p]]
NoFiles == [p \in Paths |-> Absent]

Init ==
  /\ ledger \in {l \in Ledgers : DOMAIN l = {}}
  /\ tree = Install(PlayerFiles,
              Install(Over(But(Artifacts, {PatchFile}), Pristine[Installed]), NoFiles))
  /\ manifest = "none" /\ cache = {}
  /\ run = NoRun /\ held = {} /\ gone = {}
  /\ seen = [p \in Paths |-> {}]

GoTo(pc) == run' = [run EXCEPT !.pc = pc]
Measuring == run.pc \in {"stat", "hash", "walk", "save", "done"}

(* The next file of the merged map, whose order is that of the manifest *)
Upcoming(p) == p \in run.todo /\ p = CHOOSE q \in run.todo : TRUE

(* The tree becomes t.  A file replaced between its stat and its hash does not
   come back with the size and the date it had, unless DatesReturn *)
Become(t) ==
  /\ tree' = t
  /\ held' = IF run.pc = "hash" THEN held \cup {t[run.at]} ELSE held
  /\ seen' = IF Measuring THEN [p \in Paths |-> seen[p] \cup {t[p]}] ELSE seen
  /\ gone' = IF ~DatesReturn /\ run.pc = "hash" /\ t[run.at] # tree[run.at]
               THEN gone \cup {<<run.at, run.stamp>>} ELSE gone
  /\ \A p \in Paths :
       t[p] \notin {Absent, tree[p]} => <<p, Stamp[t[p]]>> \notin gone'
  /\ Cardinality(gone') <= MaxGone

(* The attestation throws, returns or dies: only its locals are lost *)
EndRun ==
  /\ run' = NoRun /\ held' = {}
  /\ seen' = [p \in Paths |-> {}]

-----------------------------------------------------------------------------
(***************************************************************************)
(* The challenge.                                                          *)
(***************************************************************************)
BeginAttestation ==
  /\ run.pc = "idle"
  /\ GoTo("challenge")
  /\ UNCHANGED <<tree, diskVars, runVars, gone>>

(* requestAttestationChallenge, parseChallenge: a challenge without a mode asks
   for a clean client *)
ChallengeGranted(build, mode) ==
  /\ run.pc = "challenge"
  /\ run' = [run EXCEPT !.pc = "apply", !.build = build,
                        !.mode = IF mode = "absent" THEN "clean" ELSE mode]
  /\ UNCHANGED <<tree, diskVars, runVars, gone>>

(* The patch file of a mode; applyGameplayPatchMode touches no other DLL *)
PatchFor(mode) == IF mode = "patched" THEN Artifacts[PatchFile] ELSE Absent
Managed == tree[PatchFile] \in {PatchFor(m) : m \in Modes}

(* The attestation throws: the client is brought to a fallback mode, if it can *)
FallBack ==
  /\ EndRun
  /\ \/ Managed /\ \E m \in Modes : tree' = [tree EXCEPT ![PatchFile] = PatchFor(m)]
     \/ UNCHANGED tree
  /\ \A p \in Paths : tree'[p] \notin {Absent, tree[p]} => <<p, Stamp[tree'[p]]>> \notin gone
  /\ UNCHANGED <<diskVars, gone>>

(* Unreachable, refused, malformed, not signed by a trusted key, no policy; or
   the patch cannot be applied *)
ChallengeRefused ==
  /\ run.pc \in {"challenge", "apply"}
  /\ FallBack

(* applyGameplayPatchMode, recordGameplayPatchState *)
ApplyMode ==
  /\ run.pc = "apply" /\ Managed
  /\ Become([tree EXCEPT ![PatchFile] = PatchFor(run.mode)])
  /\ GoTo("manifest")
  /\ UNCHANGED diskVars

-----------------------------------------------------------------------------
(***************************************************************************)
(* loadBaseManifest.  Whether the network answers, and with the manifest   *)
(* of this build, is not ours to say.  The copy is written in place: the   *)
(* file is empty before it is whole, and a write that fails is ignored.    *)
(***************************************************************************)
ManifestFetched ==
  /\ run.pc = "manifest"
  /\ \/ manifest' = "damaged" /\ GoTo("keep")
     \/ GoTo("expect") /\ UNCHANGED manifest
  /\ UNCHANGED <<tree, ledger, cache, runVars, gone>>

ManifestKept ==
  /\ run.pc = "keep"
  /\ manifest' \in {manifest, run.build}
  /\ GoTo("expect")
  /\ UNCHANGED <<tree, ledger, cache, runVars, gone>>

(* No answer, no signature, another build: the copy, if it is of the build *)
ManifestFromCopy ==
  /\ run.pc = "manifest" /\ manifest = run.build
  /\ GoTo("expect")
  /\ UNCHANGED <<tree, diskVars, runVars, gone>>

ManifestUnavailable ==
  /\ run.pc = "manifest" /\ manifest # run.build
  /\ FallBack

-----------------------------------------------------------------------------
(***************************************************************************)
(* measureInstallation.                                                    *)
(***************************************************************************)
BeginMeasure(lost) ==
  /\ run.pc = "expect"
  /\ LET expected == Expected(run.build, run.mode, lost)
     IN  run' = [run EXCEPT !.pc = "stat", !.lost = lost, !.expected = expected,
                            !.todo = DOMAIN expected, !.next = {},
                            !.observed = {}, !.deviations = {}]
  /\ seen' = [p \in Paths |-> {tree[p]}]
  /\ UNCHANGED <<tree, diskVars, held, gone>>

(* Mutant of Hit: a file of the size the entry has is the file it was *)
HitOfSize(p, e) == e.path = p /\ e.stamp.size = Stamp[tree[p]].size

(* A cache entry answers for the file p *)
Hit(p, e) == e.path = p /\ e.stamp = Stamp[tree[p]]

StatMissing(p) ==
  /\ run.pc = "stat" /\ Upcoming(p) /\ tree[p] = Absent
  /\ run' = [run EXCEPT !.todo = @ \ {p},
                        !.deviations = @ \cup {<<p, "missing">>}]
  /\ UNCHANGED <<tree, diskVars, runVars, gone>>

Observed(p, stamp, digest) ==
  [run EXCEPT !.pc = "stat", !.todo = @ \ {p}, !.at = Absent, !.stamp = Absent,
              !.next = @ \cup {[path |-> p, stamp |-> stamp, digest |-> digest]},
              !.observed = @ \cup {<<p, digest>>},
              !.deviations = IF digest = run.expected[p] THEN @
                             ELSE @ \cup {<<p, "mismatch">>}]

StatCached(p) ==
  /\ run.pc = "stat" /\ Upcoming(p) /\ tree[p] # Absent
  /\ \E e \in cache : /\ Hit(p, e)
                      /\ run' = Observed(p, Stamp[tree[p]], e.digest)
  /\ UNCHANGED <<tree, diskVars, runVars, gone>>

StatChanged(p) ==
  /\ run.pc = "stat" /\ Upcoming(p) /\ tree[p] # Absent
  /\ \A e \in cache : ~Hit(p, e)
  /\ run' = [run EXCEPT !.pc = "hash", !.at = p, !.stamp = Stamp[tree[p]]]
  /\ held' = {tree[p]}
  /\ UNCHANGED <<tree, diskVars, seen, gone>>

(* sha256File reads one of the files that were there since the stat *)
Hashed ==
  /\ run.pc = "hash"
  /\ \E v \in held \ {Absent} : run' = Observed(run.at, run.stamp, Digest[v])
  /\ held' = {}
  /\ UNCHANGED <<tree, diskVars, seen, gone>>

HashFails ==
  /\ run.pc = "hash" /\ Absent \in held
  /\ FallBack

(* findUnexpectedFiles *)
Walk ==
  /\ run.pc = "stat" /\ run.todo = {}
  /\ run' = [run EXCEPT !.pc = "walk",
                        !.todo = {p \in InterestingPaths \ DOMAIN run.expected :
                                    Attested(p) /\ tree[p] # Absent}]
  /\ UNCHANGED <<tree, diskVars, runVars, gone>>

(* A file that went since the walk is reported without a digest *)
Unexpected(p) ==
  /\ run.pc = "walk" /\ Upcoming(p)
  /\ run' = [run EXCEPT !.todo = @ \ {p},
                        !.deviations = @ \cup {<<p, "unexpected">>},
                        !.observed = IF tree[p] = Absent THEN @
                                     ELSE @ \cup {<<p, Digest[tree[p]]>>}]
  /\ UNCHANGED <<tree, diskVars, runVars, gone>>

(* saveCache, in place as well; a failure is ignored *)
SaveOpens ==
  /\ run.pc = "walk" /\ run.todo = {}
  /\ \/ cache' = {} /\ GoTo("save")
     \/ GoTo("done") /\ UNCHANGED cache
  /\ UNCHANGED <<tree, ledger, manifest, runVars, gone>>

SaveEnds ==
  /\ run.pc = "save"
  /\ cache' \in {cache, run.next}
  /\ GoTo("done")
  /\ UNCHANGED <<tree, ledger, manifest, runVars, gone>>

(* buildAttestationResult: the ticket request takes the measurement along *)
Reported ==
  /\ run.pc = "done"
  /\ EndRun
  /\ UNCHANGED <<tree, diskVars, gone>>

-----------------------------------------------------------------------------
(* The launcher dies *)
Crash ==
  /\ run.pc # "idle"
  /\ EndRun
  /\ UNCHANGED <<tree, diskVars, gone>>

(* runAssetSync, which no attestation overlaps: the files of the old pack give
   way to the originals, the new pack's are laid over them *)
Sync(pack) ==
  /\ run.pc = "idle" /\ pack # ledger
  /\ Become(Install(Over(pack, But(Pristine[Installed], Paths \ DOMAIN ledger)), tree))
  /\ ledger' = pack
  /\ UNCHANGED <<manifest, cache, run>>

(* Another program writes or deletes a file *)
Outside(p, v) ==
  /\ <<p, v>> \in OutsideChanges /\ tree[p] # v
  /\ Become([tree EXCEPT ![p] = v])
  /\ UNCHANGED <<diskVars, run>>

Next ==
  \/ BeginAttestation \/ ChallengeRefused \/ ApplyMode
  \/ \E b \in Builds, m \in Modes \cup {"absent"} : ChallengeGranted(b, m)
  \/ ManifestFetched \/ ManifestKept \/ ManifestFromCopy \/ ManifestUnavailable
  \/ \E lost \in SUBSET DOMAIN Artifacts :
       Cardinality(lost) <= MaxLost /\ BeginMeasure(lost)
  \/ \E p \in Paths : StatMissing(p) \/ StatCached(p) \/ StatChanged(p) \/ Unexpected(p)
  \/ Hashed \/ HashFails \/ Walk \/ SaveOpens \/ SaveEnds \/ Reported \/ Crash
  \/ \E pack \in Ledgers : Sync(pack)
  \/ \E p \in Paths, v \in Contents : Outside(p, v)

Spec == Init /\ [][Next]_vars
================================================================================
