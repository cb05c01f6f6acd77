--------------------------- MODULE AttestationProofs ---------------------------
(***************************************************************************)
(* Proof that a measurement is of the files that were there while it ran,  *)
(* for every installation and any number of launches, crashes and changes  *)
(* by other programs, as long as a file that is replaced while it is       *)
(* hashed does not come back with its size and its date.                   *)
(***************************************************************************)
EXTENDS AttestationProps, TLAPS

(* The attestation's locals, and the contents of files. *)
Shaped ==
  run = [pc |-> run.pc, build |-> run.build, mode |-> run.mode, lost |-> run.lost,
         expected |-> run.expected, todo |-> run.todo, at |-> run.at,
         stamp |-> run.stamp, next |-> run.next, observed |-> run.observed,
         deviations |-> run.deviations]
Typed ==
  /\ tree \in [Paths -> Contents] /\ seen \in [Paths -> SUBSET Contents]
  /\ ledger \in Ledgers /\ run.build \in Builds \cup {"none"}

(* The entries of a cache are right of every file that has their stamp, but for
   the stamps no file will have again. *)
True(entries) ==
  \A e \in entries : \A v \in Versions :
    Stamp[v] = e.stamp /\ <<e.path, e.stamp>> \notin gone => Digest[v] = e.digest
Current == \A p \in Paths : tree[p] # Absent => <<p, Stamp[tree[p]]>> \notin gone

(* The histories follow the tree; a file that was not replaced since its stat
   is the one that had the stamp. *)
Watched == Measuring => \A p \in Paths : tree[p] \in seen[p]
Hashing ==
  run.pc = "hash" =>
    /\ run.at \in run.todo /\ held \subseteq seen[run.at] /\ tree[run.at] \in held
    /\ <<run.at, run.stamp>> \notin gone =>
         /\ held = {tree[run.at]} /\ tree[run.at] # Absent
         /\ Stamp[tree[run.at]] = run.stamp

(* What was measured so far is told as it was. *)
Declared ==
  /\ Measuring => DOMAIN run.expected \subseteq Paths
  /\ run.pc \in {"stat", "hash"} => run.todo \subseteq DOMAIN run.expected
  /\ run.pc \notin {"idle", "challenge"} => run.build \in Builds
ToldOf(p) ==
  /\ Clean(p) => \/ run.pc \in {"stat", "hash"} /\ p \in run.todo
                 \/ \E v \in seen[p] : AsExpected(p, v)
  /\ <<p, "missing">> \in run.deviations => Absent \in seen[p]
  /\ <<p, "mismatch">> \in run.deviations =>
       \E v \in seen[p] : v # Absent /\ ~AsExpected(p, v)
Folded(o) == \E p \in Paths : \E v \in seen[p] : v # Absent /\ o = <<p, Digest[v]>>
Told ==
  Measuring => /\ \A p \in DOMAIN run.expected : ToldOf(p)
               /\ \A o \in run.observed : Folded(o)
Walked ==
  run.pc \in {"walk", "save", "done"} =>
    \A p \in InterestingPaths \ DOMAIN run.expected :
      Attested(p) /\ Absent \notin seen[p] =>
        (run.pc = "walk" /\ p \in run.todo) \/ ~Clean(p)

IInv == /\ Shaped /\ Typed /\ True(cache) /\ True(run.next) /\ Current
        /\ Watched /\ Hashing /\ Declared /\ Told /\ Walked

(* The layers of a tree: functions from paths to versions. *)
LEMMA InstallType ==
  ASSUME NEW f, Partial(f), NEW g \in [Paths -> Contents]
  PROVE  Install(f, g) \in [Paths -> Contents]
BY DEF Install, Partial, Contents

(* What is merged of two sets of hashes is one: expectedFiles, readLauncherOverrides *)
LEMMA OverPartial ==
  ASSUME NEW f, Partial(f), NEW g, Partial(g)
  PROVE  Partial(Over(f, g))
<1> DEFINE D == DOMAIN f \cup DOMAIN g
<1>1. \A p \in D : (IF p \in DOMAIN f THEN f[p] ELSE g[p]) \in Versions
  BY DEF Partial
<1>2. Over(f, g) \in [D -> Versions] /\ DOMAIN Over(f, g) = D
  BY <1>1 DEF Over
<1> QED
  BY <1>2 DEF Partial

(* Leaving files out keeps a set of hashes *)
LEMMA ButPartial ==
  ASSUME NEW f, Partial(f), NEW S
  PROVE  Partial(But(f, S))
<1>1. \A p \in DOMAIN f \ S : f[p] \in Versions
  BY DEF Partial
<1>2. But(f, S) \in [DOMAIN f \ S -> Versions] /\ DOMAIN But(f, S) = DOMAIN f \ S
  BY <1>1 DEF But
<1> QED
  BY <1>2 DEF Partial

(* Only files of the installation are expected. *)
LEMMA ExpectedPaths ==
  ASSUME ledger \in Ledgers, NEW b \in Builds, NEW m, NEW lost
  PROVE  DOMAIN Expected(b, m, lost) \subseteq Paths
<1> DEFINE merged == Over(Overrides(m, lost), Over(ledger, Pristine[b]))
<1>1. Partial(Overrides(m, lost))
  BY FileAssumption, ButPartial DEF Overrides
<1>2. Partial(merged)
  BY <1>1, FileAssumption, OverPartial
<1>3. DOMAIN Expected(b, m, lost) = {q \in DOMAIN merged : Attested(q)}
  BY DEF Expected
<1> QED
  BY <1>2, <1>3 DEF Partial

(* A stock tree with the launcher's files, and no attestation. *)
LEMMA InitHolds == Init => IInv
<1> SUFFICES ASSUME Init PROVE IInv
  OBVIOUS
<1>1. tree \in [Paths -> Contents]
  <2>1. NoFiles \in [Paths -> Contents]
    BY DEF NoFiles, Contents
  <2>2. Partial(Over(But(Artifacts, {PatchFile}), Pristine[Installed]))
    BY FileAssumption, ButPartial, OverPartial
  <2> QED
    BY <2>1, <2>2, FileAssumption, InstallType DEF Init
<1>2. seen \in [Paths -> SUBSET Contents]
  BY DEF Init
<1>3. /\ run.pc = "idle" /\ run.build = "none" /\ run.next = {}
      /\ Shaped
  BY DEF Init, NoRun, Shaped
<1> QED
  BY <1>1, <1>2, <1>3 DEF Init, IInv, Typed, True, Current, Watched, Hashing,
     Declared, Told, Walked, Measuring

(* The tree changes under an attestation that stays where it is, or that has
   not begun to measure. *)
LEMMA BecomeKeeps ==
  ASSUME DatesReturn = FALSE, IInv, NEW t \in [Paths -> Contents], Become(t),
         Shaped', ledger' \in Ledgers, UNCHANGED cache,
         \/ UNCHANGED run
         \/ /\ ~Measuring /\ ~Measuring' /\ run'.next = run.next
            /\ run.pc \notin {"idle", "challenge"} /\ run'.build = run.build
  PROVE  IInv'
<1> USE DEF IInv
<1>1. tree' = t /\ gone \subseteq gone'
  BY DEF Become
<1>2. Typed'
  BY <1>1 DEF Typed, Become, Measuring
<1>3. True(cache)' /\ True(run.next)'
  BY <1>1 DEF True
<1>4. Current'
  BY <1>1 DEF Become, Current
<1>5. CASE ~Measuring'
  BY <1>2, <1>3, <1>4, <1>5 DEF Watched, Hashing, Declared, Told, Walked, Measuring
<1>6. CASE Measuring'
  <2>1. UNCHANGED run /\ Measuring
    BY <1>6 DEF Measuring
  <2>2. \A p \in Paths : seen'[p] = seen[p] \cup {t[p]}
    BY <2>1 DEF Become
  <2>3. Watched'
    BY <1>1, <2>2 DEF Watched
  <2>4. Declared'
    BY <2>1 DEF Declared, Measuring
  <2>5. Hashing'
    <3> SUFFICES ASSUME run.pc = "hash" PROVE Hashing'
      BY <2>1 DEF Hashing
    <3>1. run.at \in Paths /\ run.at \in run.todo
      BY <2>1 DEF Hashing, Declared
    <3>2. held' = held \cup {t[run.at]}
      BY DEF Become
    <3>3. held' \subseteq seen'[run.at] /\ tree'[run.at] \in held'
      BY <1>1, <2>2, <3>1, <3>2 DEF Hashing
    <3>4. ASSUME <<run.at, run.stamp>> \notin gone'
          PROVE  /\ held' = {tree'[run.at]} /\ tree'[run.at] # Absent
                 /\ Stamp[tree'[run.at]] = run.stamp
      <4>1. t[run.at] = tree[run.at] /\ gone' = gone
        BY <3>4 DEF Become
      <4> QED
        BY <1>1, <3>2, <3>4, <4>1 DEF Hashing
    <3> QED
      BY <2>1, <3>1, <3>3, <3>4 DEF Hashing
  <2>6. ASSUME NEW p \in Paths, ToldOf(p) PROVE ToldOf(p)'
    BY <2>1, <2>2, <2>6 DEF ToldOf, Clean, AsExpected
  <2>7. Told'
    BY <2>1, <2>2, <2>6 DEF Told, Declared, Folded
  <2>8. Walked'
    BY <2>1, <2>2, FileAssumption DEF Walked, Clean
  <2> QED
    BY <1>2, <1>3, <1>4, <2>1, <2>3, <2>4, <2>5, <2>7, <2>8
<1> QED
  BY <1>5, <1>6

(* An attestation ends; the tree may still get its patch file. *)
LEMMA EndKeeps ==
  ASSUME IInv, EndRun, UNCHANGED <<ledger, cache, gone>>,
         tree' \in [Paths -> Contents],
         \A p \in Paths : tree'[p] \notin {Absent, tree[p]} => <<p, Stamp[tree'[p]]>> \notin gone
  PROVE  IInv'
<1> USE DEF IInv
<1>1. /\ run'.pc = "idle" /\ run'.build = "none" /\ run'.next = {} /\ Shaped'
      /\ seen' \in [Paths -> SUBSET Contents]
  BY DEF EndRun, NoRun, Shaped
<1>2. Typed' /\ True(cache)' /\ True(run.next)'
  BY <1>1 DEF Typed, True
<1>3. Current'
  BY DEF Current
<1> QED
  BY <1>1, <1>2, <1>3 DEF Watched, Hashing, Declared, Told, Walked, Measuring

(* A deployment after a failed attestation writes files and ends the run: the
   statement holds of the files it leaves *)
LEMMA FallBackKeeps ==
  ASSUME IInv, FallBack
  PROVE  IInv'
<1>1. \A m \in Modes : PatchFor(m) \in Contents
  BY FileAssumption DEF PatchFor, Contents, Partial
<1>2. tree' \in [Paths -> Contents]
  BY <1>1 DEF FallBack, IInv, Typed
<1> QED
  BY <1>2, EndKeeps DEF FallBack, diskVars

(* A file is observed as a version it had since the measurement began, and the
   entry that is kept of it is a right one. *)
LEMMA ObservedKeeps ==
  ASSUME IInv, NEW p \in run.todo, run.pc \in {"stat", "hash"},
         NEW v \in seen[p], v # Absent, NEW stamp,
         \A w \in Versions :
           Stamp[w] = stamp /\ <<p, stamp>> \notin gone => Digest[w] = Digest[v],
         run' = Observed(p, stamp, Digest[v]),
         UNCHANGED <<tree, ledger, cache, seen, gone>>
  PROVE  IInv'
<1> USE DEF IInv
<1> DEFINE e == [path |-> p, stamp |-> stamp, digest |-> Digest[v]]
<1>1. /\ run'.pc = "stat" /\ run'.todo = run.todo \ {p} /\ run'.expected = run.expected
      /\ run'.next = run.next \cup {e} /\ run'.build = run.build
      /\ run'.deviations = IF Digest[v] = run.expected[p] THEN run.deviations
                           ELSE run.deviations \cup {<<p, "mismatch">>}
      /\ run'.observed = run.observed \cup {<<p, Digest[v]>>} /\ Shaped'
  BY DEF Observed, Shaped
<1>2. Measuring /\ Measuring' /\ p \in DOMAIN run.expected
  BY <1>1 DEF Measuring, Declared
<1>3. Typed' /\ True(cache)' /\ Current' /\ Watched' /\ Hashing'
  BY <1>1, <1>2 DEF Typed, True, Current, Watched, Hashing
<1>4. True(run.next)'
  BY <1>1 DEF True
<1>5. Declared' /\ Walked'
  BY <1>1, <1>2 DEF Declared, Walked
<1>6. ASSUME NEW q \in DOMAIN run.expected PROVE ToldOf(q)'
  <2>1. ToldOf(q) /\ seen' = seen
    BY <1>2 DEF Told
  <2>2. CASE q # p
    BY <1>1, <2>1, <2>2 DEF ToldOf, Clean, AsExpected
  <2>3. CASE q = p
    BY <1>1, <2>1, <2>3 DEF ToldOf, Clean, AsExpected
  <2> QED
    BY <2>2, <2>3
<1>7. ASSUME NEW o \in run'.observed PROVE Folded(o)'
  BY <1>1, <1>2, <1>7 DEF Told, Folded, Declared
<1>8. Told'
  BY <1>1, <1>2, <1>6, <1>7 DEF Told
<1> QED
  BY <1>1, <1>3, <1>4, <1>5, <1>8

(* A step that leaves the tree and the histories alone, and the run with what
   it has measured. *)
LEMMA MoveKeeps ==
  ASSUME IInv, UNCHANGED <<tree, ledger, runVars, gone>>, True(cache)', Shaped',
         run'.next = run.next, run'.build \in Builds \cup {"none"},
         \/ /\ ~Measuring /\ ~Measuring'
            /\ run'.pc \notin {"idle", "challenge"} => run'.build \in Builds
         \/ /\ run.pc \in {"stat", "walk", "save"} /\ run'.pc \in {"walk", "save", "done"}
            /\ run'.build = run.build /\ run'.expected = run.expected
            /\ run'.deviations = run.deviations /\ run'.observed = run.observed
            /\ (run.pc # "save" => run.todo = {})
            /\ run'.pc = "walk" =>
                 run'.todo = {p \in InterestingPaths \ DOMAIN run.expected :
                                Attested(p) /\ tree[p] # Absent}
            /\ run.pc = "stat" <=> run'.pc = "walk"
  PROVE  IInv'
<1> USE DEF IInv
<1>1. Typed' /\ True(cache)' /\ True(run.next)' /\ Current'
  BY DEF Typed, True, Current, runVars
<1>2. CASE ~Measuring /\ ~Measuring' /\
           (run'.pc \notin {"idle", "challenge"} => run'.build \in Builds)
  BY <1>1, <1>2 DEF Watched, Hashing, Declared, Told, Walked, Measuring
<1>3. CASE /\ run.pc \in {"stat", "walk", "save"} /\ run'.pc \in {"walk", "save", "done"}
           /\ run'.build = run.build /\ run'.expected = run.expected
           /\ run'.deviations = run.deviations /\ run'.observed = run.observed
            /\ (run.pc # "save" => run.todo = {})
           /\ run'.pc = "walk" =>
                run'.todo = {p \in InterestingPaths \ DOMAIN run.expected :
                               Attested(p) /\ tree[p] # Absent}
           /\ run.pc = "stat" <=> run'.pc = "walk"
  <2>1. Measuring /\ Measuring' /\ seen' = seen
    BY <1>3 DEF Measuring, runVars
  <2>2. Watched' /\ Hashing' /\ Declared'
    BY <1>3, <2>1 DEF Watched, Hashing, Declared
  <2>3. ASSUME NEW p \in DOMAIN run.expected PROVE ToldOf(p)'
    <3>1. ToldOf(p)
      BY <2>1 DEF Told
    <3> QED
      BY <1>3, <2>1, <3>1 DEF ToldOf, Clean, AsExpected
  <2>4. Walked'
    <3>1. CASE run'.pc = "walk"
      BY <1>3, <2>1, <3>1, FileAssumption DEF Walked, Watched, Attested
    <3>2. CASE run'.pc # "walk"
      BY <1>3, <2>1, <3>2 DEF Walked, Attested, Clean
    <3> QED
      BY <3>1, <3>2
  <2> QED
    BY <1>1, <1>3, <2>1, <2>2, <2>3, <2>4 DEF Told, Folded
<1> QED
  BY <1>2, <1>3

(* Whether a cache is right does not depend on the run. *)
LEMMA SameCache ==
  ASSUME True(cache), UNCHANGED <<cache, gone>>
  PROVE  True(cache)'
BY DEF True

(* The steps of loadBaseManifest and of the challenge. *)
LEMMA ChallengeKeeps ==
  ASSUME DatesReturn = FALSE, IInv,
         \/ BeginAttestation \/ ApplyMode
         \/ \E b \in Builds, m \in Modes \cup {"absent"} : ChallengeGranted(b, m)
         \/ ManifestFetched \/ ManifestKept \/ ManifestFromCopy
  PROVE  IInv'
<1> USE DEF IInv
<1>1. CASE BeginAttestation
  BY <1>1, MoveKeeps, SameCache DEF BeginAttestation, GoTo, Shaped, Measuring, diskVars, Typed
<1>2. ASSUME NEW b \in Builds, NEW m \in Modes \cup {"absent"}, ChallengeGranted(b, m)
      PROVE  IInv'
  BY <1>2, MoveKeeps, SameCache DEF ChallengeGranted, Shaped, Measuring, diskVars, Typed
<1>3. CASE ApplyMode
  <2>1. PatchFor(run.mode) \in Contents
    BY FileAssumption DEF PatchFor, Contents, Partial
  <2>2. [tree EXCEPT ![PatchFile] = PatchFor(run.mode)] \in [Paths -> Contents]
    BY <2>1 DEF Typed
  <2>3. /\ Shaped' /\ run'.next = run.next /\ run'.build = run.build
        /\ run'.pc = "manifest"
    BY <1>3 DEF ApplyMode, GoTo, Shaped
  <2> QED
    BY <1>3, <2>2, <2>3, BecomeKeeps DEF ApplyMode, Measuring, diskVars, Typed
<1>4. CASE ManifestFetched
  <2>1. /\ Shaped' /\ run'.next = run.next /\ run'.build = run.build
        /\ run'.pc \in {"keep", "expect"} /\ run.pc = "manifest"
    BY <1>4 DEF ManifestFetched, GoTo, Shaped
  <2> QED
    BY <1>4, <2>1, MoveKeeps, SameCache DEF ManifestFetched, Measuring, Typed, Declared
<1>5. CASE ManifestKept
  <2>1. /\ Shaped' /\ run'.next = run.next /\ run'.build = run.build
        /\ run'.pc = "expect" /\ run.pc = "keep"
    BY <1>5 DEF ManifestKept, GoTo, Shaped
  <2> QED
    BY <1>5, <2>1, MoveKeeps, SameCache DEF ManifestKept, Measuring, Typed, Declared
<1>6. CASE ManifestFromCopy
  <2>1. /\ Shaped' /\ run'.next = run.next /\ run'.build = run.build
        /\ run'.pc = "expect" /\ run.pc = "manifest"
    BY <1>6 DEF ManifestFromCopy, GoTo, Shaped
  <2> QED
    BY <1>6, <2>1, MoveKeeps, SameCache DEF ManifestFromCopy, Measuring, Typed, Declared, diskVars
<1> QED
  BY <1>1, <1>2, <1>3, <1>4, <1>5, <1>6

(* What a file may be is right of every file with its stamp. *)
LEMMA StampOfCurrent ==
  ASSUME NEW v \in Versions
  PROVE  \A w \in Versions : Stamp[w] = Stamp[v] => Digest[w] = Digest[v]
BY StampAssumption

(* A measurement begins with what the tree has. *)
LEMMA BeginKeeps ==
  ASSUME IInv, NEW lost, BeginMeasure(lost)
  PROVE  IInv'
<1> USE DEF IInv
<1> DEFINE expected == Expected(run.build, run.mode, lost)
<1>1. /\ run'.pc = "stat" /\ run'.expected = expected /\ run'.todo = DOMAIN expected
      /\ run'.deviations = {} /\ run'.next = {} /\ run'.build = run.build
      /\ run'.observed = {} /\ run.pc = "expect" /\ Shaped'
  BY DEF BeginMeasure, Shaped
<1>2. seen' = [p \in Paths |-> {tree[p]}] /\ UNCHANGED <<tree, ledger, cache, gone>>
  BY DEF BeginMeasure, diskVars
<1>3. DOMAIN expected \subseteq Paths
  BY <1>1, ExpectedPaths DEF Declared, Typed
<1>4. Typed' /\ True(cache)' /\ True(run.next)' /\ Current'
  BY <1>1, <1>2 DEF Typed, True, Current
<1>5. Watched' /\ Hashing' /\ Declared' /\ Walked'
  BY <1>1, <1>2, <1>3 DEF Watched, Hashing, Declared, Walked
<1>6. Told'
  BY <1>1, <1>2 DEF Told, ToldOf
<1> QED
  BY <1>1, <1>4, <1>5, <1>6

(* One file is missing, answered for by the cache, or to be hashed. *)
LEMMA StatKeeps ==
  ASSUME IInv, NEW p \in Paths, StatMissing(p) \/ StatCached(p) \/ StatChanged(p)
  PROVE  IInv'
<1> USE DEF IInv
<1>1. /\ run.pc = "stat" /\ p \in run.todo /\ p \in DOMAIN run.expected
      /\ tree[p] \in seen[p] /\ Measuring
  BY DEF StatMissing, StatCached, StatChanged, Upcoming, Declared, Watched, Measuring
<1>2. CASE StatMissing(p)
  <2>1. /\ run'.pc = "stat" /\ run'.todo = run.todo \ {p} /\ run'.expected = run.expected
        /\ run'.next = run.next /\ run'.build = run.build /\ Shaped'
        /\ run'.deviations = run.deviations \cup {<<p, "missing">>}
        /\ run'.observed = run.observed
        /\ UNCHANGED <<tree, ledger, cache, seen, gone>> /\ Absent \in seen[p]
    BY <1>1, <1>2 DEF StatMissing, Shaped, diskVars, runVars
  <2>2. Typed' /\ True(cache)' /\ True(run.next)' /\ Current'
    BY <2>1 DEF Typed, True, Current
  <2>3. Watched' /\ Hashing' /\ Declared' /\ Walked'
    BY <1>1, <2>1 DEF Watched, Hashing, Declared, Walked, Measuring
  <2>4. ASSUME NEW q \in DOMAIN run.expected PROVE ToldOf(q)'
    <3>1. ToldOf(q)
      BY <1>1 DEF Told
    <3>2. CASE q # p
      BY <2>1, <3>1, <3>2 DEF ToldOf, Clean, AsExpected
    <3>3. CASE q = p
      BY <2>1, <3>1, <3>3 DEF ToldOf, Clean, AsExpected
    <3> QED
      BY <3>2, <3>3
  <2> QED
    BY <1>1, <2>1, <2>2, <2>3, <2>4 DEF Told, Folded
<1>3. CASE StatCached(p)
  <2>1. PICK e \in cache : Hit(p, e) /\ run' = Observed(p, Stamp[tree[p]], e.digest)
    BY <1>3 DEF StatCached
  <2>2. tree[p] \in Versions /\ tree[p] # Absent
    BY <1>3 DEF StatCached, Typed, Contents
  <2>3. e.digest = Digest[tree[p]]
    BY <2>1, <2>2 DEF Hit, True, Current
  <2>4. run' = Observed(p, Stamp[tree[p]], Digest[tree[p]])
    BY <2>1, <2>3
  <2>5. \A w \in Versions :
          Stamp[w] = Stamp[tree[p]] /\ <<p, Stamp[tree[p]]>> \notin gone
            => Digest[w] = Digest[tree[p]]
    BY <2>2, StampOfCurrent
  <2>6. UNCHANGED <<tree, ledger, cache, seen, gone>>
    BY <1>3 DEF StatCached, diskVars, runVars
  <2> QED
    BY <1>1, <2>2, <2>4, <2>5, <2>6, ObservedKeeps
<1>4. CASE StatChanged(p)
  <2>1. /\ run'.pc = "hash" /\ run'.todo = run.todo /\ run'.expected = run.expected
        /\ run'.next = run.next /\ run'.build = run.build /\ Shaped'
        /\ run'.at = p /\ run'.stamp = Stamp[tree[p]] /\ tree[p] # Absent
        /\ run'.deviations = run.deviations /\ run'.observed = run.observed
        /\ held' = {tree[p]}
        /\ UNCHANGED <<tree, ledger, cache, seen, gone>>
    BY <1>4 DEF StatChanged, Shaped, diskVars
  <2>2. Typed' /\ True(cache)' /\ True(run.next)' /\ Current'
    BY <2>1 DEF Typed, True, Current
  <2>3. Watched' /\ Hashing' /\ Declared' /\ Walked'
    BY <1>1, <2>1 DEF Watched, Hashing, Declared, Walked, Measuring
  <2>4. ASSUME NEW q \in DOMAIN run.expected PROVE ToldOf(q)'
    <3>1. ToldOf(q)
      BY <1>1 DEF Told
    <3> QED
      BY <1>1, <2>1, <3>1 DEF ToldOf, Clean, AsExpected
  <2> QED
    BY <1>1, <2>1, <2>2, <2>3, <2>4 DEF Told, Folded
<1> QED
  BY <1>2, <1>3, <1>4

(* A file is hashed; if it was replaced meanwhile, its stamp is gone. *)
LEMMA HashedKeeps ==
  ASSUME IInv, Hashed
  PROVE  IInv'
<1> USE DEF IInv
<1>1. PICK v \in held \ {Absent} : run' = Observed(run.at, run.stamp, Digest[v])
  BY DEF Hashed
<1>2. run.pc = "hash" /\ run.at \in run.todo /\ v \in seen[run.at] /\ run.at \in Paths
  BY DEF Hashed, Hashing, Declared, Measuring
<1>3. v \in Versions
  BY <1>2 DEF Typed, Contents
<1>4. \A w \in Versions :
        Stamp[w] = run.stamp /\ <<run.at, run.stamp>> \notin gone => Digest[w] = Digest[v]
  BY <1>2, <1>3, StampOfCurrent DEF Hashing
<1> QED
  BY <1>1, <1>2, <1>4, ObservedKeeps DEF Hashed, diskVars

(* What the walk found is reported. *)
LEMMA UnexpectedKeeps ==
  ASSUME IInv, NEW p \in Paths, Unexpected(p)
  PROVE  IInv'
<1> USE DEF IInv
<1>1. /\ run.pc = "walk" /\ run'.pc = "walk" /\ run'.todo = run.todo \ {p}
      /\ run'.expected = run.expected /\ run'.next = run.next /\ run'.build = run.build
      /\ run'.deviations = run.deviations \cup {<<p, "unexpected">>} /\ Shaped'
      /\ run'.observed = IF tree[p] = Absent THEN run.observed
                         ELSE run.observed \cup {<<p, Digest[tree[p]]>>}
      /\ UNCHANGED <<tree, ledger, cache, seen, gone>>
  BY DEF Unexpected, Shaped, diskVars, runVars
<1>2. Typed' /\ True(cache)' /\ True(run.next)' /\ Current'
  BY <1>1 DEF Typed, True, Current
<1>3. Watched' /\ Hashing' /\ Declared'
  BY <1>1 DEF Watched, Hashing, Declared, Measuring
<1>4. ASSUME NEW q \in DOMAIN run.expected PROVE ToldOf(q)'
  <2>1. ToldOf(q)
    BY <1>1 DEF Told, Measuring
  <2> QED
    BY <1>1, <2>1 DEF ToldOf, Clean, AsExpected
<1>5. Walked'
  BY <1>1 DEF Walked, Clean
<1>6. ASSUME NEW o \in run'.observed PROVE Folded(o)'
  <2>1. tree[p] \in seen[p] /\ \A r \in run.observed : Folded(r)
    BY <1>1 DEF Told, Watched, Measuring
  <2> QED
    BY <1>1, <1>6, <2>1 DEF Folded
<1> QED
  BY <1>1, <1>2, <1>3, <1>4, <1>5, <1>6 DEF Told

(* The walk, and the writing of the cache. *)
LEMMA SaveKeeps ==
  ASSUME IInv, Walk \/ SaveOpens \/ SaveEnds
  PROVE  IInv'
<1> USE DEF IInv
<1>1. CASE Walk
  <2>1. /\ run.pc = "stat" /\ run'.pc = "walk" /\ run.todo = {} /\ Shaped'
        /\ run'.todo = {p \in InterestingPaths \ DOMAIN run.expected :
                          Attested(p) /\ tree[p] # Absent}
        /\ run'.expected = run.expected /\ run'.next = run.next
        /\ run'.build = run.build /\ run'.deviations = run.deviations
        /\ run'.observed = run.observed
    BY <1>1 DEF Walk, Shaped
  <2> QED
    BY <1>1, <2>1, MoveKeeps, SameCache DEF Walk, diskVars, Typed
<1>2. CASE SaveOpens
  <2>1. /\ run.pc = "walk" /\ run.todo = {} /\ run'.pc \in {"save", "done"} /\ Shaped'
        /\ run'.expected = run.expected /\ run'.next = run.next
        /\ run'.build = run.build /\ run'.deviations = run.deviations
        /\ run'.observed = run.observed
    BY <1>2 DEF SaveOpens, GoTo, Shaped
  <2>2. True(cache)'
    BY <1>2 DEF SaveOpens, GoTo, True
  <2> QED
    BY <1>2, <2>1, <2>2, MoveKeeps DEF SaveOpens, Typed
<1>3. CASE SaveEnds
  <2>1. /\ run.pc = "save" /\ run'.pc = "done" /\ Shaped'
        /\ run'.expected = run.expected /\ run'.next = run.next
        /\ run'.build = run.build /\ run'.deviations = run.deviations
        /\ run'.observed = run.observed
    BY <1>3 DEF SaveEnds, GoTo, Shaped
  <2>2. True(cache)'
    BY <1>3 DEF SaveEnds, True
  <2> QED
    BY <1>3, <2>1, <2>2, MoveKeeps DEF SaveEnds, Typed
<1> QED
  BY <1>1, <1>2, <1>3

(* The feed and other programs change the tree. *)
LEMMA OthersKeep ==
  ASSUME DatesReturn = FALSE, IInv,
         \/ \E pack \in Ledgers : Sync(pack)
         \/ \E p \in Paths, v \in Contents : Outside(p, v)
  PROVE  IInv'
<1> USE DEF IInv
<1>1. ASSUME NEW pack \in Ledgers, Sync(pack) PROVE IInv'
  <2> DEFINE files == Over(pack, But(Pristine[Installed], Paths \ DOMAIN ledger))
  <2>1. Partial(files)
    BY FileAssumption, ButPartial, OverPartial
  <2>2. Install(files, tree) \in [Paths -> Contents]
    BY <2>1, InstallType DEF Typed
  <2> QED
    BY <1>1, <2>2, BecomeKeeps DEF Sync, Shaped
<1>2. ASSUME NEW p \in Paths, NEW v \in Contents, Outside(p, v) PROVE IInv'
  <2>1. [tree EXCEPT ![p] = v] \in [Paths -> Contents]
    BY DEF Typed
  <2> QED
    BY <1>2, <2>1, BecomeKeeps DEF Outside, diskVars, Typed, Shaped
<1> QED
  BY <1>1, <1>2

(* Every step keeps the invariant, when no change brings an old date back *)
LEMMA NextKeeps ==
  ASSUME DatesReturn = FALSE, IInv, [Next]_vars
  PROVE  IInv'
<1>1. CASE UNCHANGED vars
  BY <1>1 DEF vars, runVars, IInv, Shaped, Typed, True, Current, Watched, Hashing,
     Declared, Told, ToldOf, Folded, Walked, Measuring, Clean, AsExpected
<1>2. CASE Reported \/ Crash
  BY <1>2, EndKeeps DEF Reported, Crash, diskVars, IInv, Typed
<1>3. CASE ChallengeRefused \/ ManifestUnavailable \/ HashFails
  BY <1>3, FallBackKeeps DEF ChallengeRefused, ManifestUnavailable, HashFails
<1>4. CASE Next
  BY <1>2, <1>3, <1>4, ChallengeKeeps, BeginKeeps, StatKeeps, HashedKeeps,
     UnexpectedKeeps, SaveKeeps, OthersKeep DEF Next
<1> QED
  BY <1>1, <1>4

(* Whatever a launch reports of the client was so while it measured, although
   most digests come from a cache that earlier launches, some of which died,
   have left behind: the comment at integrity-attestation.ts:16, under the
   condition on dates it needs. *)
THEOREM MeasureTheorem ==
  ASSUME DatesReturn = FALSE
  PROVE  Spec => []MeasuresWhatWasThere
<1>1. IInv => MeasuresWhatWasThere
  BY DEF IInv, MeasuresWhatWasThere, Reporting, Told, ToldOf, Folded, Walked, Measuring
<1>2. IInv /\ [Next]_vars => IInv'
  BY NextKeeps
<1> QED
  BY InitHolds, <1>1, <1>2, PTL DEF Spec

(* What a run expects, and why a file is in its report: an expected file by its
   absence or its digest, another one because it was there. *)
Strange(p) ==
  /\ p \in InterestingPaths \ DOMAIN run.expected /\ Attested(p)
  /\ \E v \in seen[p] : v # Absent
Judged(d) ==
  \/ \E p \in DOMAIN run.expected : d \in {<<p, "missing">>, <<p, "mismatch">>}
  \/ \E p \in InterestingPaths : Strange(p) /\ d = <<p, "unexpected">>
HonestInv ==
  /\ run.mode \in Modes
  /\ Measuring => /\ run.expected = Expected(run.build, run.mode, run.lost)
                  /\ \A d \in run.deviations : Judged(d)
  /\ run.pc = "walk" => \A p \in run.todo : Strange(p)

(* A run that has not begun to measure, or has ended, reports nothing. *)
LEMMA HonestBefore ==
  ASSUME run'.mode \in Modes, ~Measuring'
  PROVE  HonestInv'
BY DEF HonestInv, Measuring

(* A measurement that goes on keeps what it expects, and adds to its report what
   it has found. *)
LEMMA HonestOnwards ==
  ASSUME IInv, HonestInv, Measuring, UNCHANGED ledger,
         run'.build = run.build, run'.mode = run.mode, run'.lost = run.lost,
         run'.expected = run.expected,
         \A p \in Paths : seen[p] \subseteq seen'[p],
         \A d \in run'.deviations \ run.deviations : Judged(d),
         run'.pc = "walk" => \A p \in run'.todo : Strange(p)
  PROVE  HonestInv'
<1>1. \A p : Strange(p) => Strange(p)'
  BY FileAssumption DEF Strange, Attested
<1>2. \A d : Judged(d) => Judged(d)'
  BY <1>1 DEF Judged
<1>3. Expected(run.build, run.mode, run.lost)' = Expected(run.build, run.mode, run.lost)
  BY DEF Expected, Overrides, Over, But, Attested
<1> QED
  BY <1>1, <1>2, <1>3 DEF HonestInv

(* An observed file is one of those that are expected. *)
LEMMA HonestObserved ==
  ASSUME IInv, HonestInv, NEW p \in run.todo, run.pc \in {"stat", "hash"}, NEW stamp,
         NEW digest, run' = Observed(p, stamp, digest), UNCHANGED <<ledger, seen>>
  PROVE  HonestInv'
<1>1. Measuring /\ p \in DOMAIN run.expected
  BY DEF Measuring, IInv, Declared
<1>2. /\ run'.pc = "stat" /\ run'.build = run.build /\ run'.mode = run.mode
      /\ run'.lost = run.lost /\ run'.expected = run.expected
      /\ run'.deviations \subseteq run.deviations \cup {<<p, "mismatch">>}
  BY DEF Observed, IInv, Shaped
<1>3. Judged(<<p, "mismatch">>)
  BY <1>1 DEF Judged
<1> QED
  BY <1>1, <1>2, <1>3, HonestOnwards

(* One file after the other, and the walk. *)
LEMMA HonestFiles ==
  ASSUME IInv, HonestInv,
         \/ \E p \in Paths : StatMissing(p) \/ StatCached(p) \/ StatChanged(p) \/ Unexpected(p)
         \/ Hashed \/ Walk \/ SaveOpens \/ SaveEnds
  PROVE  HonestInv'
<1> USE DEF Measuring
<1>1. ASSUME NEW p \in Paths, StatMissing(p) PROVE HonestInv'
  <2>1. /\ run.pc = "stat" /\ run'.pc = "stat" /\ run'.build = run.build
        /\ run'.mode = run.mode /\ run'.lost = run.lost /\ run'.expected = run.expected
        /\ run'.deviations = run.deviations \cup {<<p, "missing">>}
        /\ p \in run.todo /\ UNCHANGED <<ledger, seen>>
    BY <1>1 DEF StatMissing, Upcoming, IInv, Shaped, diskVars, runVars
  <2>2. Judged(<<p, "missing">>)
    BY <2>1 DEF Judged, IInv, Declared
  <2> QED
    BY <2>1, <2>2, HonestOnwards
<1>2. ASSUME NEW p \in Paths, StatCached(p) PROVE HonestInv'
  <2>1. PICK e : run' = Observed(p, Stamp[tree[p]], e.digest)
    BY <1>2 DEF StatCached
  <2> QED
    BY <1>2, <2>1, HonestObserved DEF StatCached, Upcoming, diskVars, runVars
<1>3. ASSUME NEW p \in Paths, StatChanged(p) PROVE HonestInv'
  <2>1. /\ run.pc = "stat" /\ run'.pc = "hash" /\ run'.build = run.build
        /\ run'.mode = run.mode /\ run'.lost = run.lost /\ run'.expected = run.expected
        /\ run'.deviations = run.deviations /\ UNCHANGED <<ledger, seen>>
    BY <1>3 DEF StatChanged, IInv, Shaped, diskVars
  <2> QED
    BY <2>1, HonestOnwards
<1>4. ASSUME NEW p \in Paths, Unexpected(p) PROVE HonestInv'
  <2>1. /\ run.pc = "walk" /\ run'.pc = "walk" /\ run'.build = run.build
        /\ run'.mode = run.mode /\ run'.lost = run.lost /\ run'.expected = run.expected
        /\ run'.deviations = run.deviations \cup {<<p, "unexpected">>}
        /\ p \in run.todo /\ run'.todo = run.todo \ {p} /\ UNCHANGED <<ledger, seen>>
    BY <1>4 DEF Unexpected, Upcoming, IInv, Shaped, diskVars, runVars
  <2>2. \A q \in run'.todo : Strange(q)
    BY <2>1 DEF HonestInv
  <2>3. Judged(<<p, "unexpected">>)
    BY <2>1 DEF HonestInv, Judged, Strange
  <2> QED
    BY <2>1, <2>2, <2>3, HonestOnwards
<1>5. CASE Hashed
  <2>1. PICK v : run' = Observed(run.at, run.stamp, Digest[v])
    BY <1>5 DEF Hashed
  <2>2. run.pc = "hash" /\ run.at \in run.todo /\ UNCHANGED <<ledger, seen>>
    BY <1>5 DEF Hashed, IInv, Hashing, diskVars
  <2> QED
    BY <2>1, <2>2, HonestObserved
<1>6. CASE Walk
  <2>1. /\ run.pc = "stat" /\ run'.pc = "walk" /\ run'.build = run.build
        /\ run'.mode = run.mode /\ run'.lost = run.lost /\ run'.expected = run.expected
        /\ run'.deviations = run.deviations /\ UNCHANGED <<ledger, seen>>
        /\ run'.todo = {p \in InterestingPaths \ DOMAIN run.expected :
                          Attested(p) /\ tree[p] # Absent}
    BY <1>6 DEF Walk, IInv, Shaped, diskVars, runVars
  <2>2. \A p \in Paths : tree[p] \in seen[p]
    BY <2>1 DEF IInv, Watched
  <2>3. \A p \in run'.todo : Strange(p)
    BY <2>1, <2>2, FileAssumption DEF Strange
  <2> QED
    BY <2>1, <2>3, HonestOnwards
<1>7. CASE SaveOpens \/ SaveEnds
  <2>1. /\ run.pc \in {"walk", "save"} /\ run'.pc \in {"save", "done"}
        /\ run'.build = run.build
        /\ run'.mode = run.mode /\ run'.lost = run.lost /\ run'.expected = run.expected
        /\ run'.deviations = run.deviations /\ UNCHANGED <<ledger, seen>>
    BY <1>7 DEF SaveOpens, SaveEnds, GoTo, IInv, Shaped, diskVars, runVars
  <2> QED
    BY <2>1, HonestOnwards
<1> QED
  BY <1>1, <1>2, <1>3, <1>4, <1>5, <1>6, <1>7

(* The challenge and the manifest, and the end of a run. *)
LEMMA HonestAround ==
  ASSUME IInv, HonestInv,
         \/ BeginAttestation \/ ChallengeRefused \/ ApplyMode
         \/ \E b \in Builds, m \in Modes \cup {"absent"} : ChallengeGranted(b, m)
         \/ ManifestFetched \/ ManifestKept \/ ManifestFromCopy \/ ManifestUnavailable
         \/ HashFails \/ Reported \/ Crash
  PROVE  HonestInv'
<1>1. CASE \/ ChallengeRefused \/ ManifestUnavailable \/ HashFails \/ Reported \/ Crash
  <2>1. EndRun
    BY <1>1 DEF ChallengeRefused, ManifestUnavailable, HashFails, FallBack, Reported, Crash
  <2> QED
    BY <2>1, HonestBefore DEF EndRun, NoRun, Modes, Measuring
<1>2. CASE \E b \in Builds, m \in Modes \cup {"absent"} : ChallengeGranted(b, m)
  <2>1. run'.pc = "apply" /\ run'.mode \in Modes
    BY <1>2 DEF ChallengeGranted, IInv, Shaped, Modes
  <2> QED
    BY <2>1, HonestBefore DEF Measuring
<1>3. CASE \/ BeginAttestation \/ ApplyMode \/ ManifestFetched \/ ManifestKept
           \/ ManifestFromCopy
  <2>1. run'.pc \in {"challenge", "manifest", "keep", "expect"} /\ run'.mode = run.mode
    BY <1>3 DEF BeginAttestation, ApplyMode, ManifestFetched, ManifestKept,
       ManifestFromCopy, GoTo, IInv, Shaped
  <2> QED
    BY <2>1, HonestBefore DEF Measuring, HonestInv
<1> QED
  BY <1>1, <1>2, <1>3

(* A measurement begins, expecting what the files of the launcher, the ledger
   and the manifest say. *)
LEMMA HonestBegins ==
  ASSUME IInv, HonestInv, NEW lost, BeginMeasure(lost)
  PROVE  HonestInv'
<1>1. /\ run'.pc = "stat" /\ run'.build = run.build /\ run'.mode = run.mode
      /\ run'.lost = lost /\ run'.deviations = {} /\ UNCHANGED ledger
      /\ run'.expected = Expected(run.build, run.mode, lost)
  BY DEF BeginMeasure, IInv, Shaped, diskVars
<1>2. Expected(run.build, run.mode, run.lost)' = Expected(run.build, run.mode, lost)
  BY <1>1 DEF Expected, Overrides, Over, But, Attested
<1> QED
  BY <1>1, <1>2 DEF HonestInv

(* The feed does not move while a measurement runs; other programs only add to
   what was seen. *)
LEMMA HonestOthers ==
  ASSUME IInv, HonestInv,
         \/ \E pack \in Ledgers : Sync(pack)
         \/ \E p \in Paths, v \in Contents : Outside(p, v)
  PROVE  HonestInv'
<1>1. CASE \E pack \in Ledgers : Sync(pack)
  <2>1. run.pc = "idle" /\ run' = run
    BY <1>1 DEF Sync
  <2> QED
    BY <2>1, HonestBefore DEF HonestInv, Measuring
<1>2. ASSUME NEW p \in Paths, NEW v \in Contents, Outside(p, v) PROVE HonestInv'
  <2>1. run' = run /\ UNCHANGED ledger /\ Become([tree EXCEPT ![p] = v])
    BY <1>2 DEF Outside, diskVars
  <2>2. CASE ~Measuring
    BY <2>1, <2>2, HonestBefore DEF HonestInv, Measuring
  <2>3. CASE Measuring
    <3>1. \A q \in Paths : seen[q] \subseteq seen'[q]
      BY <2>1, <2>3 DEF Become
    <3> QED
      BY <2>1, <2>3, <3>1, HonestOnwards DEF HonestInv
  <2> QED
    BY <2>2, <2>3
<1> QED
  BY <1>1, <1>2

(* Every step keeps it. *)
LEMMA HonestKeeps ==
  ASSUME IInv, HonestInv, [Next]_vars
  PROVE  HonestInv'
<1>1. CASE UNCHANGED vars
  BY <1>1 DEF vars, runVars, HonestInv, Judged, Strange, Measuring, Attested,
     Expected, Overrides, Over, But
<1>2. CASE Next
  BY <1>2, HonestFiles, HonestAround, HonestBegins, HonestOthers DEF Next
<1> QED
  BY <1>1, <1>2

(* What is expected of an installation whose artifacts can all be read is what
   the launcher maintains in it. *)
LEMMA MaintainedIsExpected ==
  ASSUME ledger \in Ledgers, run.mode \in Modes, NEW p \in Paths, Attested(p)
  PROVE  LET expected == Expected(Installed, run.mode, {})
         IN  /\ p \in DOMAIN expected =>
                  Maintained(p) # Absent /\ expected[p] = Digest[Maintained(p)]
             /\ p \notin DOMAIN expected => Maintained(p) = Absent
<1> DEFINE ours   == Overrides(run.mode, {})
           below  == Over(ledger, Pristine[Installed])
           merged == Over(ours, below)
<1>1. /\ Partial(Artifacts) /\ Partial(ledger) /\ Partial(Pristine[Installed])
      /\ Absent \notin Versions
  BY FileAssumption
<1>2. /\ DOMAIN ours = {q \in DOMAIN Artifacts : q # PatchFile \/ run.mode = "patched"}
      /\ \A q \in DOMAIN ours : ours[q] = Artifacts[q]
  BY DEF Overrides, But, Modes
<1>3. /\ DOMAIN below = DOMAIN ledger \cup DOMAIN Pristine[Installed]
      /\ \A q \in DOMAIN below :
           below[q] = IF q \in DOMAIN ledger THEN ledger[q] ELSE Pristine[Installed][q]
  BY DEF Over
<1> HIDE DEF ours, below
<1>4. /\ DOMAIN merged = DOMAIN ours \cup DOMAIN below
      /\ \A q \in DOMAIN merged : merged[q] = IF q \in DOMAIN ours THEN ours[q] ELSE below[q]
  BY DEF Over
<1> DEFINE expected == Expected(Installed, run.mode, {})
<1>5. /\ DOMAIN expected = {q \in DOMAIN merged : Attested(q)}
      /\ \A q \in DOMAIN expected : expected[q] = Digest[merged[q]]
  BY DEF Expected, ours, below
<1> HIDE DEF merged, expected
<1>6. CASE p \in DOMAIN merged
  <2>1. merged[p] = Maintained(p)
    BY <1>2, <1>3, <1>4, <1>6 DEF Maintained
  <2>2. Maintained(p) \in Versions
    BY <1>1, <1>2, <1>3, <1>4, <1>6 DEF Maintained, Partial
  <2> QED
    BY <1>1, <1>5, <1>6, <2>1, <2>2 DEF expected
<1>7. CASE p \notin DOMAIN merged
  <2>1. Maintained(p) = Absent
    BY <1>2, <1>3, <1>4, <1>7 DEF Maintained
  <2> QED
    BY <1>5, <1>7, <2>1 DEF expected
<1> QED
  BY <1>6, <1>7

(* An installation as the launcher keeps it is not accused, in either mode, under
   any pack and beside any file of the player (main.ts attestInstallation,
   base-manifest.ts mergeExpectedFiles, integrity-attestation.ts). *)
THEOREM HonestTheorem ==
  ASSUME DatesReturn = FALSE
  PROVE  Spec => []HonestTreeIsClean
<1>1. Init => HonestInv
  BY DEF Init, NoRun, HonestInv, Modes, Measuring
<1>2. IInv /\ HonestInv /\ [Next]_vars => (IInv /\ HonestInv)'
  BY NextKeeps, HonestKeeps
<1>3. IInv /\ HonestInv => HonestTreeIsClean
  <2> SUFFICES ASSUME IInv, HonestInv, Reporting, run.build = Installed, run.lost = {},
                      \A p \in Paths : Attested(p) => seen[p] = {Maintained(p)},
                      NEW d \in run.deviations
               PROVE  FALSE
    BY DEF HonestTreeIsClean
  <2>1. /\ Measuring /\ Judged(d) /\ ledger \in Ledgers /\ run.mode \in Modes
        /\ run.expected = Expected(Installed, run.mode, {})
    BY DEF Reporting, Measuring, HonestInv, IInv, Typed
  <2>2. ASSUME NEW p \in DOMAIN run.expected, d \in {<<p, "missing">>, <<p, "mismatch">>}
        PROVE  FALSE
    <3>1. p \in Paths /\ ToldOf(p)
      BY <2>1 DEF IInv, Declared, Told
    <3>2. Attested(p)
      BY <2>1 DEF Expected
    <3>3. Maintained(p) # Absent /\ run.expected[p] = Digest[Maintained(p)]
      BY <2>1, <3>1, <3>2, MaintainedIsExpected
    <3> QED
      BY <2>2, <3>1, <3>2, <3>3 DEF ToldOf, AsExpected
  <2>3. ASSUME NEW p \in InterestingPaths, Strange(p) PROVE FALSE
    <3>1. /\ p \in Paths /\ Attested(p) /\ p \notin DOMAIN run.expected
          /\ \E v \in seen[p] : v # Absent
      BY <2>3, FileAssumption DEF Strange
    <3>2. Maintained(p) = Absent
      BY <2>1, <3>1, MaintainedIsExpected
    <3> QED
      BY <3>1, <3>2
  <2> QED
    BY <2>1, <2>2, <2>3 DEF Judged
<1> QED
  BY InitHolds, <1>1, <1>2, <1>3, PTL DEF Spec
================================================================================
