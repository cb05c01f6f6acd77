---------------------------- MODULE AttestationProps ----------------------------
(***************************************************************************)
(* What a finished measurement says, of the files and of itself.           *)
(***************************************************************************)
EXTENDS Attestation

Reporting == run.pc \in {"save", "done"}

(* A version of p that is what the run expects there *)
AsExpected(p, v) == v # Absent /\ Digest[v] = run.expected[p]

(* A file p has no deviation in the report *)
Clean(p) == \A kind \in {"missing", "mismatch", "unexpected"} :
              <<p, kind>> \notin run.deviations

(* The measurement is of the files that were there while it ran: what it calls
   clean was as expected at some moment, what it calls missing or altered was
   so at some moment, a file it does not declare is reported if it stayed, and
   the root is of digests the files had.
   "A stale entry can only ever cause a rejection, never a false acceptance"
   (integrity-attestation.ts:16): the digests may come from the cache of an
   earlier launch, written before a crash or before the files changed. *)
MeasuresWhatWasThere ==
  Reporting =>
    /\ \A p \in DOMAIN run.expected :
         /\ Clean(p) => \E v \in seen[p] : AsExpected(p, v)
         /\ <<p, "missing">> \in run.deviations => Absent \in seen[p]
         /\ <<p, "mismatch">> \in run.deviations =>
              \E v \in seen[p] : v # Absent /\ ~AsExpected(p, v)
    /\ \A p \in InterestingPaths \ DOMAIN run.expected :
         Attested(p) /\ Absent \notin seen[p] => ~Clean(p)
    /\ \A o \in run.observed :
         \E p \in Paths : \E v \in seen[p] : v # Absent /\ o = <<p, Digest[v]>>

(* What the launcher has put, or left, at p *)
Maintained(p) ==
  IF p \in DOMAIN Artifacts /\ (p # PatchFile \/ run.mode = "patched")
    THEN Artifacts[p]
  ELSE IF p \in DOMAIN ledger THEN ledger[p]
  ELSE IF p \in DOMAIN Pristine[Installed] THEN Pristine[Installed][p] ELSE Absent

(* An installation as the launcher leaves it is reported clean, whatever mode
   the challenge directs, whatever pack is installed and whatever a player's
   own files hold, if the artifacts' digests can be read: "a missing entry here
   flags every honest install" (main.ts:428). *)
HonestTreeIsClean ==
  Reporting /\ run.build = Installed /\ run.lost = {}
    /\ (\A p \in Paths : Attested(p) => seen[p] = {Maintained(p)})
  => run.deviations = {}
================================================================================
