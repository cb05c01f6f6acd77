-------------------------- MODULE DiagnosticsProps --------------------------
(***************************************************************************)
(* What a diagnostic session promises about its evidence, its end and the  *)
(* status the launcher shows for it.                                       *)
(***************************************************************************)
EXTENDS Diagnostics

(* diagnostic-controller.ts: "Stop writers before freezing/exporting their last
   samples and summaries."  What was frozen of a session is what its collectors
   left on disk, unless a capture or an export of the session was under way when
   its game exited, or a helper outlived the launcher.                        *)
EvidenceComplete ==
  \A r \in Reports :
    report[r].frozen /\ incidents[r] \cap {"overlap", "died"} = {} =>
      evidence[r].files = output[r]

(* diagnostic-reports.ts: "A later export must never read shared logs from the
   next game."  However late a session is exported, and whatever was played
   since, its logs are of its own game; not promised for a report whose end was
   never recorded while the launcher ran, or that began beside a game.        *)
NoForeignLogs ==
  \A r \in Reports :
    ~report[r].manual /\ incidents[r] \cap {"orphan", "stranger"} = {} =>
      evidence[r].logs \subseteq {r}

(* isBusy() reads the status: it says recording as long as a Debug session is
   recorded, and preparing as long as one is finalized or sent, by finish() or
   by the recovery at the start, which nothing else may overwrite.           *)
StatusTellsSession ==
  /\ debug.status = "recording" <=>
       active # 0 /\ report[active].consent /\ ~Finishing
  /\ debug.status = "preparing" <=>
       \/ active # 0 /\ report[active].consent /\ Finishing
       \/ upload["recovery"].pc # "idle"

(* Whatever is asked while a session ends: the finalization, the sending, also
   by a recovery, that keeps Play disabled, and the player's operation, which
   keeps every other operation out, all end.                                 *)
Preparing == Finishing \/ debug.status = "preparing"

OperationsEnd == []<>(~Preparing) /\ []<>(job.pc = "idle")

Stage(r) ==
  IF report[r].frozen THEN "frozen"
  ELSE IF Ended(r) THEN "ended"
  ELSE IF report[r].stage = "recording" THEN "open"
  ELSE "absent"

Verdict(r) == IF Ended(r) THEN report[r].kind ELSE "none"

Lifecycle == INSTANCE ReportLifecycle WITH
  stage    <- [r \in Reports |-> Stage(r)],
  verdict  <- [r \in Reports |-> Verdict(r)],
  received <- server

(* Reports keep the promise of ReportLifecycle through captures, exports,
   deaths and uploads that are sent again.                                  *)
KeepsLifecycle == Lifecycle!Spec

(* CRASH_REPORTS.md: "Si Windows ou le launcher s'arrête brutalement, la
   dernière session Debug non exportée est reprise au redémarrage": the report
   the recovery sends is one that can be sent.                              *)
RetryFindsReport ==
  upload["recovery"].pc = "prepare" => report[upload["recovery"].report].frozen
==============================================================================
