---------------------------- MODULE Diagnostics -----------------------------
(***************************************************************************)
(* Diagnostic sessions: the controller (diagnostic-controller.ts) and the  *)
(* reports on disk (diagnostic-reports.ts).  A session records a game with *)
(* two collectors, helper processes that write files of their own: the     *)
(* observer (diagnostic-observer.ts) and the frame timer                   *)
(* (diagnostic-frame-times.ts).  When the game exits the session is        *)
(* finalized, its collectors are stopped, the evidence is collected, which *)
(* freezes it, and with Debug on it is uploaded.  Meanwhile the player may *)
(* ask for a capture, an export or a crash report of any session, the      *)
(* launcher may die and be started again, and the game outlives it.        *)
(*                                                                         *)
(* Operations on one report run one after the other (serial()), so each is *)
(* one step here; between them everything else may happen.  The native     *)
(* helper never attaches a debugger (counters_only), so a capture is a     *)
(* helper of its own and no exception event changes a verdict.  Left out:  *)
(* retention, redaction, sizes, the ZIP, the account that uploads, and     *)
(* a helper that neither ends nor can be killed.                           *)
(***************************************************************************)
EXTENDS Naturals

CONSTANTS
  MaxReports,  \* bound: sessions and manual reports in a behaviour
  MaxRequests, \* bound: operations the player asks for
  MaxDeaths,   \* bound: times the launcher dies
  MaxFailures  \* bound: steps that fail, helpers that do

ASSUME BoundAssumption ==
  {MaxReports, MaxRequests, MaxDeaths, MaxFailures} \subseteq Nat

VARIABLES
  app,        \* "up" or "down"
  deaths,     \* how often it died
  requests,   \* how many operations the player asked for
  failures,   \* how many steps failed
  begun,      \* reports begun so far; a report's number is its age
  report,     \* session.json of each report
  output,     \* what each collector of a report has written
  collector,  \* where each collector of a report is
  evidence,   \* the collected directory of each report
  baseline,   \* games in the shared logs when the report began
  cutoff,     \* games in the shared logs between that and the exit
  ran,        \* games that have written to the shared logs
  games,      \* games that run
  launch,     \* the play handler's launch
  active,     \* the session being recorded, or 0
  finishing,  \* finish() of the active session
  debug,      \* the Debug setting and the status shown for it
  job,        \* the capture, export or crash report under way (busy)
  upload,     \* the upload of finish() and the one of initialize()
  prepared,   \* the upload directory of each report
  server,     \* what the server has of each report
  incidents   \* history: what the properties make exceptions for

processVars == <<app, deaths, requests, failures>>
diskVars    == <<begun, report, evidence, baseline, cutoff, prepared>>
helperVars  == <<output, collector>>
sessionVars == <<launch, active, finishing>>
gameVars    == <<ran, games>>

diagnosticsVars ==
  <<app, deaths, requests, failures, begun, report, output, collector, evidence,
    baseline, cutoff, ran, games, launch, active, finishing, debug, job, upload,
    prepared, server, incidents>>

Reports    == 1 .. MaxReports
Collectors == {"observer", "frames"}
Callers    == {"finish", "recovery"}

(* A collector writes until it ends, with its summary or without. *)

(* A report before beginSession.  kind is "manual" until a session ends. *)
Unbegun == [stage |-> "absent", kind |-> "manual", manual |-> FALSE,
            consent |-> FALSE, frozen |-> FALSE, remote |-> FALSE,
            annotated |-> FALSE]

NoEvidence == [files |-> [c \in Collectors |-> "none"], logs |-> {}]
NoPayload  == [sent |-> FALSE, annotated |-> FALSE, evidence |-> NoEvidence]

NoLaunch == [pc |-> "idle", report |-> 0]
NoJob    == [pc |-> "idle", goal |-> "none", report |-> 0]
NoUpload == [pc |-> "idle", report |-> 0]

DiagnosticsInit ==
  /\ app = "up" /\ deaths = 0 /\ requests = 0 /\ failures = 0 /\ begun = 0
  /\ report = [r \in Reports |-> Unbegun]
  /\ output = [r \in Reports |-> [c \in Collectors |-> "none"]]
  /\ collector = [r \in Reports |-> [c \in Collectors |-> "off"]]
  /\ evidence = [r \in Reports |-> NoEvidence]
  /\ baseline = [r \in Reports |-> {}] /\ cutoff = [r \in Reports |-> {}]
  /\ ran = {} /\ games = {}
  /\ launch = NoLaunch /\ active = 0 /\ finishing = "idle"
  /\ \E on \in BOOLEAN : debug = [enabled |-> on, status |-> "idle"]
  /\ job = NoJob /\ upload = [c \in Callers |-> NoUpload]
  /\ prepared = [r \in Reports |-> NoPayload]
  /\ server = [r \in Reports |-> NoPayload]
  /\ incidents = [r \in Reports |-> {}]

Ended(r) == report[r].stage \in {"collecting", "settled"}

Finishing == finishing # "idle"

StepFails == failures < MaxFailures /\ failures' = failures + 1

-----------------------------------------------------------------------------
(* The reports *)

(* beginSession: a new report, and what is in the shared logs already; a game
   that still runs goes on writing them.                                    *)
BeginReport(isManual, consents, trouble) ==
  /\ begun < MaxReports
  /\ begun' = begun + 1
  /\ report' = [report EXCEPT ![begun + 1] =
       [Unbegun EXCEPT !.stage = "recording", !.manual = isManual,
                       !.consent = consents]]
  /\ baseline' = [baseline EXCEPT ![begun + 1] = ran \ games]
  /\ incidents' = [incidents EXCEPT ![begun + 1] =
       trouble \cup IF games = {} THEN {} ELSE {"stranger"}]
  /\ UNCHANGED <<evidence, cutoff, prepared>>

(* Mutant of Logs: it forgets the end of the session. *)
CurrentLogs(r) == ran \ baseline[r]

(* What collectSession copies.  After the end only what finalizeSession cut
   from the shared logs; earlier copies of a session stay.                  *)
Logs(r) == IF Ended(r) THEN cutoff[r] ELSE ran \ baseline[r]

Collected(r) ==
  [files |-> [c \in Collectors |->
                IF output[r][c] = "none" THEN evidence[r].files[c] ELSE output[r][c]],
   logs  |-> evidence[r].logs \cup Logs(r)]

(* collectSession: a report that ended is frozen by it, and only its public
   files are written again later; one still recorded stays open.            *)
Collect(r) ==
  IF report[r].frozen
  THEN UNCHANGED <<report, evidence>>
  ELSE /\ evidence' = [evidence EXCEPT ![r] = Collected(r)]
       /\ report' = [report EXCEPT
            ![r].frozen = Ended(r),
            ![r].stage = IF @ = "recording" THEN @ ELSE "settled"]

-----------------------------------------------------------------------------
(* Launch and game *)

(* Mutant of BeginLaunch: a recovery that is still sending does not matter. *)
BeginAnyLaunch ==
  /\ app = "up" /\ launch.pc = "idle" /\ active = 0
  /\ BeginReport(FALSE, debug.enabled, {})
  /\ active' = begun + 1
  /\ launch' = [pc |-> "preparing", report |-> begun + 1]
  /\ debug' = IF debug.enabled THEN [debug EXCEPT !.status = "recording"] ELSE debug
  /\ UNCHANGED <<processVars, helperVars, gameVars, finishing, job, upload, server>>

(* beginLaunch.  The play handler checked isBusy() before it synchronised the
   assets: a capture or an export may have begun since.                     *)
BeginLaunch ==
  /\ app = "up" /\ launch.pc = "idle" /\ active = 0
  /\ debug.status # "preparing"
  /\ BeginReport(FALSE, debug.enabled, {})
  /\ active' = begun + 1
  /\ launch' = [pc |-> "preparing", report |-> begun + 1]
  /\ debug' = IF debug.enabled THEN [debug EXCEPT !.status = "recording"] ELSE debug
  /\ UNCHANGED <<processVars, helperVars, gameVars, finishing, job, upload, server>>

(* ... or it throws after beginSession: the launch goes on without a session,
   and the report stays as it is.                                           *)
BeginLaunchFails ==
  /\ app = "up" /\ launch.pc = "idle" /\ active = 0
  /\ debug.status # "preparing"
  /\ StepFails
  /\ BeginReport(FALSE, debug.enabled, {"orphan"})
  /\ launch' = [pc |-> "preparing", report |-> begun + 1]
  /\ debug' = IF debug.enabled THEN [debug EXCEPT !.status = "error"] ELSE debug
  /\ UNCHANGED <<app, deaths, requests, helperVars, gameVars, active, finishing,
                 job, upload, server>>

(* onSpawned: frames are timed with Debug on; the observer also runs when the
   capture setting is on.                                                   *)
Spawn(r) ==
  /\ launch = [pc |-> "preparing", report |-> r]
  /\ launch' = [launch EXCEPT !.pc = "running"]
  /\ games' = games \cup {r} /\ ran' = ran \cup {r}
  /\ \E captureEnabled \in BOOLEAN :
       collector' = IF active = r
         THEN [collector EXCEPT ![r] =
                [c \in Collectors |->
                   IF report[r].consent \/ (c = "observer" /\ captureEnabled)
                   THEN "starting" ELSE "off"]]
         ELSE collector
  /\ UNCHANGED <<processVars, diskVars, output, active, finishing, debug, job,
                 upload, server, incidents>>

(* start(): the helper is verified and spawned, or it is not available,
   which the frame timer writes into its summary.                           *)
CollectorStarts(r, c) ==
  /\ app = "up" /\ collector[r][c] = "starting"
  /\ \/ /\ collector' = [collector EXCEPT ![r][c] = "running"]
        /\ output' = [output EXCEPT ![r][c] = "partial"]
        /\ UNCHANGED failures
     \/ /\ StepFails
        /\ collector' = [collector EXCEPT ![r][c] = "off"]
        /\ output' = [output EXCEPT ![r][c] = IF c = "frames" THEN "final" ELSE "none"]
  /\ UNCHANGED <<app, deaths, requests, diskVars, gameVars, sessionVars, debug, job, upload,
                 server, incidents>>

(* A helper ends with its game; before that it crashes, or its pipe breaks. *)
CollectorEnds(r, c) ==
  /\ collector[r][c] = "running"
  /\ IF r \in games THEN StepFails ELSE UNCHANGED failures
  /\ collector' = [collector EXCEPT ![r][c] = "off"]
  /\ output' = [output EXCEPT ![r][c] = "final"]
  /\ UNCHANGED <<app, deaths, requests, diskVars, gameVars, sessionVars, debug, job, upload,
                 server, incidents>>

(* finish(): the first exit or failure of a session is the one that counts. A
   capture or an export of the session that is under way goes on beside it.  *)
StartFinish(r) ==
  /\ finishing' = "exited"
  /\ debug' = IF report[r].consent THEN [debug EXCEPT !.status = "preparing"] ELSE debug
  /\ incidents' = IF job.report = r THEN [incidents EXCEPT ![r] = @ \cup {"overlap"}]
                 ELSE incidents

(* The game exits: onExit, if this launcher records it. *)
GameExits(r) ==
  /\ r \in games
  /\ games' = games \ {r}
  /\ IF active = r /\ ~Finishing
     THEN StartFinish(r)
     ELSE UNCHANGED <<finishing, debug, incidents>>
  /\ UNCHANGED <<processVars, diskVars, helperVars, ran, launch, active, job,
                 upload, server>>

(* launchFailed: a launch that ends before there is a game. *)
LaunchFails ==
  /\ launch.pc = "preparing"
  /\ launch' = [launch EXCEPT !.pc = "running"]
  /\ IF active = launch.report
     THEN StartFinish(active)
     ELSE UNCHANGED <<finishing, debug, incidents>>
  /\ UNCHANGED <<processVars, diskVars, helperVars, gameVars, active, job, upload,
                 server>>

(* onExit of the play handler, once the game is gone and its session over. *)
LaunchOver ==
  /\ launch.pc = "running" /\ launch.report \notin games /\ active # launch.report
  /\ launch' = NoLaunch
  /\ UNCHANGED <<processVars, diskVars, helperVars, gameVars, active, finishing,
                 debug, job, upload, server, incidents>>

-----------------------------------------------------------------------------
(* finish() *)

EndFinish == active' = 0 /\ finishing' = "idle"

(* finalizeSession: verdict and cutoff of the shared logs. *)
Finalize ==
  /\ finishing = "exited"
  /\ report' = [report EXCEPT ![active].stage = "collecting",
                              ![active].kind = "observed"]
  /\ cutoff' = [cutoff EXCEPT ![active] = ran \ baseline[active]]
  /\ finishing' = "finalized"
  /\ UNCHANGED <<processVars, begun, evidence, baseline, prepared, helperVars,
                 gameVars, launch, active, debug, job, upload, server, incidents>>

(* stop() of collectors cs of the active session: a helper still starting is
   never spawned, a running one ends or is killed.                          *)
Stop(cs) ==
  /\ collector' = [collector EXCEPT ![active] =
       [c \in Collectors |-> IF c \in cs THEN "off" ELSE @[c]]]
  /\ output' = [output EXCEPT ![active] =
       [c \in Collectors |->
          IF c \in cs /\ @[c] = "partial" THEN "final" ELSE @[c]]]

StopOne(c) ==
  /\ Stop({c})
  /\ UNCHANGED <<processVars, diskVars, gameVars, launch, active, debug, job, upload,
                 server, incidents>>

StopObserver ==
  finishing = "finalized" /\ StopOne("observer") /\ finishing' = "observed"

(* frameStart is awaited first. *)
StopFrames ==
  /\ finishing = "observed" /\ collector[active]["frames"] # "starting"
  /\ StopOne("frames") /\ finishing' = "stopped"

(* Mutant of CollectFinal: it does not wait for the frame timer. *)
CollectEarly ==
  /\ finishing = "observed"
  /\ Collect(active)
  /\ EndFinish
  /\ UNCHANGED <<processVars, begun, baseline, cutoff, prepared, helperVars,
                 gameVars, launch, debug, job, upload, server, incidents>>

(* collectSession of finish(), then the upload of a Debug session. *)
CollectFinal ==
  /\ finishing = "stopped"
  /\ Collect(active)
  /\ IF report[active].consent
     THEN /\ finishing' = "uploading"
          /\ upload' = [upload EXCEPT !["finish"] = [pc |-> "prepare", report |-> active]]
          /\ UNCHANGED active
     ELSE EndFinish /\ UNCHANGED upload
  /\ UNCHANGED <<processVars, begun, baseline, cutoff, prepared, helperVars,
                 gameVars, launch, debug, job, server, incidents>>

(* A step of finish() throws: the collectors are stopped all the same. *)
FinishFails ==
  /\ finishing \in {"exited", "finalized", "observed", "stopped"}
  /\ collector[active]["frames"] # "starting"
  /\ StepFails /\ Stop(Collectors)
  /\ incidents' = IF Ended(active) THEN incidents
                 ELSE [incidents EXCEPT ![active] = @ \cup {"orphan"}]
  /\ debug' = IF report[active].consent THEN [debug EXCEPT !.status = "error"] ELSE debug
  /\ EndFinish
  /\ UNCHANGED <<app, deaths, requests, diskVars, gameVars, launch, job, upload, server>>

-----------------------------------------------------------------------------
(* Requests of the player: capture, export and crash report, one at a time (busy) *)

Asked == requests < MaxRequests /\ requests' = requests + 1

StartJob(goal) ==
  /\ app = "up" /\ job.pc = "idle" /\ goal \in {"capture", "export", "crash"}
  /\ Asked

(* Every operation on the session that is being finalized waits for that. *)
StartOnActive(goal) ==
  /\ StartJob(goal) /\ goal # "export" /\ active # 0
  /\ job' = [pc |-> IF Finishing THEN "await" ELSE "capture",
             goal |-> goal, report |-> active]
  /\ UNCHANGED <<app, deaths, failures, diskVars, helperVars, gameVars, sessionVars,
                 debug, upload, server, incidents>>

(* exportReport of any report in the list. *)
StartExport(r) ==
  /\ StartJob("export") /\ r <= begun
  /\ job' = [pc |-> IF active = r /\ Finishing THEN "await" ELSE "export",
             goal |-> "export", report |-> r]
  /\ UNCHANGED <<app, deaths, failures, diskVars, helperVars, gameVars, sessionVars,
                 debug, upload, server, incidents>>

(* reportCrash without a session: the latest game, even one that exited well. *)
Sessions == {r \in 1 .. begun : report[r].kind # "manual" /\ ~report[r].manual}

StartCrashReport ==
  /\ StartJob("crash") /\ active = 0
  /\ \E r \in Sessions :
       /\ \A s \in Sessions : s <= r
       /\ job' = [pc |-> "export", goal |-> "crash", report |-> r]
  /\ UNCHANGED <<app, deaths, failures, diskVars, helperVars, gameVars, sessionVars,
                 debug, upload, server, incidents>>

(* Without a game: a manual report. *)
StartManual(goal) ==
  /\ StartJob(goal) /\ active = 0
  /\ goal = "capture" \/ (goal = "crash" /\ Sessions = {})
  /\ BeginReport(TRUE, FALSE, {})
  /\ job' = [pc |-> "manual", goal |-> goal, report |-> begun + 1]
  /\ UNCHANGED <<app, deaths, failures, helperVars, gameVars, sessionVars, debug, upload, server>>

(* Its end is recorded before it is named manual again and collected. *)
FinalizeManual ==
  /\ job.pc = "manual"
  /\ report' = [report EXCEPT ![job.report].stage = "collecting"]
  /\ cutoff' = [cutoff EXCEPT ![job.report] = ran \ baseline[job.report]]
  /\ job' = [job EXCEPT !.pc = "capture"]
  /\ UNCHANGED <<processVars, begun, evidence, baseline, prepared, helperVars,
                 gameVars, sessionVars, debug, upload, server, incidents>>

(* await active.finalizing, which settles whatever happens. *)
AwaitFinish ==
  /\ job.pc = "await" /\ active # job.report
  /\ job' = [job EXCEPT !.pc = IF job.goal = "capture" THEN "capture" ELSE "export"]
  /\ UNCHANGED <<processVars, diskVars, helperVars, gameVars, sessionVars, debug,
                 upload, server, incidents>>

(* collectSession at the end of captureAvailable: the snapshot helper wrote its
   dump, failed, or ran out of time.                                        *)
CollectCapture ==
  /\ job.pc = "capture"
  /\ Collect(job.report)
  /\ job' = IF job.goal = "crash" THEN [job EXCEPT !.pc = "export"] ELSE NoJob
  /\ UNCHANGED <<processVars, begun, baseline, cutoff, prepared, helperVars,
                 gameVars, sessionVars, debug, upload, server, incidents>>

(* The player's declaration, and the Windows events an export adds to a report
   that ended, are written into the report.                                 *)
Annotate ==
  /\ job.pc = "export"
  /\ report' = [report EXCEPT ![job.report].annotated =
                  @ \/ job.goal = "crash" \/ Ended(job.report)]
  /\ job' = [job EXCEPT !.pc = "archive"]
  /\ UNCHANGED <<processVars, begun, evidence, baseline, cutoff, prepared,
                 helperVars, gameVars, sessionVars, debug, upload, server, incidents>>

(* exportReport collects first. *)
Archive ==
  /\ job.pc = "archive"
  /\ Collect(job.report)
  /\ job' = NoJob
  /\ UNCHANGED <<processVars, begun, baseline, cutoff, prepared, helperVars,
                 gameVars, sessionVars, debug, upload, server, incidents>>

JobFails ==
  /\ job.pc \notin {"idle", "await"}
  /\ StepFails
  /\ job' = NoJob
  /\ UNCHANGED <<app, deaths, requests, diskVars, helperVars, gameVars, sessionVars,
                 debug, upload, server, incidents>>

JobStep == \/ FinalizeManual \/ AwaitFinish \/ CollectCapture
           \/ Annotate \/ Archive \/ JobFails

-----------------------------------------------------------------------------
(* exportDebugSession *)

Settle(c, status) ==
  /\ debug' = [debug EXCEPT !.status = status]
  /\ upload' = [upload EXCEPT ![c] = NoUpload]
  /\ IF c = "finish" THEN EndFinish ELSE UNCHANGED <<active, finishing>>

(* Mutant of PrepareUpload: it prepares what is there now, again. *)
PrepareAgain(c) ==
  /\ upload[c].pc = "prepare"
  /\ LET r == upload[c].report IN
       /\ report[r].frozen
       /\ prepared' = [prepared EXCEPT ![r] = [sent |-> TRUE, evidence |-> evidence[r],
                                              annotated |-> report[r].annotated]]
  /\ upload' = [upload EXCEPT ![c].pc = "send"]
  /\ UNCHANGED <<processVars, begun, report, evidence, baseline, cutoff, helperVars,
                 gameVars, sessionVars, debug, job, server, incidents>>

(* prepareUpload refuses a report that is not collected; what it prepared once
   it uses again.                                                           *)
PrepareUpload(c) ==
  /\ upload[c].pc = "prepare"
  /\ LET r == upload[c].report IN
       /\ report[r].frozen
       /\ prepared' = IF prepared[r] # NoPayload THEN prepared
            ELSE [prepared EXCEPT ![r] = [sent |-> TRUE, evidence |-> evidence[r],
                                          annotated |-> report[r].annotated]]
  /\ upload' = [upload EXCEPT ![c].pc = "send"]
  /\ UNCHANGED <<processVars, begun, report, evidence, baseline, cutoff, helperVars,
                 gameVars, sessionVars, debug, job, server, incidents>>

SendUpload(c) ==
  /\ upload[c].pc = "send"
  /\ server' = [server EXCEPT ![upload[c].report] = prepared[upload[c].report]]
  /\ upload' = [upload EXCEPT ![c].pc = "receipt"]
  /\ UNCHANGED <<processVars, diskVars, helperVars, gameVars, sessionVars, debug,
                 job, incidents>>

RecordReceipt(c) ==
  /\ upload[c].pc = "receipt"
  /\ report' = [report EXCEPT ![upload[c].report].remote = TRUE]
  /\ Settle(c, "ready")
  /\ UNCHANGED <<processVars, begun, evidence, baseline, cutoff, prepared, helperVars,
                 gameVars, launch, job, server, incidents>>

(* Mutant of UploadRefused: the recovery's catch is forgotten. *)
RefusedUnnoticed(c) ==
  /\ upload[c].pc = "prepare" /\ ~report[upload[c].report].frozen
  /\ upload' = [upload EXCEPT ![c] = NoUpload]
  /\ UNCHANGED <<processVars, diskVars, helperVars, gameVars, sessionVars, debug,
                 job, server, incidents>>

(* A report that is not collected has nothing to send. *)
UploadRefused(c) ==
  /\ upload[c].pc = "prepare" /\ ~report[upload[c].report].frozen
  /\ Settle(c, "error")
  /\ UNCHANGED <<processVars, diskVars, helperVars, gameVars, launch, job, server,
                 incidents>>

(* Another account, no network, or a write that fails. *)
UploadFails(c) ==
  /\ upload[c].pc # "idle"
  /\ StepFails /\ Settle(c, "error")
  /\ UNCHANGED <<app, deaths, requests, diskVars, helperVars, gameVars, launch, job,
                 server, incidents>>

UploadStep(c) == PrepareUpload(c) \/ SendUpload(c) \/ RecordReceipt(c)
                 \/ UploadRefused(c) \/ UploadFails(c)

-----------------------------------------------------------------------------
(* Settings, death and restart *)

(* setDebugEnabled, behind the guards of main.ts *)
SetDebug ==
  /\ app = "up" /\ active = 0 /\ launch.pc = "idle"
  /\ job.pc = "idle" /\ debug.status # "preparing"
  /\ Asked
  /\ debug' = [enabled |-> ~debug.enabled, status |-> "idle"]
  /\ UNCHANGED <<app, deaths, failures, diskVars, helperVars, gameVars, sessionVars,
                 job, upload, server, incidents>>

(* The process ends, killed or closed.  Games and helpers outlive it. *)
LauncherDies ==
  /\ app = "up" /\ deaths < MaxDeaths
  /\ app' = "down" /\ deaths' = deaths + 1
  /\ launch' = NoLaunch /\ active' = 0 /\ finishing' = "idle"
  /\ job' = NoJob /\ upload' = [c \in Callers |-> NoUpload]
  /\ debug' = [debug EXCEPT !.status = "idle"]
  /\ collector' = [r \in Reports |-> [c \in Collectors |->
       IF collector[r][c] = "starting" THEN "off" ELSE collector[r][c]]]
  /\ incidents' = [r \in Reports |-> incidents[r] \cup
       IF \E c \in Collectors : collector[r][c] = "running" THEN {"died"} ELSE {}]
  /\ UNCHANGED <<requests, failures, diskVars, output, gameVars, server>>

(* initializeFromDisk: a report left open was interrupted, unless its exit was
   observed.                                                                *)
Recovered(rep) ==
  CASE rep.stage = "recording"  -> [rep EXCEPT !.stage = "settled", !.kind = "interrupted"]
    [] rep.stage = "collecting" -> [rep EXCEPT !.stage = "settled"]
    [] OTHER -> rep

(* The session initialize() looks at: the latest that may be uploaded. *)
Eligible(reports) ==
  {r \in 1 .. begun : reports[r].consent /\ reports[r].kind # "manual"}

Restart ==
  LET recovered == [r \in Reports |-> Recovered(report[r])]
      Latest    == {r \in Eligible(recovered) :
                      debug.enabled /\ \A s \in Eligible(recovered) : s <= r}
      Unsent    == {r \in Latest : ~recovered[r].remote}
  IN
  /\ app = "down" /\ app' = "up"
  /\ report' = recovered
  /\ \/ \E r \in Unsent :
          /\ upload' = [upload EXCEPT !["recovery"] = [pc |-> "prepare", report |-> r]]
          /\ debug' = [debug EXCEPT !.status = "preparing"]
     \/ /\ Unsent = {}
        /\ debug' = IF Latest = {} THEN debug ELSE [debug EXCEPT !.status = "ready"]
        /\ UNCHANGED upload
  /\ UNCHANGED <<deaths, requests, failures, begun, evidence, baseline, cutoff,
                 prepared, helperVars, gameVars, sessionVars, job, server, incidents>>

-----------------------------------------------------------------------------

FinishStep == Finalize \/ StopObserver \/ StopFrames \/ CollectFinal \/ FinishFails

LaunchStep ==
  \/ BeginLaunch \/ BeginLaunchFails \/ LaunchFails \/ LaunchOver
  \/ \E r \in Reports : Spawn(r) \/ GameExits(r)

Request ==
  \/ \E goal \in {"capture", "crash"} : StartOnActive(goal) \/ StartManual(goal)
  \/ \E r \in Reports : StartExport(r)
  \/ StartCrashReport \/ SetDebug

(* What the launcher has begun it goes on with. *)
Progress ==
  \/ FinishStep \/ JobStep
  \/ \E c \in Callers : UploadStep(c)
  \/ \E r \in Reports, c \in Collectors : CollectorStarts(r, c)

DiagnosticsNext ==
  \/ LaunchStep \/ Request \/ Progress
  \/ \E r \in Reports, c \in Collectors : CollectorEnds(r, c)
  \/ LauncherDies \/ Restart

(* Every await of finish(), of an operation, of an upload and of a helper's
   start is answered: drains, snapshots, queries and requests have time limits,
   the rest are local files.  Nothing is asked of the player, of the games and
   of the helpers, and no step of the launcher is preferred to another.       *)
Fairness == WF_diagnosticsVars(Progress)

DiagnosticsSpec == DiagnosticsInit /\ [][DiagnosticsNext]_diagnosticsVars /\ Fairness
==============================================================================
