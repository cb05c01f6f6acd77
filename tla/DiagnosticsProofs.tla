-------------------------- MODULE DiagnosticsProofs --------------------------
(***************************************************************************)
(* Proofs about diagnostic sessions: for any number of reports, requests,  *)
(* deaths and failures the status tells the session, frozen evidence is    *)
(* what the collectors left, the logs of a session are of its own game,    *)
(* and reports keep the lifecycle of ReportLifecycle.                      *)
(***************************************************************************)
EXTENDS DiagnosticsProps, TLAPS

(* The types of reports, helpers, sessions and payloads. *)
Flags == {TRUE, FALSE}
ReportType ==
  [stage : {"absent", "recording", "collecting", "settled"},
   kind : {"manual", "observed", "interrupted"}, manual : Flags,
   consent : Flags, frozen : Flags, remote : Flags, annotated : Flags]
OutputType    == [Collectors -> {"none", "partial", "final"}]
CollectorType == [Collectors -> {"off", "starting", "running"}]
EvidenceType  == [files : OutputType, logs : SUBSET Reports]
PayloadType   == [sent : Flags, annotated : Flags, evidence : EvidenceType]
LaunchType    == [pc : {"idle", "preparing", "running"}, report : 0 .. MaxReports]
JobType       ==
  [pc : {"idle", "await", "manual", "capture", "export", "archive"},
   goal : {"none", "capture", "export", "crash"}, report : 0 .. MaxReports]
UploadType    == [pc : {"idle", "prepare", "send", "receipt"}, report : 0 .. MaxReports]
DebugType     ==
  [enabled : Flags, status : {"idle", "recording", "preparing", "ready", "error"}]
Incidents     == {"orphan", "stranger", "overlap", "died"}

(* The reports begun so far. *)
Begun == 1 .. begun

(* The types of the files, of the helpers and of who works on what. *)
DiskTyped ==
  /\ begun \in 0 .. MaxReports
  /\ report \in [Reports -> ReportType] /\ evidence \in [Reports -> EvidenceType]
  /\ baseline \in [Reports -> SUBSET Reports] /\ cutoff \in [Reports -> SUBSET Reports]
  /\ prepared \in [Reports -> PayloadType]

HelpersTyped ==
  /\ output \in [Reports -> OutputType] /\ collector \in [Reports -> CollectorType]
  /\ incidents \in [Reports -> SUBSET Incidents]
  /\ games \subseteq ran /\ ran \subseteq Begun /\ server \in [Reports -> PayloadType]

ControlTyped ==
  /\ active \in 0 .. begun
  /\ finishing \in {"idle", "exited", "finalized", "observed", "stopped", "uploading"}
  /\ launch \in LaunchType /\ job \in JobType /\ debug \in DebugType
  /\ upload \in [Callers -> UploadType]

(* Who works on what: the launch, its session, the player's operation and the
   two uploads. *)
Control ==
  /\ active # 0 => app = "up" /\ launch.report = active /\ launch.pc # "idle"
  /\ active = 0 => finishing = "idle"
  /\ launch.pc # "idle" => app = "up" /\ launch.report \in Begun
  /\ launch.pc = "preparing" => finishing = "idle" /\ launch.report \notin ran
  /\ job.pc # "idle" => app = "up" /\ job.report \in Begun
  /\ upload["finish"].pc # "idle" <=> finishing = "uploading"
  /\ upload["finish"].pc # "idle" =>
       upload["finish"].report = active /\ report[active].consent
  /\ upload["recovery"].pc # "idle" =>
       app = "up" /\ active = 0 /\ upload["recovery"].report \in Begun

(* Where a report is in its life: every one, that of the session, and that of
   a manual report. *)
Shelved ==
  \A r \in Reports :
    /\ r \notin Begun => report[r] = Unbegun /\ incidents[r] = {}
    /\ r \in Begun => report[r].stage # "absent"
    /\ report[r].frozen => Ended(r)

Staged ==
  /\ active # 0 => ~report[active].manual
  /\ active # 0 =>
       (report[active].stage = "recording" <=> finishing \in {"idle", "exited"})
  /\ job.pc = "manual" =>
       /\ report[job.report].stage = "recording" /\ report[job.report].manual
       /\ job.report # active

(* What the helpers have written of a report, and what was collected of it. *)
Idle(r) == \A c \in Collectors : collector[r][c] = "off" /\ output[r][c] = "none"

Written ==
  /\ \A r \in Reports, c \in Collectors :
       /\ collector[r][c] # "off" =>
            active = r \/ ("died" \in incidents[r] /\ collector[r][c] = "running")
       /\ collector[r][c] = "starting" => output[r][c] = "none"
       /\ output[r][c] = "none" => evidence[r].files[c] = "none"
  /\ \A r \in Reports \ Begun : Idle(r)
  /\ launch.pc = "preparing" => Idle(launch.report)

(* How far the collectors of the session are, and who gathers beside finish(). *)
Gathered ==
  /\ finishing \in {"observed", "stopped", "uploading"} => collector[active]["observer"] = "off"
  /\ finishing \in {"stopped", "uploading"} => collector[active]["frames"] = "off"
  /\ job.pc \notin {"idle", "await"} /\ job.report = active /\ Finishing =>
       "overlap" \in incidents[active]
  /\ job.pc = "await" /\ job.report = active => Finishing
  /\ active # 0 /\ report[active].frozen =>
       finishing = "uploading" \/ "overlap" \in incidents[active]

(* The shared logs of a session that was begun alone and ended in time. *)
Own(r) == ~report[r].manual /\ incidents[r] \cap {"orphan", "stranger"} = {}

Logged ==
  \A r \in Reports : Own(r) =>
    /\ evidence[r].logs \subseteq {r} /\ cutoff[r] \subseteq {r}
    /\ report[r].stage = "recording" =>
         ran \ baseline[r] \subseteq {r} /\ (active = r \/ app = "down")

(* What was prepared is what was frozen, and what the server has. *)
Sent ==
  /\ \A c \in Callers :
       upload[c].pc \in {"send", "receipt"} => prepared[upload[c].report] # NoPayload
  /\ \A r \in Reports :
       /\ prepared[r] # NoPayload =>
            report[r].frozen /\ prepared[r].evidence = evidence[r]
       /\ server[r] \in {NoPayload, prepared[r]}

ReportsInv ==
  /\ DiskTyped /\ HelpersTyped /\ ControlTyped
  /\ Control /\ Shelved /\ Staged /\ Written /\ Gathered /\ Logged /\ Sent
  /\ StatusTellsSession /\ EvidenceComplete

-----------------------------------------------------------------------------
(* What the operations on reports do *)

(* What a report that has begun says when it begins. *)
Fresh(x, isManual, consents) ==
  /\ x \in ReportType /\ x.stage = "recording" /\ x.kind = "manual"
  /\ x.manual = isManual /\ x.consent = consents /\ x.frozen = FALSE
  /\ x.remote = FALSE /\ x.annotated = FALSE

(* Bounds, and what a report is before it begins. *)
LEMMA BegunTyped == begun \in 0 .. MaxReports => Begun \subseteq Reports
BY BoundAssumption DEF Begun, Reports

LEMMA UnbegunIs ==
  /\ Unbegun \in ReportType /\ Unbegun.stage = "absent" /\ Unbegun.kind = "manual"
  /\ Unbegun.frozen = FALSE /\ Unbegun.remote = FALSE /\ Unbegun.annotated = FALSE
  /\ Unbegun.manual = FALSE /\ Unbegun.consent = FALSE
BY DEF Unbegun, ReportType, Flags

(* A report that begins is a new one, at the recording. *)
LEMMA BeginEffect ==
  ASSUME DiskTyped, HelpersTyped, NEW isManual \in Flags, NEW consents \in Flags,
         NEW trouble \in {{}, {"orphan"}}, BeginReport(isManual, consents, trouble)
  PROVE  /\ DiskTyped' /\ incidents' \in [Reports -> SUBSET Incidents]
         /\ begun' = begun + 1 /\ begun' \in Reports /\ begun' \notin Begun
         /\ Begun' = Begun \cup {begun'}
         /\ UNCHANGED <<evidence, cutoff, prepared>>
         /\ \A r \in Reports \ {begun'} : /\ report'[r] = report[r]
                                          /\ baseline'[r] = baseline[r]
                                          /\ incidents'[r] = incidents[r]
         /\ Fresh(report'[begun'], isManual, consents)
         /\ incidents'[begun'] = trouble \cup IF games = {} THEN {} ELSE {"stranger"}
         /\ baseline'[begun'] = ran \ games
<1> DEFINE new == [Unbegun EXCEPT !.stage = "recording", !.manual = isManual,
                                  !.consent = consents]
<1>1. new \in ReportType
  BY UnbegunIs DEF ReportType
<1>2. /\ new.stage = "recording" /\ new.manual = isManual /\ new.consent = consents
      /\ new.kind = "manual" /\ new.frozen = FALSE /\ new.remote = FALSE
      /\ new.annotated = FALSE
  BY UnbegunIs DEF ReportType
<1>3. /\ begun' = begun + 1 /\ begun' \in Reports /\ begun' \notin Begun
      /\ Begun' = Begun \cup {begun'} /\ begun' \in 0 .. MaxReports
      /\ UNCHANGED <<evidence, cutoff, prepared>>
  BY BoundAssumption DEF BeginReport, DiskTyped, Begun, Reports
<1>4. report' = [report EXCEPT ![begun'] = new]
  BY <1>3 DEF BeginReport
<1> HIDE DEF new
<1>5. report' \in [Reports -> ReportType] /\ report'[begun'] = new
      /\ \A r \in Reports \ {begun'} : report'[r] = report[r]
  BY <1>1, <1>3, <1>4 DEF DiskTyped
<1>6. /\ baseline' \in [Reports -> SUBSET Reports] /\ baseline'[begun'] = ran \ games
      /\ \A r \in Reports \ {begun'} : baseline'[r] = baseline[r]
  <2>1. ran \ games \subseteq Reports
    BY BegunTyped DEF HelpersTyped, DiskTyped
  <2> QED BY <1>3, <2>1 DEF BeginReport, DiskTyped
<1>7. /\ incidents' \in [Reports -> SUBSET Incidents]
      /\ incidents'[begun'] = trouble \cup IF games = {} THEN {} ELSE {"stranger"}
      /\ \A r \in Reports \ {begun'} : incidents'[r] = incidents[r]
  BY <1>3 DEF BeginReport, HelpersTyped, Incidents
<1> QED BY <1>1, <1>2, <1>3, <1>5, <1>6, <1>7 DEF DiskTyped, Fresh

LEMMA EndedTyped == \A r : Ended(r) \in Flags
<1> TAKE r
<1>1. Ended(r) = TRUE \/ Ended(r) = FALSE
  BY DEF Ended
<1> QED BY <1>1, Zenon DEF Flags

LEMMA LogsTyped ==
  ASSUME DiskTyped, HelpersTyped, NEW r \in Reports
  PROVE  Logs(r) \subseteq Reports /\ ran \ baseline[r] \subseteq Reports
BY BegunTyped DEF Logs, DiskTyped, HelpersTyped

(* Collecting freezes a report that has ended, and changes no other. *)
LEMMA CollectEffect ==
  ASSUME DiskTyped, HelpersTyped, NEW r \in Reports, Collect(r),
         UNCHANGED <<begun, baseline, cutoff, prepared>>
  PROVE  /\ DiskTyped'
         /\ \A s \in Reports \ {r} : report'[s] = report[s] /\ evidence'[s] = evidence[s]
         /\ evidence'[r] = IF report[r].frozen THEN evidence[r] ELSE Collected(r)
         /\ report'[r].stage \in {report[r].stage, "settled"}
         /\ report'[r].stage = "recording" <=> report[r].stage = "recording"
         /\ report'[r].kind = report[r].kind /\ report'[r].manual = report[r].manual
         /\ report'[r].consent = report[r].consent /\ report'[r].remote = report[r].remote
         /\ report'[r].frozen <=> report[r].frozen \/ Ended(r)
<1>1. CASE report[r].frozen
  <2>1. UNCHANGED <<report, evidence>>
    BY <1>1 DEF Collect
  <2> QED BY <1>1, <2>1 DEF DiskTyped
<1>2. CASE ~report[r].frozen
  <2> DEFINE frozen == Ended(r)
             stage  == IF report[r].stage = "recording" THEN "recording" ELSE "settled"
             new    == [report[r] EXCEPT !.frozen = frozen, !.stage = stage]
  <2>1. report' = [report EXCEPT ![r] = new] /\ evidence' = [evidence EXCEPT ![r] = Collected(r)]
    BY <1>2 DEF Collect, DiskTyped
  <2>2. report[r] \in ReportType
    BY DEF DiskTyped
  <2>3. frozen \in Flags /\ stage \in {"recording", "settled"}
        /\ (stage = "recording" <=> report[r].stage = "recording")
    BY EndedTyped
  <2>4. frozen <=> Ended(r)
    OBVIOUS
  <2> HIDE DEF frozen, stage
  <2>5. new \in ReportType
    BY <2>2, <2>3 DEF ReportType
  <2>6. /\ new.frozen = frozen /\ new.stage = stage /\ new.kind = report[r].kind
        /\ new.manual = report[r].manual /\ new.consent = report[r].consent
        /\ new.remote = report[r].remote
    BY <2>2, <2>3 DEF ReportType
  <2> HIDE DEF new
  <2>7. Collected(r) \in EvidenceType
    <3>1. output[r] \in OutputType /\ evidence[r].files \in OutputType
          /\ evidence[r].logs \subseteq Reports
      BY DEF HelpersTyped, DiskTyped, EvidenceType
    <3>2. [c \in Collectors |-> IF output[r][c] = "none" THEN evidence[r].files[c]
                                ELSE output[r][c]] \in OutputType
      BY <3>1 DEF OutputType
    <3> QED BY <3>1, <3>2, LogsTyped DEF Collected, EvidenceType
  <2>8. /\ report' \in [Reports -> ReportType] /\ evidence' \in [Reports -> EvidenceType]
        /\ report'[r] = new /\ evidence'[r] = Collected(r)
        /\ \A s \in Reports \ {r} : report'[s] = report[s] /\ evidence'[s] = evidence[s]
    BY <2>1, <2>5, <2>7 DEF DiskTyped
  <2>9. DiskTyped'
    BY <2>8 DEF DiskTyped
  <2>10. report[r].stage = "recording" => new.stage = report[r].stage
    BY <2>3, <2>6
  <2> QED BY <1>2, <2>3, <2>4, <2>6, <2>8, <2>9, <2>10
<1> QED BY <1>1, <1>2

(* The end of a report is recorded with a verdict. *)
LEMMA EndEffect ==
  ASSUME DiskTyped, HelpersTyped, NEW r \in Reports,
         \/ report' = [report EXCEPT ![r].stage = "collecting", ![r].kind = "observed"]
         \/ report' = [report EXCEPT ![r].stage = "collecting"],
         cutoff' = [cutoff EXCEPT ![r] = ran \ baseline[r]],
         UNCHANGED <<begun, evidence, baseline, prepared>>
  PROVE  /\ DiskTyped'
         /\ \A s \in Reports \ {r} : report'[s] = report[s] /\ cutoff'[s] = cutoff[s]
         /\ cutoff'[r] = ran \ baseline[r]
         /\ report'[r].stage = "collecting"
         /\ report'[r].manual = report[r].manual /\ report'[r].consent = report[r].consent
         /\ report'[r].frozen = report[r].frozen /\ report'[r].remote = report[r].remote
<1>1. report[r] \in ReportType
  BY DEF DiskTyped
<1>2. PICK new \in ReportType :
        /\ report' = [report EXCEPT ![r] = new]
        /\ new.stage = "collecting"
        /\ new.manual = report[r].manual /\ new.consent = report[r].consent
        /\ new.frozen = report[r].frozen /\ new.remote = report[r].remote
  <2>1. CASE report' = [report EXCEPT ![r].stage = "collecting", ![r].kind = "observed"]
    <3> DEFINE new == [report[r] EXCEPT !.stage = "collecting", !.kind = "observed"]
    <3>1. new \in ReportType
      BY <1>1 DEF ReportType
    <3>2. /\ new.stage = "collecting"
          /\ new.manual = report[r].manual /\ new.consent = report[r].consent
          /\ new.frozen = report[r].frozen /\ new.remote = report[r].remote
      BY <1>1 DEF ReportType
    <3>3. report' = [report EXCEPT ![r] = new]
      BY <2>1 DEF DiskTyped
    <3> QED BY <3>1, <3>2, <3>3
  <2>2. CASE report' = [report EXCEPT ![r].stage = "collecting"]
    <3> DEFINE new == [report[r] EXCEPT !.stage = "collecting"]
    <3>1. new \in ReportType
      BY <1>1 DEF ReportType
    <3>2. /\ new.stage = "collecting"
          /\ new.manual = report[r].manual /\ new.consent = report[r].consent
          /\ new.frozen = report[r].frozen /\ new.remote = report[r].remote
      BY <1>1 DEF ReportType
    <3>3. report' = [report EXCEPT ![r] = new]
      BY <2>2 DEF DiskTyped
    <3> QED BY <3>1, <3>2, <3>3
  <2> QED BY <2>1, <2>2
<1>5. /\ report' \in [Reports -> ReportType] /\ report'[r] = new
      /\ \A s \in Reports \ {r} : report'[s] = report[s]
  BY <1>2 DEF DiskTyped
<1>7. /\ cutoff' \in [Reports -> SUBSET Reports] /\ cutoff'[r] = ran \ baseline[r]
      /\ \A s \in Reports \ {r} : cutoff'[s] = cutoff[s]
  BY LogsTyped DEF DiskTyped
<1>8. DiskTyped'
  BY <1>5, <1>7 DEF DiskTyped
<1> QED BY <1>2, <1>5, <1>7, <1>8

(* What a report says, but for its annotations and its receipt. *)
SameReport(s) ==
  /\ report'[s].stage = report[s].stage /\ report'[s].kind = report[s].kind
  /\ report'[s].manual = report[s].manual /\ report'[s].consent = report[s].consent
  /\ report'[s].frozen = report[s].frozen

(* An annotation and a receipt leave all of it. *)
LEMMA NoteEffect ==
  ASSUME DiskTyped, NEW r \in Reports, NEW flag \in Flags,
         \/ report' = [report EXCEPT ![r].annotated = flag]
         \/ report' = [report EXCEPT ![r].remote = flag],
         UNCHANGED <<begun, evidence, baseline, cutoff, prepared>>
  PROVE  /\ DiskTyped' /\ \A s \in Reports : SameReport(s)
         /\ \A s \in Reports \ {r} : report'[s] = report[s]
<1>1. report[r] \in ReportType
  BY DEF DiskTyped
<1>2. PICK new \in ReportType :
        /\ report' = [report EXCEPT ![r] = new]
        /\ new.stage = report[r].stage /\ new.kind = report[r].kind
        /\ new.manual = report[r].manual /\ new.consent = report[r].consent
        /\ new.frozen = report[r].frozen
  <2>1. CASE report' = [report EXCEPT ![r].annotated = flag]
    <3> DEFINE new == [report[r] EXCEPT !.annotated = flag]
    <3>1. new \in ReportType
      BY <1>1 DEF ReportType
    <3>2. /\ new.stage = report[r].stage /\ new.kind = report[r].kind
          /\ new.manual = report[r].manual /\ new.consent = report[r].consent
          /\ new.frozen = report[r].frozen
      BY <1>1 DEF ReportType
    <3>3. report' = [report EXCEPT ![r] = new]
      BY <2>1 DEF DiskTyped
    <3> QED BY <3>1, <3>2, <3>3
  <2>2. CASE report' = [report EXCEPT ![r].remote = flag]
    <3> DEFINE new == [report[r] EXCEPT !.remote = flag]
    <3>1. new \in ReportType
      BY <1>1 DEF ReportType
    <3>2. /\ new.stage = report[r].stage /\ new.kind = report[r].kind
          /\ new.manual = report[r].manual /\ new.consent = report[r].consent
          /\ new.frozen = report[r].frozen
      BY <1>1 DEF ReportType
    <3>3. report' = [report EXCEPT ![r] = new]
      BY <2>2 DEF DiskTyped
    <3> QED BY <3>1, <3>2, <3>3
  <2> QED BY <2>1, <2>2
<1>3. report' \in [Reports -> ReportType] /\ report'[r] = new
      /\ \A s \in Reports \ {r} : report'[s] = report[s]
  BY <1>2 DEF DiskTyped
<1>4. DiskTyped'
  BY <1>3 DEF DiskTyped
<1> QED BY <1>2, <1>3, <1>4 DEF SameReport

(* What a restart makes of a report. *)
LEMMA RecoveredIs ==
  ASSUME NEW x \in ReportType
  PROVE  /\ Recovered(x) \in ReportType
         /\ x.stage = "recording" =>
              Recovered(x).stage = "settled" /\ Recovered(x).kind = "interrupted"
         /\ x.stage = "collecting" =>
              Recovered(x).stage = "settled" /\ Recovered(x).kind = x.kind
         /\ x.stage \notin {"recording", "collecting"} => Recovered(x) = x
         /\ Recovered(x).manual = x.manual /\ Recovered(x).consent = x.consent
         /\ Recovered(x).frozen = x.frozen
<1>1. CASE x.stage = "recording"
  <2> DEFINE new == [x EXCEPT !.stage = "settled", !.kind = "interrupted"]
  <2>1. Recovered(x) = new
    BY <1>1 DEF Recovered
  <2>2. new \in ReportType
    BY DEF ReportType
  <2>3. /\ new.stage = "settled" /\ new.kind = "interrupted"
        /\ new.manual = x.manual /\ new.consent = x.consent /\ new.frozen = x.frozen
    BY DEF ReportType
  <2> HIDE DEF new
  <2> QED BY <1>1, <2>1, <2>2, <2>3
<1>2. CASE x.stage = "collecting"
  <2> DEFINE new == [x EXCEPT !.stage = "settled"]
  <2>1. Recovered(x) = new
    BY <1>2 DEF Recovered
  <2>2. new \in ReportType
    BY DEF ReportType
  <2>3. /\ new.stage = "settled" /\ new.kind = x.kind
        /\ new.manual = x.manual /\ new.consent = x.consent /\ new.frozen = x.frozen
    BY DEF ReportType
  <2> HIDE DEF new
  <2> QED BY <1>2, <2>1, <2>2, <2>3
<1>3. CASE x.stage \notin {"recording", "collecting"}
  BY <1>3 DEF Recovered
<1> QED BY <1>1, <1>2, <1>3

-----------------------------------------------------------------------------
(* What the invariant says of an operation *)

(* What follows at once from the invariant. *)
LEMMA Known ==
  ASSUME ReportsInv
  PROVE  /\ Begun \subseteq Reports /\ 0 \notin Reports /\ active \in Nat
         /\ begun \in Nat
         /\ active # 0 => active \in Begun
         /\ "finish" \in Callers /\ "recovery" \in Callers /\ "finish" # "recovery"
         /\ Callers = {"finish", "recovery"}
         /\ Collectors = {"observer", "frames"}
         /\ active # 0 => report[active].consent \in Flags
         /\ debug.enabled \in Flags
         /\ games \subseteq ran /\ ran \subseteq Begun
<1>1. Begun \subseteq Reports /\ 0 \notin Reports
  BY BegunTyped DEF ReportsInv, DiskTyped, Reports
<1>2. active \in Nat /\ begun \in Nat /\ (active # 0 => active \in Begun)
  BY BoundAssumption DEF ReportsInv, DiskTyped, ControlTyped, Begun
<1>3. ASSUME active # 0  PROVE report[active].consent \in Flags
  <2>1. report[active] \in ReportType
    BY <1>1, <1>2, <1>3 DEF ReportsInv, DiskTyped
  <2> QED BY <2>1 DEF ReportType
<1> QED BY <1>1, <1>2, <1>3 DEF Callers, Collectors, ReportsInv, ControlTyped,
                               DebugType, HelpersTyped

(* finish() of the session begins. *)
FinishStarts ==
  /\ finishing' = "exited" /\ debug' \in DebugType
  /\ report[active].consent => debug'.status = "preparing"
  /\ ~report[active].consent => debug' = debug
  /\ incidents' \in [Reports -> SUBSET Incidents]
  /\ \A s \in Reports \ {active} : incidents'[s] = incidents[s]
  /\ incidents'[active] \in {incidents[active], incidents[active] \cup {"overlap"}}
  /\ job.report = active => "overlap" \in incidents'[active]

LEMMA FinishEffect ==
  ASSUME ReportsInv, active # 0, StartFinish(active)
  PROVE  FinishStarts
<1>1. active \in Reports /\ incidents \in [Reports -> SUBSET Incidents] /\ debug \in DebugType
  BY Known DEF ReportsInv, HelpersTyped, ControlTyped
<1>2. debug' \in DebugType /\ finishing' = "exited"
      /\ (report[active].consent => debug'.status = "preparing")
      /\ (~report[active].consent => debug' = debug)
  BY <1>1 DEF StartFinish, DebugType
<1>3. /\ incidents' \in [Reports -> SUBSET Incidents]
      /\ \A s \in Reports \ {active} : incidents'[s] = incidents[s]
      /\ incidents'[active] \in {incidents[active], incidents[active] \cup {"overlap"}}
      /\ job.report = active => "overlap" \in incidents'[active]
  BY <1>1 DEF StartFinish, Incidents
<1> QED BY <1>2, <1>3 DEF FinishStarts

(* Stopping collectors of the session turns them off and loses no output. *)
LEMMA StopEffect ==
  ASSUME ReportsInv, active \in Reports, NEW cs, Stop(cs)
  PROVE  /\ collector' \in [Reports -> CollectorType] /\ output' \in [Reports -> OutputType]
         /\ \A s \in Reports \ {active} : collector'[s] = collector[s] /\ output'[s] = output[s]
         /\ \A c \in Collectors :
              /\ collector'[active][c] \in {"off", collector[active][c]}
              /\ c \in cs => collector'[active][c] = "off"
              /\ output'[active][c] = "none" <=> output[active][c] = "none"
<1> DEFINE off    == [c \in Collectors |-> IF c \in cs THEN "off" ELSE collector[active][c]]
           closed == [c \in Collectors |-> IF c \in cs /\ output[active][c] = "partial"
                                           THEN "final" ELSE output[active][c]]
<1>1. collector \in [Reports -> CollectorType] /\ output \in [Reports -> OutputType]
  BY DEF ReportsInv, HelpersTyped
<1>2. off \in CollectorType /\ closed \in OutputType
  BY <1>1 DEF CollectorType, OutputType
<1>3. /\ \A c \in Collectors : /\ off[c] \in {"off", collector[active][c]}
                               /\ c \in cs => off[c] = "off"
      /\ \A c \in Collectors : closed[c] = "none" <=> output[active][c] = "none"
  OBVIOUS
<1>4. /\ collector' = [collector EXCEPT ![active] = off]
      /\ output' = [output EXCEPT ![active] = closed]
  BY DEF Stop
<1> HIDE DEF off, closed
<1> QED BY <1>1, <1>2, <1>3, <1>4

(* Collecting a report that has begun: it stays what it was but for being
   frozen, and its logs stay its own.                                        *)
Gathers(r) ==
  /\ DiskTyped' /\ Begun' = Begun
  /\ UNCHANGED <<begun, baseline, cutoff, prepared>>
  /\ \A s \in Reports \ {r} : report'[s] = report[s] /\ evidence'[s] = evidence[s]
  /\ report'[r].stage = "recording" <=> report[r].stage = "recording"
  /\ report'[r].stage # "absent"
  /\ report'[r].manual = report[r].manual /\ report'[r].consent = report[r].consent
  /\ report[r].frozen => report'[r].frozen /\ evidence'[r] = evidence[r]
  /\ ~report[r].frozen => evidence'[r].files = output[r]
  /\ report'[r].frozen => report'[r].stage \in {"collecting", "settled"}
  /\ Own(r) => evidence'[r].logs \subseteq {r}
  /\ \A c \in Collectors : output[r][c] = "none" => evidence'[r].files[c] = "none"

LEMMA GatherEffect ==
  ASSUME ReportsInv, NEW r \in Begun, Collect(r),
         UNCHANGED <<begun, baseline, cutoff, prepared>>
  PROVE  Gathers(r) /\ (report'[r].frozen <=> report[r].frozen \/ Ended(r))
<1>1. r \in Reports /\ report[r].stage # "absent" /\ report[r] \in ReportType
      /\ (report[r].frozen => Ended(r))
  BY Known DEF ReportsInv, DiskTyped, Shelved
<1>2. /\ DiskTyped'
      /\ \A s \in Reports \ {r} : report'[s] = report[s] /\ evidence'[s] = evidence[s]
      /\ evidence'[r] = IF report[r].frozen THEN evidence[r] ELSE Collected(r)
      /\ report'[r].stage \in {report[r].stage, "settled"}
      /\ report'[r].stage = "recording" <=> report[r].stage = "recording"
      /\ report'[r].manual = report[r].manual /\ report'[r].consent = report[r].consent
      /\ report'[r].frozen <=> report[r].frozen \/ Ended(r)
  BY <1>1, CollectEffect DEF ReportsInv
<1>3. Ended(r) <=> report[r].stage # "recording"
  BY <1>1 DEF Ended, ReportType
<1>4. Own(r) => evidence[r].logs \subseteq {r} /\ Logs(r) \subseteq {r}
  BY <1>1, <1>3 DEF ReportsInv, Logged, Logs
<1>5. Own(r) => evidence'[r].logs \subseteq {r}
  <2>1. CASE report[r].frozen
    BY <2>1, <1>2, <1>4
  <2>2. CASE ~report[r].frozen
    <3>1. evidence'[r].logs = evidence[r].logs \cup Logs(r)
      BY <2>2, <1>2 DEF Collected
    <3> QED BY <3>1, <1>4
  <2> QED BY <2>1, <2>2
<1>6. \A c \in Collectors : output[r][c] = "none" => evidence'[r].files[c] = "none"
  <2>1. TAKE c \in Collectors
  <2>2. HAVE output[r][c] = "none"
  <2>3. evidence[r].files[c] = "none"
    BY <1>1, <2>2 DEF ReportsInv, Written
  <2>4. CASE report[r].frozen
    BY <2>4, <2>3, <1>2
  <2>5. CASE ~report[r].frozen
    <3>1. evidence'[r].files =
        [d \in Collectors |-> IF output[r][d] = "none" THEN evidence[r].files[d]
                              ELSE output[r][d]]
      BY <2>5, <1>2 DEF Collected
    <3> QED BY <3>1, <2>2, <2>3
  <2> QED BY <2>4, <2>5
<1>7. ASSUME ~report[r].frozen  PROVE evidence'[r].files = output[r]
  <2>1. evidence'[r].files =
        [d \in Collectors |-> IF output[r][d] = "none" THEN evidence[r].files[d]
                              ELSE output[r][d]]
    BY <1>7, <1>2 DEF Collected
  <2>2. \A d \in Collectors : output[r][d] = "none" => evidence[r].files[d] = "none"
    BY <1>1 DEF ReportsInv, Written
  <2>3. output[r] \in OutputType
    BY <1>1 DEF ReportsInv, HelpersTyped
  <2> QED BY <2>1, <2>2, <2>3 DEF OutputType
<1>8. /\ report'[r].stage # "absent"
      /\ report'[r].frozen => report'[r].stage \in {"collecting", "settled"}
      /\ report[r].frozen => report'[r].frozen /\ evidence'[r] = evidence[r]
  BY <1>1, <1>2 DEF Ended
<1> QED BY <1>2, <1>5, <1>6, <1>7, <1>8 DEF Gathers, Begun

(* An upload that ends leaves no session, and none that is sent. *)
LEMMA SettleEffect ==
  ASSUME ReportsInv, NEW c \in Callers, upload[c].pc # "idle",
         NEW status \in {"ready", "error"},
         Settle(c, status)
  PROVE  /\ active' = 0 /\ finishing' = "idle"
         /\ finishing \in {"idle", "uploading"} /\ (finishing = "idle" => active = 0)
         /\ debug' \in DebugType /\ debug'.status = status
         /\ upload' \in [Callers -> UploadType] /\ \A d \in Callers : upload'[d].pc = "idle"
<1>1. upload \in [Callers -> UploadType] /\ debug \in DebugType /\ NoUpload \in UploadType
      /\ NoUpload.pc = "idle"
  BY BoundAssumption DEF ReportsInv, ControlTyped, NoUpload, UploadType
<1>2. debug' \in DebugType /\ debug'.status = status
  BY <1>1 DEF Settle, DebugType
<1>3. upload' = [upload EXCEPT ![c] = NoUpload]
  BY DEF Settle
<1>4. CASE c = "finish"
  <2>1. finishing = "uploading" /\ active # 0 /\ upload["recovery"].pc = "idle"
    BY <1>4 DEF ReportsInv, Control
  <2>2. active' = 0 /\ finishing' = "idle"
    BY <1>4 DEF Settle, EndFinish
  <2> QED BY <1>1, <1>2, <1>3, <1>4, <2>1, <2>2 DEF Callers
<1>5. CASE c = "recovery"
  <2>1. finishing = "idle" /\ active = 0 /\ upload["finish"].pc = "idle"
    BY <1>5 DEF ReportsInv, Control
  <2>2. active' = 0 /\ finishing' = "idle"
    BY <1>5, <2>1 DEF Settle
  <2> QED BY <1>1, <1>2, <1>3, <1>5, <2>1, <2>2 DEF Callers
<1> QED BY <1>4, <1>5 DEF Callers

-----------------------------------------------------------------------------
(* Every step keeps the invariant *)

(* A launch begins with a session of its own. *)
LEMMA StepBeginLaunch ==
  ASSUME ReportsInv, BeginLaunch
  PROVE  ReportsInv'
<1> USE Known DEF ReportsInv
<1>1. BeginReport(FALSE, debug.enabled, {})
  BY DEF BeginLaunch
<1>2. /\ DiskTyped' /\ incidents' \in [Reports -> SUBSET Incidents]
      /\ begun' = begun + 1 /\ begun' \in Reports /\ begun' \notin Begun
      /\ Begun' = Begun \cup {begun'} /\ UNCHANGED <<evidence, cutoff, prepared>>
      /\ \A s \in Reports \ {begun'} :
           report'[s] = report[s] /\ baseline'[s] = baseline[s] /\ incidents'[s] = incidents[s]
      /\ Fresh(report'[begun'], FALSE, debug.enabled)
      /\ incidents'[begun'] = {} \cup IF games = {} THEN {} ELSE {"stranger"}
      /\ baseline'[begun'] = ran \ games
  BY <1>1, BeginEffect DEF Flags
<1>3. /\ begun' # 0 /\ report[begun'] = Unbegun /\ incidents[begun'] = {}
      /\ ~Unbegun.frozen /\ ~Unbegun.manual /\ report'[begun'].stage = "recording"
      /\ report'[begun'].manual = FALSE /\ report'[begun'].frozen = FALSE
      /\ report'[begun'].consent = debug.enabled
      /\ games # {} => "stranger" \in incidents'[begun']
  BY <1>2, UnbegunIs DEF Shelved, Fresh
<1>4. /\ app = "up" /\ launch.pc = "idle" /\ active = 0 /\ debug.status # "preparing"
      /\ active' = begun'
      /\ UNCHANGED <<app, output, collector, ran, games, finishing, job, upload,
                     server>>
  BY <1>2 DEF BeginLaunch, processVars, helperVars, gameVars
<1>5. launch' \in LaunchType /\ launch'.pc = "preparing" /\ launch'.report = begun'
  BY <1>2 DEF BeginLaunch, LaunchType, Reports
<1>6. /\ debug' \in DebugType
      /\ debug.enabled => debug'.status = "recording"
      /\ ~debug.enabled => debug'.status = debug.status
  BY DEF BeginLaunch, ControlTyped, DebugType
<1>7. DiskTyped'
  BY <1>1, <1>2, <1>3, <1>4, <1>5, <1>6 DEF DiskTyped
<1>8. HelpersTyped'
  BY <1>1, <1>2, <1>3, <1>4, <1>5, <1>6 DEF HelpersTyped
<1>9. ControlTyped'
  BY <1>1, <1>2, <1>3, <1>4, <1>5, <1>6 DEF ControlTyped
<1>10. Control'
  BY <1>1, <1>2, <1>3, <1>4, <1>5, <1>6 DEF Control, StatusTellsSession
<1>11. Shelved'
  BY <1>1, <1>2, <1>3, <1>4, <1>5, <1>6 DEF Shelved, Ended
<1>12. Staged'
  BY <1>1, <1>2, <1>3, <1>4, <1>5, <1>6 DEF Control, Staged
<1>13. Written'
  BY <1>1, <1>2, <1>3, <1>4, <1>5, <1>6 DEF Control, Written, Idle
<1>14. Gathered'
  BY <1>1, <1>2, <1>3, <1>4, <1>5, <1>6 DEF Control, Gathered, Finishing
<1>15. Logged'
  BY <1>1, <1>2, <1>3, <1>4, <1>5, <1>6 DEF Logged, Own
<1>16. Sent'
  BY <1>1, <1>2, <1>3, <1>4, <1>5, <1>6 DEF Sent
<1>17. StatusTellsSession'
  BY <1>1, <1>2, <1>3, <1>4, <1>5, <1>6 DEF Control, StatusTellsSession, Finishing
<1>18. EvidenceComplete'
  BY <1>1, <1>2, <1>3, <1>4, <1>5, <1>6
     DEF Control, Shelved, Written, Gathered, Finishing, EvidenceComplete
<1> QED BY <1>7, <1>8, <1>9, <1>10, <1>11, <1>12, <1>13, <1>14, <1>15, <1>16, <1>17, <1>18

(* A launch goes on without the session that could not be begun. *)
LEMMA StepBeginLaunchFails ==
  ASSUME ReportsInv, BeginLaunchFails
  PROVE  ReportsInv'
<1> USE Known DEF ReportsInv
<1>1. BeginReport(FALSE, debug.enabled, {"orphan"})
  BY DEF BeginLaunchFails
<1>2. /\ DiskTyped' /\ incidents' \in [Reports -> SUBSET Incidents]
      /\ begun' = begun + 1 /\ begun' \in Reports /\ begun' \notin Begun
      /\ Begun' = Begun \cup {begun'} /\ UNCHANGED <<evidence, cutoff, prepared>>
      /\ \A s \in Reports \ {begun'} :
           report'[s] = report[s] /\ baseline'[s] = baseline[s] /\ incidents'[s] = incidents[s]
      /\ Fresh(report'[begun'], FALSE, debug.enabled)
      /\ incidents'[begun'] = {"orphan"} \cup IF games = {} THEN {} ELSE {"stranger"}
      /\ baseline'[begun'] = ran \ games
  BY <1>1, BeginEffect DEF Flags
<1>3. /\ begun' # 0 /\ report[begun'] = Unbegun /\ incidents[begun'] = {}
      /\ ~Unbegun.frozen /\ ~Unbegun.manual /\ report'[begun'].stage = "recording"
      /\ report'[begun'].manual = FALSE /\ report'[begun'].frozen = FALSE
      /\ report'[begun'].consent = debug.enabled
      /\ games # {} => "stranger" \in incidents'[begun']
      /\ "orphan" \in incidents'[begun']
  BY <1>2, UnbegunIs DEF Shelved, Fresh
<1>4. /\ app = "up" /\ launch.pc = "idle" /\ active = 0 /\ debug.status # "preparing"
      /\ UNCHANGED <<app, output, collector, ran, games, active, finishing, job, upload,
                     server>>
  BY DEF BeginLaunchFails, helperVars, gameVars
<1>5. launch' \in LaunchType /\ launch'.pc = "preparing" /\ launch'.report = begun'
  BY <1>2 DEF BeginLaunchFails, LaunchType, Reports
<1>6. /\ debug' \in DebugType
      /\ debug'.status \in {"error", debug.status}
  BY DEF BeginLaunchFails, ControlTyped, DebugType
<1>7. DiskTyped'
  BY <1>1, <1>2, <1>3, <1>4, <1>5, <1>6 DEF DiskTyped
<1>8. HelpersTyped'
  BY <1>1, <1>2, <1>3, <1>4, <1>5, <1>6 DEF HelpersTyped
<1>9. ControlTyped'
  BY <1>1, <1>2, <1>3, <1>4, <1>5, <1>6 DEF ControlTyped
<1>10. Control'
  BY <1>1, <1>2, <1>3, <1>4, <1>5, <1>6 DEF Control, StatusTellsSession
<1>11. Shelved'
  BY <1>1, <1>2, <1>3, <1>4, <1>5, <1>6 DEF Shelved, Ended
<1>12. Staged'
  BY <1>1, <1>2, <1>3, <1>4, <1>5, <1>6 DEF Control, Staged
<1>13. Written'
  BY <1>1, <1>2, <1>3, <1>4, <1>5, <1>6 DEF Control, Written, Idle
<1>14. Gathered'
  BY <1>1, <1>2, <1>3, <1>4, <1>5, <1>6 DEF Control, Gathered, Finishing
<1>15. Logged'
  BY <1>1, <1>2, <1>3, <1>4, <1>5, <1>6 DEF Logged, Own
<1>16. Sent'
  BY <1>1, <1>2, <1>3, <1>4, <1>5, <1>6 DEF Sent
<1>17. StatusTellsSession'
  BY <1>1, <1>2, <1>3, <1>4, <1>5, <1>6 DEF Control, StatusTellsSession, Finishing
<1>18. EvidenceComplete'
  BY <1>1, <1>2, <1>3, <1>4, <1>5, <1>6
     DEF Control, Shelved, Written, Gathered, Finishing, EvidenceComplete
<1> QED BY <1>7, <1>8, <1>9, <1>10, <1>11, <1>12, <1>13, <1>14, <1>15, <1>16, <1>17, <1>18

(* A launch that ends before its game ends its session. *)
LEMMA StepLaunchFails ==
  ASSUME ReportsInv, LaunchFails
  PROVE  ReportsInv'
<1> USE Known DEF ReportsInv
<1>1. /\ launch.pc = "preparing" /\ launch'.pc = "running" /\ launch'.report = launch.report
      /\ launch' \in LaunchType
      /\ Begun' = Begun
      /\ UNCHANGED <<app, begun, report, evidence, baseline, cutoff, prepared, output,
                     collector, ran, games, active, job, upload, server>>
  BY DEF Begun, LaunchFails, processVars, diskVars, helperVars, gameVars, ControlTyped, LaunchType
<1>2. \/ active # launch.report /\ UNCHANGED <<finishing, debug, incidents>>
      \/ active # 0 /\ finishing = "idle" /\ FinishStarts
  BY <1>1, FinishEffect DEF LaunchFails, Control
<1>3. (DiskTyped /\ Sent)'
  BY <1>1 DEF DiskTyped, Sent
<1>4. HelpersTyped'
  BY <1>1, <1>2 DEF HelpersTyped, FinishStarts
<1>5. ControlTyped'
  BY <1>1, <1>2 DEF ControlTyped, FinishStarts
<1>6. Control'
  BY <1>1, <1>2 DEF Control, StatusTellsSession, FinishStarts
<1>7. Shelved'
  BY <1>1, <1>2 DEF Shelved, Ended, FinishStarts
<1>8. Staged'
  BY <1>1, <1>2 DEF Control, Staged, FinishStarts
<1>9. Written'
  BY <1>1, <1>2 DEF Control, Written, Idle, FinishStarts
<1>10. Gathered'
  BY <1>1, <1>2 DEF Control, Gathered, Finishing, FinishStarts
<1>11. Logged'
  BY <1>1, <1>2 DEF Logged, Own, FinishStarts
<1>12. StatusTellsSession'
  BY <1>1, <1>2 DEF Control, StatusTellsSession, Finishing, FinishStarts
<1>13. EvidenceComplete'
  BY <1>1, <1>2
     DEF Control, Shelved, Written, Gathered, Finishing, EvidenceComplete, FinishStarts
<1> QED BY <1>3, <1>4, <1>5, <1>6, <1>7, <1>8, <1>9, <1>10, <1>11, <1>12, <1>13

(* The exit of a game ends the session that records it. *)
LEMMA StepGameExits ==
  ASSUME ReportsInv, NEW r \in Reports, GameExits(r)
  PROVE  ReportsInv'
<1> USE Known DEF ReportsInv
<1>1. /\ r \in games /\ games' = games \ {r}
      /\ Begun' = Begun
      /\ UNCHANGED <<app, begun, report, evidence, baseline, cutoff, prepared, output,
                     collector, ran, launch, active, job, upload, server>>
  BY DEF Begun, GameExits, processVars, diskVars, helperVars
<1>2. \/ UNCHANGED <<finishing, debug, incidents>>
      \/ active # 0 /\ finishing = "idle" /\ launch.pc = "running" /\ FinishStarts
  BY <1>1, FinishEffect DEF GameExits, Control, ControlTyped, LaunchType, Finishing
<1>3. (DiskTyped /\ Sent)'
  BY <1>1 DEF DiskTyped, Sent
<1>4. HelpersTyped'
  BY <1>1, <1>2 DEF HelpersTyped, FinishStarts
<1>5. ControlTyped'
  BY <1>1, <1>2 DEF ControlTyped, FinishStarts
<1>6. Control'
  BY <1>1, <1>2 DEF Control, StatusTellsSession, FinishStarts
<1>7. Shelved'
  BY <1>1, <1>2 DEF Shelved, Ended, FinishStarts
<1>8. Staged'
  BY <1>1, <1>2 DEF Control, Staged, FinishStarts
<1>9. Written'
  BY <1>1, <1>2 DEF Control, Written, Idle, FinishStarts
<1>10. Gathered'
  BY <1>1, <1>2 DEF Control, Gathered, Finishing, FinishStarts
<1>11. Logged'
  BY <1>1, <1>2 DEF Logged, Own, FinishStarts
<1>12. StatusTellsSession'
  BY <1>1, <1>2 DEF Control, StatusTellsSession, Finishing, FinishStarts
<1>13. EvidenceComplete'
  BY <1>1, <1>2
     DEF Control, Shelved, Written, Gathered, Finishing, EvidenceComplete, FinishStarts
<1> QED BY <1>3, <1>4, <1>5, <1>6, <1>7, <1>8, <1>9, <1>10, <1>11, <1>12, <1>13

(* The play handler returns. *)
LEMMA StepLaunchOver ==
  ASSUME ReportsInv, LaunchOver
  PROVE  ReportsInv'
<1> USE Known DEF ReportsInv
<1>1. /\ launch' \in LaunchType /\ launch'.pc = "idle" /\ launch'.report = 0
      /\ launch.pc = "running" /\ launch.report # active
      /\ Begun' = Begun
      /\ UNCHANGED <<app, begun, report, evidence, baseline, cutoff, prepared, output,
                     collector, ran, games, active, finishing, debug, job, upload,
                     server, incidents>>
  BY BoundAssumption
     DEF Begun, LaunchOver, processVars, diskVars, helperVars, gameVars, LaunchType,
         NoLaunch
<1>2. (DiskTyped /\ HelpersTyped /\ Shelved /\ Staged /\ Gathered /\ Logged /\ Sent /\
       StatusTellsSession /\ EvidenceComplete)'
  BY <1>1
     DEF DiskTyped, HelpersTyped, Shelved, Ended, Staged, Gathered, Finishing, Logged, Own, Sent,
         StatusTellsSession, EvidenceComplete
<1>3. ControlTyped'
  BY <1>1 DEF ControlTyped
<1>4. Control'
  BY <1>1 DEF Control, StatusTellsSession
<1>5. Written'
  BY <1>1 DEF Control, Written, Idle
<1> QED BY <1>2, <1>3, <1>4, <1>5

(* The game starts, and with it the collectors of its session. *)
LEMMA StepSpawn ==
  ASSUME ReportsInv, NEW r \in Reports, Spawn(r)
  PROVE  ReportsInv'
<1> USE Known DEF ReportsInv
<1>1. /\ launch.pc = "preparing" /\ launch.report = r /\ r \in Begun
      /\ launch'.pc = "running" /\ launch'.report = r /\ launch' \in LaunchType
      /\ games' = games \cup {r} /\ ran' = ran \cup {r}
      /\ Begun' = Begun
      /\ UNCHANGED <<app, begun, report, evidence, baseline, cutoff, prepared, output,
                     active, finishing, debug, job, upload, server, incidents>>
  BY DEF Begun, Spawn, processVars, diskVars, Control, LaunchType, ControlTyped
<1>2. /\ collector' \in [Reports -> CollectorType]
      /\ active # r => collector' = collector
      /\ \A s \in Reports \ {r} : collector'[s] = collector[s]
      /\ active = r => \A c \in Collectors : collector'[r][c] \in {"off", "starting"}
  BY DEF Spawn, HelpersTyped, CollectorType
<1>3. (DiskTyped /\ Shelved /\ Staged /\ Sent /\ StatusTellsSession /\
       EvidenceComplete)'
  BY <1>1
     DEF DiskTyped, Shelved, Ended, Staged, Sent, StatusTellsSession, Finishing, EvidenceComplete
<1>4. HelpersTyped'
  BY <1>1, <1>2 DEF HelpersTyped
<1>5. ControlTyped'
  BY <1>1, <1>2 DEF ControlTyped
<1>6. Control'
  BY <1>1, <1>2 DEF Control, StatusTellsSession
<1>7. Written'
  BY <1>1, <1>2 DEF Control, Written, Idle
<1>8. Gathered'
  BY <1>1, <1>2 DEF Control, Gathered, Finishing
<1>9. Logged'
  <2>1. ASSUME NEW s \in Reports, Own(s)', (report[s].stage = "recording")'
        PROVE  s = r /\ ran' \ baseline'[s] \subseteq {s} /\ active' = s
    <3>1. Own(s) /\ report[s].stage = "recording" /\ app = "up"
      BY <1>1, <2>1 DEF Own, Control
    <3>2. active = s /\ ran \ baseline[s] \subseteq {s}
      BY <3>1 DEF Logged
    <3>3. s = r
      BY <1>1, <3>2, <2>1 DEF Control
    <3> QED BY <1>1, <3>2, <3>3
  <2> QED BY <1>1, <2>1 DEF Logged, Own
<1> QED BY <1>3, <1>4, <1>5, <1>6, <1>7, <1>8, <1>9

(* A collector of the session is spawned, or is not available. *)
LEMMA StepCollectorStarts ==
  ASSUME ReportsInv, NEW r \in Reports, NEW c \in Collectors, CollectorStarts(r, c)
  PROVE  ReportsInv'
<1> USE Known DEF ReportsInv
<1>1. /\ app = "up" /\ collector[r][c] = "starting"
      /\ Begun' = Begun
      /\ UNCHANGED <<app, begun, report, evidence, baseline, cutoff, prepared, ran,
                     games, launch, active, finishing, debug, job, upload, server,
                     incidents>>
  BY DEF Begun, CollectorStarts, diskVars, gameVars, sessionVars
<1>2. /\ collector'[r][c] \in {"running", "off"} /\ output'[r][c] \in {"none", "partial", "final"}
      /\ collector' \in [Reports -> CollectorType] /\ output' \in [Reports -> OutputType]
      /\ \A s \in Reports, d \in Collectors : s # r \/ d # c =>
           collector'[s][d] = collector[s][d] /\ output'[s][d] = output[s][d]
      /\ \A s \in Reports \ {r} : output'[s] = output[s]
  <2>1. PICK x \in {"running", "off"}, y \in {"none", "partial", "final"} :
          collector' = [collector EXCEPT ![r][c] = x] /\ output' = [output EXCEPT ![r][c] = y]
    BY DEF CollectorStarts
  <2> QED BY <2>1 DEF HelpersTyped, CollectorType, OutputType
<1>3. active = r /\ output[r][c] = "none" /\ evidence[r].files[c] = "none"
  BY <1>1 DEF Written
<1>4. (DiskTyped /\ ControlTyped /\ Control /\ Shelved /\ Staged /\ Logged /\ Sent /\
       StatusTellsSession)'
  BY <1>1
     DEF DiskTyped, ControlTyped, Control, Shelved, Ended, Staged, Logged, Own, Sent,
         StatusTellsSession, Finishing
<1>5. HelpersTyped'
  BY <1>1, <1>2, <1>3 DEF HelpersTyped
<1>6. Written'
  BY <1>1, <1>2, <1>3 DEF Control, Written, Idle
<1>7. Gathered'
  BY <1>1, <1>2, <1>3 DEF Control, Gathered, Finishing
<1>8. EvidenceComplete'
  BY <1>1, <1>2, <1>3
     DEF Control, Shelved, Written, Gathered, Finishing, EvidenceComplete
<1> QED BY <1>4, <1>5, <1>6, <1>7, <1>8

(* A collector ends by itself. *)
LEMMA StepCollectorEnds ==
  ASSUME ReportsInv, NEW r \in Reports, NEW c \in Collectors, CollectorEnds(r, c)
  PROVE  ReportsInv'
<1> USE Known DEF ReportsInv
<1>1. /\ collector[r][c] = "running"
      /\ Begun' = Begun
      /\ UNCHANGED <<app, begun, report, evidence, baseline, cutoff, prepared, ran,
                     games, launch, active, finishing, debug, job, upload, server,
                     incidents>>
  BY DEF Begun, CollectorEnds, diskVars, gameVars, sessionVars
<1>2. /\ collector'[r][c] = "off" /\ output'[r][c] = "final"
      /\ collector' \in [Reports -> CollectorType] /\ output' \in [Reports -> OutputType]
      /\ \A s \in Reports, d \in Collectors : s # r \/ d # c =>
           collector'[s][d] = collector[s][d] /\ output'[s][d] = output[s][d]
      /\ \A s \in Reports \ {r} : output'[s] = output[s]
  BY DEF CollectorEnds, HelpersTyped, CollectorType, OutputType
<1>3. (DiskTyped /\ ControlTyped /\ Control /\ Shelved /\ Staged /\ Logged /\ Sent /\
       StatusTellsSession)'
  BY <1>1
     DEF DiskTyped, ControlTyped, Control, Shelved, Ended, Staged, Logged, Own, Sent,
         StatusTellsSession, Finishing
<1>4. HelpersTyped'
  BY <1>1, <1>2 DEF HelpersTyped
<1>5. Written'
  BY <1>1, <1>2 DEF Control, Written, Idle
<1>6. Gathered'
  BY <1>1, <1>2 DEF Control, Gathered, Finishing
<1>7. EvidenceComplete'
  BY <1>1, <1>2 DEF Control, Shelved, Written, Gathered, Finishing, EvidenceComplete
<1> QED BY <1>3, <1>4, <1>5, <1>6, <1>7

(* A capture or a crash report of the session that is recorded. *)
LEMMA StepStartOnActive ==
  ASSUME ReportsInv, NEW goal \in {"capture", "crash"}, StartOnActive(goal)
  PROVE  ReportsInv'
<1> USE Known DEF ReportsInv
<1>1. /\ app = "up" /\ active # 0 /\ job.pc = "idle"
      /\ Begun' = Begun
      /\ UNCHANGED <<app, begun, report, evidence, baseline, cutoff, prepared, output,
                     collector, ran, games, launch, active, finishing, upload, server,
                     incidents, debug>>
  BY DEF Begun, StartOnActive, StartJob, diskVars, helperVars, gameVars, sessionVars
<1>2. /\ job' \in JobType /\ job'.report = active
      /\ job'.pc = IF Finishing THEN "await" ELSE "capture"
  BY <1>1, BoundAssumption DEF StartOnActive, JobType, Finishing, Reports
<1>3. (DiskTyped /\ HelpersTyped /\ Shelved /\ Written /\ Logged /\ Sent /\
       StatusTellsSession /\ EvidenceComplete)'
  BY <1>1
     DEF DiskTyped, HelpersTyped, Shelved, Ended, Written, Idle, Logged, Own, Sent,
         StatusTellsSession, Finishing, EvidenceComplete
<1>4. ControlTyped'
  BY <1>1, <1>2 DEF ControlTyped
<1>5. Control'
  BY <1>1, <1>2 DEF Control, StatusTellsSession
<1>6. Staged'
  BY <1>1, <1>2 DEF Control, Staged
<1>7. Gathered'
  BY <1>1, <1>2 DEF Control, Gathered, Finishing
<1> QED BY <1>3, <1>4, <1>5, <1>6, <1>7

(* An export of any report. *)
LEMMA StepStartExport ==
  ASSUME ReportsInv, NEW r \in Reports, StartExport(r)
  PROVE  ReportsInv'
<1> USE Known DEF ReportsInv
<1>1. /\ app = "up" /\ r \in Begun /\ job.pc = "idle"
      /\ Begun' = Begun
      /\ UNCHANGED <<app, begun, report, evidence, baseline, cutoff, prepared, output,
                     collector, ran, games, launch, active, finishing, upload, server,
                     incidents, debug>>
  BY DEF Begun, Reports, StartExport, StartJob, diskVars, helperVars, gameVars, sessionVars
<1>2. /\ job' \in JobType /\ job'.report = r
      /\ job'.pc = IF active = r /\ Finishing THEN "await" ELSE "export"
  BY <1>1, BoundAssumption DEF StartExport, JobType, Finishing, Reports
<1>3. (DiskTyped /\ HelpersTyped /\ Shelved /\ Written /\ Logged /\ Sent /\
       StatusTellsSession /\ EvidenceComplete)'
  BY <1>1
     DEF DiskTyped, HelpersTyped, Shelved, Ended, Written, Idle, Logged, Own, Sent,
         StatusTellsSession, Finishing, EvidenceComplete
<1>4. ControlTyped'
  BY <1>1, <1>2 DEF ControlTyped
<1>5. Control'
  BY <1>1, <1>2 DEF Control, StatusTellsSession
<1>6. Staged'
  BY <1>1, <1>2 DEF Control, Staged
<1>7. Gathered'
  BY <1>1, <1>2 DEF Control, Gathered, Finishing
<1> QED BY <1>3, <1>4, <1>5, <1>6, <1>7

(* A crash report of the latest game. *)
LEMMA StepStartCrashReport ==
  ASSUME ReportsInv, StartCrashReport
  PROVE  ReportsInv'
<1> USE Known DEF ReportsInv
<1>1. /\ app = "up" /\ active = 0 /\ job.pc = "idle"
      /\ Begun' = Begun
      /\ UNCHANGED <<app, begun, report, evidence, baseline, cutoff, prepared, output,
                     collector, ran, games, launch, active, finishing, upload, server,
                     incidents, debug>>
  BY DEF Begun, StartCrashReport, StartJob, diskVars, helperVars, gameVars, sessionVars
<1>2. PICK r \in Begun : job' = [pc |-> "export", goal |-> "crash", report |-> r]
  BY DEF StartCrashReport, Sessions, Begun
<1>3. job' \in JobType /\ job'.report = r /\ job'.pc = "export"
  BY <1>2, BoundAssumption DEF JobType, Reports
<1>4. (DiskTyped /\ HelpersTyped /\ Shelved /\ Written /\ Logged /\ Sent /\
       StatusTellsSession /\ EvidenceComplete)'
  BY <1>1
     DEF DiskTyped, HelpersTyped, Shelved, Ended, Written, Idle, Logged, Own, Sent,
         StatusTellsSession, Finishing, EvidenceComplete
<1>5. ControlTyped'
  BY <1>1, <1>2, <1>3 DEF ControlTyped
<1>6. Control'
  BY <1>1, <1>2, <1>3 DEF Control, StatusTellsSession
<1>7. Staged'
  BY <1>1, <1>2, <1>3 DEF Control, Staged
<1>8. Gathered'
  BY <1>1, <1>2, <1>3 DEF Control, Gathered, Finishing
<1> QED BY <1>4, <1>5, <1>6, <1>7, <1>8

(* A report of its own for a capture without a session. *)
LEMMA StepStartManual ==
  ASSUME ReportsInv, NEW goal \in {"capture", "crash"}, StartManual(goal)
  PROVE  ReportsInv'
<1> USE Known DEF ReportsInv
<1>1. BeginReport(TRUE, FALSE, {})
  BY DEF StartManual
<1>2. /\ DiskTyped' /\ incidents' \in [Reports -> SUBSET Incidents]
      /\ begun' = begun + 1 /\ begun' \in Reports /\ begun' \notin Begun
      /\ Begun' = Begun \cup {begun'} /\ UNCHANGED <<evidence, cutoff, prepared>>
      /\ \A s \in Reports \ {begun'} :
           report'[s] = report[s] /\ baseline'[s] = baseline[s] /\ incidents'[s] = incidents[s]
      /\ Fresh(report'[begun'], TRUE, FALSE)
      /\ incidents'[begun'] = {} \cup IF games = {} THEN {} ELSE {"stranger"}
      /\ baseline'[begun'] = ran \ games
  BY <1>1, BeginEffect DEF Flags
<1>3. /\ begun' # 0 /\ report[begun'] = Unbegun /\ incidents[begun'] = {}
      /\ ~Unbegun.frozen /\ ~Unbegun.manual /\ report'[begun'].stage = "recording"
      /\ report'[begun'].manual = TRUE /\ report'[begun'].frozen = FALSE
      /\ report'[begun'].consent = FALSE
      /\ games # {} => "stranger" \in incidents'[begun']
  BY <1>2, UnbegunIs DEF Shelved, Fresh
<1>4. /\ app = "up" /\ active = 0 /\ job.pc = "idle"
      /\ UNCHANGED <<app, output, collector, ran, games, launch, active, finishing,
                     debug, upload, server>>
  BY DEF StartManual, StartJob, helperVars, gameVars, sessionVars
<1>5. job' \in JobType /\ job'.report = begun' /\ job'.pc = "manual"
  BY <1>2, BoundAssumption DEF StartManual, JobType, Reports
<1>6. DiskTyped'
  BY <1>1, <1>2, <1>3, <1>4, <1>5 DEF DiskTyped
<1>7. HelpersTyped'
  BY <1>1, <1>2, <1>3, <1>4, <1>5 DEF HelpersTyped
<1>8. ControlTyped'
  BY <1>1, <1>2, <1>3, <1>4, <1>5 DEF ControlTyped
<1>9. Control'
  BY <1>1, <1>2, <1>3, <1>4, <1>5 DEF Control, StatusTellsSession
<1>10. Shelved'
  BY <1>1, <1>2, <1>3, <1>4, <1>5 DEF Shelved, Ended
<1>11. Staged'
  BY <1>1, <1>2, <1>3, <1>4, <1>5 DEF Control, Staged
<1>12. Written'
  BY <1>2, <1>4 DEF Written, Idle, Control
<1>13. Gathered'
  BY <1>1, <1>2, <1>3, <1>4, <1>5 DEF Control, Gathered, Finishing
<1>14. Logged'
  BY <1>1, <1>2, <1>3, <1>4, <1>5 DEF Logged, Own
<1>15. Sent'
  BY <1>1, <1>2, <1>3, <1>4, <1>5 DEF Sent
<1>16. StatusTellsSession'
  BY <1>1, <1>2, <1>3, <1>4, <1>5 DEF Control, StatusTellsSession, Finishing
<1>17. EvidenceComplete'
  BY <1>1, <1>2, <1>3, <1>4, <1>5
     DEF Control, Shelved, Written, Gathered, Finishing, EvidenceComplete
<1> QED BY <1>6, <1>7, <1>8, <1>9, <1>10, <1>11, <1>12, <1>13, <1>14, <1>15, <1>16, <1>17

(* The Debug setting changes. *)
LEMMA StepSetDebug ==
  ASSUME ReportsInv, SetDebug
  PROVE  ReportsInv'
<1> USE Known DEF ReportsInv
<1>1. /\ app = "up" /\ active = 0 /\ job.pc = "idle" /\ debug.status # "preparing"
      /\ Begun' = Begun
      /\ UNCHANGED <<app, begun, report, evidence, baseline, cutoff, prepared, output,
                     collector, ran, games, launch, active, finishing, upload, server,
                     incidents, job>>
  BY DEF Begun, SetDebug, diskVars, helperVars, gameVars, sessionVars
<1>2. debug' \in DebugType /\ debug'.status = "idle"
  <2> DEFINE on == ~debug.enabled
  <2>1. on = TRUE \/ on = FALSE
    OBVIOUS
  <2>2. on \in Flags
    BY <2>1, Zenon DEF Flags
  <2>3. debug' = [enabled |-> on, status |-> "idle"]
    BY DEF SetDebug
  <2> HIDE DEF on
  <2> QED BY <2>2, <2>3 DEF DebugType
<1>3. (DiskTyped /\ HelpersTyped /\ Control /\ Shelved /\ Staged /\ Written /\
       Gathered /\ Logged /\ Sent /\ EvidenceComplete)'
  BY <1>1
     DEF DiskTyped, HelpersTyped, Control, Shelved, Ended, Staged, Written, Idle, Gathered,
         Finishing, Logged, Own, Sent, EvidenceComplete
<1>4. ControlTyped'
  BY <1>1, <1>2 DEF ControlTyped
<1>5. StatusTellsSession'
  BY <1>1, <1>2 DEF Control, StatusTellsSession, Finishing
<1> QED BY <1>3, <1>4, <1>5

(* The end of the session is recorded. *)
LEMMA StepFinalize ==
  ASSUME ReportsInv, Finalize
  PROVE  ReportsInv'
<1> USE Known DEF ReportsInv
<1>1. /\ finishing = "exited" /\ finishing' = "finalized" /\ active # 0 /\ active \in Reports
      /\ Begun' = Begun
      /\ UNCHANGED <<app, begun, evidence, baseline, prepared, output, collector, ran,
                     games, launch, active, debug, job, upload, server, incidents>>
  BY DEF Begun, Finalize, Control, processVars, helperVars, gameVars
<1>2. /\ DiskTyped'
      /\ \A s \in Reports \ {active} : report'[s] = report[s] /\ cutoff'[s] = cutoff[s]
      /\ cutoff'[active] = ran \ baseline[active] /\ report'[active].stage = "collecting"
      /\ report'[active].manual = report[active].manual
      /\ report'[active].consent = report[active].consent
      /\ report'[active].frozen = report[active].frozen
  BY <1>1, EndEffect DEF Finalize, Begun
<1>3. (HelpersTyped /\ Written)'
  BY <1>1 DEF HelpersTyped, Written, Idle
<1>4. DiskTyped'
  BY <1>1, <1>2 DEF DiskTyped
<1>5. ControlTyped'
  BY <1>1, <1>2 DEF ControlTyped
<1>6. Control'
  BY <1>1, <1>2 DEF Control, StatusTellsSession
<1>7. Shelved'
  BY <1>1, <1>2 DEF Shelved, Ended
<1>8. Staged'
  BY <1>1, <1>2 DEF Control, Staged
<1>9. Gathered'
  BY <1>1, <1>2 DEF Control, Gathered, Finishing
<1>10. Logged'
  BY <1>1, <1>2 DEF Logged, Own, Staged
<1>11. Sent'
  BY <1>1, <1>2 DEF Sent
<1>12. StatusTellsSession'
  BY <1>1, <1>2 DEF Control, StatusTellsSession, Finishing
<1>13. EvidenceComplete'
  BY <1>1, <1>2 DEF Control, Shelved, Written, Gathered, Finishing, EvidenceComplete
<1> QED BY <1>3, <1>4, <1>5, <1>6, <1>7, <1>8, <1>9, <1>10, <1>11, <1>12, <1>13

(* The observer is stopped. *)
LEMMA StepStopObserver ==
  ASSUME ReportsInv, StopObserver
  PROVE  ReportsInv'
<1> USE Known DEF ReportsInv
<1>1. /\ finishing = "finalized" /\ finishing' = "observed" /\ active # 0 /\ active \in Reports
      /\ Begun' = Begun
      /\ UNCHANGED <<app, begun, report, evidence, baseline, cutoff, prepared, ran,
                     games, launch, active, debug, job, upload, server, incidents>>
  BY DEF Begun, StopObserver, StopOne, Control, processVars, diskVars, gameVars
<1>2. /\ collector' \in [Reports -> CollectorType] /\ output' \in [Reports -> OutputType]
      /\ \A s \in Reports \ {active} : collector'[s] = collector[s] /\ output'[s] = output[s]
      /\ \A c \in Collectors :
           /\ collector'[active][c] \in {"off", collector[active][c]}
           /\ output'[active][c] = "none" <=> output[active][c] = "none"
      /\ collector'[active]["observer"] = "off"
  BY <1>1, StopEffect DEF StopObserver, StopOne
<1>3. (DiskTyped /\ Shelved /\ Logged /\ Sent)'
  BY <1>1 DEF DiskTyped, Shelved, Ended, Logged, Own, Sent
<1>4. HelpersTyped'
  BY <1>1, <1>2 DEF HelpersTyped
<1>5. ControlTyped'
  BY <1>1, <1>2 DEF ControlTyped
<1>6. Control'
  BY <1>1, <1>2 DEF Control, StatusTellsSession
<1>7. Staged'
  BY <1>1, <1>2 DEF Control, Staged
<1>8. Written'
  BY <1>1, <1>2 DEF Control, Written, Idle
<1>9. Gathered'
  BY <1>1, <1>2 DEF Control, Gathered, Finishing
<1>10. StatusTellsSession'
  BY <1>1, <1>2 DEF Control, StatusTellsSession, Finishing
<1>11. EvidenceComplete'
  BY <1>1, <1>2 DEF Control, Shelved, Written, Gathered, Finishing, EvidenceComplete
<1> QED BY <1>3, <1>4, <1>5, <1>6, <1>7, <1>8, <1>9, <1>10, <1>11

(* The frame timer is stopped. *)
LEMMA StepStopFrames ==
  ASSUME ReportsInv, StopFrames
  PROVE  ReportsInv'
<1> USE Known DEF ReportsInv
<1>1. /\ finishing = "observed" /\ finishing' = "stopped" /\ active # 0 /\ active \in Reports
      /\ Begun' = Begun
      /\ UNCHANGED <<app, begun, report, evidence, baseline, cutoff, prepared, ran,
                     games, launch, active, debug, job, upload, server, incidents>>
  BY DEF Begun, StopFrames, StopOne, Control, processVars, diskVars, gameVars
<1>2. /\ collector' \in [Reports -> CollectorType] /\ output' \in [Reports -> OutputType]
      /\ \A s \in Reports \ {active} : collector'[s] = collector[s] /\ output'[s] = output[s]
      /\ \A c \in Collectors :
           /\ collector'[active][c] \in {"off", collector[active][c]}
           /\ output'[active][c] = "none" <=> output[active][c] = "none"
      /\ collector'[active]["frames"] = "off"
  BY <1>1, StopEffect DEF StopFrames, StopOne
<1>3. (DiskTyped /\ Shelved /\ Logged /\ Sent)'
  BY <1>1 DEF DiskTyped, Shelved, Ended, Logged, Own, Sent
<1>4. HelpersTyped'
  BY <1>1, <1>2 DEF HelpersTyped
<1>5. ControlTyped'
  BY <1>1, <1>2 DEF ControlTyped
<1>6. Control'
  BY <1>1, <1>2 DEF Control, StatusTellsSession
<1>7. Staged'
  BY <1>1, <1>2 DEF Control, Staged
<1>8. Written'
  BY <1>1, <1>2 DEF Control, Written, Idle
<1>9. Gathered'
  BY <1>1, <1>2 DEF Control, Gathered, Finishing
<1>10. StatusTellsSession'
  BY <1>1, <1>2 DEF Control, StatusTellsSession, Finishing
<1>11. EvidenceComplete'
  BY <1>1, <1>2 DEF Control, Shelved, Written, Gathered, Finishing, EvidenceComplete
<1> QED BY <1>3, <1>4, <1>5, <1>6, <1>7, <1>8, <1>9, <1>10, <1>11

(* finish() throws: the session is over, its report left as it is. *)
LEMMA StepFinishFails ==
  ASSUME ReportsInv, FinishFails
  PROVE  ReportsInv'
<1> USE Known DEF ReportsInv
<1>1. /\ finishing \in {"exited", "finalized", "observed", "stopped"}
      /\ active # 0 /\ active \in Reports
      /\ active' = 0 /\ finishing' = "idle"
      /\ Begun' = Begun
      /\ UNCHANGED <<app, begun, report, evidence, baseline, cutoff, prepared, ran,
                     games, launch, job, upload, server>>
  BY DEF Begun, FinishFails, EndFinish, Control, diskVars, gameVars
<1>2. /\ collector' \in [Reports -> CollectorType] /\ output' \in [Reports -> OutputType]
      /\ \A s \in Reports \ {active} : collector'[s] = collector[s] /\ output'[s] = output[s]
      /\ \A c \in Collectors :
           /\ collector'[active][c] \in {"off", collector[active][c]}
           /\ output'[active][c] = "none" <=> output[active][c] = "none"
      /\ \A c \in Collectors : collector'[active][c] = "off"
  BY <1>1, StopEffect DEF FinishFails
<1>3. /\ debug' \in DebugType
      /\ IF report[active].consent THEN debug'.status = "error" ELSE debug' = debug
  BY DEF FinishFails, ControlTyped, DebugType
<1>4. /\ incidents' \in [Reports -> SUBSET Incidents]
      /\ \A s \in Reports \ {active} : incidents'[s] = incidents[s]
      /\ incidents'[active] \in {incidents[active], incidents[active] \cup {"orphan"}}
      /\ ~Ended(active) => "orphan" \in incidents'[active]
  BY <1>1 DEF FinishFails, HelpersTyped, Incidents
<1>5. (DiskTyped /\ Sent)'
  BY <1>1 DEF DiskTyped, Sent
<1>6. HelpersTyped'
  BY <1>1, <1>2, <1>3, <1>4 DEF HelpersTyped, Ended
<1>7. ControlTyped'
  BY <1>1, <1>2, <1>3, <1>4 DEF ControlTyped, Ended
<1>8. Control'
  BY <1>1, <1>2, <1>3, <1>4 DEF Control, StatusTellsSession, Ended
<1>9. Shelved'
  BY <1>1, <1>2, <1>3, <1>4 DEF Shelved, Ended, Ended
<1>10. Staged'
  BY <1>1, <1>2, <1>3, <1>4 DEF Control, Staged, Ended
<1>11. Written'
  BY <1>1, <1>2, <1>3, <1>4 DEF Control, Written, Idle, Ended
<1>12. Gathered'
  BY <1>1, <1>2, <1>3, <1>4 DEF Control, Gathered, Finishing, Ended
<1>13. Logged'
  BY <1>1, <1>2, <1>3, <1>4 DEF Logged, Own, Ended
<1>14. StatusTellsSession'
  BY <1>1, <1>2, <1>3, <1>4 DEF Control, StatusTellsSession, Finishing, Ended
<1>15. EvidenceComplete'
  BY <1>1, <1>2, <1>3, <1>4
     DEF Control, Shelved, Written, Gathered, Finishing, EvidenceComplete, Ended
<1> QED BY <1>5, <1>6, <1>7, <1>8, <1>9, <1>10, <1>11, <1>12, <1>13, <1>14, <1>15

(* The evidence is frozen once both collectors are stopped. *)
LEMMA StepCollectFinal ==
  ASSUME ReportsInv, CollectFinal
  PROVE  ReportsInv'
<1> USE Known DEF ReportsInv
<1>1. /\ finishing = "stopped" /\ active # 0 /\ active \in Begun
      /\ report[active].stage # "recording"
      /\ UNCHANGED <<app, output, collector, ran, games, launch, debug, job, server,
                     incidents>>
  BY DEF CollectFinal, Control, Staged, processVars, helperVars, gameVars
<1>2. Gathers(active)
  BY <1>1, GatherEffect DEF CollectFinal
<1>3. /\ upload' \in [Callers -> UploadType] /\ upload'["recovery"] = upload["recovery"]
      /\ \/ /\ report[active].consent /\ finishing' = "uploading" /\ active' = active
            /\ upload'["finish"].pc = "prepare" /\ upload'["finish"].report = active
         \/ /\ ~report[active].consent /\ finishing' = "idle" /\ active' = 0
            /\ upload'["finish"] = upload["finish"]
  <2>1. upload \in [Callers -> UploadType]
    BY DEF ControlTyped
  <2>2. CASE report[active].consent
    <3> DEFINE new == [pc |-> "prepare", report |-> active]
    <3>1. new \in UploadType /\ new.pc = "prepare" /\ new.report = active
      BY <1>1, BoundAssumption DEF UploadType, Reports
    <3>2. /\ upload' = [upload EXCEPT !["finish"] = new]
          /\ finishing' = "uploading" /\ active' = active
      BY <2>2 DEF CollectFinal
    <3> HIDE DEF new
    <3> QED BY <2>1, <2>2, <3>1, <3>2
  <2>3. CASE ~report[active].consent
    BY <2>1, <2>3 DEF CollectFinal, EndFinish
  <2> QED BY <2>2, <2>3
<1>4. DiskTyped'
  BY <1>1, <1>2, <1>3 DEF DiskTyped, Gathers
<1>5. HelpersTyped'
  BY <1>1, <1>2, <1>3 DEF HelpersTyped, Gathers
<1>6. ControlTyped'
  BY <1>1, <1>2, <1>3 DEF ControlTyped, Gathers
<1>7. Control'
  BY <1>1, <1>2, <1>3 DEF Control, StatusTellsSession, Gathers
<1>8. Shelved'
  BY <1>1, <1>2, <1>3 DEF Shelved, Ended, Gathers
<1>9. Staged'
  BY <1>1, <1>2, <1>3 DEF Control, Staged, Gathers
<1>10. Written'
  BY <1>1, <1>2, <1>3 DEF Control, Gathered, Written, Idle, Gathers
<1>11. Gathered'
  BY <1>1, <1>2, <1>3 DEF Control, Gathered, Finishing, Gathers
<1>12. Logged'
  BY <1>1, <1>2, <1>3 DEF Logged, Own, Gathers
<1>13. Sent'
  BY <1>1, <1>2, <1>3 DEF Sent, Gathers
<1>14. StatusTellsSession'
  BY <1>1, <1>2, <1>3 DEF Control, StatusTellsSession, Finishing, Gathers
<1>15. EvidenceComplete'
  BY <1>1, <1>2, <1>3
     DEF Control, Shelved, Written, Gathered, Finishing, EvidenceComplete, Gathers
<1> QED BY <1>4, <1>5, <1>6, <1>7, <1>8, <1>9, <1>10, <1>11, <1>12, <1>13, <1>14, <1>15

(* The end of a manual report is recorded. *)
LEMMA StepFinalizeManual ==
  ASSUME ReportsInv, FinalizeManual
  PROVE  ReportsInv'
<1> USE Known DEF ReportsInv
<1>1. /\ job.pc = "manual" /\ job.report \in Begun /\ job.report # active /\ app = "up"
      /\ report[job.report].stage = "recording" /\ report[job.report].manual
      /\ Begun' = Begun
      /\ UNCHANGED <<app, begun, evidence, baseline, prepared, output, collector, ran,
                     games, launch, active, finishing, debug, upload, server,
                     incidents>>
  BY DEF Begun, FinalizeManual, Control, Staged, processVars, helperVars, gameVars, sessionVars
<1>2. /\ DiskTyped'
      /\ \A s \in Reports \ {job.report} : report'[s] = report[s] /\ cutoff'[s] = cutoff[s]
      /\ cutoff'[job.report] = ran \ baseline[job.report]
      /\ report'[job.report].stage = "collecting"
      /\ report'[job.report].manual = report[job.report].manual
      /\ report'[job.report].consent = report[job.report].consent
      /\ report'[job.report].frozen = report[job.report].frozen
  BY <1>1, EndEffect DEF FinalizeManual, Begun
<1>3. job' \in JobType /\ job'.pc = "capture" /\ job'.report = job.report
  BY DEF Begun, FinalizeManual, ControlTyped, JobType
<1>4. (HelpersTyped /\ Written)'
  BY <1>1 DEF HelpersTyped, Written, Idle
<1>5. DiskTyped'
  BY <1>1, <1>2, <1>3 DEF DiskTyped
<1>6. ControlTyped'
  BY <1>1, <1>2, <1>3 DEF ControlTyped
<1>7. Control'
  BY <1>1, <1>2, <1>3 DEF Control, StatusTellsSession
<1>8. Shelved'
  BY <1>1, <1>2, <1>3 DEF Shelved, Ended
<1>9. Staged'
  BY <1>1, <1>2, <1>3 DEF Control, Staged
<1>10. Gathered'
  BY <1>1, <1>2, <1>3 DEF Control, Gathered, Finishing
<1>11. Logged'
  BY <1>1, <1>2, <1>3 DEF Logged, Own
<1>12. Sent'
  BY <1>1, <1>2, <1>3 DEF Sent
<1>13. StatusTellsSession'
  BY <1>1, <1>2, <1>3 DEF Control, StatusTellsSession, Finishing
<1>14. EvidenceComplete'
  BY <1>1, <1>2, <1>3
     DEF Control, Shelved, Written, Gathered, Finishing, EvidenceComplete
<1> QED BY <1>4, <1>5, <1>6, <1>7, <1>8, <1>9, <1>10, <1>11, <1>12, <1>13, <1>14

(* An operation goes on after the session it waited for. *)
LEMMA StepAwaitFinish ==
  ASSUME ReportsInv, AwaitFinish
  PROVE  ReportsInv'
<1> USE Known DEF ReportsInv
<1>1. /\ job.pc = "await" /\ job.report # active
      /\ Begun' = Begun
      /\ UNCHANGED <<app, begun, report, evidence, baseline, cutoff, prepared, output,
                     collector, ran, games, launch, active, finishing, upload, server,
                     incidents, debug>>
  BY DEF Begun, AwaitFinish, processVars, diskVars, helperVars, gameVars, sessionVars
<1>2. job' \in JobType /\ job'.pc \in {"capture", "export"} /\ job'.report = job.report
  BY DEF AwaitFinish, ControlTyped, JobType
<1>3. (DiskTyped /\ HelpersTyped /\ Shelved /\ Written /\ Logged /\ Sent /\
       StatusTellsSession /\ EvidenceComplete)'
  BY <1>1
     DEF DiskTyped, HelpersTyped, Shelved, Ended, Written, Idle, Logged, Own, Sent,
         StatusTellsSession, Finishing, EvidenceComplete
<1>4. ControlTyped'
  BY <1>1, <1>2 DEF ControlTyped
<1>5. Control'
  BY <1>1, <1>2 DEF Control, StatusTellsSession
<1>6. Staged'
  BY <1>1, <1>2 DEF Control, Staged
<1>7. Gathered'
  BY <1>1, <1>2 DEF Control, Gathered, Finishing
<1> QED BY <1>3, <1>4, <1>5, <1>6, <1>7

(* A capture collects its report. *)
LEMMA StepCollectCapture ==
  ASSUME ReportsInv, CollectCapture
  PROVE  ReportsInv'
<1> USE Known DEF ReportsInv
<1>1. /\ job.pc = "capture" /\ job.report \in Begun /\ app = "up"
      /\ UNCHANGED <<app, output, collector, ran, games, launch, active, finishing,
                     debug, upload, server, incidents>>
  BY DEF CollectCapture, Control, processVars, helperVars, gameVars, sessionVars
<1>2. /\ Gathers(job.report)
      /\ (report'[job.report].frozen => report[job.report].frozen \/ Ended(job.report))
  BY <1>1, GatherEffect DEF CollectCapture
<1>3. /\ job' \in JobType
      /\ job'.pc = "idle" \/ (job'.pc = "export" /\ job'.report = job.report)
  BY BoundAssumption DEF CollectCapture, ControlTyped, JobType, NoJob
<1>4. DiskTyped'
  BY <1>1, <1>2, <1>3 DEF DiskTyped, Gathers
<1>5. HelpersTyped'
  BY <1>1, <1>2, <1>3 DEF HelpersTyped, Gathers
<1>6. ControlTyped'
  BY <1>1, <1>2, <1>3 DEF ControlTyped, Gathers
<1>7. Control'
  BY <1>1, <1>2, <1>3 DEF Control, StatusTellsSession, Gathers
<1>8. Shelved'
  BY <1>1, <1>2, <1>3 DEF Shelved, Ended, Gathers
<1>9. Staged'
  BY <1>1, <1>2, <1>3 DEF Control, Staged, Gathers
<1>10. Written'
  BY <1>1, <1>2, <1>3 DEF Control, Written, Idle, Gathers
<1>11. Gathered'
  BY <1>1, <1>2, <1>3 DEF Control, Gathered, Finishing, Gathers, Staged, Ended
<1>12. Logged'
  BY <1>1, <1>2, <1>3 DEF Logged, Own, Gathers
<1>13. Sent'
  BY <1>1, <1>2, <1>3 DEF Sent, Gathers
<1>14. StatusTellsSession'
  BY <1>1, <1>2, <1>3 DEF Control, StatusTellsSession, Finishing, Gathers
<1>15. EvidenceComplete'
  BY <1>1, <1>2, <1>3
     DEF Control, Shelved, Written, Gathered, Finishing, EvidenceComplete, Gathers
<1> QED BY <1>4, <1>5, <1>6, <1>7, <1>8, <1>9, <1>10, <1>11, <1>12, <1>13, <1>14, <1>15

(* An export collects its report. *)
LEMMA StepArchive ==
  ASSUME ReportsInv, Archive
  PROVE  ReportsInv'
<1> USE Known DEF ReportsInv
<1>1. /\ job.pc = "archive" /\ job.report \in Begun /\ app = "up"
      /\ UNCHANGED <<app, output, collector, ran, games, launch, active, finishing,
                     debug, upload, server, incidents>>
  BY DEF Archive, Control, processVars, helperVars, gameVars, sessionVars
<1>2. /\ Gathers(job.report)
      /\ (report'[job.report].frozen => report[job.report].frozen \/ Ended(job.report))
  BY <1>1, GatherEffect DEF Archive
<1>3. job' \in JobType /\ job'.pc = "idle"
  BY BoundAssumption DEF Archive, JobType, NoJob
<1>4. DiskTyped'
  BY <1>1, <1>2, <1>3 DEF DiskTyped, Gathers
<1>5. HelpersTyped'
  BY <1>1, <1>2, <1>3 DEF HelpersTyped, Gathers
<1>6. ControlTyped'
  BY <1>1, <1>2, <1>3 DEF ControlTyped, Gathers
<1>7. Control'
  BY <1>1, <1>2, <1>3 DEF Control, StatusTellsSession, Gathers
<1>8. Shelved'
  BY <1>1, <1>2, <1>3 DEF Shelved, Ended, Gathers
<1>9. Staged'
  BY <1>1, <1>2, <1>3 DEF Control, Staged, Gathers
<1>10. Written'
  BY <1>1, <1>2, <1>3 DEF Control, Written, Idle, Gathers
<1>11. Gathered'
  BY <1>1, <1>2, <1>3 DEF Control, Gathered, Finishing, Gathers, Staged, Ended
<1>12. Logged'
  BY <1>1, <1>2, <1>3 DEF Logged, Own, Gathers
<1>13. Sent'
  BY <1>1, <1>2, <1>3 DEF Sent, Gathers
<1>14. StatusTellsSession'
  BY <1>1, <1>2, <1>3 DEF Control, StatusTellsSession, Finishing, Gathers
<1>15. EvidenceComplete'
  BY <1>1, <1>2, <1>3
     DEF Control, Shelved, Written, Gathered, Finishing, EvidenceComplete, Gathers
<1> QED BY <1>4, <1>5, <1>6, <1>7, <1>8, <1>9, <1>10, <1>11, <1>12, <1>13, <1>14, <1>15

(* An export writes into the report. *)
LEMMA StepAnnotate ==
  ASSUME ReportsInv, Annotate
  PROVE  ReportsInv'
<1> USE Known DEF ReportsInv
<1>1. /\ job.pc = "export" /\ job.report \in Begun /\ app = "up"
      /\ Begun' = Begun
      /\ UNCHANGED <<begun, evidence, baseline, cutoff, prepared, app, output,
                     collector, ran, games, launch, active, finishing, debug, upload,
                     server, incidents>>
  BY DEF Begun, Annotate, Control, processVars, helperVars, gameVars, sessionVars
<1>2. /\ DiskTyped' /\ (\A s \in Reports : SameReport(s))
      /\ \A s \in Reports \ {job.report} : report'[s] = report[s]
  <2> DEFINE noted == report[job.report].annotated \/ job.goal = "crash" \/ Ended(job.report)
  <2>1. noted = TRUE \/ noted = FALSE
    OBVIOUS
  <2>2. noted \in Flags
    BY <2>1, Zenon DEF Flags
  <2>3. report' = [report EXCEPT ![job.report].annotated = noted]
    BY DEF Annotate
  <2> HIDE DEF noted
  <2> QED BY <1>1, <2>2, <2>3, NoteEffect
<1>3. job' \in JobType /\ job'.pc = "archive" /\ job'.report = job.report
  BY DEF Annotate, ControlTyped, JobType
<1>4. (HelpersTyped /\ Written)'
  BY <1>1 DEF HelpersTyped, Written, Idle
<1>5. DiskTyped'
  BY <1>1, <1>2, <1>3 DEF DiskTyped, SameReport
<1>6. ControlTyped'
  BY <1>1, <1>2, <1>3 DEF ControlTyped, SameReport
<1>7. Control'
  BY <1>1, <1>2, <1>3 DEF Control, StatusTellsSession, SameReport
<1>8. Shelved'
  BY <1>1, <1>2, <1>3 DEF Shelved, Ended, SameReport
<1>9. Staged'
  BY <1>1, <1>2, <1>3 DEF Control, Staged, SameReport
<1>10. Gathered'
  BY <1>1, <1>2, <1>3 DEF Control, Gathered, Finishing, SameReport
<1>11. Logged'
  BY <1>1, <1>2, <1>3 DEF Logged, Own, SameReport
<1>12. Sent'
  BY <1>1, <1>2, <1>3 DEF Sent, SameReport
<1>13. StatusTellsSession'
  BY <1>1, <1>2, <1>3 DEF Control, StatusTellsSession, Finishing, SameReport
<1>14. EvidenceComplete'
  BY <1>1, <1>2, <1>3
     DEF Control, Shelved, Written, Gathered, Finishing, EvidenceComplete, SameReport
<1> QED BY <1>4, <1>5, <1>6, <1>7, <1>8, <1>9, <1>10, <1>11, <1>12, <1>13, <1>14

(* An operation of the player fails. *)
LEMMA StepJobFails ==
  ASSUME ReportsInv, JobFails
  PROVE  ReportsInv'
<1> USE Known DEF ReportsInv
<1>1. /\ Begun' = Begun
      /\ UNCHANGED <<app, begun, report, evidence, baseline, cutoff, prepared, output,
                     collector, ran, games, launch, active, finishing, upload, server,
                     incidents, debug>>
  BY DEF Begun, JobFails, diskVars, helperVars, gameVars, sessionVars
<1>2. job' \in JobType /\ job'.pc = "idle"
  BY BoundAssumption DEF JobFails, JobType, NoJob
<1>3. (DiskTyped /\ HelpersTyped /\ Shelved /\ Written /\ Logged /\ Sent /\
       StatusTellsSession /\ EvidenceComplete)'
  BY <1>1
     DEF DiskTyped, HelpersTyped, Shelved, Ended, Written, Idle, Logged, Own, Sent,
         StatusTellsSession, Finishing, EvidenceComplete
<1>4. ControlTyped'
  BY <1>1, <1>2 DEF ControlTyped
<1>5. Control'
  BY <1>1, <1>2 DEF Control, StatusTellsSession
<1>6. Staged'
  BY <1>1, <1>2 DEF Control, Staged
<1>7. Gathered'
  BY <1>1, <1>2 DEF Control, Gathered, Finishing
<1> QED BY <1>3, <1>4, <1>5, <1>6, <1>7

(* What is frozen is prepared for the upload, once. *)
LEMMA StepPrepareUpload ==
  ASSUME ReportsInv, NEW c \in Callers, PrepareUpload(c)
  PROVE  ReportsInv'
<1> USE Known DEF ReportsInv
<1>1. /\ upload[c].pc = "prepare" /\ upload[c].report \in Reports
      /\ report[upload[c].report].frozen
      /\ Begun' = Begun
      /\ UNCHANGED <<app, begun, report, evidence, baseline, cutoff, output, collector,
                     ran, games, launch, active, finishing, debug, job, incidents,
                     server>>
  BY DEF Begun, PrepareUpload, Control, processVars, helperVars, gameVars, sessionVars
<1>2. /\ upload' \in [Callers -> UploadType]
      /\ upload'[c].pc = "send" /\ upload'[c].report = upload[c].report
      /\ \A d \in Callers \ {c} : upload'[d] = upload[d]
  BY DEF PrepareUpload, ControlTyped, UploadType
<1>3. /\ prepared' \in [Reports -> PayloadType]
      /\ \A r \in Reports \ {upload[c].report} : prepared'[r] = prepared[r]
      /\ prepared'[upload[c].report] # NoPayload
      /\ \/ prepared'[upload[c].report] = prepared[upload[c].report]
         \/ /\ prepared[upload[c].report] = NoPayload
            /\ prepared'[upload[c].report].evidence = evidence[upload[c].report]
  <2> DEFINE r   == upload[c].report
             new == [sent |-> TRUE, evidence |-> evidence[r], annotated |-> report[r].annotated]
  <2>1. /\ report[r] \in ReportType /\ evidence[r] \in EvidenceType
        /\ prepared \in [Reports -> PayloadType]
    BY <1>1 DEF DiskTyped
  <2>2. new \in PayloadType /\ new # NoPayload /\ new.evidence = evidence[r]
    BY <2>1 DEF PayloadType, ReportType, Flags, NoPayload
  <2>3. \/ prepared[r] # NoPayload /\ prepared' = prepared
        \/ prepared[r] = NoPayload /\ prepared' = [prepared EXCEPT ![r] = new]
    BY DEF PrepareUpload
  <2> HIDE DEF new
  <2> QED BY <1>1, <2>1, <2>2, <2>3
<1>4. (HelpersTyped /\ Shelved /\ Staged /\ Written /\ Gathered /\ Logged /\
       EvidenceComplete)'
  BY <1>1
     DEF HelpersTyped, Shelved, Ended, Staged, Written, Idle, Gathered, Finishing, Logged, Own,
         EvidenceComplete
<1>5. DiskTyped'
  BY <1>1, <1>2, <1>3 DEF DiskTyped
<1>6. ControlTyped'
  BY <1>1, <1>2, <1>3 DEF ControlTyped
<1>7. Control'
  BY <1>1, <1>2, <1>3 DEF Control, StatusTellsSession
<1>8. Sent'
  BY <1>1, <1>2, <1>3 DEF Control, Sent
<1>9. StatusTellsSession'
  BY <1>1, <1>2, <1>3 DEF Control, StatusTellsSession, Finishing
<1> QED BY <1>4, <1>5, <1>6, <1>7, <1>8, <1>9

(* The server gets what was prepared. *)
LEMMA StepSendUpload ==
  ASSUME ReportsInv, NEW c \in Callers, SendUpload(c)
  PROVE  ReportsInv'
<1> USE Known DEF ReportsInv
<1>1. /\ upload[c].pc = "send" /\ upload[c].report \in Reports
      /\ Begun' = Begun
      /\ UNCHANGED <<app, begun, report, evidence, baseline, cutoff, output, collector,
                     ran, games, launch, active, finishing, debug, job, incidents,
                     prepared>>
  BY DEF Begun, SendUpload, Control, processVars, diskVars, helperVars, gameVars, sessionVars
<1>2. /\ upload' \in [Callers -> UploadType]
      /\ upload'[c].pc = "receipt" /\ upload'[c].report = upload[c].report
      /\ \A d \in Callers \ {c} : upload'[d] = upload[d]
  BY DEF SendUpload, ControlTyped, UploadType
<1>3. /\ server' \in [Reports -> PayloadType]
      /\ \A r \in Reports \ {upload[c].report} : server'[r] = server[r]
      /\ server'[upload[c].report] = prepared[upload[c].report]
  BY <1>1 DEF SendUpload, DiskTyped, HelpersTyped
<1>4. (DiskTyped /\ Shelved /\ Staged /\ Written /\ Gathered /\ Logged /\
       EvidenceComplete)'
  BY <1>1
     DEF DiskTyped, Shelved, Ended, Staged, Written, Idle, Gathered, Finishing, Logged, Own,
         EvidenceComplete
<1>5. HelpersTyped'
  BY <1>1, <1>2, <1>3 DEF HelpersTyped
<1>6. ControlTyped'
  BY <1>1, <1>2, <1>3 DEF ControlTyped
<1>7. Control'
  BY <1>1, <1>2, <1>3 DEF Control, StatusTellsSession
<1>8. Sent'
  BY <1>1, <1>2, <1>3 DEF Sent
<1>9. StatusTellsSession'
  BY <1>1, <1>2, <1>3 DEF Control, StatusTellsSession, Finishing
<1> QED BY <1>4, <1>5, <1>6, <1>7, <1>8, <1>9

(* The receipt ends the upload and the session. *)
LEMMA StepRecordReceipt ==
  ASSUME ReportsInv, NEW c \in Callers, RecordReceipt(c)
  PROVE  ReportsInv'
<1> USE Known DEF ReportsInv
<1>1. /\ upload[c].pc # "idle" /\ upload[c].report \in Begun
      /\ Begun' = Begun
      /\ UNCHANGED <<app, begun, evidence, baseline, cutoff, prepared, output,
                     collector, ran, games, launch, job, server, incidents>>
  BY DEF Begun, RecordReceipt, Control, processVars, helperVars, gameVars
<1>2. /\ DiskTyped' /\ (\A s \in Reports : SameReport(s))
      /\ \A s \in Reports \ {upload[c].report} : report'[s] = report[s]
  BY <1>1, NoteEffect DEF RecordReceipt, Flags
<1>3. /\ active' = 0 /\ finishing' = "idle"
      /\ finishing \in {"idle", "uploading"} /\ (finishing = "idle" => active = 0)
      /\ debug' \in DebugType /\ debug'.status \in {"ready", "error"}
      /\ upload' \in [Callers -> UploadType] /\ \A d \in Callers : upload'[d].pc = "idle"
  BY <1>1, SettleEffect DEF RecordReceipt
<1>4. DiskTyped'
  BY <1>1, <1>2, <1>3 DEF DiskTyped, SameReport
<1>5. HelpersTyped'
  BY <1>1, <1>2, <1>3 DEF HelpersTyped, SameReport
<1>6. ControlTyped'
  BY <1>1, <1>2, <1>3 DEF ControlTyped, SameReport
<1>7. Control'
  BY <1>1, <1>2, <1>3 DEF Control, StatusTellsSession, SameReport
<1>8. Shelved'
  BY <1>1, <1>2, <1>3 DEF Shelved, Ended, SameReport
<1>9. Staged'
  BY <1>1, <1>2, <1>3 DEF Control, Staged, SameReport
<1>10. Written'
  BY <1>1, <1>2, <1>3 DEF Control, Written, Gathered, Idle
<1>11. Gathered'
  BY <1>1, <1>2, <1>3 DEF Control, Gathered, Finishing, SameReport
<1>12. Logged'
  BY <1>1, <1>2, <1>3 DEF Logged, Own, Staged, SameReport
<1>13. Sent'
  BY <1>1, <1>2, <1>3 DEF Sent, SameReport
<1>14. StatusTellsSession'
  BY <1>1, <1>2, <1>3 DEF Control, StatusTellsSession, Finishing, SameReport
<1>15. EvidenceComplete'
  BY <1>1, <1>2, <1>3
     DEF Control, Shelved, Written, Gathered, Finishing, EvidenceComplete, SameReport
<1> QED BY <1>4, <1>5, <1>6, <1>7, <1>8, <1>9, <1>10, <1>11, <1>12, <1>13, <1>14, <1>15

(* A report that is not collected is not sent. *)
LEMMA StepUploadRefused ==
  ASSUME ReportsInv, NEW c \in Callers, UploadRefused(c)
  PROVE  ReportsInv'
<1> USE Known DEF ReportsInv
<1>1. /\ upload[c].pc # "idle"
      /\ Begun' = Begun
      /\ UNCHANGED <<app, begun, report, evidence, baseline, cutoff, prepared, output,
                     collector, ran, games, launch, job, server, incidents>>
  BY DEF Begun, UploadRefused, processVars, diskVars, helperVars, gameVars
<1>2. /\ active' = 0 /\ finishing' = "idle"
      /\ finishing \in {"idle", "uploading"} /\ (finishing = "idle" => active = 0)
      /\ debug' \in DebugType /\ debug'.status \in {"ready", "error"}
      /\ upload' \in [Callers -> UploadType] /\ \A d \in Callers : upload'[d].pc = "idle"
  BY <1>1, SettleEffect DEF UploadRefused
<1>3. (DiskTyped /\ HelpersTyped /\ Shelved /\ EvidenceComplete)'
  BY <1>1 DEF DiskTyped, HelpersTyped, Shelved, Ended, EvidenceComplete
<1>4. ControlTyped'
  BY <1>1, <1>2 DEF ControlTyped
<1>5. Control'
  BY <1>1, <1>2 DEF Control, StatusTellsSession
<1>6. Staged'
  BY <1>1, <1>2 DEF Control, Staged
<1>7. Written'
  BY <1>1, <1>2 DEF Control, Written, Gathered, Idle
<1>8. Gathered'
  BY <1>1, <1>2 DEF Control, Gathered, Finishing
<1>9. Logged'
  BY <1>1, <1>2 DEF Logged, Own, Staged
<1>10. Sent'
  BY <1>1, <1>2 DEF Sent
<1>11. StatusTellsSession'
  BY <1>1, <1>2 DEF Control, StatusTellsSession, Finishing
<1> QED BY <1>3, <1>4, <1>5, <1>6, <1>7, <1>8, <1>9, <1>10, <1>11

(* An upload fails. *)
LEMMA StepUploadFails ==
  ASSUME ReportsInv, NEW c \in Callers, UploadFails(c)
  PROVE  ReportsInv'
<1> USE Known DEF ReportsInv
<1>1. /\ upload[c].pc # "idle"
      /\ Begun' = Begun
      /\ UNCHANGED <<app, begun, report, evidence, baseline, cutoff, prepared, output,
                     collector, ran, games, launch, job, server, incidents>>
  BY DEF Begun, UploadFails, processVars, diskVars, helperVars, gameVars
<1>2. /\ active' = 0 /\ finishing' = "idle"
      /\ finishing \in {"idle", "uploading"} /\ (finishing = "idle" => active = 0)
      /\ debug' \in DebugType /\ debug'.status \in {"ready", "error"}
      /\ upload' \in [Callers -> UploadType] /\ \A d \in Callers : upload'[d].pc = "idle"
  BY <1>1, SettleEffect DEF UploadFails
<1>3. (DiskTyped /\ HelpersTyped /\ Shelved /\ EvidenceComplete)'
  BY <1>1 DEF DiskTyped, HelpersTyped, Shelved, Ended, EvidenceComplete
<1>4. ControlTyped'
  BY <1>1, <1>2 DEF ControlTyped
<1>5. Control'
  BY <1>1, <1>2 DEF Control, StatusTellsSession
<1>6. Staged'
  BY <1>1, <1>2 DEF Control, Staged
<1>7. Written'
  BY <1>1, <1>2 DEF Control, Written, Gathered, Idle
<1>8. Gathered'
  BY <1>1, <1>2 DEF Control, Gathered, Finishing
<1>9. Logged'
  BY <1>1, <1>2 DEF Logged, Own, Staged
<1>10. Sent'
  BY <1>1, <1>2 DEF Sent
<1>11. StatusTellsSession'
  BY <1>1, <1>2 DEF Control, StatusTellsSession, Finishing
<1> QED BY <1>3, <1>4, <1>5, <1>6, <1>7, <1>8, <1>9, <1>10, <1>11

(* The launcher dies, games and helpers do not. *)
LEMMA StepLauncherDies ==
  ASSUME ReportsInv, LauncherDies
  PROVE  ReportsInv'
<1> USE Known DEF ReportsInv
<1>1. /\ app' = "down" /\ active' = 0 /\ finishing' = "idle"
      /\ Begun' = Begun
      /\ UNCHANGED <<begun, report, evidence, baseline, cutoff, prepared, output, ran,
                     games, server>>
  BY DEF Begun, LauncherDies, diskVars, gameVars
<1>2. /\ launch' \in LaunchType /\ launch'.pc = "idle" /\ job' \in JobType /\ job'.pc = "idle"
      /\ upload' \in [Callers -> UploadType] /\ \A c \in Callers : upload'[c].pc = "idle"
  BY BoundAssumption
     DEF LauncherDies, LaunchType, NoLaunch, JobType, NoJob, UploadType, NoUpload
<1>3. debug' \in DebugType /\ debug'.status = "idle"
  BY DEF LauncherDies, ControlTyped, DebugType
<1>4. /\ collector' \in [Reports -> CollectorType]
      /\ \A r \in Reports, c \in Collectors :
           collector'[r][c] = IF collector[r][c] = "starting" THEN "off" ELSE collector[r][c]
  BY DEF LauncherDies, HelpersTyped, CollectorType
<1>5. /\ incidents' \in [Reports -> SUBSET Incidents]
      /\ \A r \in Reports : /\ incidents'[r] \in {incidents[r], incidents[r] \cup {"died"}}
                            /\ (\A c \in Collectors : collector[r][c] # "running") =>
                                 incidents'[r] = incidents[r]
                            /\ (\E c \in Collectors : collector[r][c] = "running") =>
                                 "died" \in incidents'[r]
  BY DEF LauncherDies, HelpersTyped, Incidents
<1>6. DiskTyped'
  BY <1>1, <1>2, <1>3, <1>4, <1>5 DEF DiskTyped
<1>7. HelpersTyped'
  BY <1>1, <1>2, <1>3, <1>4, <1>5 DEF HelpersTyped
<1>8. ControlTyped'
  BY <1>1, <1>2, <1>3, <1>4, <1>5 DEF ControlTyped
<1>9. Control'
  BY <1>1, <1>2, <1>3, <1>4, <1>5 DEF Control, StatusTellsSession
<1>10. Shelved'
  BY <1>1, <1>2, <1>3, <1>4, <1>5 DEF Shelved, Ended, Written, Idle
<1>11. Staged'
  BY <1>1, <1>2, <1>3, <1>4, <1>5 DEF Control, Staged
<1>12. Written'
  <2>1. \A r \in Reports, c \in Collectors :
          collector'[r][c] # "off" => "died" \in incidents'[r] /\ collector'[r][c] = "running"
    BY <1>1, <1>4, <1>5 DEF HelpersTyped, CollectorType
  <2> QED BY <1>1, <1>2, <1>4, <2>1 DEF Written, Idle
<1>13. Gathered'
  BY <1>1, <1>2, <1>3, <1>4, <1>5 DEF Control, Gathered, Finishing
<1>14. Logged'
  BY <1>1, <1>2, <1>3, <1>4, <1>5 DEF Logged, Own
<1>15. Sent'
  BY <1>1, <1>2, <1>3, <1>4, <1>5 DEF Sent
<1>16. StatusTellsSession'
  BY <1>1, <1>2, <1>3, <1>4, <1>5 DEF Control, StatusTellsSession, Finishing
<1>17. EvidenceComplete'
  BY <1>1, <1>2, <1>3, <1>4, <1>5
     DEF Control, Shelved, Written, Gathered, Finishing, EvidenceComplete
<1> QED BY <1>6, <1>7, <1>8, <1>9, <1>10, <1>11, <1>12, <1>13, <1>14, <1>15, <1>16, <1>17

(* A restart ends what was left open, and sends what was not sent. *)
LEMMA StepRestart ==
  ASSUME ReportsInv, Restart
  PROVE  ReportsInv'
<1> USE Known DEF ReportsInv
<1>1. /\ app = "down" /\ app' = "up"
      /\ Begun' = Begun
      /\ UNCHANGED <<begun, evidence, baseline, cutoff, prepared, output, collector,
                     ran, games, launch, active, finishing, job, server, incidents>>
  BY DEF Begun, Restart, helperVars, gameVars, sessionVars
<1>2. active = 0 /\ launch.pc = "idle" /\ job.pc = "idle"
      /\ \A c \in Callers : upload[c].pc = "idle"
  BY <1>1 DEF Control
<1>3. /\ report' \in [Reports -> ReportType]
      /\ \A r \in Reports :
           /\ report'[r].stage = IF report[r].stage = "absent" THEN "absent" ELSE "settled"
           /\ report[r].stage = "absent" => report'[r] = report[r]
           /\ report'[r].manual = report[r].manual /\ report'[r].consent = report[r].consent
           /\ report'[r].frozen = report[r].frozen
  <2>1. report' = [r \in Reports |-> Recovered(report[r])] /\ report \in [Reports -> ReportType]
    BY DEF Restart, DiskTyped
  <2>2. \A r \in Reports : report'[r] = Recovered(report[r]) /\ report[r] \in ReportType
    BY <2>1
  <2>3. \A r \in Reports : report[r].stage \in {"absent", "recording", "collecting", "settled"}
    BY <2>2 DEF ReportType
  <2> QED BY <2>1, <2>2, <2>3, RecoveredIs
<1>4. /\ upload' \in [Callers -> UploadType] /\ upload'["finish"] = upload["finish"]
      /\ debug' \in DebugType
      /\ \/ /\ debug'.status = "preparing" /\ upload'["recovery"].pc = "prepare"
            /\ upload'["recovery"].report \in Begun
         \/ upload' = upload /\ debug'.status \in {"ready", debug.status}
  <2>1. upload \in [Callers -> UploadType] /\ debug \in DebugType
    BY DEF ControlTyped
  <2>2. \/ \E r \in Begun :
             /\ upload' = [upload EXCEPT !["recovery"] = [pc |-> "prepare", report |-> r]]
             /\ debug' = [debug EXCEPT !.status = "preparing"]
        \/ upload' = upload /\ (debug' = debug \/ debug' = [debug EXCEPT !.status = "ready"])
    BY DEF Restart, Eligible, Begun
  <2>3. ASSUME NEW r \in Begun,
               upload' = [upload EXCEPT !["recovery"] = [pc |-> "prepare", report |-> r]]
        PROVE  /\ upload' \in [Callers -> UploadType] /\ upload'["finish"] = upload["finish"]
               /\ upload'["recovery"].pc = "prepare" /\ upload'["recovery"].report = r
    <3> DEFINE new == [pc |-> "prepare", report |-> r]
    <3>1. new \in UploadType /\ new.pc = "prepare" /\ new.report = r
      BY BoundAssumption DEF UploadType, Reports
    <3> HIDE DEF new
    <3> QED BY <2>1, <2>3, <3>1 DEF new
  <2>4. \A s \in {"preparing", "ready"} : LET new == [debug EXCEPT !.status = s] IN
           new \in DebugType /\ new.status = s
    BY <2>1 DEF DebugType
  <2> QED BY <2>1, <2>2, <2>3, <2>4
<1>5. (HelpersTyped /\ Written)'
  BY <1>1 DEF HelpersTyped, Written, Idle
<1>6. DiskTyped'
  BY <1>1, <1>2, <1>3, <1>4 DEF DiskTyped
<1>7. ControlTyped'
  BY <1>1, <1>2, <1>3, <1>4 DEF ControlTyped
<1>8. Control'
  BY <1>1, <1>2, <1>3, <1>4 DEF Control, StatusTellsSession
<1>9. Shelved'
  BY <1>1, <1>2, <1>3, <1>4, UnbegunIs DEF Shelved, Ended
<1>10. Staged'
  BY <1>1, <1>2, <1>3, <1>4 DEF Control, Staged
<1>11. Gathered'
  BY <1>1, <1>2, <1>3, <1>4 DEF Control, Gathered, Finishing
<1>12. Logged'
  BY <1>1, <1>2, <1>3, <1>4 DEF Logged, Own
<1>13. Sent'
  BY <1>1, <1>2, <1>3, <1>4 DEF Sent
<1>14. StatusTellsSession'
  BY <1>1, <1>2, <1>3, <1>4 DEF Control, StatusTellsSession, Finishing
<1>15. EvidenceComplete'
  BY <1>1, <1>2, <1>3, <1>4
     DEF Control, Shelved, Written, Gathered, Finishing, EvidenceComplete
<1> QED BY <1>5, <1>6, <1>7, <1>8, <1>9, <1>10, <1>11, <1>12, <1>13, <1>14, <1>15

(* Nothing happens. *)
LEMMA StepNothing ==
  ASSUME ReportsInv, UNCHANGED diagnosticsVars
  PROVE  ReportsInv'
<1> USE Known DEF ReportsInv
<1>1. /\ Begun' = Begun
      /\ UNCHANGED <<app, begun, report, evidence, baseline, cutoff, prepared, output,
                     collector, ran, games, launch, active, finishing, debug, job,
                     upload, server, incidents>>
  BY DEF Begun, diagnosticsVars
<1>2. (DiskTyped /\ HelpersTyped /\ ControlTyped /\ Control /\ Shelved /\ Staged /\
       Written /\ Gathered /\ Logged /\ Sent /\ StatusTellsSession /\ EvidenceComplete)'
  BY <1>1
     DEF DiskTyped, HelpersTyped, ControlTyped, Control, Shelved, Ended, Staged, Written, Idle,
         Gathered, Finishing, Logged, Own, Sent, StatusTellsSession, EvidenceComplete
<1> QED BY <1>2

(* The invariant holds at first, and every step keeps it. *)
LEMMA DiagnosticsBegins == DiagnosticsInit => ReportsInv
<1> SUFFICES ASSUME DiagnosticsInit  PROVE ReportsInv
  OBVIOUS
<1>1. /\ begun = 0 /\ Begun = {} /\ active = 0 /\ finishing = "idle" /\ app = "up"
      /\ ran = {} /\ games = {}
      /\ \A r \in Reports : /\ report[r] = Unbegun /\ evidence[r] = NoEvidence
                            /\ prepared[r] = NoPayload /\ server[r] = NoPayload
                            /\ baseline[r] = {} /\ cutoff[r] = {} /\ incidents[r] = {}
                            /\ \A c \in Collectors :
                                 output[r][c] = "none" /\ collector[r][c] = "off"
  BY DEF DiagnosticsInit, Begun
<1>2. NoEvidence \in EvidenceType /\ NoPayload \in PayloadType
      /\ NoEvidence.files = [c \in Collectors |-> "none"] /\ NoEvidence.logs = {}
  BY DEF NoEvidence, NoPayload, EvidenceType, PayloadType, OutputType, Flags
<1>3. DiskTyped
  BY <1>2, UnbegunIs, BoundAssumption DEF DiagnosticsInit, DiskTyped
<1>4. HelpersTyped
  BY <1>1, <1>2 DEF DiagnosticsInit, HelpersTyped, OutputType, CollectorType
<1>5. launch.pc = "idle" /\ job.pc = "idle" /\ \A c \in Callers : upload[c].pc = "idle"
  BY DEF DiagnosticsInit, NoLaunch, NoJob, NoUpload
<1>6. debug \in DebugType /\ debug.status = "idle"
  <2>1. PICK on \in BOOLEAN : debug = [enabled |-> on, status |-> "idle"]
    BY DEF DiagnosticsInit
  <2>2. on \in Flags
    BY Zenon DEF Flags
  <2> QED BY <2>1, <2>2 DEF DebugType
<1>7. ControlTyped
  BY <1>1, <1>6, BoundAssumption DEF DiagnosticsInit, ControlTyped, LaunchType, JobType,
         UploadType, NoLaunch, NoJob, NoUpload
<1>8. Control /\ Staged /\ Gathered
  BY <1>1, <1>5 DEF Control, Staged, Gathered, Finishing, Callers
<1>9. Shelved /\ Written
  BY <1>1, <1>2, <1>5, UnbegunIs DEF Shelved, Written, Idle
<1>10. Logged /\ Sent
  BY <1>1, <1>2, <1>5, UnbegunIs DEF Logged, Sent
<1>11. StatusTellsSession /\ EvidenceComplete
  BY <1>1, <1>5, <1>6, UnbegunIs DEF StatusTellsSession, EvidenceComplete, Finishing, Callers
<1> QED BY <1>3, <1>4, <1>7, <1>8, <1>9, <1>10, <1>11 DEF ReportsInv

(* Every step keeps it. *)
LEMMA DiagnosticsSteps ==
  ASSUME ReportsInv, DiagnosticsNext \/ UNCHANGED diagnosticsVars
  PROVE  ReportsInv'
<1>1. CASE LaunchStep
  BY <1>1, StepBeginLaunch, StepBeginLaunchFails, StepLaunchFails, StepLaunchOver, StepSpawn, StepGameExits
     DEF LaunchStep
<1>2. CASE Request
  BY <1>2, StepStartOnActive, StepStartManual, StepStartExport, StepStartCrashReport, StepSetDebug
     DEF Request
<1>3. CASE FinishStep
  BY <1>3, StepFinalize, StepStopObserver, StepStopFrames, StepCollectFinal, StepFinishFails
     DEF FinishStep
<1>4. CASE JobStep
  BY <1>4, StepFinalizeManual, StepAwaitFinish, StepCollectCapture, StepAnnotate,
     StepArchive, StepJobFails DEF JobStep
<1>5. CASE \E c \in Callers : UploadStep(c)
  BY <1>5, StepPrepareUpload, StepSendUpload, StepRecordReceipt, StepUploadRefused, StepUploadFails
     DEF UploadStep
<1>6. CASE \E r \in Reports, c \in Collectors : CollectorStarts(r, c) \/ CollectorEnds(r, c)
  BY <1>6, StepCollectorStarts, StepCollectorEnds
<1>7. CASE LauncherDies \/ Restart \/ UNCHANGED diagnosticsVars
  BY <1>7, StepLauncherDies, StepRestart, StepNothing
<1> QED BY <1>1, <1>2, <1>3, <1>4, <1>5, <1>6, <1>7 DEF DiagnosticsNext, Progress

-----------------------------------------------------------------------------
(* Every step is one of the lifecycle, or leaves it alone *)

Moves == Lifecycle!Next \/ UNCHANGED Lifecycle!vars

(* A report that says the same is at the same stage, with the same verdict. *)
LEMMA SameStage ==
  ASSUME NEW r, SameReport(r)
  PROVE  Stage(r)' = Stage(r) /\ Verdict(r)' = Verdict(r)
BY DEF SameReport, Stage, Ended, Verdict

LEMMA NotesMove ==
  ASSUME \A r \in Reports : SameReport(r), UNCHANGED <<evidence, server>>
  PROVE  Moves
<1>1. \A r \in Reports : Stage(r)' = Stage(r) /\ Verdict(r)' = Verdict(r)
  BY SameStage
<1> QED BY <1>1 DEF Moves, Lifecycle!vars, Verdict

LEMMA OthersMove ==
  ASSUME UNCHANGED <<report, evidence, server>>
  PROVE  Moves
BY NotesMove DEF SameReport

LEMMA BeginMoves ==
  ASSUME ReportsInv, NEW isManual \in Flags, NEW consents \in Flags,
         NEW trouble \in {{}, {"orphan"}}, BeginReport(isManual, consents, trouble),
         UNCHANGED server
  PROVE  Moves
<1>1. PICK new \in Reports :
        /\ new \notin Begun /\ UNCHANGED evidence
        /\ \A r \in Reports \ {new} : report'[r] = report[r]
        /\ report'[new].stage = "recording" /\ report'[new].frozen = FALSE
  <2>1. /\ begun' \in Reports /\ begun' \notin Begun /\ UNCHANGED evidence
        /\ \A r \in Reports \ {begun'} : report'[r] = report[r]
        /\ report'[begun'].stage = "recording" /\ report'[begun'].frozen = FALSE
    BY BeginEffect DEF ReportsInv, Fresh
  <2> QED BY <2>1
<1>2. report[new].stage = "absent" /\ report[new].frozen = FALSE
  BY <1>1, UnbegunIs DEF ReportsInv, Shelved
<1>3. Stage(new) = "absent" /\ Stage(new)' = "open"
  BY <1>1, <1>2 DEF Stage, Ended
<1>4. \A r \in Reports \ {new} : Stage(r)' = Stage(r) /\ Verdict(r)' = Verdict(r)
  BY <1>1, SameStage DEF SameReport
<1>5. Verdict(new)' = Verdict(new)
  BY <1>1, <1>2 DEF Verdict, Ended
<1>6. Lifecycle!Open(new)
  BY <1>1, <1>3, <1>4, <1>5 DEF Lifecycle!Open
<1> QED BY <1>1, <1>6 DEF Moves, Lifecycle!Next

(* Collecting gathers evidence of a report, or freezes it when it has ended. *)
LEMMA CollectMoves ==
  ASSUME ReportsInv, NEW r \in Begun, Collect(r),
         UNCHANGED <<begun, baseline, cutoff, prepared, server>>
  PROVE  Moves
<1>1. r \in Reports /\ report[r] \in ReportType /\ report[r].stage # "absent"
      /\ (report[r].frozen => Ended(r))
  BY Known DEF ReportsInv, DiskTyped, Shelved
<1>2. CASE report[r].frozen
  BY <1>2, OthersMove DEF Collect
<1>3. CASE ~report[r].frozen
  <2>1. /\ \A s \in Reports \ {r} : report'[s] = report[s] /\ evidence'[s] = evidence[s]
        /\ report'[r].stage \in {report[r].stage, "settled"}
        /\ report'[r].stage = "recording" <=> report[r].stage = "recording"
        /\ report'[r].kind = report[r].kind
        /\ report'[r].frozen <=> report[r].frozen \/ Ended(r)
    BY <1>1, CollectEffect DEF ReportsInv
  <2>2. \A s \in Reports \ {r} : Stage(s)' = Stage(s) /\ Verdict(s)' = Verdict(s)
    BY <2>1, SameStage DEF SameReport
  <2>3. CASE Ended(r)
    <3>1. Stage(r) = "ended" /\ Stage(r)' = "frozen" /\ Verdict(r)' = Verdict(r)
      BY <1>3, <2>1, <2>3 DEF Stage, Verdict, Ended
    <3>2. Lifecycle!Freeze(r)
      BY <1>1, <2>1, <2>2, <3>1 DEF Lifecycle!Freeze, Lifecycle!Others
    <3> QED BY <1>1, <3>2 DEF Moves, Lifecycle!Next
  <2>4. CASE ~Ended(r)
    <3>1. report[r].stage = "recording"
      BY <1>1, <2>4 DEF Ended, ReportType
    <3>2. Stage(r) = "open" /\ Stage(r)' = "open" /\ Verdict(r)' = Verdict(r)
      BY <1>3, <2>1, <2>4, <3>1 DEF Stage, Verdict, Ended
    <3>3. Lifecycle!Gather(r)
      BY <1>1, <2>1, <2>2, <3>2 DEF Lifecycle!Gather, Lifecycle!Others
    <3> QED BY <1>1, <3>3 DEF Moves, Lifecycle!Next
  <2> QED BY <2>3, <2>4
<1> QED BY <1>2, <1>3

(* Reports that were open and are recorded to have ended. *)
LEMMA EndsMove ==
  ASSUME ReportsInv, NEW S \in SUBSET Reports, DiskTyped', UNCHANGED <<evidence, server>>,
         \A r \in S : /\ report[r].stage = "recording" /\ report'[r].frozen = report[r].frozen
                      /\ report'[r].stage \in {"collecting", "settled"},
         \A r \in Reports \ S : Stage(r)' = Stage(r) /\ Verdict(r)' = Verdict(r)
  PROVE  Moves
<1>1. \A r \in S : ~report[r].frozen
  BY DEF ReportsInv, Shelved, Ended
<1>2. \A r \in S : Stage(r) = "open" /\ Stage(r)' = "ended" /\ Verdict(r)' = report'[r].kind
  BY <1>1 DEF Stage, Verdict, Ended
<1>3. \A r \in S : report'[r].kind # "none"
  BY DEF DiskTyped, ReportType
<1>4. Lifecycle!End(S)
  BY <1>2, <1>3 DEF Lifecycle!End
<1> QED BY <1>4 DEF Moves, Lifecycle!Next

LEMMA EndMoves ==
  ASSUME ReportsInv, NEW r \in Reports, report[r].stage = "recording",
         \/ report' = [report EXCEPT ![r].stage = "collecting", ![r].kind = "observed"]
         \/ report' = [report EXCEPT ![r].stage = "collecting"],
         cutoff' = [cutoff EXCEPT ![r] = ran \ baseline[r]],
         UNCHANGED <<begun, evidence, baseline, prepared, server>>
  PROVE  Moves
<1>1. /\ DiskTyped' /\ report'[r].stage = "collecting" /\ report'[r].frozen = report[r].frozen
      /\ \A s \in Reports \ {r} : report'[s] = report[s]
  BY EndEffect DEF ReportsInv
<1>2. \A s \in Reports \ {r} : Stage(s)' = Stage(s) /\ Verdict(s)' = Verdict(s)
  BY <1>1, SameStage DEF SameReport
<1> DEFINE S == {r}
<1>3. /\ S \in SUBSET Reports
      /\ \A s \in S : /\ report[s].stage = "recording" /\ report'[s].frozen = report[s].frozen
                      /\ report'[s].stage \in {"collecting", "settled"}
      /\ \A s \in Reports \ S : Stage(s)' = Stage(s) /\ Verdict(s)' = Verdict(s)
  BY <1>1, <1>2
<1> HIDE DEF S
<1> QED BY <1>1, <1>3, EndsMove

LEMMA RestartMoves ==
  ASSUME ReportsInv, Restart
  PROVE  Moves
<1> DEFINE open == {r \in Reports : report[r].stage = "recording"}
<1>1. /\ report' = [r \in Reports |-> Recovered(report[r])]
      /\ UNCHANGED <<begun, evidence, baseline, cutoff, prepared, server>>
  BY DEF Restart
<1>2. \A r \in Reports : report'[r] = Recovered(report[r]) /\ report[r] \in ReportType
  BY <1>1 DEF ReportsInv, DiskTyped
<1>3. DiskTyped'
  <2>1. \A r \in Reports : Recovered(report[r]) \in ReportType
    BY <1>2, RecoveredIs
  <2> QED BY <1>1, <2>1 DEF ReportsInv, DiskTyped
<1>4. \A r \in open : /\ report'[r].stage = "settled" /\ report'[r].frozen = report[r].frozen
                      /\ report[r].stage = "recording"
  BY <1>2, RecoveredIs
<1>5. ASSUME NEW r \in Reports \ open
      PROVE  Stage(r)' = Stage(r) /\ Verdict(r)' = Verdict(r)
  <2>1. /\ report'[r].frozen = report[r].frozen
        /\ report[r].stage = "collecting" =>
             report'[r].stage = "settled" /\ report'[r].kind = report[r].kind
        /\ report[r].stage # "collecting" => report'[r] = report[r]
    BY <1>2, RecoveredIs
  <2> QED BY <2>1 DEF Stage, Verdict, Ended
<1> HIDE DEF open
<1>6. open \in SUBSET Reports
  BY DEF open
<1> QED BY <1>1, <1>3, <1>4, <1>5, <1>6, EndsMove

(* An upload that is sent again sends what the server has. *)
LEMMA SendMoves ==
  ASSUME ReportsInv, NEW c \in Callers, SendUpload(c)
  PROVE  Moves
<1> DEFINE r == upload[c].report
<1>1. /\ r \in Reports /\ UNCHANGED <<report, evidence>>
      /\ server' = [server EXCEPT ![r] = prepared[r]] /\ server \in [Reports -> PayloadType]
  BY Known DEF ReportsInv, Control, SendUpload, diskVars, Callers, HelpersTyped
<1>2. /\ report[r].frozen /\ prepared[r] # NoPayload /\ prepared[r].evidence = evidence[r]
      /\ server[r] \in {NoPayload, prepared[r]}
  BY <1>1 DEF ReportsInv, Sent, SendUpload
<1>3. PICK s \in Reports : s = r
  BY <1>1
<1>4. CASE server[r] = prepared[r]
  <2>1. UNCHANGED server
    BY <1>1, <1>4
  <2> QED BY <1>1, <2>1, OthersMove
<1>5. CASE server[r] = NoPayload
  <2>1. Stage(s) = "frozen"
    BY <1>2, <1>3 DEF Stage
  <2>2. \A q \in Reports : Stage(q)' = Stage(q) /\ Verdict(q)' = Verdict(q)
    BY <1>1, SameStage DEF SameReport
  <2>3. /\ server[s] = NoPayload /\ server'[s] # NoPayload /\ server'[s].evidence = evidence[s]
        /\ \A q \in Reports \ {s} : server'[q] = server[q]
    BY <1>1, <1>2, <1>3, <1>5
  <2>4. Lifecycle!Send(s)
    BY <1>1, <2>1, <2>2, <2>3 DEF Lifecycle!Send, Lifecycle!Others
  <2> QED BY <2>4 DEF Moves, Lifecycle!Next
<1> QED BY <1>2, <1>4, <1>5

(* Every step of the session. *)
LEMMA DiagnosticsMoves ==
  ASSUME ReportsInv, DiagnosticsNext \/ UNCHANGED diagnosticsVars
  PROVE  Moves
<1> USE DEF diskVars, helperVars, gameVars, sessionVars, processVars
<1>1. CASE LaunchStep
  <2>1. CASE BeginLaunch \/ BeginLaunchFails
    <3>1. FALSE \in Flags /\ debug.enabled \in Flags
      BY DEF ReportsInv, ControlTyped, DebugType, Flags
    <3>2. UNCHANGED server
      BY <2>1 DEF BeginLaunch, BeginLaunchFails
    <3>3. BeginReport(FALSE, debug.enabled, {}) \/ BeginReport(FALSE, debug.enabled, {"orphan"})
      BY <2>1 DEF BeginLaunch, BeginLaunchFails
    <3> QED BY <3>1, <3>2, <3>3, BeginMoves
  <2>2. CASE LaunchFails \/ LaunchOver \/ \E r \in Reports : Spawn(r) \/ GameExits(r)
    BY <2>2, OthersMove DEF LaunchFails, LaunchOver, Spawn, GameExits
  <2> QED BY <1>1, <2>1, <2>2 DEF LaunchStep
<1>2. CASE Request
  <2>1. ASSUME NEW goal, StartManual(goal)  PROVE Moves
    <3>1. TRUE \in Flags /\ FALSE \in Flags
      BY DEF Flags
    <3>2. UNCHANGED server /\ BeginReport(TRUE, FALSE, {})
      BY <2>1 DEF StartManual
    <3> QED BY <3>1, <3>2, BeginMoves
  <2>2. CASE \/ \E goal \in {"capture", "crash"} : StartOnActive(goal)
             \/ \E r \in Reports : StartExport(r)
             \/ StartCrashReport \/ SetDebug
    BY <2>2, OthersMove DEF StartOnActive, StartExport, StartCrashReport, SetDebug
  <2> QED BY <1>2, <2>1, <2>2 DEF Request
<1>3. CASE FinishStep
  <2>1. CASE Finalize
    <3>1. active \in Reports /\ report[active].stage = "recording"
      BY <2>1, Known DEF ReportsInv, Control, Staged, Finalize
    <3> QED BY <2>1, <3>1, EndMoves DEF Finalize
  <2>2. CASE CollectFinal
    <3>1. active \in Begun
      BY <2>2, Known DEF ReportsInv, Control, CollectFinal
    <3> QED BY <2>2, <3>1, CollectMoves DEF CollectFinal
  <2>3. CASE StopObserver \/ StopFrames \/ FinishFails
    BY <2>3, OthersMove DEF StopObserver, StopFrames, StopOne, FinishFails
  <2> QED BY <1>3, <2>1, <2>2, <2>3 DEF FinishStep
<1>4. CASE JobStep
  <2>1. CASE FinalizeManual
    <3>1. job.report \in Reports /\ report[job.report].stage = "recording"
      BY <2>1, Known DEF ReportsInv, Control, Staged, FinalizeManual
    <3> QED BY <2>1, <3>1, EndMoves DEF FinalizeManual
  <2>2. CASE CollectCapture \/ Archive
    <3>1. job.report \in Begun
      BY <2>2 DEF ReportsInv, Control, CollectCapture, Archive
    <3> QED BY <2>2, <3>1, CollectMoves DEF CollectCapture, Archive
  <2>3. CASE Annotate
    <3> DEFINE noted == report[job.report].annotated \/ job.goal = "crash" \/ Ended(job.report)
    <3>1. noted = TRUE \/ noted = FALSE
      OBVIOUS
    <3>2. noted \in Flags
      BY <3>1, Zenon DEF Flags
    <3>3. report' = [report EXCEPT ![job.report].annotated = noted]
      BY <2>3 DEF Annotate
    <3> HIDE DEF noted
    <3>4. job.report \in Reports /\ UNCHANGED <<begun, evidence, baseline, cutoff, prepared, server>>
      BY <2>3, Known DEF ReportsInv, Control, Annotate
    <3>5. \A s \in Reports : SameReport(s)
      BY <3>2, <3>3, <3>4, NoteEffect DEF ReportsInv
    <3> QED BY <3>4, <3>5, NotesMove
  <2>4. CASE AwaitFinish \/ JobFails
    BY <2>4, OthersMove DEF AwaitFinish, JobFails
  <2> QED BY <1>4, <2>1, <2>2, <2>3, <2>4 DEF JobStep
<1>5. ASSUME NEW c \in Callers, UploadStep(c)  PROVE Moves
  <2>1. CASE SendUpload(c)
    BY <2>1, SendMoves
  <2>2. CASE RecordReceipt(c)
    <3>1. upload[c].report \in Reports /\ TRUE \in Flags
      BY <2>2, Known DEF ReportsInv, Control, RecordReceipt, Flags, Callers
    <3>2. \A s \in Reports : SameReport(s)
      BY <2>2, <3>1, NoteEffect DEF ReportsInv, RecordReceipt
    <3> QED BY <2>2, <3>2, NotesMove DEF RecordReceipt
  <2>3. CASE PrepareUpload(c) \/ UploadRefused(c) \/ UploadFails(c)
    BY <2>3, OthersMove DEF PrepareUpload, UploadRefused, UploadFails
  <2> QED BY <1>5, <2>1, <2>2, <2>3 DEF UploadStep
<1>6. CASE \/ \E r \in Reports, c \in Collectors : CollectorStarts(r, c) \/ CollectorEnds(r, c)
           \/ LauncherDies \/ UNCHANGED diagnosticsVars
  BY <1>6, OthersMove DEF CollectorStarts, CollectorEnds, LauncherDies, diagnosticsVars
<1>7. CASE Restart
  BY <1>7, RestartMoves
<1> QED BY <1>1, <1>2, <1>3, <1>4, <1>5, <1>6, <1>7 DEF DiagnosticsNext, Progress

-----------------------------------------------------------------------------
(* Theorems *)

(* The inductive invariant holds in every reachable state. *)
THEOREM ReportsInductive == DiagnosticsSpec => []ReportsInv
<1>1. ReportsInv /\ [DiagnosticsNext]_diagnosticsVars => ReportsInv'
  BY DiagnosticsSteps
<1> QED BY DiagnosticsBegins, <1>1, PTL DEF DiagnosticsSpec

(* isBusy() can trust the status: it says recording exactly while a Debug
   session is recorded and preparing exactly while one is finalized or sent,
   through every failure, death and restart.                                *)
THEOREM StatusTheorem == DiagnosticsSpec => []StatusTellsSession
<1>1. ReportsInv => StatusTellsSession
  BY DEF ReportsInv
<1> QED BY ReportsInductive, <1>1, PTL

(* What is frozen of a session is what its collectors left, for any number of
   sessions, requests, deaths and failures.                                 *)
THEOREM EvidenceTheorem == DiagnosticsSpec => []EvidenceComplete
<1>1. ReportsInv => EvidenceComplete
  BY DEF ReportsInv
<1> QED BY ReportsInductive, <1>1, PTL

(* The logs gathered for a session that ended while the launcher ran are of
   its own game, however late they are gathered.                            *)
THEOREM LogsTheorem == DiagnosticsSpec => []NoForeignLogs
<1>1. ReportsInv => NoForeignLogs
  BY DEF ReportsInv, Logged, Own, NoForeignLogs
<1> QED BY ReportsInductive, <1>1, PTL

(* The controller and its reports implement the lifecycle of a report: opened
   and ended once, frozen after the end, sent once and as it was frozen.     *)
THEOREM LifecycleTheorem == DiagnosticsSpec => KeepsLifecycle
<1>1. DiagnosticsInit => Lifecycle!Init
  <2>1. ASSUME DiagnosticsInit, NEW r \in Reports
        PROVE  Stage(r) = "absent" /\ Verdict(r) = "none"
    BY <2>1, UnbegunIs DEF DiagnosticsInit, Stage, Verdict, Ended
  <2> QED BY <2>1 DEF Lifecycle!Init, DiagnosticsInit
<1>2. ReportsInv /\ [DiagnosticsNext]_diagnosticsVars => [Lifecycle!Next]_(Lifecycle!vars)
  BY DiagnosticsMoves DEF Moves
<1> QED BY ReportsInductive, <1>1, <1>2, PTL DEF DiagnosticsSpec, KeepsLifecycle, Lifecycle!Spec
==============================================================================
