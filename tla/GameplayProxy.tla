---------------------------- MODULE GameplayProxy ----------------------------
(***************************************************************************)
(* The proxy dinput8.dll inside a running game                             *)
(* (src/native/gameplaypatch).  A worker thread waits until the unpacked   *)
(* code of the game is there, then patches one byte at each of two sites   *)
(* and hooks the idle function of the actor; a watchdog thread polls the   *)
(* opt-in marker next to the executable and undoes it when the marker has  *)
(* gone.  The launcher of GameplayPatch works on that marker while the     *)
(* game has the DLL mapped, and so may the player.                         *)
(*                                                                         *)
(* Every call of the system may fail; MaxFaults bounds how many do in a    *)
(* behaviour.  Another tool may patch a site too ("foreign").              *)
(***************************************************************************)
EXTENDS GameplayPatch, Naturals

CONSTANTS
  StableReads,  \* consecutive good reads wanted (ROTK_STABLE_READS_REQUIRED)
  ReadLimit,    \* reads tried (ROTK_STABLE_READ_LIMIT)
  MaxFaults     \* bound: system calls that fail

ASSUME ProxyAssumption ==
  /\ StableReads \in Nat \ {0} /\ ReadLimit \in Nat
  /\ MaxFaults \in Nat

VARIABLES
  site,      \* the byte at each site
  respawn,   \* the continuation operand: an address "va", an offset "rva"
  worker,    \* patch_worker: where it is, good reads in a row, reads tried
  watchdog,  \* watchdog_worker
  enabled,   \* stance_enabled
  hooked,    \* the idle function of the actor calls the proxy
  tick,      \* what the actor thread read of stance_enabled in this call
  rule,      \* the sprint rule of the zone: "one" as made, "zero" by the proxy
  held,      \* the allocation the proxy remembers having changed
  faults

memoryVars == <<site, respawn>>
actorVars  == <<tick, rule, held>>
proxyVars  == <<site, respawn, worker, watchdog, enabled, hooked,
                tick, rule, held, faults>>
vars == <<patchVars, proxyVars>>

Sites == {"A", "B"}

(* The game has just loaded the DLL that the launcher deployed *)
Init ==
  /\ dll = "active" /\ marker \in Markers /\ apply = NoApply
  /\ site = [s \in Sites |-> "packed"] /\ respawn \in {"va", "rva", "other"}
  /\ worker = [pc |-> "unborn", reads |-> 0, tries |-> 0]
  /\ watchdog = "none"
  /\ enabled = FALSE /\ hooked = FALSE
  /\ tick = "idle" /\ rule = "one" /\ held = "none"
  /\ faults = 0

(* k calls of the system fail *)
Fault(k) == faults + k <= MaxFaults /\ faults' = faults + k
NoFault  == UNCHANGED faults

WorkerGoes(pc) == worker' = [worker EXCEPT !.pc = pc]

MarkerEnabled == marker = "current"

PatchReady(s)   == site[s] = "stock"
SignaturesReady == \A s \in Sites : PatchReady(s)

-----------------------------------------------------------------------------
(***************************************************************************)
(* write_guarded_byte: true when the byte was exchanged, flushed and its   *)
(* page closed again.  False: the byte was another one; a call failed and  *)
(* the byte is what it was, if need be after the rollback; or the rollback *)
(* could not open the page any more, and the byte stays.                   *)
(***************************************************************************)
WriteSucceeds(s, from, to) ==
  /\ site[s] = from
  /\ site' = [site EXCEPT ![s] = to]
  /\ NoFault

WriteFails(s, from, to) ==
  \/ site[s] # from /\ UNCHANGED site /\ NoFault
  \/ UNCHANGED site /\ Fault(1)
  \/ site[s] = from /\ site' = [site EXCEPT ![s] = to] /\ Fault(2)

(* One half of restore_patch_pair; a byte that cannot be read is skipped *)
RestoreSite(s) ==
  \/ site[s] # "patched" /\ UNCHANGED site /\ NoFault
  \/ site[s] = "patched" /\ WriteSucceeds(s, "patched", "stock")
  \/ site[s] = "patched" /\ WriteFails(s, "patched", "stock")

-----------------------------------------------------------------------------
(***************************************************************************)
(* start_patch_worker (from DirectInput8Create) and patch_worker.          *)
(***************************************************************************)
WorkerStays == UNCHANGED <<patchVars, watchdog, actorVars>>

(* A failing CreateThread is tried again at the next DirectInput8Create *)
StartPatchWorker ==
  /\ worker.pc = "unborn"
  /\ WorkerGoes("validate")
  /\ NoFault /\ UNCHANGED <<memoryVars, enabled, hooked>> /\ WorkerStays

(* validate_h1z1_image, the grace period and the first look at the marker *)
ValidateImage ==
  /\ worker.pc = "validate"
  /\ \/ WorkerGoes(IF MarkerEnabled THEN "stable" ELSE "skipped") /\ NoFault
     \/ WorkerGoes("skipped") /\ Fault(1)
  /\ UNCHANGED <<memoryVars, enabled, hooked>> /\ WorkerStays

(* wait_for_stable_signatures, one read *)
ReadSignatures ==
  /\ worker.pc = "stable"
  /\ LET good  == SignaturesReady /\ MarkerEnabled
         reads == IF good THEN worker.reads + 1 ELSE 0
         tries == worker.tries + 1
     IN worker' = [reads |-> reads, tries |-> tries,
                   pc |-> IF reads >= StableReads THEN "recheck"
                          ELSE IF tries >= ReadLimit THEN "skipped" ELSE "stable"]
  /\ NoFault /\ UNCHANGED <<memoryVars, enabled, hooked>> /\ WorkerStays

RecheckMarker ==
  /\ worker.pc = "recheck"
  /\ WorkerGoes(IF MarkerEnabled THEN "respawn" ELSE "skipped")
  /\ NoFault /\ UNCHANGED <<memoryVars, enabled, hooked>> /\ WorkerStays

(* respawn_address_install: whatever comes of it, the pair is next *)
RepairRespawn ==
  /\ worker.pc = "respawn"
  /\ \/ respawn' = (IF respawn = "va" THEN "rva" ELSE respawn) /\ NoFault
     \/ respawn = "va" /\ respawn' \in {"va", "rva"} /\ Fault(1)
  /\ WorkerGoes("installA")
  /\ UNCHANGED <<site, enabled, hooked>> /\ WorkerStays

(* install_patch_pair: both signatures are wanted for the first byte *)
InstallFirst ==
  /\ worker.pc = "installA"
  /\ \/ SignaturesReady /\ WriteSucceeds("A", "stock", "patched")
          /\ WorkerGoes("installB")
     \/ SignaturesReady /\ WriteFails("A", "stock", "patched")
          /\ WorkerGoes("refused")
     \/ ~SignaturesReady /\ UNCHANGED site /\ NoFault /\ WorkerGoes("refused")
  /\ UNCHANGED <<respawn, enabled, hooked>> /\ WorkerStays

(* Mutant of InstallSecond: a second byte that fails does not undo the first *)
InstallSecondAlone ==
  /\ worker.pc = "installB"
  /\ \/ WriteSucceeds("B", "stock", "patched") /\ WorkerGoes("stance")
     \/ WriteFails("B", "stock", "patched") /\ WorkerGoes("refused")
  /\ UNCHANGED <<respawn, enabled, hooked>> /\ WorkerStays

InstallSecond ==
  /\ worker.pc = "installB"
  /\ \/ WriteSucceeds("B", "stock", "patched") /\ WorkerGoes("stance")
     \/ WriteFails("B", "stock", "patched") /\ WorkerGoes("undoA")
  /\ UNCHANGED <<respawn, enabled, hooked>> /\ WorkerStays

UndoPair ==
  /\ \/ worker.pc = "undoA" /\ RestoreSite("A") /\ WorkerGoes("undoB")
     \/ worker.pc = "undoB" /\ RestoreSite("B") /\ WorkerGoes("refused")
  /\ UNCHANGED <<respawn, enabled, hooked>> /\ WorkerStays

(* stance_install up to stance_commit: skipped or refused, or the hooks are
   in; in spite of a false return when a page could not be closed again *)
InstallStance ==
  /\ worker.pc = "stance"
  /\ \/ hooked' = TRUE  /\ WorkerGoes("enable") /\ NoFault
     \/ hooked' = FALSE /\ WorkerGoes("watch")  /\ NoFault
     \/ hooked' = TRUE  /\ WorkerGoes("watch")  /\ Fault(1)
  /\ UNCHANGED <<memoryVars, enabled>> /\ WorkerStays

EnableStance ==
  /\ worker.pc = "enable"
  /\ enabled' = TRUE
  /\ WorkerGoes("watch")
  /\ NoFault /\ UNCHANGED <<memoryVars, hooked>> /\ WorkerStays

(* start_watchdog *)
StartWatchdog ==
  /\ worker.pc = "watch"
  /\ \/ watchdog' = "asleep" /\ NoFault
     \/ UNCHANGED watchdog /\ Fault(1)
  /\ WorkerGoes("done")
  /\ UNCHANGED <<patchVars, memoryVars, enabled, hooked, actorVars>>

WorkerStep ==
  \/ StartPatchWorker \/ ValidateImage \/ ReadSignatures \/ RecheckMarker
  \/ RepairRespawn \/ InstallFirst \/ InstallSecond \/ UndoPair
  \/ InstallStance \/ EnableStance \/ StartWatchdog

-----------------------------------------------------------------------------
(***************************************************************************)
(* watchdog_worker: a poll that finds the marker changes nothing; one that *)
(* does not, or cannot read it, ends the patch for good.                   *)
(***************************************************************************)
WatchdogStays ==
  UNCHANGED <<patchVars, respawn, worker, hooked, actorVars>>

PollMarker ==
  /\ watchdog = "asleep"
  /\ \/ ~MarkerEnabled /\ NoFault
     \/ MarkerEnabled /\ Fault(1)
  /\ watchdog' = "disable"
  /\ UNCHANGED <<site, enabled>> /\ WatchdogStays

DisableStance ==
  /\ watchdog = "disable"
  /\ enabled' = FALSE
  /\ watchdog' = "restoreA"
  /\ NoFault /\ UNCHANGED site /\ WatchdogStays

RestorePair ==
  /\ \/ watchdog = "restoreA" /\ RestoreSite("A") /\ watchdog' = "restoreB"
     \/ watchdog = "restoreB" /\ RestoreSite("B") /\ watchdog' = "ended"
  /\ UNCHANGED enabled /\ WatchdogStays

(* Mutant of WatchdogStep: the bytes first, the stance afterwards *)
RestoreThenDisable ==
  \/ PollMarker
  \/ /\ watchdog = "disable" /\ RestoreSite("A") /\ watchdog' = "restoreB"
     /\ UNCHANGED enabled /\ WatchdogStays
  \/ /\ watchdog = "restoreB" /\ RestoreSite("B") /\ watchdog' = "restoreA"
     /\ UNCHANGED enabled /\ WatchdogStays
  \/ /\ watchdog = "restoreA" /\ enabled' = FALSE /\ watchdog' = "ended"
     /\ NoFault /\ UNCHANGED site /\ WatchdogStays

WatchdogStep == PollMarker \/ DisableStance \/ RestorePair

-----------------------------------------------------------------------------
(***************************************************************************)
(* stance_idle on the actor thread: it reads stance_enabled, then brings   *)
(* the rule of the current zone to what it read (stance_sprint_rule).      *)
(***************************************************************************)
ActorStays == UNCHANGED <<patchVars, memoryVars, worker, watchdog, enabled, hooked>>

ReadEnabled ==
  /\ hooked /\ tick = "idle"
  /\ tick' = IF enabled THEN "on" ELSE "off"
  /\ NoFault /\ UNCHANGED <<rule, held>> /\ ActorStays

(* A rule that is not private to the zone, or already changed, is left *)
TakeRule ==
  /\ tick = "on"
  /\ \/ rule = "one" /\ rule' = "zero" /\ held' = "current"
     \/ UNCHANGED <<rule, held>>
  /\ tick' = "idle"
  /\ NoFault /\ ActorStays

(* Mutant of ReturnRule: what the proxy changed is forgotten, not undone *)
ForgetRule ==
  /\ tick = "off"
  /\ held' = "none" /\ tick' = "idle"
  /\ NoFault /\ UNCHANGED rule /\ ActorStays

(* Only the allocation that the proxy changed itself is changed back *)
ReturnRule ==
  /\ tick = "off"
  /\ \/ rule' = (IF held = "current" THEN "one" ELSE rule) /\ NoFault
     \/ held = "current" /\ UNCHANGED rule /\ Fault(1)
  /\ held' = "none" /\ tick' = "idle"
  /\ ActorStays

ActorStep == ReadEnabled \/ TakeRule \/ ReturnRule

-----------------------------------------------------------------------------
(***************************************************************************)
(* The game, other tools, the launcher and the player.                     *)
(***************************************************************************)
(* The protected executable is unpacked; an unknown one looks different *)
Unpack ==
  /\ \A s \in Sites : site[s] = "packed"
  /\ site' \in [Sites -> {"stock", "foreign"}]
  /\ UNCHANGED <<patchVars, respawn, worker, watchdog, enabled, hooked,
                 actorVars, faults>>

OtherToolWrites(s) ==
  /\ \A t \in Sites : site[t] # "foreign"
  /\ site[s] # "packed"
  /\ site' = [site EXCEPT ![s] = "foreign"]
  /\ UNCHANGED <<patchVars, respawn, worker, watchdog, enabled, hooked,
                 actorVars, faults>>

(* A new zone has rules of its own; what the proxy remembers is stale *)
NewZone ==
  /\ tick = "idle" /\ held = "current"
  /\ rule' = "one" /\ held' = "stale"
  /\ UNCHANGED <<patchVars, memoryVars, worker, watchdog, enabled, hooked,
                 tick, faults>>

(* gameplay-patch.ts beside a running game: the DLL is mapped *)
LauncherStep ==
  /\ \/ \E mode \in Modes : ~Working /\ apply' = StartApply(mode)
                            /\ UNCHANGED <<dll, marker>>
     \/ PatchStep(TRUE) \/ PatchFails
     \/ \E written \in BOOLEAN : WriteMarkerFails(written)
     \/ FilesDrift(TRUE)
  /\ UNCHANGED proxyVars

Next ==
  \/ WorkerStep \/ WatchdogStep \/ ActorStep
  \/ Unpack \/ NewZone \/ \E s \in Sites : OtherToolWrites(s)
  \/ LauncherStep

(* The threads of the proxy and the frames of the game go on *)
Fairness == WF_vars(WorkerStep) /\ WF_vars(WatchdogStep) /\ WF_vars(ActorStep)

Spec == Init /\ [][Next]_vars /\ Fairness
==============================================================================
