--------------------------- MODULE GameDllProofs ---------------------------
(***************************************************************************)
(* Proofs about the three DLLs that the launcher gives the game.  Of the   *)
(* gameplay proxy: the pair of bytes is all or nothing, and the stance is  *)
(* changed only beside the whole pair, for any number of good reads wanted *)
(* and of failing calls.  Of the Steam shim: the game's picture of the     *)
(* menu is the lobby that its calls show, for any frames, callback objects *)
(* and limits of the tables.  Of the Vivox proxy: the table of crouch      *)
(* blends keeps its promises for any number of threads, networks and       *)
(* entries, any hints and any delays; and the events of the voice HUD lead *)
(* the game to the speakers the proxy knows, for any players, sessions,    *)
(* slots, length of the queue and frames.                                  *)
(***************************************************************************)
EXTENDS GameplayProxyProps, SteamShimProps, CrouchBlendProps, VoiceHudProps, TLAPS,
        WellFoundedInduction, SequenceTheorems, FiniteSetTheorems

(* The types of what the proxy's threads share. *)
Typed ==
  /\ site \in [Sites -> {"packed", "stock", "patched", "foreign"}]
  /\ worker \in [pc : {"unborn", "validate", "stable", "recheck", "respawn",
                       "installA", "installB", "undoA", "undoB", "refused",
                       "stance", "enable", "watch", "done", "skipped"},
                 reads : Nat, tries : Nat]
  /\ watchdog \in {"none", "asleep", "disable", "restoreA", "restoreB", "ended"}
  /\ enabled \in BOOLEAN /\ faults \in Nat

(* What went wrong so far: one thing, and two. *)
Wrong      == Taken \/ faults > 0
WrongTwice == faults > 1 \/ (Taken /\ faults > 0)

(* Before the first byte the proxy has written none. *)
Untouched ==
  worker.pc \in {"unborn", "validate", "stable", "recheck", "respawn",
                 "installA", "skipped"}
    => \A s \in Sites : site[s] # "patched"

(* Between the bytes, and on the way back from the second. *)
Halfway ==
  /\ worker.pc = "installB" => site["B"] \in {"stock", "foreign"}
  /\ worker.pc \in {"undoA", "undoB"} => Wrong
  /\ worker.pc = "undoA" /\ site["B"] = "patched" => WrongTwice
  /\ worker.pc = "undoB" /\ (site["A"] = "patched" \/ site["B"] = "patched")
       => WrongTwice
  /\ worker.pc = "refused" /\ (site["A"] = "patched" \/ site["B"] = "patched")
       => WrongTwice
  /\ worker.pc = "installB" => site["A"] \in {"patched", "foreign"}

(* Beyond the second byte the pair is whole until the watchdog restores it,
   and the watchdog lives only after the worker. *)
Whole ==
  /\ worker.pc \in {"stance", "enable", "watch", "done"}
       /\ watchdog \in {"none", "asleep", "disable"}
       => \A s \in Sites : site[s] \in {"patched", "foreign"}
  /\ watchdog # "none" => worker.pc = "done"
  /\ enabled => /\ worker.pc \in {"watch", "done"}
                /\ watchdog \in {"none", "asleep", "disable"}

IInv == Typed /\ Untouched /\ Halfway /\ Whole

(* The game has not been touched when it starts. *)
LEMMA InitHolds == Init => IInv
<1> SUFFICES ASSUME Init PROVE IInv
  OBVIOUS
<1>1. worker.pc = "unborn" /\ watchdog = "none" /\ ~enabled /\ \A s \in Sites : site[s] = "packed"
  BY DEF Init
<1>2. Typed
  BY DEF Init, Typed, Sites
<1> QED BY <1>1, <1>2 DEF IInv, Untouched, Halfway, Whole

(* A step of the worker. *)
LEMMA WorkerHolds == IInv /\ WorkerStep => IInv'
<1> SUFFICES ASSUME IInv, WorkerStep PROVE IInv'
  OBVIOUS
<1> USE ProxyAssumption DEF IInv, Sites, WorkerStays, WorkerGoes, NoFault, Fault, memoryVars
<1>1. Typed'
  <2>1. CASE StartPatchWorker BY <2>1 DEF StartPatchWorker, Typed
  <2>2. CASE ValidateImage BY <2>2 DEF ValidateImage, Typed
  <2>3. CASE ReadSignatures BY <2>3 DEF ReadSignatures, Typed
  <2>4. CASE RecheckMarker BY <2>4 DEF RecheckMarker, Typed
  <2>5. CASE RepairRespawn BY <2>5 DEF RepairRespawn, Typed
  <2>6. CASE InstallFirst BY <2>6 DEF InstallFirst, WriteSucceeds, WriteFails, Typed
  <2>7. CASE InstallSecond BY <2>7 DEF InstallSecond, WriteSucceeds, WriteFails, Typed
  <2>8. CASE UndoPair BY <2>8 DEF UndoPair, RestoreSite, WriteSucceeds, WriteFails, Typed
  <2>9. CASE InstallStance BY <2>9 DEF InstallStance, Typed
  <2>10. CASE EnableStance BY <2>10 DEF EnableStance, Typed
  <2>11. CASE StartWatchdog BY <2>11 DEF StartWatchdog, Typed
  <2> QED BY <2>1, <2>2, <2>3, <2>4, <2>5, <2>6, <2>7, <2>8, <2>9, <2>10, <2>11 DEF WorkerStep
<1>2. CASE StartPatchWorker \/ ValidateImage \/ ReadSignatures \/ RecheckMarker \/ RepairRespawn
  <2>1. UNCHANGED <<site, watchdog, enabled>> /\ faults' >= faults
    BY <1>2 DEF StartPatchWorker, ValidateImage, ReadSignatures, RecheckMarker, RepairRespawn, Typed
  <2>2. /\ worker.pc \in {"unborn", "validate", "stable", "recheck", "respawn"}
        /\ worker'.pc \in {"unborn", "validate", "stable", "recheck", "respawn", "installA", "skipped"}
    BY <1>2 DEF StartPatchWorker, ValidateImage, ReadSignatures, RecheckMarker, RepairRespawn, Typed
  <2> QED BY <1>1, <2>1, <2>2 DEF Untouched, Halfway, Whole, Typed
<1>3. CASE InstallFirst
  <2>1. worker'.pc \in {"refused", "installB"} /\ UNCHANGED <<watchdog, enabled>> /\ worker.pc = "installA"
    BY <1>3 DEF InstallFirst, Typed
  <2>2. worker'.pc = "refused" /\ (site'["A"] = "patched" \/ site'["B"] = "patched") => faults' > 1
    BY <1>3 DEF InstallFirst, WriteSucceeds, WriteFails, Typed, Untouched
  <2>3. worker'.pc = "installB" => site'["B"] = "stock" /\ site'["A"] = "patched"
    BY <1>3 DEF InstallFirst, WriteSucceeds, Typed, SignaturesReady, PatchReady
  <2>4. Untouched' /\ Halfway'
    BY <2>1, <2>2, <2>3 DEF Untouched, Halfway, WrongTwice
  <2>5. Whole'
    BY <2>1 DEF Whole
  <2> QED BY <1>1, <2>4, <2>5
<1>4. CASE InstallSecond
  <2>1. worker'.pc \in {"stance", "undoA"} /\ UNCHANGED <<watchdog, enabled>> /\ worker.pc = "installB"
    BY <1>4 DEF InstallSecond, Typed
  <2>2. worker'.pc = "undoA" => Wrong'
    BY <1>4 DEF InstallSecond, WriteFails, Typed, Halfway, Wrong, Taken
  <2>3. worker'.pc = "undoA" /\ site'["B"] = "patched" => faults' > 1
    BY <1>4 DEF InstallSecond, WriteFails, Typed, Halfway
  <2>4. worker'.pc = "stance" => \A s \in Sites : site'[s] \in {"patched", "foreign"}
    BY <1>4 DEF InstallSecond, WriteSucceeds, Typed, Halfway
  <2> QED BY <1>1, <2>1, <2>2, <2>3, <2>4 DEF Untouched, Halfway, Whole, WrongTwice
<1>5. CASE UndoPair
  <2>1. UNCHANGED <<watchdog, enabled>> /\ (Wrong => Wrong') /\ (WrongTwice => WrongTwice')
    BY <1>5 DEF UndoPair, RestoreSite, WriteSucceeds, WriteFails, Typed, Wrong, WrongTwice, Taken
  <2>2. CASE worker.pc = "undoA"
    <3>1. worker'.pc = "undoB" /\ site'["B"] = site["B"]
      BY <1>5, <2>2 DEF UndoPair, RestoreSite, WriteSucceeds, WriteFails, Typed
    <3>2. site'["A"] = "patched" => WrongTwice'
      BY <1>5, <2>2 DEF UndoPair, RestoreSite, WriteSucceeds, WriteFails, Typed, Halfway,
                        Wrong, WrongTwice, Taken
    <3> QED BY <1>1, <2>1, <2>2, <3>1, <3>2 DEF Untouched, Halfway, Whole
  <2>3. CASE worker.pc = "undoB"
    <3>1. worker'.pc = "refused" /\ site'["A"] = site["A"]
          /\ (site'["B"] = "patched" => site["B"] = "patched")
      BY <1>5, <2>3 DEF UndoPair, RestoreSite, WriteSucceeds, WriteFails, Typed
    <3> QED BY <1>1, <2>1, <2>3, <3>1 DEF Untouched, Halfway, Whole
  <2> QED BY <1>5, <2>2, <2>3 DEF UndoPair
<1>6. CASE InstallStance \/ EnableStance \/ StartWatchdog
  <2>1. UNCHANGED site /\ worker.pc \in {"stance", "enable", "watch"}
        /\ worker'.pc \in {"enable", "watch", "done"}
    BY <1>6 DEF InstallStance, EnableStance, StartWatchdog, Typed
  <2>2. watchdog = "none" /\ watchdog' \in {"none", "asleep"} /\ (watchdog' # "none" => worker'.pc = "done")
    BY <1>6, <2>1 DEF InstallStance, EnableStance, StartWatchdog, Whole, Typed
  <2>3. enabled' => worker'.pc \in {"watch", "done"}
    BY <1>6, <2>1 DEF InstallStance, EnableStance, StartWatchdog, Whole, Typed
  <2> QED BY <1>1, <2>1, <2>2, <2>3 DEF Untouched, Halfway, Whole
<1> QED BY <1>2, <1>3, <1>4, <1>5, <1>6 DEF WorkerStep

(* A step of the watchdog, which lives beside a worker that is done. *)
LEMMA WatchdogHolds == IInv /\ WatchdogStep => IInv'
<1> SUFFICES ASSUME IInv, WatchdogStep PROVE IInv'
  OBVIOUS
<1> USE DEF IInv, Sites, WatchdogStays, NoFault, Fault
<1>1. Typed'
  <2>1. CASE PollMarker BY <2>1 DEF PollMarker, Typed
  <2>2. CASE DisableStance BY <2>2 DEF DisableStance, Typed
  <2>3. CASE RestorePair
    BY <2>3, ProxyAssumption DEF RestorePair, RestoreSite, WriteSucceeds, WriteFails, Typed
  <2> QED BY <2>1, <2>2, <2>3 DEF WatchdogStep
<1>2. UNCHANGED worker /\ worker.pc = "done"
  <2>1. watchdog # "none" /\ UNCHANGED worker
    BY DEF WatchdogStep, PollMarker, DisableStance, RestorePair
  <2> QED BY <2>1 DEF Whole
<1>3. CASE PollMarker
  BY <1>1, <1>2, <1>3 DEF PollMarker, Untouched, Halfway, Whole
<1>4. CASE DisableStance
  BY <1>1, <1>2, <1>4 DEF DisableStance, Untouched, Halfway, Whole
<1>5. CASE RestorePair
  BY <1>1, <1>2, <1>5 DEF RestorePair, Untouched, Halfway, Whole
<1> QED BY <1>3, <1>4, <1>5 DEF WatchdogStep

(* A step of anybody else: no byte becomes the proxy's, none that is taken is
   given back, and the threads stay where they are. *)
LEMMA OthersHold ==
  ASSUME IInv,
         UNCHANGED <<worker, watchdog, enabled, faults>>,
         site' \in [Sites -> {"packed", "stock", "patched", "foreign"}],
         \A s \in Sites : /\ site[s] = "foreign" => site'[s] = "foreign"
                          /\ site[s] # "packed" => site'[s] \in {site[s], "foreign"}
                          /\ site'[s] = "patched" => site[s] = "patched"
  PROVE  IInv'
<1> USE DEF IInv, Sites
<1>1. Typed'
  BY DEF Typed
<1>2. Untouched'
  BY DEF Untouched
<1>3. (Wrong => Wrong') /\ (WrongTwice => WrongTwice')
  BY DEF Wrong, WrongTwice, Taken
<1>4. Halfway'
  BY <1>3 DEF Halfway
<1>5. Whole'
  BY DEF Whole
<1> QED BY <1>1, <1>2, <1>4, <1>5

(* Every step keeps the invariant. *)
LEMMA NextHolds == IInv /\ [Next]_vars => IInv'
<1> SUFFICES ASSUME IInv, [Next]_vars PROVE IInv'
  OBVIOUS
<1>1. CASE WorkerStep
  BY <1>1, WorkerHolds
<1>2. CASE WatchdogStep
  BY <1>2, WatchdogHolds
<1>3. CASE ActorStep \/ NewZone \/ LauncherStep \/ UNCHANGED vars
  <2>1. UNCHANGED <<site, worker, watchdog, enabled>>
    BY <1>3 DEF ActorStep, ReadEnabled, TakeRule, ReturnRule, ActorStays, NewZone,
                LauncherStep, proxyVars, vars, memoryVars
  <2>2. CASE UNCHANGED faults
    BY <2>1, <2>2, OthersHold DEF IInv, Typed
  <2>3. CASE ReturnRule
    <3>1. faults' \in Nat /\ faults' >= faults
      BY <2>3, ProxyAssumption DEF ReturnRule, NoFault, Fault, IInv, Typed
    <3>2. Typed' /\ Untouched' /\ Whole'
      BY <2>1, <3>1 DEF IInv, Typed, Untouched, Whole
    <3>3. (Wrong => Wrong') /\ (WrongTwice => WrongTwice')
      BY <2>1, <3>1 DEF Wrong, WrongTwice, Taken, IInv, Typed
    <3>4. Halfway'
      BY <2>1, <3>3 DEF IInv, Halfway
    <3> QED BY <3>2, <3>4 DEF IInv
  <2> QED BY <1>3, <2>2, <2>3 DEF ActorStep, ReadEnabled, TakeRule, NoFault, NewZone,
                LauncherStep, proxyVars, vars
<1>4. CASE Unpack
  BY <1>4, OthersHold DEF Unpack, IInv, Typed, Sites
<1>5. CASE \E s \in Sites : OtherToolWrites(s)
  BY <1>5, OthersHold DEF OtherToolWrites, IInv, Typed, Sites
<1> QED BY <1>1, <1>2, <1>3, <1>4, <1>5 DEF Next

(* The invariant holds in every state of the proxy. *)
LEMMA Inductive == Spec => []IInv
BY InitHolds, NextHolds, PTL DEF Spec

(* An installation that was refused leaves stock bytes, unless two things went
   wrong: however many reads were tried and calls may fail. *)
THEOREM RefusedTheorem == Spec => []RefusedMeansStock
<1>1. IInv => RefusedMeansStock
  BY DEF IInv, Halfway, RefusedMeansStock, WrongTwice, Sites
<1> QED BY Inductive, <1>1, PTL

(* The stance is enabled only between the second byte written and the first
   restored, in every interleaving of worker, watchdog, actor and launcher. *)
THEOREM StanceTheorem == Spec => []StanceNeedsPair
<1>1. IInv => StanceNeedsPair
  BY DEF IInv, Whole, StanceNeedsPair
<1> QED BY Inductive, <1>1, PTL

-----------------------------------------------------------------------------
(* The Steam shim. *)


(* The records have the fields that they begin with. *)
Shaped ==
  /\ DOMAIN pump = {"pc", "slot", "inside", "flush", "left"}
  /\ DOMAIN duo = {"shown", "next", "staged", "sequence", "left"}
  /\ DOMAIN view = {"roster", "look"}
  /\ pump.pc \in {"idle", "boot", "results", "poll", "leave", "join", "data"}
  /\ pump.pc = "idle" => ~pump.inside

(* Whoever shows nobody shows no look. *)
Plain ==
  /\ duo.shown.member = None => duo.shown = Alone
  /\ duo.next.member = None => duo.next = Alone

(* The picture before, between and after the events of one change. *)
Told ==
  /\ pump.pc \in {"idle", "boot", "results", "poll"}
       => /\ view.roster = {duo.shown.member} \ {None}
          /\ duo.shown.member # None => view.look = duo.shown.look
  /\ pump.pc = "leave"
       => view.roster = IF pump.inside THEN {} ELSE {pump.left}
  /\ pump.pc \in {"join", "data"} => duo.shown.member # None
  /\ pump.pc = "join"
       => view.roster = IF pump.inside THEN {duo.shown.member} ELSE {}
  /\ pump.pc = "data"
       => /\ view.roster = {duo.shown.member}
          /\ pump.inside => view.look = duo.shown.look

MenuInv == Shaped /\ Plain /\ Told

(* The menu shows nobody at first. *)
LEMMA MenuBegins == ShimInit => MenuInv
BY DEF ShimInit, MenuInv, Shaped, Plain, Told, Idle, Alone

(* What registers and calls leaves pump, lobby and picture alone, but for a
   dispatch of boot callbacks that begins. *)
LEMMA CallsHold ==
  ASSUME MenuInv, UNCHANGED <<duo, view>>,
         \/ UNCHANGED pump
         \/ /\ pump.pc \in {"idle", "boot", "results"}
            /\ pump'.pc \in {"idle", "boot", "results", "poll"}
            /\ DOMAIN pump' = {"pc", "slot", "inside", "flush", "left"}
            /\ pump'.pc = "idle" => ~pump'.inside
  PROVE  MenuInv'
BY DEF MenuInv, Shaped, Plain, Told

(* Messages and the clock change what comes next, not what is shown. *)
LEMMA MessagesHold ==
  ASSUME MenuInv, UNCHANGED <<pump, view>>,
         duo'.shown = duo.shown, DOMAIN duo' = DOMAIN duo,
         duo'.next.member = None => duo'.next = Alone
  PROVE  MenuInv'
BY DEF MenuInv, Shaped, Plain, Told

(* A poll either finds nothing new or begins with the first event. *)
LEMMA PollHolds == MenuInv /\ Poll => MenuInv'
<1> SUFFICES ASSUME MenuInv, Poll PROVE MenuInv'
  OBVIOUS
<1> DEFINE expired == duo.left = 1
           staged  == duo.staged \/ expired
           next    == IF expired THEN Alone ELSE duo.next
<1>1. /\ UNCHANGED view /\ pump.pc = "poll"
      /\ duo'.shown = (IF staged THEN next ELSE duo.shown) /\ duo'.next = next
      /\ DOMAIN duo' = DOMAIN duo
      /\ pump' = IF ~staged \/ next = duo.shown THEN Idle
                 ELSE [Idle EXCEPT !.pc = FirstNews(duo.shown.member, next.member),
                                   !.left = duo.shown.member]
  BY DEF Poll, At, MenuInv, Shaped
<1>2. next.member = None => next = Alone
  BY DEF MenuInv, Plain, Alone
<1> HIDE DEF expired, staged, next
<1>3. Plain'
  BY <1>1, <1>2 DEF MenuInv, Plain
<1>4. CASE ~staged \/ next = duo.shown
  <2>1. duo'.shown = duo.shown /\ pump' = Idle
    BY <1>1, <1>4
  <2> QED BY <1>1, <1>3, <2>1 DEF MenuInv, Shaped, Told, Idle
<1>5. CASE staged /\ next # duo.shown
  <2>1. duo'.shown = next /\ ~pump'.inside /\ pump'.left = duo.shown.member
        /\ pump'.pc = FirstNews(duo.shown.member, next.member)
        /\ DOMAIN pump' = {"pc", "slot", "inside", "flush", "left"}
    BY <1>1, <1>5 DEF Idle
  <2>2. Shaped'
    BY <1>1, <2>1 DEF MenuInv, Shaped, FirstNews
  <2>3. ~(duo.shown.member = None /\ next.member = None)
    BY <1>2, <1>5 DEF MenuInv, Plain
  <2>4. Told'
    BY <1>1, <2>1, <2>3 DEF MenuInv, Told, FirstNews
  <2> QED BY <1>3, <2>2, <2>4 DEF MenuInv
<1> QED BY <1>4, <1>5

(* An event tells the game, and the next one follows its handler. *)
LEMMA EventsHold ==
  MenuInv /\ (DispatchLeave \/ DispatchJoin \/ DispatchData \/ MenuReturns) => MenuInv'
<1> SUFFICES ASSUME MenuInv, DispatchLeave \/ DispatchJoin \/ DispatchData \/ MenuReturns
             PROVE  MenuInv'
  OBVIOUS
<1>1. UNCHANGED duo /\ Plain'
  BY DEF DispatchLeave, DispatchJoin, DispatchData, MenuReturns, Duo, MenuInv, Plain
<1>2. CASE DispatchLeave
  BY <1>1, <1>2 DEF DispatchLeave, At, MenuInv, Shaped, Told
<1>3. CASE DispatchJoin
  BY <1>1, <1>3 DEF DispatchJoin, At, MenuInv, Shaped, Told
<1>4. CASE DispatchData
  BY <1>1, <1>4 DEF DispatchData, At, MenuInv, Shaped, Told
<1>5. CASE MenuReturns
  BY <1>1, <1>5 DEF MenuReturns, Duo, Idle, MenuInv, Shaped, Told
<1> QED BY <1>2, <1>3, <1>4, <1>5

(* Every step keeps the invariant. *)
LEMMA MenuHolds == MenuInv /\ [ShimNext]_shimVars => MenuInv'
<1> SUFFICES ASSUME MenuInv, [ShimNext]_shimVars PROVE MenuInv'
  OBVIOUS
<1>1. CASE \/ Request
           \/ \E cb \in Callbacks : UnregisterCallback(cb)
           \/ \E cb \in CallResults, handle \in 1 .. MaxCalls : RegisterCallResult(cb, handle)
           \/ \E i \in Slots : UnregisterCallResult(i)
           \/ UNCHANGED shimVars
  BY <1>1, CallsHold DEF Request, UnregisterCallback, RegisterCallResult,
                         UnregisterCallResult, Duo, shimVars
<1>2. CASE \E cb \in Callbacks : RegisterCallback(cb)
  <2>1. UNCHANGED <<duo, view>>
    BY <1>2 DEF RegisterCallback, Duo
  <2>2. \/ UNCHANGED pump
        \/ pump = Idle /\ pump' = [Idle EXCEPT !.pc = "boot", !.flush = TRUE]
    BY <1>2, Zenon DEF RegisterCallback
  <2>3. CASE pump = Idle /\ pump' = [Idle EXCEPT !.pc = "boot", !.flush = TRUE]
    <3>1. /\ pump.pc = "idle" /\ pump'.pc = "boot"
          /\ DOMAIN pump' = {"pc", "slot", "inside", "flush", "left"}
      BY <2>3 DEF Idle
    <3> QED BY <2>1, <3>1, CallsHold
  <2> QED BY <2>1, <2>2, <2>3, CallsHold
<1>3. CASE RunCallbacks
  BY <1>3, CallsHold DEF RunCallbacks, Duo, Idle
<1>4. CASE DispatchBoot \/ BootReturns
  <2>1. UNCHANGED <<duo, view>> /\ pump.pc = "boot"
    BY <1>4 DEF DispatchBoot, BootReturns, At, Duo
  <2>2. CASE DispatchBoot
    <3>1. \/ pump' = [pump EXCEPT !.slot = Min(BootDue), !.inside = TRUE]
          \/ pump' = Idle
          \/ pump' = [Idle EXCEPT !.pc = "results"]
      BY <2>2, Zenon DEF DispatchBoot
    <3>2. CASE pump' = [pump EXCEPT !.slot = Min(BootDue), !.inside = TRUE]
      <4>1. pump'.pc = "boot" /\ DOMAIN pump' = {"pc", "slot", "inside", "flush", "left"}
        BY <2>1, <3>2 DEF MenuInv, Shaped
      <4> QED BY <2>1, <4>1, CallsHold
    <3>3. CASE pump' = Idle
      BY <2>1, <3>3, CallsHold DEF Idle
    <3>4. CASE pump' = [Idle EXCEPT !.pc = "results"]
      BY <2>1, <3>4, CallsHold DEF Idle
    <3> QED BY <3>1, <3>2, <3>3, <3>4
  <2>3. CASE BootReturns
    <3>1. pump' = [pump EXCEPT !.inside = FALSE, !.slot = @ + 1]
      BY <2>3, Zenon DEF BootReturns
    <3> QED BY <2>1, <3>1, CallsHold DEF MenuInv, Shaped
  <2> QED BY <1>4, <2>2, <2>3
<1>5. CASE DispatchResult \/ ResultReturns
  BY <1>5, CallsHold DEF DispatchResult, ResultReturns, At, Duo, Idle, MenuInv, Shaped
<1>6. CASE \E n \in 1 .. Len(Frames) : Receive(n)
  <2>1. PICK n \in 1 .. Len(Frames) : Receive(n)
    BY <1>6
  <2>2. Content(n).member = None => Content(n) = Alone
    BY DEF Content, Alone
  <2>3. /\ UNCHANGED <<pump, view>>
        /\ duo'.shown = duo.shown /\ DOMAIN duo' = DOMAIN duo
        /\ duo'.next \in {duo.next, Content(n)}
    BY <2>1 DEF Receive, MenuInv, Shaped
  <2> QED BY <2>2, <2>3, MessagesHold DEF MenuInv, Plain
<1>7. CASE ReceiveClear \/ Tick
  <2>1. /\ UNCHANGED <<pump, view>>
        /\ duo'.shown = duo.shown /\ DOMAIN duo' = DOMAIN duo
        /\ duo'.next \in {duo.next, Alone}
    BY <1>7 DEF ReceiveClear, Tick, MenuInv, Shaped
  <2> QED BY <2>1, MessagesHold DEF MenuInv, Plain
<1>8. CASE Poll
  BY <1>8, PollHolds
<1>9. CASE DispatchLeave \/ DispatchJoin \/ DispatchData \/ MenuReturns
  BY <1>9, EventsHold
<1> QED BY <1>1, <1>2, <1>3, <1>4, <1>5, <1>6, <1>7, <1>8, <1>9 DEF ShimNext, PumpStep

(* After every pump the callbacks have told the game exactly the lobby that its
   other calls show, whatever frames came, also inside its handlers. *)
THEOREM PictureTheorem == ShimSpec => []CallbacksTellLobby
<1>1. MenuInv => CallbacksTellLobby
  BY DEF MenuInv, Told, CallbacksTellLobby, Idle
<1>2. ShimSpec => []MenuInv
  BY MenuBegins, MenuHolds, PTL DEF ShimSpec
<1> QED BY <1>1, <1>2, PTL

-----------------------------------------------------------------------------
(* The table of crouch blends *)

(* Empty entries are idle, no entry is ahead of the player who has its network,
   and no call has a number that was not given out. *)
EmptyIsIdle ==
  \A i \in Entries : states[i].network = NoNetwork => ~states[i].transitioning

NotAhead ==
  \A i \in Entries :
    states[i].network # NoNetwork => states[i].generation <= live[states[i].network]

CallsNumbered ==
  \A t \in Threads : call[t].pc # "idle" => call[t].sequence <= blendCalls

CrouchIInv == TypeOK /\ OneEntryPerNetwork /\ EmptyIsIdle /\ NotAhead /\ CallsNumbered

(* What a call that is served does to the entry k. *)
Serves(t, k, e) ==
  /\ Validated(t)
  /\ k \in Entries /\ e \in EntryType
  /\ states' = [states EXCEPT ![k] = e]
  /\ hints' = [hints EXCEPT ![Bucket[call[t].network]] = k]
  /\ e.network = call[t].network /\ e.generation = call[t].generation
  /\ e.last_seen = clock /\ e.last_call = call[t].sequence
  /\ e.transitioning => clock < e.deadline
  /\ \A j \in Entries \ {k} : states[j].network # call[t].network
  /\ states[k].network = call[t].network =>
       \/ ~SameIdentity(t, k)
       \/ ~Active(k)
       \/ /\ InOrder(t, k)
          /\ e.target = states[k].target => e.deadline \in {0, states[k].deadline}
  /\ states[k].network # call[t].network =>
       states[k].network = NoNetwork \/ ~Active(k)

USE TableAssumption

-----------------------------------------------------------------------------
(* A set of natural numbers that is not empty has a smallest element. *)
LEMMA Smallest ==
  ASSUME NEW S \in SUBSET Nat, S # {}
  PROVE  \E i \in S : \A j \in S : i <= j
<1>. DEFINE Less == OpToRel(<, Nat)
<1>1. IsWellFoundedOn(Less, Nat)
  BY NatLessThanWellFounded
<1>2. \A i, j \in Nat : i < j => <<i, j>> \in Less
  BY DEF OpToRel
<1>. HIDE DEF Less
<1>3. PICK i \in S : \A j \in S : <<j, i>> \notin Less
  BY <1>1, WFMin
<1>4. \A j \in S : ~(j < i)
  BY <1>2, <1>3
<1>. QED
  BY <1>4

(* The scan finds the first of the entries it looks for. *)
LEMMA EarliestIsFirst ==
  ASSUME NEW S \in SUBSET Entries, S # {}
  PROVE  Earliest(S) \in S /\ \A j \in S : Earliest(S) <= j
<1>1. \E i \in S : \A j \in S : i <= j
  BY Smallest DEF Entries
<1>. QED
  BY <1>1 DEF Earliest

(* There is an oldest stale entry if there is a stale one, and it is one. *)
LEMMA OldestStaleIsReclaimable ==
  ASSUME TypeOK, Reclaimable # {}
  PROVE  OldestStale \in Reclaimable
<1>. DEFINE seen == {states[i].last_seen : i \in Reclaimable}
            oldest == {i \in Reclaimable :
                         \A j \in Reclaimable :
                           states[i].last_seen <= states[j].last_seen}
<1>1. Reclaimable \subseteq Entries
  BY DEF Reclaimable
<1>2. seen \in SUBSET Nat /\ seen # {}
  BY <1>1 DEF TypeOK, EntryType
<1>3. \E s \in seen : \A r \in seen : s <= r
  BY <1>2, Smallest
<1>4. oldest # {}
  BY <1>3
<1>5. oldest \in SUBSET Entries
  BY <1>1
<1>6. Earliest(oldest) \in oldest
  BY <1>4, <1>5, EarliestIsFirst
<1>. QED
  BY <1>6 DEF OldestStale

(* The entry that is found for a network is one of its entries. *)
LEMMA EntryFound ==
  ASSUME NEW n \in Networks, Found(n) # {}
  PROVE  EntryOf(n) \in Entries /\ states[EntryOf(n)].network = n
<1>1. Found(n) \in SUBSET Entries
  BY DEF Found
<1>2. EntryOf(n) \in Found(n)
  BY <1>1, EarliestIsFirst DEF EntryOf
<1>. QED
  BY <1>2 DEF Found

(* The entry that is taken is empty, or its player was away and its blend over. *)
LEMMA EntryTaken ==
  ASSUME TypeOK, Empty \cup Reclaimable # {}
  PROVE  /\ FreeEntry \in Entries
         /\ states[FreeEntry].network = NoNetwork \/ ~Active(FreeEntry)
<1>1. CASE Empty # {}
  <2>1. Empty \in SUBSET Entries
    BY DEF Empty, Found
  <2>2. FreeEntry \in Empty
    BY <1>1, <2>1, EarliestIsFirst DEF FreeEntry
  <2>. QED
    BY <2>2 DEF Empty, Found
<1>2. CASE Empty = {}
  <2>1. FreeEntry \in Reclaimable
    BY <1>2, OldestStaleIsReclaimable DEF FreeEntry
  <2>. QED
    BY <2>1 DEF Reclaimable, Expired
<1>. QED
  BY <1>1, <1>2

-----------------------------------------------------------------------------
(* A blend that is served afterwards is in order: over, or with its end ahead. *)
LEMMA ServedEntry ==
  ASSUME CrouchIInv, NEW t \in Threads, NEW i \in Entries, call[t].pc = "read",
         NEW ends \in BOOLEAN, MustEnd(i) => ends, NEW desired \in Poses,
         NEW length \in Lengths(Evaluated(i, ends).transitioning)
  PROVE  LET e == Seen(t, Turned(Evaluated(i, ends), desired, length))
         IN  /\ e \in EntryType
             /\ e.network = states[i].network /\ e.generation = states[i].generation
             /\ e.last_seen = clock /\ e.last_call = call[t].sequence
             /\ e.transitioning => clock < e.deadline
             /\ e.target = states[i].target => e.deadline \in {0, states[i].deadline}
<1>. DEFINE v == Evaluated(i, ends)  u == Turned(v, desired, length)
<1>1. states[i] \in EntryType /\ clock \in Nat /\ call[t] \in CallType
  BY DEF CrouchIInv, TypeOK
<1>2. length \in Nat
  BY DEF Lengths
<1>3. /\ v \in EntryType
      /\ v.network = states[i].network /\ v.generation = states[i].generation
      /\ v.target = states[i].target /\ v.deadline \in {0, states[i].deadline}
      /\ v.transitioning => clock < v.deadline
  <2>1. CASE ends
    <3>1. v = [states[i] EXCEPT !.transitioning = FALSE, !.deadline = 0]
      BY <1>1, <2>1 DEF Evaluated, EntryType
    <3>. HIDE DEF v
    <3>2. v \in EntryType
      BY <1>1, <3>1 DEF EntryType
    <3>3. /\ v.network = states[i].network /\ v.generation = states[i].generation
          /\ v.target = states[i].target /\ v.deadline = 0 /\ v.transitioning = FALSE
      BY <1>1, <3>1 DEF EntryType
    <3>. QED
      BY <3>2, <3>3
  <2>2. CASE ~ends
    <3>1. v = states[i]
      BY <1>1, <2>2 DEF Evaluated, EntryType
    <3>. QED
      BY <1>1, <2>2, <3>1 DEF MustEnd, EntryType
  <2>. QED
    BY <2>1, <2>2
<1>. HIDE DEF v
<1>4. /\ u \in EntryType
      /\ u.network = states[i].network /\ u.generation = states[i].generation
      /\ u.target = states[i].target => u.deadline \in {0, states[i].deadline}
      /\ u.transitioning => clock < u.deadline
  <2>1. CASE desired = v.target
    BY <1>3, <2>1 DEF Turned
  <2>2. CASE desired # v.target
    <3>. DEFINE moving == length > 0
                end == IF length > 0 THEN clock + length ELSE 0
    <3>1. u = [v EXCEPT !.target = desired, !.transitioning = moving,
                        !.deadline = end]
      BY <2>2 DEF Turned
    <3>2. moving \in BOOLEAN /\ end \in Nat /\ (moving => clock < end)
      BY <1>1, <1>2
    <3>3. length = 0 => end = 0
      OBVIOUS
    <3>. HIDE DEF moving, end
    <3>4. /\ u.network = v.network /\ u.generation = v.generation
          /\ u.target = desired /\ u.transitioning = moving /\ u.deadline = end
      BY <1>3, <3>1 DEF EntryType
    <3>5. u \in EntryType
      BY <1>3, <3>1, <3>2 DEF EntryType
    <3>. QED
      BY <1>3, <2>2, <3>2, <3>4, <3>5
  <2>. QED
    BY <2>1, <2>2
<1>. HIDE DEF u
<1>5. /\ Seen(t, u) \in EntryType
      /\ Seen(t, u).network = u.network /\ Seen(t, u).generation = u.generation
      /\ Seen(t, u).last_seen = clock /\ Seen(t, u).last_call = call[t].sequence
      /\ Seen(t, u).transitioning = u.transitioning
      /\ Seen(t, u).target = u.target /\ Seen(t, u).deadline = u.deadline
  BY <1>1, <1>4 DEF Seen, EntryType, CallType
<1>6. Seen(t, u) = Seen(t, Turned(Evaluated(i, ends), desired, length))
  BY DEF u, v
<1>. QED
  BY <1>4, <1>5, <1>6

(* A network that has an entry has no other. *)
LEMMA OnlyEntry ==
  ASSUME CrouchIInv, NEW n \in Networks, Found(n) # {}
  PROVE  \A j \in Entries \ {EntryOf(n)} : states[j].network # n
BY EntryFound DEF CrouchIInv, OneEntryPerNetwork

(* A hit serves the call in the network's entry. *)
LEMMA HitServes ==
  ASSUME CrouchIInv, NEW t \in Threads, Hit(t)
  PROVE  \E k, e : Serves(t, k, e)
<1>. DEFINE n == call[t].network  i == EntryOf(n)
<1>1. /\ call[t].pc = "read" /\ Validated(t) /\ Found(n) # {}
      /\ InOrder(t, i) /\ SameIdentity(t, i)
      /\ hints' = [hints EXCEPT ![Bucket[n]] = i]
  BY DEF Hit, Validated
<1>2. n \in Networks
  BY <1>1 DEF CrouchIInv, TypeOK
<1>3. i \in Entries /\ states[i].network = n
  BY <1>1, <1>2, EntryFound
<1>4. \A j \in Entries \ {i} : states[j].network # n
  BY <1>1, <1>2, OnlyEntry
<1>5. PICK ends \in BOOLEAN, desired \in Poses :
        /\ MustEnd(i) => ends
        /\ \E length \in Lengths(Evaluated(i, ends).transitioning) :
             states' = [states EXCEPT ![i] =
                          Seen(t, Turned(Evaluated(i, ends), desired, length))]
  BY DEF Hit
<1>6. PICK length \in Lengths(Evaluated(i, ends).transitioning) :
        states' = [states EXCEPT ![i] =
                     Seen(t, Turned(Evaluated(i, ends), desired, length))]
  BY <1>5
<1>. DEFINE e == Seen(t, Turned(Evaluated(i, ends), desired, length))
<1>. HIDE DEF i
<1>7. /\ e \in EntryType
      /\ e.network = states[i].network /\ e.generation = states[i].generation
      /\ e.last_seen = clock /\ e.last_call = call[t].sequence
      /\ e.transitioning => clock < e.deadline
      /\ e.target = states[i].target => e.deadline \in {0, states[i].deadline}
  BY <1>1, <1>3, <1>5, ServedEntry
<1>8. states' = [states EXCEPT ![i] = e]
  BY <1>6
<1>. HIDE DEF e
<1>9. Serves(t, i, e)
  BY <1>1, <1>3, <1>4, <1>7, <1>8 DEF Serves, SameIdentity
<1>. QED
  BY <1>9

(* What a call writes into an entry it takes over. *)
LEMMA FreshIsInOrder ==
  ASSUME CrouchIInv, NEW t \in Threads, call[t].pc = "read", NEW desired \in Poses
  PROVE  LET e == FreshEntry(t, desired)
         IN  /\ e \in EntryType
             /\ e.network = call[t].network /\ e.generation = call[t].generation
             /\ e.last_seen = clock /\ e.last_call = call[t].sequence
             /\ ~e.transitioning
<1>1. /\ call[t] \in CallType /\ call[t].network \in Networks /\ clock \in Nat
  BY DEF CrouchIInv, TypeOK
<1>. QED
  BY <1>1 DEF FreshEntry, EntryType, CallType

(* A reset serves the call in the network's entry, whose blend was over or
   another player's. *)
LEMMA ResetServes ==
  ASSUME CrouchIInv, NEW t \in Threads, Reset(t)
  PROVE  \E k, e : Serves(t, k, e)
<1>. DEFINE n == call[t].network  i == EntryOf(n)
<1>1. /\ call[t].pc = "read" /\ Validated(t) /\ Found(n) # {}
      /\ ~SameIdentity(t, i) \/ ~Active(i)
      /\ hints' = [hints EXCEPT ![Bucket[n]] = i]
  BY DEF Reset, Validated, Expired
<1>2. n \in Networks
  BY <1>1 DEF CrouchIInv, TypeOK
<1>3. i \in Entries /\ states[i].network = n
  BY <1>1, <1>2, EntryFound
<1>4. \A j \in Entries \ {i} : states[j].network # n
  BY <1>1, <1>2, OnlyEntry
<1>5. PICK desired \in Poses :
        states' = [states EXCEPT ![i] = FreshEntry(t, desired)]
  BY DEF Reset
<1>. HIDE DEF i
<1>6. Serves(t, i, FreshEntry(t, desired))
  BY <1>1, <1>3, <1>4, <1>5, FreshIsInOrder DEF Serves
<1>. QED
  BY <1>6

(* An insertion serves the call in an entry nobody needs. *)
LEMMA InsertServes ==
  ASSUME CrouchIInv, NEW t \in Threads, Insert(t)
  PROVE  \E k, e : Serves(t, k, e)
<1>1. /\ call[t].pc = "read" /\ Validated(t) /\ Found(call[t].network) = {}
      /\ hints' = [hints EXCEPT ![Bucket[call[t].network]] = FreeEntry]
  BY DEF Insert, Validated
<1>2. /\ FreeEntry \in Entries
      /\ states[FreeEntry].network = NoNetwork \/ ~Active(FreeEntry)
  BY EntryTaken DEF Insert, CrouchIInv
<1>3. \A j \in Entries : states[j].network # call[t].network
  BY <1>1 DEF Found
<1>4. PICK desired \in Poses :
        states' = [states EXCEPT ![FreeEntry] = FreshEntry(t, desired)]
  BY DEF Insert
<1>5. Serves(t, FreeEntry, FreshEntry(t, desired))
  BY <1>1, <1>2, <1>3, <1>4, FreshIsInOrder DEF Serves
<1>. QED
  BY <1>5

-----------------------------------------------------------------------------
Idles == UNCHANGED <<states, hints>>

(* A step either serves a call, or leaves the table and its hints alone. *)
LEMMA ServedOrIdle ==
  ASSUME CrouchIInv, [CrouchNext]_crouchVars
  PROVE  \/ /\ \E t \in Threads :
               /\ \E k, e : Serves(t, k, e)
               /\ EndHook(t)
            /\ UNCHANGED <<blendCalls, live, clock>>
         \/ Idles
<1>1. ASSUME NEW t \in Threads, Hit(t) \/ Reset(t) \/ Insert(t)
      PROVE  /\ \E k, e : Serves(t, k, e)
             /\ EndHook(t)
             /\ UNCHANGED <<blendCalls, live, clock>>
  <2>1. \E k, e : Serves(t, k, e)
    BY <1>1, HitServes, ResetServes, InsertServes
  <2>2. EndHook(t) /\ UNCHANGED <<blendCalls, live, clock>>
    BY <1>1 DEF Hit, Reset, Insert
  <2>. QED
    BY <2>1, <2>2
<1>2. ASSUME NEW t \in Threads,
             (\E n \in Networks : EnterHook(t, n)) \/ ReadControl(t) \/ FailOpen(t)
      PROVE  Idles
  BY <1>2 DEF EnterHook, ReadControl, FailOpen, Idles
<1>3. CASE (\E n \in Networks : Recycle(n)) \/ ClockTicks \/ UNCHANGED crouchVars
  BY <1>3 DEF Recycle, ClockTicks, crouchVars, Idles
<1>. QED
  BY <1>1, <1>2, <1>3 DEF CrouchNext

(* A served call keeps the invariant. *)
LEMMA ServedKeepsInvariant ==
  ASSUME CrouchIInv, NEW t \in Threads, NEW k, NEW e, Serves(t, k, e), EndHook(t),
         UNCHANGED <<blendCalls, live, clock>>
  PROVE  CrouchIInv'
<1>. DEFINE n == call[t].network
<1>1. /\ call[t].pc = "read" /\ live[n] = call[t].generation
      /\ n \in Networks /\ n # NoNetwork
      /\ call[t].sequence <= blendCalls
  BY DEF Serves, Validated, CrouchIInv, TypeOK, CallsNumbered
<1>2. /\ k \in Entries /\ e \in EntryType
      /\ states \in [Entries -> EntryType]
      /\ states' = [states EXCEPT ![k] = e]
      /\ hints \in [Buckets -> Entries]
      /\ hints' = [hints EXCEPT ![Bucket[n]] = k]
      /\ call \in [Threads -> CallType]
      /\ call' = [call EXCEPT ![t] = NoCall]
  BY DEF Serves, CrouchIInv, TypeOK, EndHook
<1>3. /\ states' \in [Entries -> EntryType]
      /\ states'[k] = e
      /\ \A j \in Entries \ {k} : states'[j] = states[j]
  BY <1>2
<1>4. hints' \in [Buckets -> Entries]
  BY <1>1, <1>2
<1>5. NoCall \in CallType /\ NoCall.pc = "idle"
  BY DEF NoCall, CallType
<1>6. /\ call' \in [Threads -> CallType]
      /\ call'[t].pc = "idle"
      /\ \A u \in Threads \ {t} : call'[u] = call[u]
  BY <1>2, <1>5
<1>7. /\ e.network = n /\ e.generation = call[t].generation
      /\ e.last_seen = clock /\ e.last_call = call[t].sequence
      /\ e.transitioning => clock < e.deadline
      /\ \A j \in Entries \ {k} : states[j].network # n
  BY DEF Serves
<1>8. clock \in Nat /\ blendCalls \in Nat /\ blendCalls' = blendCalls /\ live' = live /\ clock' = clock
  BY DEF CrouchIInv, TypeOK
<1>9. TypeOK'
  <2>1. \A u \in Threads : call'[u].pc # "idle" => call'[u].network \in Networks
    BY <1>6 DEF CrouchIInv, TypeOK
  <2>2. \A i \in Entries :
          /\ states'[i].last_seen <= clock
          /\ states'[i].last_call <= blendCalls
          /\ states'[i].transitioning => states'[i].last_seen < states'[i].deadline
    BY <1>1, <1>3, <1>7, <1>8 DEF CrouchIInv, TypeOK
  <2>. QED
    BY <1>3, <1>4, <1>6, <1>8, <2>1, <2>2 DEF CrouchIInv, TypeOK
<1>10. OneEntryPerNetwork'
  BY <1>3, <1>7 DEF CrouchIInv, OneEntryPerNetwork
<1>11. EmptyIsIdle'
  BY <1>1, <1>3, <1>7 DEF CrouchIInv, EmptyIsIdle
<1>12. NotAhead'
  <2>1. states'[k].generation <= live[n]
    BY <1>1, <1>2, <1>3, <1>7 DEF EntryType
  <2>. QED
    BY <1>3, <1>7, <1>8, <2>1 DEF CrouchIInv, NotAhead
<1>13. CallsNumbered'
  BY <1>6, <1>8 DEF CrouchIInv, CallsNumbered
<1>. QED
  BY <1>9, <1>10, <1>11, <1>12, <1>13 DEF CrouchIInv

(* Every step keeps the invariant. *)
LEMMA InvariantStep ==
  ASSUME CrouchIInv, [CrouchNext]_crouchVars
  PROVE  CrouchIInv'
<1>1. ASSUME NEW t \in Threads, Hit(t) \/ Reset(t) \/ Insert(t)
      PROVE  CrouchIInv'
  <2>1. PICK k, e : Serves(t, k, e)
    BY <1>1, HitServes, ResetServes, InsertServes
  <2>2. EndHook(t) /\ UNCHANGED <<blendCalls, live, clock>>
    BY <1>1 DEF Hit, Reset, Insert
  <2>. QED
    BY <2>1, <2>2, ServedKeepsInvariant
<1>. USE DEF CrouchIInv, TypeOK, CallType, OneEntryPerNetwork, EmptyIsIdle, NotAhead,
             CallsNumbered
<1>2. ASSUME NEW t \in Threads, NEW n \in Networks, EnterHook(t, n)
      PROVE  CrouchIInv'
  <2>. DEFINE entered == [pc |-> "entered", network |-> n, generation |-> 0,
                          sequence |-> blendCalls + 1]
  <2>1. /\ call' = [call EXCEPT ![t] = entered] /\ blendCalls' = blendCalls + 1
        /\ UNCHANGED <<states, hints, live, clock>>
    BY <1>2 DEF EnterHook
  <2>2. /\ entered \in CallType /\ entered.network = n
        /\ entered.sequence = blendCalls + 1
    OBVIOUS
  <2>. HIDE DEF entered
  <2>3. /\ call'[t] = entered
        /\ \A u \in Threads \ {t} : call'[u] = call[u]
    BY <2>1
  <2>4. TypeOK'
    <3>1. \A i \in Entries : states[i].last_call <= blendCalls'
      BY <2>1 DEF EntryType
    <3>. QED
      BY <2>1, <2>2, <2>3, <3>1
  <2>5. CallsNumbered'
    BY <2>1, <2>2, <2>3
  <2>. QED
    BY <2>1, <2>4, <2>5
<1>3. ASSUME NEW t \in Threads, ReadControl(t)
      PROVE  CrouchIInv'
  <2>. DEFINE read == [call[t] EXCEPT !.pc = "read", !.generation = live[call[t].network]]
  <2>1. /\ call[t].pc = "entered" /\ call' = [call EXCEPT ![t] = read]
        /\ UNCHANGED <<states, hints, blendCalls, live, clock>>
    BY <1>3 DEF ReadControl
  <2>2. /\ read \in CallType /\ read.network = call[t].network
        /\ read.sequence = call[t].sequence
    BY <2>1
  <2>. HIDE DEF read
  <2>3. /\ call'[t] = read
        /\ \A u \in Threads \ {t} : call'[u] = call[u]
    BY <2>1
  <2>4. CallsNumbered'
    BY <2>1, <2>2, <2>3
  <2>. QED
    BY <2>1, <2>2, <2>3, <2>4
<1>4. ASSUME NEW t \in Threads, FailOpen(t)
      PROVE  CrouchIInv'
  BY <1>4 DEF FailOpen, EndHook, NoCall
<1>5. ASSUME NEW n \in Networks, Recycle(n)
      PROVE  CrouchIInv'
  BY <1>5 DEF Recycle, EntryType
<1>6. CASE ClockTicks
  BY <1>6 DEF ClockTicks, EntryType
<1>7. CASE UNCHANGED crouchVars
  BY <1>7 DEF crouchVars
<1>. QED
  BY <1>1, <1>2, <1>3, <1>4, <1>5, <1>6, <1>7 DEF CrouchNext

(* The invariant holds of every reachable state. *)
THEOREM CrouchInductive == CrouchSpec => []CrouchIInv
<1>1. CrouchInit => CrouchIInv
  <2>. SUFFICES ASSUME CrouchInit
                PROVE  CrouchIInv
    OBVIOUS
  <2>1. /\ EmptyEntry \in EntryType /\ NoCall \in CallType /\ 1 \in Entries
        /\ EmptyEntry.network = NoNetwork /\ ~EmptyEntry.transitioning
        /\ EmptyEntry.last_seen = 0 /\ EmptyEntry.last_call = 0
        /\ NoCall.pc = "idle"
    BY DEF EmptyEntry, EntryType, Poses, NoCall, CallType, Entries
  <2>. QED
    BY <2>1 DEF CrouchInit, CrouchIInv, TypeOK, OneEntryPerNetwork, EmptyIsIdle, NotAhead,
                CallsNumbered
<1>. QED
  BY <1>1, InvariantStep, PTL DEF CrouchSpec

(* Entries hold what the hook put there, none of them in the future, and the end
   of a blend under way is ahead of the last look at it. *)
THEOREM TypeInvariant == CrouchSpec => []TypeOK
BY CrouchInductive, PTL DEF CrouchIInv

(* However many threads race for however many entries, a network never has two. *)
THEOREM OneEntryTheorem == CrouchSpec => []OneEntryPerNetwork
BY CrouchInductive, PTL DEF CrouchIInv

(* The hint table never changes what the scan would answer. *)
THEOREM HintTheorem == CrouchSpec => []HintAgreesWithScan
<1>1. CrouchIInv => HintAgreesWithScan
  <2>. SUFFICES ASSUME CrouchIInv, NEW n \in Networks, Found(n) # {}
                PROVE  EntryOf(n) = Earliest(Found(n))
    BY DEF HintAgreesWithScan
  <2>1. Found(n) \in SUBSET Entries
    BY DEF Found
  <2>2. Earliest(Found(n)) \in Found(n)
    BY <2>1, EarliestIsFirst
  <2>3. EntryOf(n) \in Found(n)
    BY <2>2 DEF EntryOf
  <2>. QED
    BY <2>2, <2>3 DEF CrouchIInv, OneEntryPerNetwork, Found
<1>. QED
  BY <1>1, CrouchInductive, PTL

(* A slow thread never brings back the blend of a player who is gone. *)
THEOREM GenerationsTheorem == CrouchSpec => GenerationsOnlyGrow
<1>. DEFINE Grows ==
       \A i, j \in Entries :
         states[i].network # NoNetwork /\ states'[j].network = states[i].network
           => states[i].generation <= states'[j].generation
<1>1. CrouchIInv /\ [CrouchNext]_crouchVars => Grows
  <2>. SUFFICES ASSUME CrouchIInv, [CrouchNext]_crouchVars
                PROVE  Grows
    OBVIOUS
  <2>1. states \in [Entries -> EntryType]
    BY DEF CrouchIInv, TypeOK
  <2>2. \A i \in Entries : states[i].generation <= states[i].generation
    BY <2>1 DEF EntryType
  <2>3. CASE Idles
    BY <2>2, <2>3 DEF Idles, CrouchIInv, OneEntryPerNetwork
  <2>4. ASSUME NEW t \in Threads, NEW k, NEW e, Serves(t, k, e)
        PROVE  Grows
    <3>1. /\ k \in Entries /\ states'[k] = e
          /\ \A j \in Entries \ {k} : states'[j] = states[j]
          /\ e.network = call[t].network
          /\ e.generation = live[call[t].network]
      BY <2>1, <2>4 DEF Serves, Validated
    <3>2. \A i \in Entries :
            states[i].network # NoNetwork /\ states[i].network = e.network
              => states[i].generation <= e.generation
      BY <3>1 DEF CrouchIInv, NotAhead
    <3>. QED
      BY <2>2, <3>1, <3>2 DEF CrouchIInv, OneEntryPerNetwork
  <2>. QED
    BY <2>3, <2>4, ServedOrIdle
<1>2. Grows => [Grows]_crouchVars
  OBVIOUS
<1>. QED
  BY <1>1, CrouchInductive, PTL DEF CrouchSpec, GenerationsOnlyGrow

(* A blend under way keeps its entry and its end, whoever asks for an entry. *)
THEOREM LiveBlendTheorem == CrouchSpec => LiveBlendIsKept
<1>. DEFINE Kept(i) ==
       LET n == states[i].network
       IN /\ states[i].transitioning
          /\ clock < states[i].deadline
          /\ states[i].generation = live[n]
          => /\ states'[i].network = n
             /\ states'[i].generation = states[i].generation
             /\ states'[i].last_call >= states[i].last_call
             /\ states'[i].target = states[i].target =>
                  states'[i].deadline \in {0, states[i].deadline}
            AllKept == \A i \in Entries : Kept(i)
<1>1. CrouchIInv /\ [CrouchNext]_crouchVars => AllKept
  <2>. SUFFICES ASSUME CrouchIInv, [CrouchNext]_crouchVars, NEW i \in Entries,
                       states[i].transitioning, clock < states[i].deadline,
                       states[i].generation = live[states[i].network]
                PROVE  /\ states'[i].network = states[i].network
                       /\ states'[i].generation = states[i].generation
                       /\ states'[i].last_call >= states[i].last_call
                       /\ states'[i].target = states[i].target =>
                            states'[i].deadline \in {0, states[i].deadline}
    OBVIOUS
  <2>1. states \in [Entries -> EntryType] /\ clock \in Nat
    BY DEF CrouchIInv, TypeOK
  <2>2. states[i].last_call >= states[i].last_call
    BY <2>1 DEF EntryType
  <2>3. ASSUME states'[i] = states[i]
        PROVE  /\ states'[i].network = states[i].network
               /\ states'[i].generation = states[i].generation
               /\ states'[i].last_call >= states[i].last_call
               /\ states'[i].target = states[i].target =>
                    states'[i].deadline \in {0, states[i].deadline}
    BY <2>2, <2>3
  <2>4. Active(i) /\ states[i].network # NoNetwork
    BY <2>1 DEF Active, CrouchIInv, EmptyIsIdle, EntryType
  <2>5. ASSUME NEW t \in Threads, NEW k, NEW e, Serves(t, k, e), k = i
        PROVE  /\ states'[i].network = states[i].network
               /\ states'[i].generation = states[i].generation
               /\ states'[i].last_call >= states[i].last_call
               /\ states'[i].target = states[i].target =>
                    states'[i].deadline \in {0, states[i].deadline}
    <3>1. states[i].network = call[t].network
      BY <2>4, <2>5 DEF Serves
    <3>2. call[t].generation = states[i].generation
      BY <2>5, <3>1 DEF Serves, Validated
    <3>3. /\ InOrder(t, i)
          /\ e.target = states[i].target => e.deadline \in {0, states[i].deadline}
      BY <2>4, <2>5, <3>1, <3>2 DEF Serves, SameIdentity
    <3>4. /\ states'[i] = e
          /\ e.network = call[t].network /\ e.generation = call[t].generation
          /\ e.last_call = call[t].sequence
      BY <2>1, <2>5 DEF Serves
    <3>5. call[t].sequence \in Nat
      BY DEF CrouchIInv, TypeOK, CallType
    <3>6. e.last_call >= states[i].last_call
      BY <2>1, <3>3, <3>4, <3>5 DEF InOrder, EntryType
    <3>. QED
      BY <3>1, <3>2, <3>3, <3>4, <3>6
  <2>6. ASSUME NEW t \in Threads, NEW k, NEW e, Serves(t, k, e), k # i
        PROVE  states'[i] = states[i]
    BY <2>1, <2>6 DEF Serves
  <2>. QED
    BY <2>3, <2>5, <2>6, ServedOrIdle DEF Idles
<1>2. AllKept => [AllKept]_crouchVars
  OBVIOUS
<1>. QED
  BY <1>1, CrouchInductive, PTL DEF CrouchSpec, LiveBlendIsKept

-----------------------------------------------------------------------------
(***************************************************************************)
(* The voice HUD.  v is what the game shows, h the state under g_hud_lock. *)
(***************************************************************************)
SpeakerType ==
  [profile : Profiles \cup {Nobody}, active : BOOLEAN, added : BOOLEAN, sequence : Nat]
Participants ==
  [type : {"added"}, session : Sessions, profile : Profiles]
    \cup [type : {"updated"}, session : Sessions, profile : Profiles, active : BOOLEAN]
Announcements == [type : {"group"}, group : Groups]
Events == Participants \cup Announcements
HudType ==
  [speakers : [Seats -> SpeakerType], queue : Seq(Events),
   session : Sessions \cup {Nobody}, lost : SUBSET (Sessions \X Profiles),
   unseated : SUBSET Profiles]
PictureType == [Sessions -> [Profiles -> {"absent", "silent", "speaking"}]]
FrameType ==
  [op : {"speaking"}, profile : Profiles, active : BOOLEAN, sequence : Nat]
    \cup [op : {"reset", "bad"}]

(* An event about a player in a session; the last one is an update to speaking,
   or there is none and the game shows the player speaking. *)
Speech(s, p) == Updated(s, p, TRUE)
About(e, s, p) == e.type # "group" /\ e.session = s /\ e.profile = p
NothingOn(q, s, p) == \A i \in DOMAIN q : ~About(q[i], s, p)
EndsSpeaking(q, s, p) ==
  \E i \in DOMAIN q : /\ q[i] = Speech(s, p)
                      /\ \A j \in DOMAIN q : j > i => ~About(q[j], s, p)
WillSpeak(v, q, s, p) ==
  EndsSpeaking(q, s, p) \/ (NothingOn(q, s, p) /\ v[s][p] = "speaking")

(* The game was told of the player, or will be. *)
KnownTo(v, q, k, s, p) ==
  v[s][p] # "absent" \/ \E i \in DOMAIN q : i < k /\ q[i] = Added(s, p)
WillKnow(v, q, s, p) == v[s][p] # "absent" \/ \E i \in DOMAIN q : q[i] = Added(s, p)

(* Events are of the session seen last, and updates of known participants. *)
QueueSound(v, q, s) ==
  \A i \in DOMAIN q : q[i].type # "group" =>
     /\ q[i].session = s
     /\ IsUpdate(q[i]) => KnownTo(v, q, i, s, q[i].profile)

SpeakersSound(v, h) ==
  \A i \in Seats :
    /\ h.speakers[i].active => h.speakers[i].profile # Nobody
    /\ h.speakers[i].added =>
         /\ h.speakers[i].profile # Nobody /\ h.session # Nobody
         /\ WillKnow(v, h.queue, h.session, h.speakers[i].profile)
    /\ \A j \in Seats :
         h.speakers[i].profile = h.speakers[j].profile
         /\ h.speakers[i].profile # Nobody => i = j

Heard(h, p) == \E i \in Seats : /\ h.speakers[i].profile = p
                                /\ h.speakers[i].active /\ h.speakers[i].added
Followed(v, h) ==
  h.session # Nobody =>
    \A p \in Profiles : <<h.session, p>> \notin h.lost =>
      (WillSpeak(v, h.queue, h.session, p) <=> Heard(h, p))
LeftBehind(v, h) ==
  \A s \in Sessions \ {h.session}, p \in Profiles :
    v[s][p] = "speaking" => <<s, p>> \in h.lost

(* Announcements that wait, of which there is at most one. *)
Waiting(q) == {g \in Groups : \E i \in DOMAIN q : q[i] = GroupAdded(g)}
Single(q) ==
  \A i, j \in DOMAIN q : q[i].type = "group" /\ q[j].type = "group" => i = j

Following(v, h) ==
  QueueSound(v, h.queue, h.session) /\ SpeakersSound(v, h) /\ Followed(v, h) /\ LeftBehind(v, h)

HudTyped ==
  /\ hud \in HudType /\ picture \in PictureType
  /\ wire \in Seq(FrameType) /\ poll \in {"hud", "sdk"}
  /\ sidecar \in [sequence : Nat, speaking : SUBSET Profiles]
  /\ group \in [Groups -> {"none", "asked", "answered", "accepted", "real"}]
  /\ suppress \in Groups \cup {Nobody} /\ announced \in [Groups -> Nat]
  /\ poll = "sdk" => hud.queue = <<>>

Outcome(g) == announced[g] + IF g \in Waiting(hud.queue) THEN 1 ELSE 0
Rival(g) == \E o \in Groups \ {g} : group[o] \in {"answered", "real"}
Announcing ==
  /\ Single(hud.queue)
  /\ \A g \in Groups :
       /\ group[g] \in {"none", "asked", "accepted"} => Outcome(g) = 0
       /\ group[g] = "answered" =>
            Outcome(g) \in {0, 1} /\ (Outcome(g) = 1 => suppress = g \/ Rival(g))
       /\ group[g] = "real" => Outcome(g) \in {1, 2} /\ (Outcome(g) = 2 => Rival(g))
       /\ suppress = g => group[g] = "answered" /\ Outcome(g) = 1

HudInv == HudTyped /\ Following(picture, hud) /\ Announcing

-----------------------------------------------------------------------------
(* Tools: induction up to N, functions defined step by step, positions in a
   queue. *)

(* What holds at 0, and at i whenever it holds at i - 1, holds up to N. *)
LEMMA UpTo ==
  ASSUME NEW N \in Nat, NEW S, 0 \in S, \A i \in 1 .. N : i - 1 \in S => i \in S
  PROVE  \A i \in 0 .. N : i \in S
<1> DEFINE T == {i \in 0 .. N : i \notin S}
<1> SUFFICES ASSUME T # {} PROVE FALSE
  OBVIOUS
<1>1. T \in SUBSET Nat
  OBVIOUS
<1>2. PICK i \in T : \A j \in T : i <= j
  BY <1>1, Smallest
<1>3. i \in 1 .. N /\ i - 1 \in 0 .. N
  BY <1>2
<1>4. i - 1 \in S
  BY <1>2, <1>3
<1> QED BY <1>2, <1>3, <1>4

(* The results of steps one after the other are a function. *)
Stepwise(N, h, step, f) ==
  f = [i \in 0 .. N |-> IF i = 0 THEN h ELSE step[i][f[i - 1]]]

(* Such a function exists, and its values stay in H. *)
LEMMA StepByStep ==
  ASSUME NEW N \in Nat, NEW H, NEW h \in H, NEW step \in [1 .. N -> [H -> H]]
  PROVE  \E f \in [0 .. N -> H] : Stepwise(N, h, step, f)
<1> DEFINE Goes(f, n) == f[0] = h /\ \A i \in 1 .. n : f[i] = step[i][f[i - 1]]
           S == {n \in 0 .. N : \E f \in [0 .. n -> H] : Goes(f, n)}
<1> HIDE DEF Goes
<1>0. ASSUME NEW n \in 0 .. N, NEW f \in [0 .. n -> H], Goes(f, n)  PROVE n \in S
  BY <1>0
<1>1. 0 \in S
  <2> DEFINE f == [i \in 0 .. 0 |-> h]
  <2>1. f \in [0 .. 0 -> H] /\ Goes(f, 0)
    BY DEF Goes
  <2>2. 0 \in 0 .. N
    OBVIOUS
  <2> HIDE DEF f, S
  <2> QED BY <1>0, <2>1, <2>2
<1>2. ASSUME NEW n \in 1 .. N, n - 1 \in S  PROVE n \in S
  <2>1. PICK f \in [0 .. n - 1 -> H] : Goes(f, n - 1)
    BY <1>2
  <2> DEFINE g == [i \in 0 .. n |-> IF i = n THEN step[n][f[n - 1]] ELSE f[i]]
  <2>2. step[n][f[n - 1]] \in H
    OBVIOUS
  <2>3. g \in [0 .. n -> H]
    BY <2>2
  <2>4. g[0] = h
    BY <2>1 DEF Goes
  <2>5. ASSUME NEW i \in 1 .. n  PROVE g[i] = step[i][g[i - 1]]
    <3>1. i - 1 \in 0 .. n - 1 /\ i - 1 # n /\ g[i - 1] = f[i - 1]
      OBVIOUS
    <3>2. CASE i = n
      BY <3>1, <3>2
    <3>3. CASE i # n
      <4>1. i \in 1 .. n - 1
        BY <3>3
      <4> QED BY <2>1, <3>1, <3>3, <4>1 DEF Goes
    <3> QED BY <3>2, <3>3
  <2> HIDE DEF g, S
  <2>6. Goes(g, n) /\ n \in 0 .. N
    BY <2>4, <2>5 DEF Goes
  <2> QED BY <1>0, <2>3, <2>6
<1> HIDE DEF S
<1>3. \A i \in 0 .. N : i \in S
  BY <1>1, <1>2, UpTo
<1>4. PICK f \in [0 .. N -> H] : Goes(f, N)
  BY <1>3 DEF S
<1>5. Stepwise(N, h, step, f)
  BY <1>4 DEF Goes, Stepwise
<1> QED BY <1>5

(* Where SelectInSeq and Min find something, they find the first. *)
LEMMA LeastIs ==
  ASSUME NEW S \in SUBSET Nat, S # {}
  PROVE  Min(S) \in S /\ \A j \in S : Min(S) <= j
BY Smallest DEF Min

(* The first update of a queue. *)
LEMMA FirstUpdate ==
  ASSUME NEW q \in Seq(Events), NEW k, k = SelectInSeq(q, IsUpdate), k # 0
  PROVE  /\ k \in 1 .. Len(q) /\ IsUpdate(q[k])
         /\ \A j \in 1 .. Len(q) : IsUpdate(q[j]) => k <= j
<1> DEFINE I == {i \in 1 .. Len(q) : IsUpdate(q[i])}
<1>1. k = IF I # {} THEN Min(I) ELSE 0
  BY DEF SelectInSeq
<1>2. I # {} /\ I \in SUBSET Nat
  BY <1>1
<1> HIDE DEF I
<1>3. Min(I) \in I /\ \A j \in I : Min(I) <= j
  BY <1>2, LeastIs
<1>4. k = Min(I)
  BY <1>1, <1>2
<1> QED BY <1>3, <1>4 DEF I

(* A queue without its k-th event, and with another one. *)
LEMMA WithoutIs ==
  ASSUME NEW q \in Seq(Events), NEW k \in 1 .. Len(q)
  PROVE  /\ RemoveAt(q, k) \in Seq(Events) /\ Len(RemoveAt(q, k)) = Len(q) - 1
         /\ \A j \in 1 .. Len(q) - 1 :
              RemoveAt(q, k)[j] = IF j < k THEN q[j] ELSE q[j + 1]
<1> DEFINE s == SubSeq(q, 1, k - 1)
           t == SubSeq(q, k + 1, Len(q))
<1>1. \A i \in 1 .. Len(q) : q[i] \in Events
  BY ElementOfSeq
<1>2. /\ s \in Seq(Events) /\ Len(s) = k - 1 /\ \A i \in 1 .. k - 1 : s[i] = q[i]
  <2>1. \A i \in 1 .. k - 1 : q[i] \in Events
    BY <1>1
  <2>2. /\ s \in Seq(Events) /\ Len(s) = IF 1 <= k - 1 THEN k - 1 - 1 + 1 ELSE 0
        /\ \A i \in 1 .. k - 1 - 1 + 1 : s[i] = q[1 + i - 1]
    BY <2>1, SubSeqProperties
  <2> QED BY <2>2
<1>3. /\ t \in Seq(Events) /\ Len(t) = Len(q) - k /\ \A i \in 1 .. Len(q) - k : t[i] = q[k + i]
  <2>1. \A i \in k + 1 .. Len(q) : q[i] \in Events
    BY <1>1
  <2>2. /\ t \in Seq(Events)
        /\ Len(t) = IF k + 1 <= Len(q) THEN Len(q) - (k + 1) + 1 ELSE 0
        /\ \A i \in 1 .. Len(q) - (k + 1) + 1 : t[i] = q[k + 1 + i - 1]
    BY <2>1, SubSeqProperties
  <2> QED BY <2>2
<1> HIDE DEF s, t
<1>types. s \in Seq(Events) /\ t \in Seq(Events)
  BY <1>2, <1>3
<1>4. /\ s \o t \in Seq(Events) /\ Len(s \o t) = Len(s) + Len(t)
      /\ \A i \in 1 .. Len(s) + Len(t) :
           (s \o t)[i] = IF i <= Len(s) THEN s[i] ELSE t[i - Len(s)]
  BY <1>types, ConcatProperties
<1>5. RemoveAt(q, k) = s \o t
  BY DEF RemoveAt, s, t
<1> QED
  <2>1. Len(q) \in Nat /\ k \in Int /\ Len(s) + Len(t) = Len(q) - 1
    BY <1>2, <1>3
  <2>2. ASSUME NEW j \in 1 .. Len(q) - 1
        PROVE  (s \o t)[j] = IF j < k THEN q[j] ELSE q[j + 1]
    <3>1. (s \o t)[j] = IF j <= k - 1 THEN s[j] ELSE t[j - (k - 1)]
      BY <1>2, <1>4, <2>1
    <3>2. CASE j < k
      BY <1>2, <2>1, <3>1, <3>2
    <3>3. CASE ~(j < k)
      <4> DEFINE i == j - (k - 1)
      <4>1. i \in 1 .. Len(q) - k /\ k + i = j + 1
        BY <2>1, <3>3
      <4>2. (s \o t)[j] = t[i]
        BY <2>1, <3>1, <3>3
      <4> HIDE DEF i
      <4>3. t[i] = q[k + i]
        BY <1>3, <4>1
      <4> QED BY <2>1, <3>3, <4>1, <4>2, <4>3
    <3> QED BY <3>2, <3>3
  <2>3. Len(s \o t) = Len(q) - 1
    BY <1>4, <2>1
  <2> QED BY <1>4, <1>5, <2>2, <2>3

-----------------------------------------------------------------------------
(* Events in a queue *)

LEMMA EventsAre ==
  /\ \A e \in Participants :
       /\ e.type # "group" /\ e.session \in Sessions /\ e.profile \in Profiles
       /\ IsUpdate(e) => e.active \in BOOLEAN /\ e = Updated(e.session, e.profile, e.active)
       /\ ~IsUpdate(e) => e = Added(e.session, e.profile)
  /\ \A e \in Announcements : e.type = "group" /\ ~IsUpdate(e) /\ e.group \in Groups
                              /\ e = GroupAdded(e.group)
BY DEF Participants, Announcements, IsUpdate, Updated, Added, GroupAdded

(* The events the proxy makes. *)
LEMMA EventsMade ==
  /\ \A s \in Sessions, p \in Profiles :
       /\ Added(s, p) \in Participants /\ ~IsUpdate(Added(s, p))
       /\ Added(s, p).session = s /\ Added(s, p).profile = p
       /\ Added(s, p).type = "added"
  /\ \A s \in Sessions, p \in Profiles, a \in BOOLEAN :
       /\ Updated(s, p, a) \in Participants /\ IsUpdate(Updated(s, p, a))
       /\ Updated(s, p, a).session = s /\ Updated(s, p, a).profile = p
       /\ Updated(s, p, a).active = a /\ Updated(s, p, a).type = "updated"
  /\ \A g \in Groups : GroupAdded(g) \in Announcements /\ GroupAdded(g).type = "group"
                       /\ GroupAdded(g).group = g /\ ~IsUpdate(GroupAdded(g))
BY DEF Participants, Announcements, IsUpdate, Updated, Added, GroupAdded

(* An update to speaking is about one player in one session. *)
LEMMA SpeechIs ==
  ASSUME NEW s \in Sessions, NEW p \in Profiles
  PROVE  /\ IsUpdate(Speech(s, p)) /\ About(Speech(s, p), s, p)
         /\ \A x \in Sessions, y \in Profiles :
              About(Speech(s, p), x, y) => x = s /\ y = p
BY DEF Speech, Updated, IsUpdate, About

(* An event at the end is about its own participant only. *)
AfterEvent(v, q, e, r) ==
  /\ r \in Seq(Events) /\ Len(r) = Len(q) + 1
  /\ \A j \in DOMAIN r : r[j] = e \/ (j \in DOMAIN q /\ r[j] = q[j])
  /\ \A s \in Sessions, p \in Profiles :
       /\ ~About(e, s, p) => (WillSpeak(v, r, s, p) <=> WillSpeak(v, q, s, p))
       /\ About(e, s, p) => (WillSpeak(v, r, s, p) <=> e = Speech(s, p))
       /\ WillKnow(v, q, s, p) => WillKnow(v, r, s, p)
       /\ e = Added(s, p) => WillKnow(v, r, s, p)
  /\ \A s \in Sessions :
       QueueSound(v, q, s) /\ e.session = s
       /\ (IsUpdate(e) => WillKnow(v, q, s, e.profile)) => QueueSound(v, r, s)
  /\ Waiting(r) = Waiting(q) /\ (Single(q) => Single(r))

(* hud_queue_event_locked: the event comes last. *)
LEMMA AppendWord ==
  ASSUME NEW v, NEW q \in Seq(Events), NEW e \in Participants
  PROVE  AfterEvent(v, q, e, Append(q, e))
<1> SUFFICES ASSUME NEW r, r = Append(q, e)
             PROVE  AfterEvent(v, q, e, r)
  OBVIOUS
<1> DEFINE n == Len(q)
<1>1. /\ r \in Seq(Events) /\ Len(r) = n + 1 /\ n \in Nat
      /\ DOMAIN q = 1 .. n /\ DOMAIN r = 1 .. n + 1
      /\ \A i \in 1 .. n : r[i] = q[i] /\ q[i] \in Events
      /\ r[n + 1] = e
  <2>1. e \in Events
    BY DEF Events
  <2> QED BY <2>1, AppendProperties, LenProperties, ElementOfSeq
<1> HIDE DEF n
<1>2. e.type # "group"
  BY EventsAre
<1>3. ASSUME NEW s \in Sessions, NEW p \in Profiles, ~About(e, s, p)
      PROVE  WillSpeak(v, r, s, p) <=> WillSpeak(v, q, s, p)
  <2>1. e # Speech(s, p)
    BY <1>3, SpeechIs
  <2>2. NothingOn(r, s, p) <=> NothingOn(q, s, p)
    BY <1>1, <1>3 DEF NothingOn
  <2>3. ASSUME EndsSpeaking(q, s, p)  PROVE EndsSpeaking(r, s, p)
    BY <1>1, <1>3, <2>3 DEF EndsSpeaking
  <2>4. ASSUME EndsSpeaking(r, s, p)  PROVE EndsSpeaking(q, s, p)
    BY <1>1, <2>1, <2>4 DEF EndsSpeaking
  <2> QED BY <2>2, <2>3, <2>4 DEF WillSpeak
<1>4. ASSUME NEW s \in Sessions, NEW p \in Profiles, About(e, s, p)
      PROVE  WillSpeak(v, r, s, p) <=> e = Speech(s, p)
  <2>1. ~NothingOn(r, s, p)
    BY <1>1, <1>4 DEF NothingOn
  <2>2. EndsSpeaking(r, s, p) => e = Speech(s, p)
    BY <1>1, <1>4 DEF EndsSpeaking
  <2>3. e = Speech(s, p) => EndsSpeaking(r, s, p)
    BY <1>1 DEF EndsSpeaking
  <2> QED BY <2>1, <2>2, <2>3 DEF WillSpeak
<1>5. ASSUME NEW s \in Sessions, NEW p \in Profiles
      PROVE  /\ WillKnow(v, q, s, p) => WillKnow(v, r, s, p)
             /\ e = Added(s, p) => WillKnow(v, r, s, p)
  BY <1>1 DEF WillKnow
<1>6. ASSUME NEW s \in Sessions, QueueSound(v, q, s), e.session = s,
             IsUpdate(e) => WillKnow(v, q, s, e.profile)
      PROVE  QueueSound(v, r, s)
  <2> SUFFICES ASSUME NEW i \in DOMAIN r, r[i].type # "group"
               PROVE  /\ r[i].session = s
                      /\ IsUpdate(r[i]) => KnownTo(v, r, i, s, r[i].profile)
    BY DEF QueueSound
  <2>1. CASE i \in 1 .. n
    <3>1. /\ r[i].session = s
          /\ IsUpdate(r[i]) => KnownTo(v, q, i, s, r[i].profile)
      BY <1>1, <1>6, <2>1 DEF QueueSound
    <3> QED BY <1>1, <3>1 DEF KnownTo
  <2>2. CASE i = n + 1
    BY <1>1, <1>6, <2>2 DEF KnownTo, WillKnow
  <2> QED BY <1>1, <2>1, <2>2
<1>7. Waiting(r) = Waiting(q)
  <2>1. \A g \in Groups : e # GroupAdded(g)
    BY <1>2, EventsMade
  <2>2. ASSUME NEW g \in Groups
        PROVE  (\E i \in DOMAIN r : r[i] = GroupAdded(g))
                 <=> (\E i \in DOMAIN q : q[i] = GroupAdded(g))
    BY <1>1, <2>1
  <2> QED BY <2>2 DEF Waiting
<1>8. Single(q) => Single(r)
  BY <1>1, <1>2 DEF Single
<1> QED BY <1>1, <1>3, <1>4, <1>5, <1>6, <1>7, <1>8 DEF AfterEvent

(* An update that goes decides only about its own participant, and not when a
   later one stays. *)
AfterLoss(v, q, k, r) ==
  /\ r \in Seq(Events) /\ Len(r) = Len(q) - 1
  /\ \A s \in Sessions, p \in Profiles :
       /\ (About(q[k], s, p) => \E i \in DOMAIN r : IsUpdate(r[i]) /\ About(r[i], s, p))
            => (WillSpeak(v, r, s, p) <=> WillSpeak(v, q, s, p))
       /\ WillKnow(v, q, s, p) => WillKnow(v, r, s, p)
  /\ \A s \in Sessions : QueueSound(v, q, s) => QueueSound(v, r, s)
  /\ Waiting(r) = Waiting(q) /\ (Single(q) => Single(r))

(* hud_discard_oldest_update_locked *)
LEMMA WithoutWord ==
  ASSUME NEW v, NEW q \in Seq(Events), NEW k \in 1 .. Len(q), IsUpdate(q[k]),
         \A j \in 1 .. Len(q) : IsUpdate(q[j]) => k <= j
  PROVE  AfterLoss(v, q, k, RemoveAt(q, k))
<1> SUFFICES ASSUME NEW r, r = RemoveAt(q, k)
             PROVE  AfterLoss(v, q, k, r)
  OBVIOUS
<1> DEFINE n == Len(q)
           at(j) == IF j < k THEN j ELSE j + 1
           to(i) == IF i < k THEN i ELSE i - 1
<1>1. /\ r \in Seq(Events) /\ Len(r) = n - 1 /\ n \in Nat /\ k \in 1 .. n
      /\ DOMAIN q = 1 .. n /\ DOMAIN r = 1 .. n - 1
      /\ \A i \in 1 .. n : q[i] \in Events
      /\ \A j \in 1 .. n - 1 : r[j] = q[at(j)]
  <2>1. /\ r \in Seq(Events) /\ Len(r) = n - 1 /\ n \in Nat /\ k \in 1 .. n
        /\ DOMAIN q = 1 .. n /\ \A i \in 1 .. n : q[i] \in Events
    BY WithoutIs, LenProperties, ElementOfSeq
  <2>2. DOMAIN r = 1 .. n - 1
    BY <2>1, LenProperties
  <2>3. \A j \in 1 .. n - 1 : r[j] = q[at(j)]
    BY WithoutIs
  <2> QED BY <2>1, <2>2, <2>3
<1> HIDE DEF n
<1>2. /\ \A j \in 1 .. n - 1 : at(j) \in 1 .. n /\ at(j) # k /\ to(at(j)) = j
      /\ \A i \in 1 .. n : i # k => to(i) \in 1 .. n - 1 /\ at(to(i)) = i
      /\ \A i, j \in 1 .. n - 1 : i < j <=> at(i) < at(j)
  BY <1>1
<1> HIDE DEF at, to
<1>3. \A i \in 1 .. n : i # k => r[to(i)] = q[i]
  BY <1>1, <1>2
<1>4. \A i, j \in 1 .. n : i # k /\ j # k => (i < j <=> to(i) < to(j))
  BY <1>2
<1>5. ASSUME NEW s \in Sessions, NEW p \in Profiles,
             About(q[k], s, p) => \E i \in DOMAIN r : IsUpdate(r[i]) /\ About(r[i], s, p)
      PROVE  WillSpeak(v, r, s, p) <=> WillSpeak(v, q, s, p)
  <2>1. ASSUME About(q[k], s, p)
        PROVE  \E i \in 1 .. n : i > k /\ About(q[i], s, p)
    <3>1. PICK i \in 1 .. n - 1 : IsUpdate(r[i]) /\ About(r[i], s, p)
      BY <1>1, <1>5, <2>1
    <3>2. at(i) \in 1 .. n /\ at(i) # k /\ IsUpdate(q[at(i)]) /\ About(q[at(i)], s, p)
      BY <1>1, <1>2, <3>1
    <3>3. k <= at(i)
      BY <1>1, <3>2 DEF n
    <3> QED BY <1>1, <3>2, <3>3
  <2>2. NothingOn(r, s, p) <=> NothingOn(q, s, p)
    <3>1. NothingOn(q, s, p) => NothingOn(r, s, p)
      BY <1>1, <1>2 DEF NothingOn
    <3>2. ASSUME NEW i \in 1 .. n, About(q[i], s, p)  PROVE ~NothingOn(r, s, p)
      <4>1. PICK j \in 1 .. n : j # k /\ About(q[j], s, p)
        BY <1>1, <2>1, <3>2
      <4> QED BY <1>1, <1>2, <1>3, <4>1 DEF NothingOn
    <3> QED BY <1>1, <3>1, <3>2 DEF NothingOn
  <2>3. ASSUME EndsSpeaking(q, s, p)  PROVE EndsSpeaking(r, s, p)
    <3>1. PICK i \in 1 .. n : /\ q[i] = Speech(s, p)
                              /\ \A j \in 1 .. n : j > i => ~About(q[j], s, p)
      BY <1>1, <2>3 DEF EndsSpeaking
    <3>2. i # k
      <4>1. About(Speech(s, p), s, p)
        BY SpeechIs
      <4> QED BY <2>1, <3>1, <4>1
    <3>3. to(i) \in DOMAIN r /\ r[to(i)] = Speech(s, p)
      BY <1>1, <1>2, <1>3, <3>1, <3>2
    <3>4. ASSUME NEW j \in DOMAIN r, j > to(i)  PROVE ~About(r[j], s, p)
      <4>1. at(j) \in 1 .. n /\ at(j) > at(to(i)) /\ r[j] = q[at(j)]
        BY <1>1, <1>2, <3>2, <3>4
      <4> QED BY <1>2, <3>1, <3>2, <4>1
    <3> QED BY <3>3, <3>4 DEF EndsSpeaking
  <2>4. ASSUME EndsSpeaking(r, s, p)  PROVE EndsSpeaking(q, s, p)
    <3>1. PICK i \in 1 .. n - 1 : /\ r[i] = Speech(s, p)
                                  /\ \A j \in 1 .. n - 1 : j > i => ~About(r[j], s, p)
      BY <1>1, <2>4 DEF EndsSpeaking
    <3>2. at(i) \in 1 .. n /\ q[at(i)] = Speech(s, p) /\ IsUpdate(q[at(i)])
      <4>1. IsUpdate(Speech(s, p))
        BY SpeechIs
      <4> QED BY <1>1, <1>2, <3>1, <4>1
    <3>3. k <= at(i)
      BY <1>1, <3>2 DEF n
    <3>4. ASSUME NEW j \in 1 .. n, j > at(i)  PROVE ~About(q[j], s, p)
      <4>1. j # k /\ to(j) \in 1 .. n - 1 /\ r[to(j)] = q[j] /\ at(to(j)) > at(i)
        BY <1>1, <1>2, <1>3, <3>2, <3>3, <3>4
      <4>2. to(j) > i
        BY <1>2, <4>1
      <4> QED BY <3>1, <4>1, <4>2
    <3> QED BY <1>1, <3>2, <3>4 DEF EndsSpeaking
  <2> QED BY <2>2, <2>3, <2>4 DEF WillSpeak
<1>6. ASSUME NEW s \in Sessions, NEW p \in Profiles, NEW i \in 1 .. n, q[i] = Added(s, p)
      PROVE  i # k
  BY <1>6, EventsMade
<1>7. ASSUME NEW s \in Sessions, NEW p \in Profiles, WillKnow(v, q, s, p)
      PROVE  WillKnow(v, r, s, p)
  BY <1>1, <1>2, <1>3, <1>6, <1>7 DEF WillKnow
<1>8. ASSUME NEW s \in Sessions, QueueSound(v, q, s)  PROVE QueueSound(v, r, s)
  <2> SUFFICES ASSUME NEW j \in 1 .. n - 1, r[j].type # "group"
               PROVE  /\ r[j].session = s
                      /\ IsUpdate(r[j]) => KnownTo(v, r, j, s, r[j].profile)
    BY <1>1 DEF QueueSound
  <2>1. at(j) \in 1 .. n /\ r[j] = q[at(j)]
    BY <1>1, <1>2
  <2>2. IsUpdate(r[j]) => KnownTo(v, q, at(j), s, r[j].profile)
    BY <1>1, <1>8, <2>1 DEF QueueSound
  <2>3. r[j].profile \in Profiles
    <3>1. r[j] \in Participants
      BY <1>1, <2>1, EventsAre DEF Events
    <3> QED BY <3>1, EventsAre
  <2>4. ASSUME IsUpdate(r[j])  PROVE KnownTo(v, r, j, s, r[j].profile)
    <3>1. CASE v[s][r[j].profile] # "absent"
      BY <3>1 DEF KnownTo
    <3>2. CASE \E i \in 1 .. n : i < at(j) /\ q[i] = Added(s, r[j].profile)
      <4>1. PICK i \in 1 .. n : i < at(j) /\ q[i] = Added(s, r[j].profile)
        BY <3>2
      <4>2. i # k
        BY <1>6, <2>3, <4>1
      <4>3. to(i) \in DOMAIN r /\ r[to(i)] = q[i] /\ to(i) < to(at(j))
        BY <1>1, <1>2, <1>3, <1>4, <2>1, <4>1, <4>2
      <4> QED BY <1>2, <4>1, <4>3 DEF KnownTo
    <3>3. KnownTo(v, q, at(j), s, r[j].profile)
      BY <2>2, <2>4
    <3> QED BY <1>1, <3>1, <3>2, <3>3 DEF KnownTo
  <2>5. r[j].session = s
    BY <1>1, <1>8, <2>1 DEF QueueSound
  <2> QED BY <2>4, <2>5
<1>9. ASSUME NEW g \in Groups
      PROVE  (\E i \in DOMAIN r : r[i] = GroupAdded(g))
               <=> (\E i \in DOMAIN q : q[i] = GroupAdded(g))
  <2>1. q[k] # GroupAdded(g)
    BY EventsMade
  <2> QED BY <1>1, <1>2, <1>3, <2>1
<1>10. Waiting(r) = Waiting(q)
  BY <1>9 DEF Waiting
<1>11. Single(q) => Single(r)
  <2> SUFFICES ASSUME Single(q), NEW i \in DOMAIN r, NEW j \in DOMAIN r,
                      r[i].type = "group", r[j].type = "group"
               PROVE  i = j
    BY DEF Single
  <2>1. at(i) = at(j)
    BY <1>1, <1>2 DEF Single
  <2> QED BY <1>1, <1>2, <2>1
<1> QED BY <1>1, <1>5, <1>7, <1>8, <1>10, <1>11 DEF AfterLoss

(* k is h after the event e: its queue is still in order, and of whom it dropped
   the last update is lost. *)
Takes(v, h, e, k) ==
  /\ k \in HudType /\ k.speakers = h.speakers /\ k.session = h.session
  /\ QueueSound(v, k.queue, k.session)
  /\ Single(k.queue) /\ Waiting(k.queue) = Waiting(h.queue)
  /\ \A p \in Profiles :
       WillKnow(v, h.queue, h.session, p) => WillKnow(v, k.queue, k.session, p)
  /\ ~IsUpdate(e) /\ ~Refuses(h.queue) => WillKnow(v, k.queue, k.session, e.profile)
  /\ \A s \in Sessions \ {h.session}, p \in Profiles :
       <<s, p>> \in h.lost => <<s, p>> \in k.lost
  /\ \A p \in Profiles \ {e.profile} :
       <<h.session, p>> \notin k.lost =>
         /\ <<h.session, p>> \notin h.lost
         /\ WillSpeak(v, k.queue, k.session, p)
              <=> WillSpeak(v, h.queue, h.session, p)
  /\ IsUpdate(e) /\ <<h.session, e.profile>> \notin k.lost =>
       (WillSpeak(v, k.queue, k.session, e.profile)
          <=> e = Speech(h.session, e.profile))

(* An event is taken by a queue that is full, and by one that is not. *)
LEMMA QueueTakes ==
  ASSUME NEW v, NEW h \in HudType, h.session \in Sessions,
         QueueSound(v, h.queue, h.session), Single(h.queue),
         NEW e \in Participants, e.session = h.session,
         IsUpdate(e) => WillKnow(v, h.queue, h.session, e.profile)
  PROVE  Takes(v, h, e, QueueEvent(h, e))
<1> SUFFICES ASSUME NEW k, k = QueueEvent(h, e)
             PROVE  Takes(v, h, e, k)
  OBVIOUS
<1> DEFINE s == h.session
           q == h.queue
<1>1. /\ s \in Sessions /\ q \in Seq(Events) /\ h.lost \in SUBSET (Sessions \X Profiles)
      /\ h.speakers \in [Seats -> SpeakerType] /\ h.unseated \in SUBSET Profiles
      /\ Len(q) \in Nat
      /\ s = h.session /\ q = h.queue
      /\ QueueSound(v, q, s) /\ Single(q) /\ e.session = s
      /\ IsUpdate(e) => WillKnow(v, q, s, e.profile)
  BY LenProperties DEF HudType
<1> HIDE DEF s, q
<1>2. e.type # "group" /\ e.profile \in Profiles /\ (~IsUpdate(e) => e = Added(s, e.profile))
  BY <1>1, EventsAre
<1>3. Subject(e) = IF IsUpdate(e) THEN {<<s, e.profile>>} ELSE {}
  BY <1>1 DEF Subject
<1>4. Subject(e) \subseteq Sessions \X Profiles
  BY <1>1, <1>2, <1>3
<1>5. \A p \in Profiles : About(e, s, p) <=> p = e.profile
  BY <1>1, <1>2 DEF About
<1>6. CASE Refuses(q)
  <2>1. k = [h EXCEPT !.lost = @ \cup Subject(e)]
    BY <1>1, <1>6 DEF QueueEvent
  <2>2. /\ k \in HudType /\ k.speakers = h.speakers /\ k.session = s /\ k.queue = q
        /\ k.lost = h.lost \cup Subject(e)
    BY <1>1, <1>4, <2>1 DEF HudType
  <2> QED BY <1>1, <1>3, <1>6, <2>2 DEF Takes
<1>7. CASE ~Refuses(q) /\ Len(q) < QueueLimit
  <2> DEFINE r == Append(q, e)
  <2>1. k = [h EXCEPT !.queue = r, !.lost = @ \ Subject(e)]
    BY <1>1, <1>7 DEF QueueEvent
  <2>0. r = Append(q, e) /\ q \in Seq(Events)
    BY <1>1
  <2> HIDE DEF r
  <2>2. /\ r \in Seq(Events)
        /\ \A p \in Profiles :
             /\ p # e.profile => (WillSpeak(v, r, s, p) <=> WillSpeak(v, q, s, p))
             /\ p = e.profile => (WillSpeak(v, r, s, p) <=> e = Speech(s, p))
             /\ WillKnow(v, q, s, p) => WillKnow(v, r, s, p)
             /\ e = Added(s, p) => WillKnow(v, r, s, p)
        /\ QueueSound(v, r, s) /\ Waiting(r) = Waiting(q) /\ Single(r)
    <3>1. AfterEvent(v, q, e, r)
      BY <2>0, AppendWord
    <3>2. \A p \in Profiles :
             /\ p # e.profile => (WillSpeak(v, r, s, p) <=> WillSpeak(v, q, s, p))
             /\ p = e.profile => (WillSpeak(v, r, s, p) <=> e = Speech(s, p))
             /\ WillKnow(v, q, s, p) => WillKnow(v, r, s, p)
             /\ e = Added(s, p) => WillKnow(v, r, s, p)
      BY <1>1, <1>5, <3>1 DEF AfterEvent
    <3>3. QueueSound(v, r, s) /\ Single(r) /\ Waiting(r) = Waiting(q)
      BY <1>1, <3>1 DEF AfterEvent
    <3> QED BY <3>1, <3>2, <3>3 DEF AfterEvent
  <2>3. /\ k \in HudType /\ k.speakers = h.speakers /\ k.session = s /\ k.queue = r
        /\ k.lost = h.lost \ Subject(e)
    BY <1>1, <2>1, <2>2 DEF HudType
  <2> QED BY <1>1, <1>2, <1>3, <2>2, <2>3 DEF Takes
<1>8. CASE ~Refuses(q) /\ ~(Len(q) < QueueLimit)
  <2> DEFINE i == SelectInSeq(q, IsUpdate)
             w == RemoveAt(q, i)
             r == Append(w, e)
             gone == q[i]
             more == IF UpdatesOf(r, gone) = {} THEN Subject(gone) ELSE {}
  <2>1. k = [h EXCEPT !.queue = r, !.lost = (@ \ Subject(e)) \cup more]
    BY <1>1, <1>8 DEF QueueEvent
  <2>2. i # 0
    BY <1>1, <1>8, VoiceAssumption DEF Refuses
  <2>3. /\ i \in 1 .. Len(q) /\ IsUpdate(gone)
        /\ \A j \in 1 .. Len(q) : IsUpdate(q[j]) => i <= j
    BY <1>1, <2>2, FirstUpdate
  <2>4. gone \in Participants /\ gone.profile \in Profiles /\ gone.session = s
    <3>1. gone \in Events
      BY <1>1, <2>3, ElementOfSeq
    <3>2. gone \in Participants
      BY <2>3, <3>1, EventsAre DEF Events
    <3>3. i \in DOMAIN q
      BY <1>1, <2>3, LenProperties
    <3> QED BY <1>1, <3>2, <3>3, EventsAre DEF QueueSound
  <2> HIDE DEF i, gone
  <2>5. /\ w \in Seq(Events)
        /\ \A p \in Profiles :
             /\ (About(gone, s, p) =>
                   \E j \in DOMAIN w : IsUpdate(w[j]) /\ About(w[j], s, p))
                => (WillSpeak(v, w, s, p) <=> WillSpeak(v, q, s, p))
             /\ WillKnow(v, q, s, p) => WillKnow(v, w, s, p)
        /\ QueueSound(v, w, s) /\ Waiting(w) = Waiting(q) /\ Single(w)
    <3>1. AfterLoss(v, q, i, w)
      BY <1>1, <2>3, WithoutWord DEF gone
    <3> QED BY <1>1, <3>1 DEF AfterLoss, gone
  <2> HIDE DEF w
  <2>6. /\ r \in Seq(Events)
        /\ \A j \in DOMAIN r : r[j] = e \/ (j \in DOMAIN w /\ r[j] = w[j])
        /\ \A p \in Profiles :
             /\ p # e.profile => (WillSpeak(v, r, s, p) <=> WillSpeak(v, w, s, p))
             /\ p = e.profile => (WillSpeak(v, r, s, p) <=> e = Speech(s, p))
             /\ WillKnow(v, w, s, p) => WillKnow(v, r, s, p)
             /\ e = Added(s, p) => WillKnow(v, r, s, p)
        /\ QueueSound(v, r, s) /\ Waiting(r) = Waiting(w) /\ Single(r)
    <3>1. IsUpdate(e) => WillKnow(v, w, s, e.profile)
      BY <1>1, <1>2, <2>5
    <3>2. AfterEvent(v, w, e, r)
      BY <2>5, AppendWord
    <3>3. \A p \in Profiles :
             /\ p # e.profile => (WillSpeak(v, r, s, p) <=> WillSpeak(v, w, s, p))
             /\ p = e.profile => (WillSpeak(v, r, s, p) <=> e = Speech(s, p))
             /\ WillKnow(v, w, s, p) => WillKnow(v, r, s, p)
             /\ e = Added(s, p) => WillKnow(v, r, s, p)
      BY <1>1, <1>5, <3>2 DEF AfterEvent
    <3>4. QueueSound(v, r, s) /\ Single(r) /\ Waiting(r) = Waiting(w)
      BY <1>1, <2>5, <3>1, <3>2 DEF AfterEvent
    <3> QED BY <3>2, <3>3, <3>4 DEF AfterEvent
  <2> HIDE DEF r
  <2>8. Subject(gone) = {<<s, gone.profile>>}
    BY <2>3, <2>4 DEF Subject
  <2>9. more \subseteq Sessions \X Profiles
    BY <1>1, <2>4, <2>8
  <2>10. ASSUME NEW p \in Profiles, p # e.profile, <<s, p>> \notin more
         PROVE  WillSpeak(v, w, s, p) <=> WillSpeak(v, q, s, p)
    <3>1. ASSUME About(gone, s, p)
          PROVE  \E j \in DOMAIN w : IsUpdate(w[j]) /\ About(w[j], s, p)
      <4>1. p = gone.profile
        BY <3>1 DEF About
      <4>2. PICK j \in DOMAIN r : IsUpdate(r[j]) /\ r[j].session = gone.session
                                                 /\ r[j].profile = gone.profile
        BY <2>8, <2>10, <4>1 DEF UpdatesOf
      <4>3. About(r[j], s, p)
        BY <2>4, <4>1, <4>2 DEF About, IsUpdate
      <4>4. r[j] # e
        BY <2>10, <4>1, <4>2
      <4> QED BY <2>6, <4>2, <4>3, <4>4
    <3> QED BY <2>5, <3>1
  <2>11. /\ k \in HudType /\ k.speakers = h.speakers /\ k.session = s /\ k.queue = r
         /\ k.lost = (h.lost \ Subject(e)) \cup more
    <3> DEFINE lost == (h.lost \ Subject(e)) \cup more
    <3>1. lost \in SUBSET (Sessions \X Profiles)
      BY <1>1, <2>9
    <3>2. k = [h EXCEPT !.queue = r, !.lost = lost]
      BY <2>1
    <3>3. r \in Seq(Events)
      BY <2>6
    <3> HIDE DEF lost, more
    <3>4. /\ k \in HudType /\ k.speakers = h.speakers /\ k.session = h.session
          /\ k.queue = r /\ k.lost = lost
      BY <3>1, <3>2, <3>3 DEF HudType
    <3> QED BY <1>1, <3>4 DEF lost
  <2>12. \A x, y : <<x, y>> \in more => x = s
    BY <2>8
  <2> HIDE DEF more
  <2>13. \A p \in Profiles \ {e.profile} :
           <<s, p>> \notin k.lost =>
             /\ <<s, p>> \notin h.lost
             /\ WillSpeak(v, r, s, p) <=> WillSpeak(v, q, s, p)
    BY <1>1, <1>3, <2>6, <2>10, <2>11
  <2>14. \A x \in Sessions \ {s}, p \in Profiles : <<x, p>> \in h.lost => <<x, p>> \in k.lost
    BY <1>1, <1>3, <2>11
  <2>15. \A p \in Profiles : WillKnow(v, q, s, p) => WillKnow(v, r, s, p)
    BY <2>5, <2>6
  <2> QED BY <1>1, <1>2, <2>5, <2>6, <2>11, <2>13, <2>14, <2>15 DEF Takes
<1> QED BY <1>1, <1>6, <1>7, <1>8

-----------------------------------------------------------------------------
(* What the operations under g_hud_lock keep *)

(* h is h0 with speakers that were told, in the same session and with the same
   announcement in the queue. *)
Steady(v, h0, h) ==
  /\ h \in HudType /\ h.session = h0.session /\ Following(v, h)
  /\ Single(h.queue) /\ Waiting(h.queue) = Waiting(h0.queue)

(* The types of what g_hud_lock guards. *)
LEMMA HudIs ==
  ASSUME NEW h \in HudType
  PROVE  /\ h.queue \in Seq(Events) /\ h.session \in Sessions \cup {Nobody}
         /\ h.speakers \in [Seats -> SpeakerType]
         /\ h.lost \in SUBSET (Sessions \X Profiles) /\ h.unseated \in SUBSET Profiles
         /\ \A i \in Seats : /\ h.speakers[i].profile \in Profiles \cup {Nobody}
                             /\ h.speakers[i].active \in BOOLEAN
                             /\ h.speakers[i].added \in BOOLEAN
                             /\ h.speakers[i].sequence \in Nat
                             /\ h.speakers[i] \in SpeakerType
BY DEF HudType, SpeakerType

(* k is h after p was told of: others are shown as before, or lost. *)
ToldOf(v, h, k, p) ==
  /\ k \in HudType /\ k.session = h.session
  /\ QueueSound(v, k.queue, k.session)
  /\ Single(k.queue) /\ Waiting(k.queue) = Waiting(h.queue)
  /\ \A x \in Profiles :
       WillKnow(v, h.queue, h.session, x) => WillKnow(v, k.queue, k.session, x)
  /\ \A s \in Sessions \ {h.session}, x \in Profiles :
       <<s, x>> \in h.lost => <<s, x>> \in k.lost
  /\ \A x \in Profiles \ {p} :
       <<h.session, x>> \notin k.lost =>
         /\ <<h.session, x>> \notin h.lost
         /\ WillSpeak(v, k.queue, k.session, x) <=> WillSpeak(v, h.queue, h.session, x)

(* A speaker becomes known. *)
Joined(v, h, k, i) ==
  /\ ToldOf(v, h, k, h.speakers[i].profile)
  /\ WillKnow(v, k.queue, k.session, h.speakers[i].profile)
  /\ k.speakers[i].added = TRUE
  /\ \A j \in Seats : /\ k.speakers[j].profile = h.speakers[j].profile
                      /\ k.speakers[j].active = h.speakers[j].active
                      /\ j # i => k.speakers[j].added = h.speakers[j].added

(* A speaker that was not added is added first. *)
LEMMA JoinTells ==
  ASSUME NEW v, NEW h \in HudType, Following(v, h), Single(h.queue),
         h.session # Nobody, ~Refuses(h.queue),
         NEW i \in Seats, h.speakers[i].profile # Nobody
  PROVE  Joined(v, h, Join(h, i), i)
<1> SUFFICES ASSUME NEW k, k = Join(h, i)
             PROVE  Joined(v, h, k, i)
  OBVIOUS
<1> DEFINE p == h.speakers[i].profile
           e == Added(h.session, p)
           m == QueueEvent(h, e)
<1>1. h.session \in Sessions /\ p \in Profiles
  BY HudIs
<1>2. e \in Participants /\ ~IsUpdate(e) /\ e.session = h.session /\ e.profile = p
  BY <1>1, EventsMade
<1>3. k = [m EXCEPT !.speakers[i].added = TRUE]
  BY DEF Join
<1> HIDE DEF e, m, p
<1>4. m = QueueEvent(h, e)
  BY DEF m
<1>5. QueueSound(v, h.queue, h.session)
  BY DEF Following
<1>6. /\ m \in HudType /\ m.speakers = h.speakers /\ ToldOf(v, h, m, p)
      /\ WillKnow(v, m.queue, m.session, p)
  <2>1. Takes(v, h, e, m)
    BY <1>1, <1>2, <1>4, <1>5, QueueTakes
  <2> QED BY <1>2, <2>1 DEF Takes, ToldOf
<1>7. /\ k \in HudType /\ k.queue = m.queue /\ k.session = m.session /\ k.lost = m.lost
      /\ k.speakers = [m.speakers EXCEPT ![i].added = TRUE]
  <2> DEFINE speakers == [m.speakers EXCEPT ![i].added = TRUE]
  <2>1. m.speakers \in [Seats -> SpeakerType] /\ m.speakers[i] \in SpeakerType
    BY <1>6, HudIs
  <2>2. [m.speakers[i] EXCEPT !.added = TRUE] \in SpeakerType
    BY <2>1 DEF SpeakerType
  <2>3. speakers \in [Seats -> SpeakerType]
    BY <2>1, <2>2
  <2>4. k = [m EXCEPT !.speakers = speakers]
    BY <1>3, <1>6 DEF HudType
  <2> HIDE DEF speakers
  <2>5. /\ k \in HudType /\ k.queue = m.queue /\ k.session = m.session /\ k.lost = m.lost
        /\ k.speakers = speakers
    BY <1>6, <2>3, <2>4 DEF HudType
  <2> QED BY <2>5 DEF speakers
<1>8. ToldOf(v, h, k, p)
  BY <1>6, <1>7 DEF ToldOf
<1>9. /\ k.speakers[i].added = TRUE
      /\ \A j \in Seats : /\ k.speakers[j].profile = h.speakers[j].profile
                          /\ k.speakers[j].active = h.speakers[j].active
                          /\ j # i => k.speakers[j].added = h.speakers[j].added
  <2>1. h.speakers \in [Seats -> SpeakerType] /\ h.speakers[i] \in SpeakerType
    BY HudIs
  <2> DEFINE new == [h.speakers[i] EXCEPT !.added = TRUE]
  <2>2. k.speakers = [h.speakers EXCEPT ![i] = new]
    BY <1>6, <1>7, <2>1
  <2>3. /\ new.added = TRUE /\ new.profile = h.speakers[i].profile
        /\ new.active = h.speakers[i].active
    BY <2>1 DEF SpeakerType
  <2> HIDE DEF new
  <2> QED BY <2>1, <2>2, <2>3
<1> QED BY <1>6, <1>7, <1>8, <1>9 DEF Joined, p

(* A known speaker begins or ends to speak. *)
LEMMA TellTells ==
  ASSUME NEW v, NEW h \in HudType, QueueSound(v, h.queue, h.session), Single(h.queue),
         h.session # Nobody, NEW i \in Seats, h.speakers[i].profile # Nobody,
         WillKnow(v, h.queue, h.session, h.speakers[i].profile),
         NEW active \in BOOLEAN, NEW k, k = Tell(h, i, active)
  PROVE  /\ ToldOf(v, h, k, h.speakers[i].profile) /\ k.speakers = h.speakers
         /\ <<h.session, h.speakers[i].profile>> \notin k.lost =>
              (WillSpeak(v, k.queue, k.session, h.speakers[i].profile) <=> active)
<1> DEFINE p == h.speakers[i].profile
           e == Updated(h.session, p, active)
<1>1. h.session \in Sessions /\ p \in Profiles
  BY HudIs
<1>2. e \in Participants /\ IsUpdate(e) /\ e.session = h.session /\ e.profile = p
  BY <1>1, EventsMade
<1>3. e = Speech(h.session, p) <=> active
  BY DEF Speech, Updated
<1>4. k = QueueEvent(h, e)
  BY DEF Tell
<1> HIDE DEF e, p
<1>5. WillKnow(v, h.queue, h.session, e.profile)
  BY <1>2 DEF p
<1>6. /\ ToldOf(v, h, k, p) /\ k.speakers = h.speakers
      /\ <<h.session, p>> \notin k.lost =>
           (WillSpeak(v, k.queue, k.session, p) <=> e = Speech(h.session, p))
  <2>1. Takes(v, h, e, k)
    BY <1>1, <1>2, <1>4, <1>5, QueueTakes
  <2> QED BY <1>2, <2>1 DEF Takes, ToldOf
<1> QED BY <1>3, <1>6 DEF p

(* hud_emit_speaker_locked: whatever is refused or dropped, the events lead the
   game to the speakers that speak, but for those who are lost. *)
LEMMA EmitKeeps ==
  ASSUME NEW v, NEW h0, NEW h, Steady(v, h0, h), NEW i \in Seats,
         h.speakers[i].profile # Nobody, NEW active \in BOOLEAN,
         NEW out, out = EmitSpeaker(h, i, active)
  PROVE  Steady(v, h0, out)
<1> DEFINE s == h.session
           p == h.speakers[i].profile
           joins == active /\ ~h.speakers[i].added /\ ~Refuses(h.queue)
           k == IF joins THEN Join(h, i) ELSE h
           told == IF h.session = Nobody \/ ~(joins \/ h.speakers[i].added) THEN h
                   ELSE Tell(k, i, active)
<1>1. /\ h \in HudType /\ Following(v, h) /\ Single(h.queue) /\ s \in Sessions \cup {Nobody}
      /\ p \in Profiles /\ Nobody \notin Sessions
  BY HudIs, VoiceAssumption DEF Steady
<1>2. out = [told EXCEPT !.speakers[i].active = active]
  BY DEF EmitSpeaker, With
<1> HIDE DEF joins, k, told
<1>3. /\ \A j \in Seats : h.speakers[j].profile = p => j = i
      /\ \A j \in Seats : /\ h.speakers[j].active => h.speakers[j].profile # Nobody
                          /\ h.speakers[j].added => h.speakers[j].profile # Nobody /\ s # Nobody
                                                    /\ WillKnow(v, h.queue, s, h.speakers[j].profile)
  BY <1>1 DEF Following, SpeakersSound
(* the speakers afterwards *)
<1>4. ASSUME told \in HudType
      PROVE  /\ out \in HudType /\ out.queue = told.queue /\ out.session = told.session
             /\ out.lost = told.lost
             /\ out.speakers[i].active = active
             /\ out.speakers[i].added = told.speakers[i].added
             /\ out.speakers[i].profile = told.speakers[i].profile
             /\ \A j \in Seats \ {i} : out.speakers[j] = told.speakers[j]
  <2> DEFINE new == [told.speakers[i] EXCEPT !.active = active]
             speakers == [told.speakers EXCEPT ![i] = new]
  <2>1. told.speakers \in [Seats -> SpeakerType] /\ told.speakers[i] \in SpeakerType
    BY <1>4, HudIs
  <2>2. /\ new \in SpeakerType /\ new.active = active /\ new.added = told.speakers[i].added
        /\ new.profile = told.speakers[i].profile
    BY <2>1 DEF SpeakerType
  <2> HIDE DEF new
  <2>3. /\ speakers \in [Seats -> SpeakerType] /\ speakers[i] = new
        /\ \A j \in Seats \ {i} : speakers[j] = told.speakers[j]
    BY <2>1, <2>2
  <2>4. out = [told EXCEPT !.speakers = speakers]
    BY <1>2, <1>4, <2>1 DEF HudType, new
  <2> HIDE DEF speakers
  <2>5. /\ out \in HudType /\ out.queue = told.queue /\ out.session = told.session
        /\ out.lost = told.lost /\ out.speakers = speakers
    BY <1>4, <2>3, <2>4 DEF HudType
  <2> QED BY <2>2, <2>3, <2>5
(* nobody is told *)
<1>5. CASE h.session = Nobody \/ ~(joins \/ h.speakers[i].added)
  <2>1. told = h
    BY <1>5 DEF told
  <2>2. /\ out \in HudType /\ out.queue = h.queue /\ out.session = s /\ out.lost = h.lost
        /\ \A j \in Seats : /\ out.speakers[j].profile = h.speakers[j].profile
                            /\ out.speakers[j].added = h.speakers[j].added
                            /\ j # i => out.speakers[j].active = h.speakers[j].active
    BY <1>1, <1>4, <2>1
  <2>3. s = Nobody \/ ~h.speakers[i].added
    BY <1>5
  <2>4. \A x \in Profiles : s # Nobody => (Heard(out, x) <=> Heard(h, x))
    BY <2>2, <2>3 DEF Heard
  <2>5. Followed(v, out)
    BY <1>1, <2>2, <2>4 DEF Following, Followed
  <2>6. SpeakersSound(v, out)
    BY <1>3, <1>1, <2>2 DEF Following, SpeakersSound
  <2>7. LeftBehind(v, out) /\ QueueSound(v, out.queue, out.session)
    BY <1>1, <2>2 DEF Following, LeftBehind
  <2> QED BY <2>2, <2>5, <2>6, <2>7 DEF Steady, Following
(* the player is told of *)
<1>6. CASE h.session # Nobody /\ (joins \/ h.speakers[i].added)
  <2>1. told = Tell(k, i, active)
    BY <1>6 DEF told
  <2>2. /\ ToldOf(v, h, k, p) /\ WillKnow(v, k.queue, k.session, p)
        /\ k.speakers[i].added = TRUE
        /\ \A j \in Seats : /\ k.speakers[j].profile = h.speakers[j].profile
                            /\ k.speakers[j].active = h.speakers[j].active
                            /\ j # i => k.speakers[j].added = h.speakers[j].added
    <3>1. CASE joins
      <4>1. k = Join(h, i) /\ ~Refuses(h.queue)
        BY <3>1 DEF k, joins
      <4>2. Joined(v, h, k, i)
        BY <1>1, <1>6, <4>1, JoinTells
      <4> QED BY <4>2 DEF Joined
    <3>2. CASE ~joins
      <4>1. k = h /\ h.speakers[i].added
        BY <1>6, <3>2 DEF k
      <4>2. QueueSound(v, h.queue, s)
        BY <1>1 DEF Following
      <4>3. ToldOf(v, h, h, p)
        BY <1>1, <4>2 DEF ToldOf
      <4>4. h.speakers[i].added = TRUE
        BY <1>1, <4>1, HudIs
      <4> QED BY <1>3, <4>1, <4>3, <4>4
    <3> QED BY <3>1, <3>2
  <2>3. k \in HudType /\ k.session = s /\ QueueSound(v, k.queue, k.session) /\ Single(k.queue)
    BY <2>2 DEF ToldOf
  <2>4. /\ ToldOf(v, k, told, p) /\ told.speakers = k.speakers
        /\ <<s, p>> \notin told.lost =>
             (WillSpeak(v, told.queue, told.session, p) <=> active)
    BY <1>6, <2>1, <2>2, <2>3, TellTells
  <2>5. ToldOf(v, h, told, p) /\ WillKnow(v, told.queue, s, p)
    BY <1>1, <2>2, <2>3, <2>4 DEF ToldOf
  <2>6. /\ out \in HudType /\ out.queue = told.queue /\ out.session = s
        /\ out.lost = told.lost
        /\ out.speakers[i].active = active /\ out.speakers[i].added = TRUE
        /\ \A j \in Seats : /\ out.speakers[j].profile = h.speakers[j].profile
                            /\ j # i => /\ out.speakers[j].active = h.speakers[j].active
                                        /\ out.speakers[j].added = h.speakers[j].added
    <3>1. told \in HudType /\ told.session = s
      BY <2>5 DEF ToldOf
    <3>2. \A j \in Seats \ {i} : out.speakers[j] = k.speakers[j]
      BY <1>4, <2>4, <3>1
    <3> QED BY <1>4, <2>2, <2>4, <3>1, <3>2
  <2>7. \A x \in Profiles : IF x = p THEN Heard(out, x) <=> active
                            ELSE Heard(out, x) <=> Heard(h, x)
    BY <1>1, <1>3, <2>6 DEF Heard
  <2>8. Followed(v, out)
    <3> SUFFICES ASSUME NEW x \in Profiles, <<s, x>> \notin out.lost
                 PROVE  WillSpeak(v, out.queue, s, x) <=> Heard(out, x)
      BY <2>6 DEF Followed
    <3>1. CASE x = p
      <4>1. WillSpeak(v, told.queue, s, p) <=> active
        BY <2>4, <2>5, <2>6, <3>1 DEF ToldOf
      <4> QED BY <2>6, <2>7, <3>1, <4>1
    <3>2. CASE x # p
      <4>1. <<s, x>> \notin h.lost
            /\ (WillSpeak(v, told.queue, s, x) <=> WillSpeak(v, h.queue, s, x))
        BY <2>5, <2>6, <3>2 DEF ToldOf
      <4>2. WillSpeak(v, h.queue, s, x) <=> Heard(h, x)
        BY <1>1, <1>6, <4>1 DEF Following, Followed
      <4> QED BY <2>6, <2>7, <3>2, <4>1, <4>2
    <3> QED BY <3>1, <3>2
  <2>9. SpeakersSound(v, out)
    <3>1. \A x \in Profiles : WillKnow(v, h.queue, s, x) => WillKnow(v, out.queue, s, x)
      BY <2>5, <2>6 DEF ToldOf
    <3>2. \A j \in Seats : h.speakers[j].profile \in Profiles \cup {Nobody}
      BY <1>1, HudIs
    <3>3. ASSUME NEW j \in Seats
          PROVE  /\ out.speakers[j].active => out.speakers[j].profile # Nobody
                 /\ out.speakers[j].added =>
                      /\ out.speakers[j].profile # Nobody /\ s # Nobody
                      /\ WillKnow(v, out.queue, s, out.speakers[j].profile)
      <4>1. CASE j = i
        BY <1>1, <1>6, <2>5, <2>6, <4>1
      <4>2. CASE j # i
        BY <1>3, <2>6, <3>1, <3>2, <4>2
      <4> QED BY <4>1, <4>2
    <3>4. \A j, l \in Seats : out.speakers[j].profile = out.speakers[l].profile
                              /\ out.speakers[j].profile # Nobody => j = l
      BY <1>1, <2>6 DEF Following, SpeakersSound
    <3> QED BY <2>6, <3>3, <3>4 DEF SpeakersSound
  <2>10. LeftBehind(v, out)
    BY <1>1, <2>5, <2>6 DEF Following, LeftBehind, ToldOf
  <2>11. QueueSound(v, out.queue, s) /\ Single(out.queue)
         /\ Waiting(out.queue) = Waiting(h.queue)
    BY <2>5, <2>6 DEF ToldOf
  <2> QED BY <2>6, <2>8, <2>9, <2>10, <2>11 DEF Steady, Following
<1> QED BY <1>5, <1>6

(* hud_emit_waiting_speakers_locked *)
LEMMA WaitingKeeps ==
  ASSUME NEW v, NEW h0, NEW h, Steady(v, h0, h), NEW out, out = EmitWaiting(h)
  PROVE  Steady(v, h0, out)
<1> DEFINE N == SpeakerLimit
           H == {k \in HudType : Steady(v, h0, k)}
           E(k, i) == IF k.speakers[i].active /\ ~k.speakers[i].added
                      THEN EmitSpeaker(k, i, TRUE) ELSE k
           W(k, i) == With(k, LAMBDA x : E(x, i))
           P(g) == g = [i \in 0 .. N |-> IF i = 0 THEN h ELSE W(g[i - 1], i)]
           G == CHOOSE g : P(g)
           step == [i \in 1 .. N |-> [k \in H |-> E(k, i)]]
<1>1. N \in Nat /\ Seats = 1 .. N
  BY VoiceAssumption DEF Seats
<1>2. h \in H
  BY DEF Steady
<1>3. CASE h.session = Nobody
  BY <1>3 DEF EmitWaiting
<1>4. CASE h.session # Nobody
  <2>1. EmitWaiting(h) = EachSlot(E, h)
    BY <1>4 DEF EmitWaiting
  <2>2. EachSlot(E, h) = G[N]
    BY DEF EachSlot
  <2>3. ASSUME NEW k \in H, NEW i \in 1 .. N  PROVE E(k, i) \in H
    <3>1. CASE k.speakers[i].active /\ ~k.speakers[i].added
      <4>1. k.speakers[i].profile # Nobody /\ Steady(v, h0, k) /\ i \in Seats
        BY <1>1, <3>1 DEF Steady, Following, SpeakersSound
      <4>2. Steady(v, h0, EmitSpeaker(k, i, TRUE))
        BY <4>1, EmitKeeps
      <4> QED BY <3>1, <4>2 DEF Steady
    <3> QED BY <3>1
  <2> HIDE DEF E
  <2>4. \A k, i : W(k, i) = E(k, i)
    BY DEF With
  <2>5. step \in [1 .. N -> [H -> H]]
    BY <2>3
  <2> HIDE DEF H, W, step
  <2>6. PICK f \in [0 .. N -> H] : Stepwise(N, h, step, f)
    BY <1>1, <1>2, <2>5, StepByStep
  <2>7. f = [i \in 0 .. N |-> IF i = 0 THEN h ELSE W(f[i - 1], i)]
    <3>1. ASSUME NEW i \in 0 .. N, i # 0  PROVE step[i][f[i - 1]] = W(f[i - 1], i)
      <4>1. i \in 1 .. N /\ i - 1 \in 0 .. N
        BY <1>1, <3>1
      <4>2. f[i - 1] \in H
        BY <4>1
      <4> QED BY <2>4, <4>1, <4>2 DEF step
    <3> QED BY <2>6, <3>1 DEF Stepwise
  <2>8. P(f)
    BY <2>7
  <2>9. P(G)
    BY <2>8
  <2> DEFINE S == {i \in 0 .. N : G[i] \in H}
  <2>10. /\ G[0] = h
         /\ \A i \in 1 .. N : G[i] = E(G[i - 1], i)
    <3> HIDE DEF G
    <3>1. G = [i \in 0 .. N |-> IF i = 0 THEN h ELSE W(G[i - 1], i)]
      BY <2>9
    <3> HIDE DEF P
    <3> QED BY <1>1, <2>4, <3>1
  <2> HIDE DEF G, P
  <2>11. 0 \in S
    BY <1>1, <1>2, <2>10
  <2>12. \A i \in 1 .. N : i - 1 \in S => i \in S
    BY <2>3, <2>10
  <2> HIDE DEF S
  <2>13. \A i \in 0 .. N : i \in S
    BY <1>1, <2>11, <2>12, UpTo
  <2>14. G[N] \in H
    BY <1>1, <2>13 DEF S
  <2> QED BY <2>1, <2>2, <2>14 DEF H
<1> QED BY <1>3, <1>4

(* Speakers that differ in their sequences only, and other unseated ones. *)
LEMMA SameSpeakers ==
  ASSUME NEW v, NEW h0, NEW h, Steady(v, h0, h), NEW out \in HudType,
         out.queue = h.queue, out.session = h.session, out.lost = h.lost,
         \A i \in Seats : /\ out.speakers[i].profile = h.speakers[i].profile
                          /\ out.speakers[i].active = h.speakers[i].active
                          /\ out.speakers[i].added = h.speakers[i].added
  PROVE  Steady(v, h0, out)
<1>1. QueueSound(v, out.queue, out.session) /\ LeftBehind(v, out)
  BY DEF Steady, Following, LeftBehind
<1>2. SpeakersSound(v, out)
  BY DEF Steady, Following, SpeakersSound
<1>3. \A p : Heard(out, p) <=> Heard(h, p)
  BY DEF Heard
<1>4. Followed(v, out)
  BY <1>3 DEF Steady, Following, Followed
<1> QED BY <1>1, <1>2, <1>4 DEF Steady, Following

(* Who found no slot matters to no event. *)
LEMMA UnseatedKeeps ==
  ASSUME NEW v, NEW h0, NEW h, Steady(v, h0, h), NEW U \in SUBSET Profiles
  PROVE  Steady(v, h0, [h EXCEPT !.unseated = U])
<1> DEFINE out == [h EXCEPT !.unseated = U]
<1>1. /\ out \in HudType /\ out.queue = h.queue /\ out.session = h.session /\ out.lost = h.lost
      /\ out.speakers = h.speakers
  BY DEF Steady, HudType
<1> HIDE DEF out
<1>2. Steady(v, h0, out)
  BY <1>1, SameSpeakers
<1> QED BY <1>2 DEF out

(* Nor does the sequence of a slot. *)
LEMMA SequenceKeeps ==
  ASSUME NEW v, NEW h0, NEW h, Steady(v, h0, h), NEW i \in Seats, NEW n \in Nat
  PROVE  Steady(v, h0, [h EXCEPT !.speakers[i].sequence = n])
<1> DEFINE new == [h.speakers[i] EXCEPT !.sequence = n]
           speakers == [h.speakers EXCEPT ![i] = new]
           out == [h EXCEPT !.speakers[i].sequence = n]
<1>0. h \in HudType
  BY DEF Steady
<1>1. h.speakers \in [Seats -> SpeakerType] /\ h.speakers[i] \in SpeakerType
  BY <1>0, HudIs
<1>2. /\ new \in SpeakerType /\ new.profile = h.speakers[i].profile
      /\ new.active = h.speakers[i].active /\ new.added = h.speakers[i].added
  BY <1>1 DEF SpeakerType
<1>3. out = [h EXCEPT !.speakers = speakers]
  BY <1>0, <1>1 DEF HudType
<1> HIDE DEF new
<1>4. /\ speakers \in [Seats -> SpeakerType] /\ speakers[i] = new
      /\ \A j \in Seats \ {i} : speakers[j] = h.speakers[j]
  BY <1>1, <1>2
<1> HIDE DEF speakers, out
<1>5. /\ out \in HudType /\ out.queue = h.queue /\ out.session = h.session /\ out.lost = h.lost
      /\ out.speakers = speakers
  BY <1>0, <1>3, <1>4 DEF HudType
<1>6. \A j \in Seats : /\ out.speakers[j].profile = h.speakers[j].profile
                       /\ out.speakers[j].active = h.speakers[j].active
                       /\ out.speakers[j].added = h.speakers[j].added
  BY <1>2, <1>4, <1>5
<1>7. Steady(v, h0, out)
  BY <1>5, <1>6, SameSpeakers
<1> QED BY <1>7 DEF out

(* hud_reset_speakers_locked *)
LEMMA ResetKeeps ==
  ASSUME NEW v, NEW h0, NEW h, Steady(v, h0, h), NEW out, out = ResetSpeakers(h)
  PROVE  Steady(v, h0, out)
<1> DEFINE N == SpeakerLimit
           H == {k \in HudType : Steady(v, h0, k)}
           E(k, i) == [IF k.speakers[i].active THEN EmitSpeaker(k, i, FALSE) ELSE k
                         EXCEPT !.speakers[i].sequence = 0]
           W(k, i) == With(k, LAMBDA x : E(x, i))
           P(g) == g = [i \in 0 .. N |-> IF i = 0 THEN h ELSE W(g[i - 1], i)]
           G == CHOOSE g : P(g)
           step == [i \in 1 .. N |-> [k \in H |-> E(k, i)]]
<1>1. N \in Nat /\ Seats = 1 .. N
  BY VoiceAssumption DEF Seats
<1>2. h \in H
  BY DEF Steady
<1>3. ResetSpeakers(h) = [EachSlot(E, h) EXCEPT !.unseated = {}]
  BY DEF ResetSpeakers
<1>4. EachSlot(E, h) = G[N]
  BY DEF EachSlot
<1>5. ASSUME NEW k \in H, NEW i \in 1 .. N  PROVE E(k, i) \in H
  <2> DEFINE m == IF k.speakers[i].active THEN EmitSpeaker(k, i, FALSE) ELSE k
  <2>1. i \in Seats /\ Steady(v, h0, k)
    BY <1>1
  <2>2. Steady(v, h0, m)
    <3>1. CASE k.speakers[i].active
      <4>1. k.speakers[i].profile # Nobody
        BY <2>1, <3>1 DEF Steady, Following, SpeakersSound
      <4>2. Steady(v, h0, EmitSpeaker(k, i, FALSE))
        BY <2>1, <4>1, EmitKeeps
      <4> QED BY <3>1, <4>2
    <3> QED BY <2>1, <3>1
  <2>3. E(k, i) = [m EXCEPT !.speakers[i].sequence = 0]
    OBVIOUS
  <2> HIDE DEF m, E
  <2>4. Steady(v, h0, E(k, i))
    BY <2>1, <2>2, <2>3, SequenceKeeps
  <2> QED BY <2>4 DEF Steady
<1> HIDE DEF E
<1>6. \A k, i : W(k, i) = E(k, i)
  BY DEF With
<1>7. step \in [1 .. N -> [H -> H]]
  BY <1>5
<1> HIDE DEF H, W, step
<1>8. PICK f \in [0 .. N -> H] : Stepwise(N, h, step, f)
  BY <1>1, <1>2, <1>7, StepByStep
<1>9. f = [i \in 0 .. N |-> IF i = 0 THEN h ELSE W(f[i - 1], i)]
  <2>1. ASSUME NEW i \in 0 .. N, i # 0  PROVE step[i][f[i - 1]] = W(f[i - 1], i)
    <3>1. i \in 1 .. N /\ i - 1 \in 0 .. N
      BY <1>1, <2>1
    <3>2. f[i - 1] \in H
      BY <3>1
    <3> QED BY <1>6, <3>1, <3>2 DEF step
  <2> QED BY <1>8, <2>1 DEF Stepwise
<1>10. P(G)
  <2>1. P(f)
    BY <1>9
  <2> QED BY <2>1
<1>11. G[0] = h /\ \A i \in 1 .. N : G[i] = E(G[i - 1], i)
  <2> HIDE DEF G
  <2>1. G = [i \in 0 .. N |-> IF i = 0 THEN h ELSE W(G[i - 1], i)]
    BY <1>10
  <2> HIDE DEF P
  <2> QED BY <1>1, <1>6, <2>1
<1> HIDE DEF G, P
<1>12. \A i \in 0 .. N : i \in {n \in 0 .. N : G[n] \in H}
  <2> DEFINE S == {n \in 0 .. N : G[n] \in H}
  <2>1. 0 \in S
    BY <1>1, <1>2, <1>11
  <2>2. \A i \in 1 .. N : i - 1 \in S => i \in S
    BY <1>5, <1>11
  <2> HIDE DEF S
  <2>3. \A i \in 0 .. N : i \in S
    BY <1>1, <2>1, <2>2, UpTo
  <2> QED BY <2>3 DEF S
<1>13. G[N] \in H
  BY <1>1, <1>12
<1>14. Steady(v, h0, G[N])
  BY <1>13 DEF H
<1> DEFINE m == G[N]
<1>15. Steady(v, h0, m) /\ out = [m EXCEPT !.unseated = {}]
  BY <1>3, <1>4, <1>14
<1> HIDE DEF m
<1>16. {} \in SUBSET Profiles
  OBVIOUS
<1>17. Steady(v, h0, [m EXCEPT !.unseated = {}])
  BY <1>15, <1>16, UnseatedKeeps
<1> QED BY <1>15, <1>17

(* hud_apply_speaking_frame_locked: a slot that nobody needs is taken. *)
LEMMA SpeakingKeeps ==
  ASSUME NEW v, NEW h0, NEW h, Steady(v, h0, h), NEW f \in FrameType, f.op = "speaking"
  PROVE  Steady(v, h0, ApplySpeaking(h, f))
<1> DEFINE p == f.profile
           i == Min(Slot(h, p))
           known == h.speakers[i].profile = p
           new == [IF known THEN h.speakers[i] ELSE [NoSpeaker EXCEPT !.profile = p]
                     EXCEPT !.sequence = f.sequence]
           seat == [h EXCEPT !.speakers[i] = new, !.unseated = @ \ {p}]
<1>1. /\ h \in HudType /\ p \in Profiles /\ p # Nobody /\ f.active \in BOOLEAN
      /\ f.sequence \in Nat /\ h.session \in Sessions \cup {Nobody}
      /\ h.speakers \in [Seats -> SpeakerType] /\ h.unseated \in SUBSET Profiles
  BY VoiceAssumption, HudIs DEF Steady, FrameType
<1>2. CASE Slot(h, p) = {}
  <2>1. h.unseated \cup {p} \in SUBSET Profiles
    BY <1>1
  <2>2. ApplySpeaking(h, f) = [h EXCEPT !.unseated = h.unseated \cup {p}]
    BY <1>2, <1>1 DEF ApplySpeaking, HudType
  <2> QED BY <2>1, <2>2, UnseatedKeeps
<1>3. CASE Slot(h, p) # {}
  <2>1. i \in Slot(h, p) /\ i \in Seats
    <3>1. Slot(h, p) \subseteq Seats /\ Seats \subseteq Nat
      BY DEF Slot, Seats
    <3> QED BY <1>3, <3>1, LeastIs
  <2>2. ~known => /\ \A j \in Seats : h.speakers[j].profile # p
                  /\ h.speakers[i].profile = Nobody \/ ~h.speakers[i].active
    BY <2>1 DEF Slot
  <2>3. ApplySpeaking(h, f) = h \/ ApplySpeaking(h, f) = EmitSpeaker(seat, i, f.active)
    BY <1>3 DEF ApplySpeaking, With
  <2>4. h.speakers[i] \in SpeakerType
    BY <1>1, <2>1
  <2>5. /\ new \in SpeakerType /\ new.profile = p
        /\ known => new.active = h.speakers[i].active /\ new.added = h.speakers[i].added
        /\ ~known => new.active = FALSE /\ new.added = FALSE
    <3>1. CASE known
      BY <1>1, <2>4, <3>1 DEF SpeakerType
    <3>2. CASE ~known
      BY <1>1, <3>2 DEF SpeakerType, NoSpeaker
    <3> QED BY <3>1, <3>2
  <2> HIDE DEF i, new, seat
  <2>6. /\ seat \in HudType /\ seat.queue = h.queue /\ seat.session = h.session
        /\ seat.lost = h.lost
        /\ seat.speakers[i] = new /\ \A j \in Seats \ {i} : seat.speakers[j] = h.speakers[j]
    <3> DEFINE speakers == [h.speakers EXCEPT ![i] = new]
    <3>1. seat = [h EXCEPT !.speakers = speakers, !.unseated = @ \ {p}]
      BY <1>1 DEF HudType, seat
    <3>2. /\ speakers \in [Seats -> SpeakerType] /\ speakers[i] = new
          /\ \A j \in Seats \ {i} : speakers[j] = h.speakers[j]
      BY <1>1, <2>1, <2>5
    <3> HIDE DEF speakers
    <3>3. /\ seat \in HudType /\ seat.queue = h.queue /\ seat.session = h.session
          /\ seat.lost = h.lost /\ seat.speakers = speakers
      BY <1>1, <3>1, <3>2 DEF HudType
    <3> QED BY <3>2, <3>3
  <2>7. QueueSound(v, seat.queue, seat.session) /\ LeftBehind(v, seat)
    BY <2>6 DEF Steady, Following, LeftBehind
  <2>8. SpeakersSound(v, seat)
    <3>1. SpeakersSound(v, h)
      BY DEF Steady, Following
    <3>2. ASSUME NEW j \in Seats
          PROVE  /\ seat.speakers[j].active => seat.speakers[j].profile # Nobody
                 /\ seat.speakers[j].added =>
                      /\ seat.speakers[j].profile # Nobody /\ h.session # Nobody
                      /\ WillKnow(v, h.queue, h.session, seat.speakers[j].profile)
      <4>1. CASE j = i /\ known
        BY <1>1, <2>5, <2>6, <3>1, <4>1 DEF SpeakersSound
      <4>2. CASE j = i /\ ~known
        BY <2>5, <2>6, <4>2
      <4>3. CASE j # i
        BY <2>6, <3>1, <4>3 DEF SpeakersSound
      <4> QED BY <4>1, <4>2, <4>3
    <3>3. ASSUME NEW j \in Seats, NEW l \in Seats,
                 seat.speakers[j].profile = seat.speakers[l].profile,
                 seat.speakers[j].profile # Nobody
          PROVE  j = l
      <4>1. \A x \in Seats : h.speakers[x].profile = p => x = i
        BY <1>1, <2>1, <2>2, <3>1 DEF SpeakersSound
      <4>2. CASE j # i /\ l # i
        BY <2>6, <3>1, <3>3, <4>2 DEF SpeakersSound
      <4>3. CASE j = i \/ l = i
        BY <2>5, <2>6, <3>3, <4>1, <4>3
      <4> QED BY <4>2, <4>3
    <3> QED BY <2>6, <3>2, <3>3 DEF SpeakersSound
  <2>9. \A x \in Profiles : Heard(seat, x) <=> Heard(h, x)
    <3>1. CASE known
      BY <2>1, <2>5, <2>6, <3>1 DEF Heard
    <3>2. CASE ~known
      <4>1. ~h.speakers[i].active
        BY <2>1, <2>2, <3>2 DEF Steady, Following, SpeakersSound
      <4> QED BY <2>1, <2>5, <2>6, <3>2, <4>1 DEF Heard
    <3> QED BY <3>1, <3>2
  <2>10. Followed(v, seat)
    BY <2>6, <2>9 DEF Steady, Following, Followed
  <2>11. Steady(v, h0, seat)
    BY <2>6, <2>7, <2>8, <2>10 DEF Steady, Following
  <2>12. seat.speakers[i].profile # Nobody
    BY <1>1, <2>5, <2>6
  <2>13. Steady(v, h0, EmitSpeaker(seat, i, f.active))
    BY <1>1, <2>1, <2>11, <2>12, EmitKeeps
  <2> QED BY <2>3, <2>13
<1> QED BY <1>2, <1>3

(* A frame of the sidecar, as hud_consume_frames_locked takes it. *)
LEMMA FrameKeeps ==
  ASSUME NEW v, NEW h0, NEW h, Steady(v, h0, h), NEW f \in FrameType
  PROVE  Steady(v, h0, ApplyFrame(h, f))
<1>1. CASE f.op = "reset"
  BY <1>1, ResetKeeps DEF ApplyFrame
<1>2. CASE f.op = "speaking"
  BY <1>2, SpeakingKeeps DEF ApplyFrame
<1>3. CASE f.op # "reset" /\ f.op # "speaking"
  BY <1>3 DEF ApplyFrame
<1> QED BY <1>1, <1>2, <1>3

(* hud_consume_frames_locked *)
LEMMA FramesKeep ==
  ASSUME NEW v, NEW h0, NEW h, Steady(v, h0, h), NEW frames \in Seq(FrameType)
  PROVE  Steady(v, h0, ConsumeFrames(h, frames))
<1> DEFINE N == Len(frames)
           H == {k \in HudType : Steady(v, h0, k)}
           E(k, i) == ApplyFrame(k, frames[i])
           W(k, i) == With(k, LAMBDA x : E(x, i))
           P(g) == g = [i \in 0 .. N |-> IF i = 0 THEN h ELSE W(g[i - 1], i)]
           G == CHOOSE g : P(g)
           step == [i \in 1 .. N |-> [k \in H |-> E(k, i)]]
<1>1. N \in Nat /\ \A i \in 1 .. N : frames[i] \in FrameType
  BY LenProperties, ElementOfSeq
<1>2. h \in H
  BY DEF Steady
<1>3. ConsumeFrames(h, frames) = G[N]
  BY DEF ConsumeFrames
<1>4. ASSUME NEW k \in H, NEW i \in 1 .. N  PROVE E(k, i) \in H
  <2>1. Steady(v, h0, ApplyFrame(k, frames[i]))
    BY <1>1, FrameKeeps
  <2> QED BY <2>1 DEF Steady
<1> HIDE DEF N
<1> HIDE DEF E
<1>5. \A k, i : W(k, i) = E(k, i)
  BY DEF With
<1>6. step \in [1 .. N -> [H -> H]]
  BY <1>4
<1> HIDE DEF H, W, step
<1>7. PICK f \in [0 .. N -> H] : Stepwise(N, h, step, f)
  BY <1>1, <1>2, <1>6, StepByStep
<1>8. f = [i \in 0 .. N |-> IF i = 0 THEN h ELSE W(f[i - 1], i)]
  <2>1. ASSUME NEW i \in 0 .. N, i # 0  PROVE step[i][f[i - 1]] = W(f[i - 1], i)
    <3>1. i \in 1 .. N /\ i - 1 \in 0 .. N
      BY <1>1, <2>1
    <3>2. f[i - 1] \in H
      BY <3>1
    <3> QED BY <1>5, <3>1, <3>2 DEF step
  <2> QED BY <1>7, <2>1 DEF Stepwise
<1>9. P(G)
  <2>1. P(f)
    BY <1>8
  <2> QED BY <2>1
<1>10. G[0] = h /\ \A i \in 1 .. N : G[i] = E(G[i - 1], i)
  <2> HIDE DEF G
  <2>1. G = [i \in 0 .. N |-> IF i = 0 THEN h ELSE W(G[i - 1], i)]
    BY <1>9
  <2> HIDE DEF P
  <2> QED BY <1>1, <1>5, <2>1
<1> HIDE DEF G, P
<1>11. \A i \in 0 .. N : i \in {n \in 0 .. N : G[n] \in H}
  <2> DEFINE S == {n \in 0 .. N : G[n] \in H}
  <2>1. 0 \in S
    BY <1>1, <1>2, <1>10
  <2>2. \A i \in 1 .. N : i - 1 \in S => i \in S
    BY <1>4, <1>10
  <2> HIDE DEF S
  <2>3. \A i \in 0 .. N : i \in S
    BY <1>1, <2>1, <2>2, UpTo
  <2> QED BY <2>3 DEF S
<1>12. G[N] \in H
  BY <1>1, <1>11
<1> QED BY <1>3, <1>12 DEF H

(* hud_cache_session_from_message_locked, when nothing is queued: the speakers of
   the session that is left are lost. *)
LEMMA SessionKeeps ==
  ASSUME NEW v, NEW h \in HudType, Following(v, h), h.queue = <<>>, NEW s \in Sessions,
         NEW out, out = CacheSession(h, s)
  PROVE  /\ out \in HudType /\ Following(v, out)
         /\ Single(out.queue) /\ Waiting(out.queue) = {}
<1> DEFINE left == {<<h.session, h.speakers[i].profile>> : i \in
                      {j \in Seats : h.speakers[j].added /\ h.speakers[j].active}}
           speakers == [i \in Seats |-> [h.speakers[i] EXCEPT !.added = FALSE]]
           m == [h EXCEPT !.queue = <<>>, !.session = s, !.speakers = speakers,
                          !.lost = @ \cup left]
<1>1. /\ h.session \in Sessions \cup {Nobody} /\ h.speakers \in [Seats -> SpeakerType]
      /\ h.lost \in SUBSET (Sessions \X Profiles)
  BY HudIs
<1>2. \A x, p : NothingOn(<<>>, x, p) /\ ~EndsSpeaking(<<>>, x, p)
  BY DEF NothingOn, EndsSpeaking
<1>3. Single(<<>>) /\ Waiting(<<>>) = {} /\ QueueSound(v, <<>>, s) /\ <<>> \in Seq(Events)
  BY DEF Single, Waiting, QueueSound
<1>4. CASE h.session = s
  BY <1>3, <1>4 DEF CacheSession
<1>5. CASE h.session # s
  <2>1. out = EmitWaiting(m)
    <3>1. out = With(m, EmitWaiting)
      BY <1>5 DEF CacheSession
    <3> HIDE DEF m
    <3> QED BY <3>1 DEF With
  <2>2. left \in SUBSET (Sessions \X Profiles)
    BY <1>1, HudIs DEF Following, SpeakersSound
  <2>3. \A p \in Profiles : Heard(h, p) => <<h.session, p>> \in left
    BY DEF Heard
  <2> HIDE DEF left
  <2>4. /\ speakers \in [Seats -> SpeakerType]
        /\ \A i \in Seats : /\ speakers[i].profile = h.speakers[i].profile
                            /\ speakers[i].active = h.speakers[i].active
                            /\ speakers[i].added = FALSE
    <3> SUFFICES ASSUME NEW i \in Seats
                 PROVE  /\ [h.speakers[i] EXCEPT !.added = FALSE] \in SpeakerType
                        /\ speakers[i].profile = h.speakers[i].profile
                        /\ speakers[i].active = h.speakers[i].active
                        /\ speakers[i].added = FALSE
      OBVIOUS
    <3>1. h.speakers[i] \in SpeakerType
      BY <1>1
    <3> QED BY <3>1 DEF SpeakerType
  <2> HIDE DEF speakers
  <2>5. /\ m \in HudType /\ m.queue = <<>> /\ m.session = s /\ m.speakers = speakers
        /\ m.lost = h.lost \cup left
    BY <1>1, <1>3, <2>2, <2>4 DEF HudType
  <2> HIDE DEF m
  <2>6. SpeakersSound(v, m)
    BY <2>4, <2>5 DEF Following, SpeakersSound
  <2>7. Followed(v, m)
    <3> SUFFICES ASSUME NEW p \in Profiles, <<s, p>> \notin m.lost
                 PROVE  WillSpeak(v, m.queue, s, p) <=> Heard(m, p)
      BY <2>5 DEF Followed
    <3>1. ~Heard(m, p)
      BY <2>4, <2>5 DEF Heard
    <3>2. v[s][p] # "speaking"
      BY <1>5, <2>5 DEF Following, LeftBehind
    <3> QED BY <1>2, <2>5, <3>1, <3>2 DEF WillSpeak
  <2>8. LeftBehind(v, m)
    <3> SUFFICES ASSUME NEW x \in Sessions \ {s}, NEW p \in Profiles, v[x][p] = "speaking"
                 PROVE  <<x, p>> \in m.lost
      BY <2>5 DEF LeftBehind
    <3>1. CASE x # h.session
      BY <2>5, <3>1 DEF Following, LeftBehind
    <3>2. CASE x = h.session
      <4>1. WillSpeak(v, h.queue, x, p) /\ h.session # Nobody
        BY <1>2, <3>2, VoiceAssumption DEF WillSpeak
      <4>2. <<x, p>> \in h.lost \/ Heard(h, p)
        BY <3>2, <4>1 DEF Following, Followed
      <4> QED BY <2>3, <2>5, <3>2, <4>2
    <3> QED BY <3>1, <3>2
  <2>9. Steady(v, m, m)
    BY <1>3, <2>5, <2>6, <2>7, <2>8 DEF Steady, Following
  <2>10. Steady(v, m, out)
    BY <2>1, <2>9, WaitingKeeps
  <2> QED BY <1>3, <2>5, <2>10 DEF Steady
<1> QED BY <1>4, <1>5

-----------------------------------------------------------------------------
(* The game takes an event: what it shows changes as the event says. *)
AfterPop(v, q, e, w, r) ==
  /\ w \in PictureType /\ r \in Seq(Events) /\ e \in Events
  /\ \A s \in Sessions :
       QueueSound(v, q, s) =>
         /\ QueueSound(w, r, s)
         /\ \A p \in Profiles :
              /\ WillKnow(v, q, s, p) => WillKnow(w, r, s, p)
              /\ WillSpeak(w, r, s, p) <=> WillSpeak(v, q, s, p)
         /\ \A x \in Sessions \ {s}, p \in Profiles : w[x][p] = v[x][p]
  /\ Single(q) => Single(r) /\ Waiting(r) = Waiting(q) \ (IF e.type = "group" THEN {e.group} ELSE {})
  /\ e.type = "group" => w = v /\ e.group \in Waiting(q)

Shows(v, e, w) ==
  /\ w \in PictureType
  /\ e.type = "group" => w = v
  /\ e.type # "group" =>
       /\ e.session \in Sessions /\ e.profile \in Profiles
       /\ \A x \in Sessions, p \in Profiles :
            ~About(e, x, p) => w[x][p] = v[x][p]
       /\ e = Added(e.session, e.profile) => w[e.session][e.profile] = "silent"
       /\ IsUpdate(e) /\ v[e.session][e.profile] # "absent" =>
            w[e.session][e.profile] =
              IF e = Speech(e.session, e.profile) THEN "speaking" ELSE "silent"

(* What the game makes of one event. *)
LEMMA ShownIs ==
  ASSUME NEW v \in PictureType, NEW e \in Events
  PROVE  Shows(v, e, Shown(v, e))
<1> SUFFICES ASSUME NEW w, w = Shown(v, e)
             PROVE  Shows(v, e, w)
  OBVIOUS
<1> USE DEF Shows
<1>1. CASE e.type = "group"
  BY <1>1 DEF Shown
<1>2. CASE e.type # "group"
  <2> DEFINE s == e.session
             p == e.profile
             see(t) == [v EXCEPT ![s] = [v[s] EXCEPT ![p] = t]]
  <2>1. s \in Sessions /\ p \in Profiles /\ e \in Participants
    BY <1>2, EventsAre DEF Events
  <2>2. ASSUME NEW t \in {"silent", "speaking"}
        PROVE  /\ see(t) \in PictureType /\ see(t)[s][p] = t
               /\ \A x \in Sessions, y \in Profiles :
                    ~About(e, x, y) => see(t)[x][y] = v[x][y]
    <3>1. v[s] \in [Profiles -> {"absent", "silent", "speaking"}]
      BY <2>1 DEF PictureType
    <3> DEFINE row == [v[s] EXCEPT ![p] = t]
    <3>2. /\ row \in [Profiles -> {"absent", "silent", "speaking"}] /\ row[p] = t
          /\ \A y \in Profiles \ {p} : row[y] = v[s][y]
      BY <2>1, <3>1
    <3> HIDE DEF row
    <3>3. /\ [v EXCEPT ![s] = row] \in PictureType /\ [v EXCEPT ![s] = row][s] = row
          /\ \A x \in Sessions \ {s} : [v EXCEPT ![s] = row][x] = v[x]
      BY <2>1, <3>2 DEF PictureType
    <3> QED BY <1>2, <2>1, <3>2, <3>3 DEF row, About
  <2>3. CASE ~IsUpdate(e)
    <3>1. e.type = "added"
      BY <1>2, <2>1, <2>3 DEF Participants, IsUpdate
    <3>2. w = see("silent")
      BY <1>2, <2>3, <3>1 DEF Shown
    <3> HIDE DEF see
    <3> QED BY <1>2, <2>1, <2>2, <2>3, <3>2
  <2>4. CASE IsUpdate(e)
    <3>1. e.active \in BOOLEAN /\ e = Updated(s, p, e.active) /\ e.type = "updated"
      BY <2>1, <2>4, EventsAre DEF IsUpdate
    <3>2. e # Added(s, p)
      BY <2>1, <2>4, EventsMade
    <3>3. e = Speech(s, p) <=> e.active
      BY <3>1 DEF Speech, Updated
    <3>4. CASE v[s][p] = "absent"
      BY <1>2, <2>1, <2>4, <3>1, <3>2, <3>4 DEF Shown
    <3>5. CASE v[s][p] # "absent"
      <4>1. w = see(IF e.active THEN "speaking" ELSE "silent")
        BY <3>1, <3>5 DEF Shown
      <4> HIDE DEF see
      <4>2. CASE e.active
        BY <1>2, <2>1, <2>2, <3>2, <3>3, <4>1, <4>2
      <4>3. CASE ~e.active
        BY <1>2, <2>1, <2>2, <3>2, <3>3, <4>1, <4>3
      <4> QED BY <4>2, <4>3
    <3> QED BY <3>4, <3>5
  <2> QED BY <2>3, <2>4
<1> QED BY <1>1, <1>2

(* The game takes the oldest event. *)
LEMMA PopWord ==
  ASSUME NEW v \in PictureType, NEW q \in Seq(Events), q # <<>>
  PROVE  AfterPop(v, q, Head(q), Shown(v, Head(q)), Tail(q))
<1> SUFFICES ASSUME NEW e, e = Head(q), NEW w, w = Shown(v, e), NEW r, r = Tail(q)
             PROVE  AfterPop(v, q, e, w, r)
  OBVIOUS
<1> DEFINE n == Len(q)
<1>1. /\ n \in Nat /\ n > 0 /\ DOMAIN q = 1 .. n /\ DOMAIN r = 1 .. n - 1
      /\ r \in Seq(Events) /\ e = q[1] /\ e \in Events
      /\ \A i \in 1 .. n - 1 : r[i] = q[i + 1] /\ i + 1 \in 1 .. n
      /\ \A i \in 1 .. n : i # 1 => r[i - 1] = q[i] /\ i - 1 \in 1 .. n - 1
  <2>1. /\ n \in Nat /\ n > 0 /\ DOMAIN q = 1 .. n /\ DOMAIN r = 1 .. Len(r) /\ e = q[1]
        /\ r \in Seq(Events) /\ Len(r) = n - 1 /\ \A i \in 1 .. n - 1 : r[i] = q[i + 1]
    BY HeadTailProperties, LenProperties, EmptySeq
  <2>2. e \in Events
    BY <2>1, ElementOfSeq
  <2>3. \A i \in 1 .. n : i # 1 => r[i - 1] = q[i] /\ i - 1 \in 1 .. n - 1
    <3> SUFFICES ASSUME NEW i \in 1 .. n, i # 1
                 PROVE  r[i - 1] = q[i] /\ i - 1 \in 1 .. n - 1
      OBVIOUS
    <3>1. i - 1 \in 1 .. n - 1 /\ i - 1 + 1 = i
      BY <2>1
    <3> QED BY <2>1, <3>1
  <2> QED BY <2>1, <2>2, <2>3
<1> HIDE DEF n
<1>shows. Shows(v, e, w)
  BY <1>1, ShownIs
<1>2. /\ w \in PictureType
      /\ e.type = "group" => w = v
      /\ e.type # "group" =>
           /\ e.session \in Sessions /\ e.profile \in Profiles
           /\ \A x \in Sessions, p \in Profiles :
                ~About(e, x, p) => w[x][p] = v[x][p]
           /\ e = Added(e.session, e.profile) => w[e.session][e.profile] = "silent"
           /\ IsUpdate(e) /\ v[e.session][e.profile] # "absent" =>
                w[e.session][e.profile] =
                  IF e = Speech(e.session, e.profile) THEN "speaking" ELSE "silent"
  BY <1>shows DEF Shows
<1>3. e.type # "group" => \/ IsUpdate(e)
                          \/ e = Added(e.session, e.profile)
  BY <1>1, EventsAre DEF Events
<1>4. ASSUME NEW s \in Sessions, QueueSound(v, q, s)
      PROVE  /\ QueueSound(w, r, s)
             /\ \A p \in Profiles :
                  /\ WillKnow(v, q, s, p) => WillKnow(w, r, s, p)
                  /\ WillSpeak(w, r, s, p) <=> WillSpeak(v, q, s, p)
             /\ \A x \in Sessions \ {s}, p \in Profiles : w[x][p] = v[x][p]
  <2>1. e.type # "group" => e.session = s
    BY <1>1, <1>4 DEF QueueSound
  <2>2. IsUpdate(e) => v[s][e.profile] # "absent"
    <3> HAVE IsUpdate(e)
    <3>1. e.type # "group" /\ 1 \in DOMAIN q /\ ~ \E i \in DOMAIN q : i < 1
      BY <1>1 DEF IsUpdate
    <3> QED BY <1>1, <1>4, <3>1 DEF QueueSound, KnownTo
  <2>3. \A x \in Sessions, p \in Profiles : ~About(e, x, p) => w[x][p] = v[x][p]
    BY <1>2 DEF About
  <2>4. \A p \in Profiles : About(e, s, p) => w[s][p] =
          IF e = Speech(s, p) THEN "speaking" ELSE "silent"
    <3> SUFFICES ASSUME NEW p \in Profiles, About(e, s, p)
                 PROVE  w[s][p] = IF e = Speech(s, p) THEN "speaking" ELSE "silent"
      OBVIOUS
    <3>1. e.type # "group" /\ e.session = s /\ e.profile = p
      BY DEF About
    <3>2. CASE IsUpdate(e)
      BY <1>2, <2>2, <3>1, <3>2
    <3>3. CASE e = Added(s, p)
      <4>1. e # Speech(s, p)
        BY <3>3, EventsMade, SpeechIs
      <4> QED BY <1>2, <3>1, <3>3, <4>1
    <3> QED BY <1>3, <3>1, <3>2, <3>3
  <2>5. \A x \in Sessions \ {s}, p \in Profiles : w[x][p] = v[x][p]
    BY <2>1, <2>3 DEF About
  <2>6. \A p \in Profiles : v[s][p] # "absent" => w[s][p] # "absent"
    BY <2>3, <2>4
  <2>7. \A p \in Profiles : e = Added(s, p) => w[s][p] # "absent"
    <3> SUFFICES ASSUME NEW p \in Profiles, e = Added(s, p)
                 PROVE  w[s][p] # "absent"
      OBVIOUS
    <3>1. About(e, s, p)
      BY EventsMade DEF About
    <3> QED BY <2>4, <3>1
  <2>8. ASSUME NEW p \in Profiles, WillKnow(v, q, s, p)  PROVE WillKnow(w, r, s, p)
    <3>1. CASE v[s][p] # "absent"
      BY <2>6, <3>1 DEF WillKnow
    <3>2. CASE \E i \in 1 .. n : q[i] = Added(s, p)
      <4>1. PICK i \in 1 .. n : q[i] = Added(s, p)
        BY <3>2
      <4>2. CASE i = 1
        BY <1>1, <2>7, <4>1, <4>2 DEF WillKnow
      <4>3. CASE i # 1
        <5>1. i - 1 \in DOMAIN r /\ r[i - 1] = Added(s, p)
          BY <1>1, <4>1, <4>3
        <5> QED BY <5>1 DEF WillKnow
      <4> QED BY <4>2, <4>3
    <3> QED BY <1>1, <2>8, <3>1, <3>2 DEF WillKnow
  <2>9. ASSUME NEW k \in 1 .. n - 1, NEW p \in Profiles, KnownTo(v, q, k + 1, s, p)
        PROVE  KnownTo(w, r, k, s, p)
    <3>1. CASE v[s][p] # "absent"
      BY <2>6, <3>1 DEF KnownTo
    <3>2. CASE \E i \in 1 .. n : i < k + 1 /\ q[i] = Added(s, p)
      <4>1. PICK i \in 1 .. n : i < k + 1 /\ q[i] = Added(s, p)
        BY <3>2
      <4>2. CASE i = 1
        BY <1>1, <2>7, <4>1, <4>2 DEF KnownTo
      <4>3. CASE i # 1
        <5>1. i - 1 \in DOMAIN r /\ r[i - 1] = Added(s, p) /\ i - 1 < k
          BY <1>1, <4>1, <4>3
        <5> QED BY <5>1 DEF KnownTo
      <4> QED BY <4>2, <4>3
    <3> QED BY <1>1, <2>9, <3>1, <3>2 DEF KnownTo
  <2>10. QueueSound(w, r, s)
    <3> SUFFICES ASSUME NEW i \in 1 .. n - 1, r[i].type # "group"
                 PROVE  /\ r[i].session = s
                        /\ IsUpdate(r[i]) => KnownTo(w, r, i, s, r[i].profile)
      BY <1>1 DEF QueueSound
    <3>1. i + 1 \in DOMAIN q /\ r[i] = q[i + 1] /\ q[i + 1] \in Events
      BY <1>1, ElementOfSeq DEF n
    <3>2. r[i].profile \in Profiles
      BY <3>1, EventsAre DEF Events
    <3> QED BY <1>4, <2>9, <3>1, <3>2 DEF QueueSound
  <2>11. ASSUME NEW p \in Profiles  PROVE WillSpeak(w, r, s, p) <=> WillSpeak(v, q, s, p)
    <3>1. About(Speech(s, p), s, p)
      BY SpeechIs
    <3>2. NothingOn(q, s, p) <=> ~About(e, s, p) /\ NothingOn(r, s, p)
      <4>1. ASSUME NothingOn(q, s, p)  PROVE ~About(e, s, p) /\ NothingOn(r, s, p)
        BY <1>1, <4>1 DEF NothingOn
      <4>2. ASSUME ~About(e, s, p), NothingOn(r, s, p), NEW i \in DOMAIN q
            PROVE  ~About(q[i], s, p)
        <5>1. CASE i = 1
          BY <1>1, <4>2, <5>1
        <5>2. CASE i # 1
          <6>1. i - 1 \in DOMAIN r /\ r[i - 1] = q[i]
            BY <1>1, <5>2
          <6> QED BY <4>2, <6>1 DEF NothingOn
        <5> QED BY <5>1, <5>2
      <4> QED BY <4>1, <4>2 DEF NothingOn
    <3>3. EndsSpeaking(r, s, p) => EndsSpeaking(q, s, p)
      <4> HAVE EndsSpeaking(r, s, p)
      <4>1. PICK i \in 1 .. n - 1 : /\ r[i] = Speech(s, p)
                                    /\ \A j \in 1 .. n - 1 : j > i => ~About(r[j], s, p)
        BY <1>1 DEF EndsSpeaking
      <4>2. i + 1 \in DOMAIN q /\ q[i + 1] = Speech(s, p)
        BY <1>1, <4>1
      <4>3. ASSUME NEW j \in 1 .. n, j > i + 1  PROVE ~About(q[j], s, p)
        <5>1. j # 1 /\ j - 1 \in 1 .. n - 1 /\ j - 1 > i /\ r[j - 1] = q[j]
          BY <1>1, <4>3
        <5> QED BY <4>1, <5>1
      <4> QED BY <1>1, <4>2, <4>3 DEF EndsSpeaking
    <3>4. EndsSpeaking(q, s, p) =>
            EndsSpeaking(r, s, p) \/ (e = Speech(s, p) /\ NothingOn(r, s, p))
      <4> HAVE EndsSpeaking(q, s, p)
      <4>1. PICK i \in 1 .. n : /\ q[i] = Speech(s, p)
                                /\ \A j \in 1 .. n : j > i => ~About(q[j], s, p)
        BY <1>1 DEF EndsSpeaking
      <4>2. \A j \in 1 .. n - 1 : j + 1 > i => ~About(r[j], s, p)
        BY <1>1, <4>1
      <4>3. CASE i = 1
        <5>1. \A j \in 1 .. n - 1 : j + 1 > i
          BY <1>1, <4>3
        <5> QED BY <1>1, <4>1, <4>2, <4>3, <5>1 DEF NothingOn
      <4>4. CASE i # 1
        <5>1. i - 1 \in 1 .. n - 1 /\ r[i - 1] = Speech(s, p)
          BY <1>1, <4>1, <4>4
        <5>2. \A j \in 1 .. n - 1 : j > i - 1 => ~About(r[j], s, p)
          BY <1>1, <4>2
        <5> QED BY <1>1, <5>1, <5>2 DEF EndsSpeaking
      <4> QED BY <4>3, <4>4
    <3>5. e = Speech(s, p) /\ NothingOn(r, s, p) => EndsSpeaking(q, s, p)
      <4> HAVE e = Speech(s, p) /\ NothingOn(r, s, p)
      <4>1. 1 \in DOMAIN q /\ q[1] = Speech(s, p)
        BY <1>1
      <4>2. \A j \in 1 .. n - 1 : ~About(r[j], s, p)
        BY <1>1 DEF NothingOn
      <4>3. ASSUME NEW j \in 1 .. n, j > 1  PROVE ~About(q[j], s, p)
        <5>1. j - 1 \in 1 .. n - 1 /\ r[j - 1] = q[j]
          BY <1>1, <4>3
        <5> QED BY <4>2, <5>1
      <4> QED BY <1>1, <4>1, <4>3 DEF EndsSpeaking
    <3>6. CASE About(e, s, p)
      <4>1. w[s][p] = "speaking" <=> e = Speech(s, p)
        BY <2>4, <3>6
      <4> QED BY <3>2, <3>3, <3>4, <3>5, <3>6, <4>1 DEF WillSpeak
    <3>7. CASE ~About(e, s, p)
      <4>1. e # Speech(s, p) /\ w[s][p] = v[s][p]
        BY <2>3, <3>1, <3>7
      <4> QED BY <3>2, <3>3, <3>4, <3>7, <4>1 DEF WillSpeak
    <3> QED BY <3>6, <3>7
  <2> QED BY <2>5, <2>8, <2>10, <2>11
<1>5. ASSUME Single(q)
      PROVE  /\ Single(r)
             /\ Waiting(r) = Waiting(q) \ (IF e.type = "group" THEN {e.group} ELSE {})
  <2>1. Single(r)
    BY <1>1, <1>5 DEF Single
  <2>2. CASE e.type # "group"
    <3>1. \A g \in Groups : e # GroupAdded(g)
      BY <2>2, EventsMade
    <3>2. ASSUME NEW g \in Groups
          PROVE  (\E i \in DOMAIN r : r[i] = GroupAdded(g))
                   <=> (\E i \in DOMAIN q : q[i] = GroupAdded(g))
      <4>1. ASSUME NEW i \in DOMAIN q, q[i] = GroupAdded(g)
            PROVE  \E j \in DOMAIN r : r[j] = GroupAdded(g)
        <5>1. i # 1
          BY <1>1, <3>1, <4>1
        <5>2. i - 1 \in DOMAIN r /\ r[i - 1] = GroupAdded(g)
          BY <1>1, <4>1, <5>1
        <5> QED BY <5>2
      <4>2. ASSUME NEW i \in DOMAIN r, r[i] = GroupAdded(g)
            PROVE  \E j \in DOMAIN q : q[j] = GroupAdded(g)
        BY <1>1, <4>2
      <4> QED BY <4>1, <4>2
    <3>3. Waiting(r) = Waiting(q)
      BY <3>2 DEF Waiting
    <3> QED BY <2>1, <2>2, <3>3
  <2>3. CASE e.type = "group"
    <3>1. \A i \in DOMAIN r : r[i].type # "group"
      <4> SUFFICES ASSUME NEW i \in 1 .. n - 1, r[i].type = "group"
                   PROVE  FALSE
        BY <1>1
      <4>1. i + 1 \in 1 .. n /\ 1 \in 1 .. n /\ q[i + 1].type = "group" /\ i + 1 # 1
        BY <1>1
      <4> QED BY <1>1, <1>5, <2>3, <4>1 DEF Single
    <3>2. Waiting(r) = {}
      BY <3>1, EventsMade DEF Waiting
    <3>3. \A g \in Waiting(q) : g = e.group
      <4> SUFFICES ASSUME NEW g \in Groups, NEW i \in DOMAIN q, q[i] = GroupAdded(g)
                   PROVE  g = e.group
        BY DEF Waiting
      <4>1. q[i].type = "group" /\ q[i].group = g
        BY EventsMade
      <4> QED BY <1>1, <1>5, <2>3, <4>1 DEF Single
    <3> QED BY <2>1, <2>3, <3>2, <3>3
  <2> QED BY <2>2, <2>3
<1>6. e.type = "group" => w = v /\ e.group \in Waiting(q)
  <2> HAVE e.type = "group"
  <2>1. e \in Announcements
    BY <1>1, EventsAre DEF Events
  <2>2. e.group \in Groups /\ e = GroupAdded(e.group)
    BY <2>1, EventsAre
  <2> QED BY <1>1, <1>2, <2>2 DEF Waiting
<1> QED BY <1>1, <1>2, <1>4, <1>5, <1>6 DEF AfterPop

-----------------------------------------------------------------------------
(* The steps of the game, of the SDK and of the sidecar *)

(* hud_pump_pipe_locked: what arrived is read up to a frame that is none. *)
LEMMA PumpIs ==
  ASSUME HudTyped, Following(picture, hud), Single(hud.queue), NEW o \in PumpPipe
  PROVE  /\ Steady(picture, hud, o.hud) /\ o.wire \in Seq(FrameType)
         /\ o.sidecar \in [sequence : Nat, speaking : SUBSET Profiles]
<1>1. Steady(picture, hud, hud) /\ wire \in Seq(FrameType) /\ <<>> \in Seq(FrameType)
  BY DEF Steady, HudTyped
<1>2. AllSound \in Seq(FrameType)
  <2>1. CASE Bad = 0
    BY <1>1, <2>1 DEF AllSound
  <2>2. CASE Bad # 0
    <3> DEFINE I == {i \in 1 .. Len(wire) : ~Sound(wire[i])}
    <3>1. Bad = IF I # {} THEN Min(I) ELSE 0
      BY DEF Bad, SelectInSeq
    <3>2. I # {} /\ I \in SUBSET Nat
      BY <2>2, <3>1
    <3>3. Bad \in 1 .. Len(wire)
      BY <3>1, <3>2, LeastIs
    <3> HIDE DEF I
    <3>4. \A i \in 1 .. Bad - 1 : wire[i] \in FrameType
      BY <1>1, <3>3, ElementOfSeq, LenProperties
    <3>5. SubSeq(wire, 1, Bad - 1) \in Seq(FrameType)
      BY <1>1, <3>3, <3>4, SubSeqProperties
    <3> QED BY <2>2, <3>5 DEF AllSound
  <2> QED BY <2>1, <2>2
<1>3. Silent \in [sequence : Nat, speaking : SUBSET Profiles]
  BY DEF Silent
<1>4. CASE pipe = "closed"
  <2>1. PumpPipe = {Piped(hud, p, <<>>, sidecar) : p \in {"closed", "open"}}
    BY <1>4 DEF PumpPipe
  <2>2. PICK p \in {"closed", "open"} : o = Piped(hud, p, <<>>, sidecar)
    BY <2>1
  <2> QED BY <1>1, <2>2 DEF Piped, HudTyped
<1>5. CASE pipe = "open" /\ Bad = 0
  <2>1. Steady(picture, hud, ConsumeFrames(hud, wire))
    BY <1>1, FramesKeep
  <2>2. o = Piped(ConsumeFrames(hud, wire), "open", <<>>, sidecar)
    BY <1>5 DEF PumpPipe
  <2> QED BY <1>1, <2>1, <2>2 DEF Piped, HudTyped
<1>6. CASE pipe # "closed" /\ ~(pipe = "open" /\ Bad = 0)
  <2>1. PICK frames \in {AllSound} \cup (IF pipe = "broken" THEN {<<>>} ELSE {}) :
          o = Piped(With(ConsumeFrames(hud, frames), ResetSpeakers), "closed", <<>>, Silent)
    BY <1>6 DEF PumpPipe
  <2>2. frames \in Seq(FrameType)
    BY <1>1, <1>2, <2>1
  <2> DEFINE k == ConsumeFrames(hud, frames)
  <2>3. Steady(picture, hud, k)
    BY <1>1, <2>2, FramesKeep
  <2>4. o = Piped(ResetSpeakers(k), "closed", <<>>, Silent)
    BY <2>1 DEF With
  <2> HIDE DEF k
  <2>5. Steady(picture, hud, ResetSpeakers(k))
    BY <2>3, ResetKeeps
  <2> QED BY <1>1, <1>3, <2>4, <2>5 DEF Piped
<1> QED BY <1>4, <1>5, <1>6

(* The announcements that count stay the same. *)
LEMMA SameOutcome ==
  ASSUME Announcing, Single(hud'.queue), UNCHANGED <<group, suppress>>,
         \A g \in Groups : Outcome(g)' = Outcome(g)
  PROVE  Announcing'
<1>1. \A g \in Groups : Rival(g)' <=> Rival(g)
  BY DEF Rival
<1> QED BY <1>1 DEF Announcing

(* The part of vx_get_message under g_hud_lock: the pipe, the waiting speakers
   and one event, or none. *)
LEMMA PollHudStep ==
  ASSUME HudInv, PollHud
  PROVE  HudInv'
<1>1. HudTyped /\ Following(picture, hud) /\ Announcing /\ Single(hud.queue)
  BY DEF HudInv, Announcing
<1>2. PICK o \in PumpPipe :
        /\ pipe' = o.pipe /\ wire' = o.wire /\ sidecar' = o.sidecar
        /\ \E h \in {EmitWaiting(o.hud)} : PopEvent(h) \/ AskSdk(h)
  BY DEF PollHud
<1> DEFINE h == EmitWaiting(o.hud)
<1>3. /\ Steady(picture, hud, o.hud) /\ wire' \in Seq(FrameType)
      /\ sidecar' \in [sequence : Nat, speaking : SUBSET Profiles]
  BY <1>1, <1>2, PumpIs
<1>4. Steady(picture, hud, h)
  BY <1>3, WaitingKeeps
<1>5. PopEvent(h) \/ AskSdk(h)
  BY <1>2
<1> HIDE DEF h
<1>6. /\ h \in HudType /\ Following(picture, h) /\ Single(h.queue)
      /\ Waiting(h.queue) = Waiting(hud.queue) /\ h.queue \in Seq(Events)
      /\ h.session \in Sessions \cup {Nobody}
  BY <1>4, HudIs DEF Steady
<1>7. UNCHANGED <<sent, group, suppress>> /\ poll = "hud"
  BY DEF PollHud
<1>8. CASE AskSdk(h)
  <2>1. hud' = h /\ h.queue = <<>> /\ poll' = "sdk" /\ UNCHANGED <<picture, announced>>
    BY <1>8 DEF AskSdk
  <2>2. HudTyped'
    BY <1>1, <1>3, <1>6, <1>7, <2>1 DEF HudTyped
  <2>3. \A g \in Groups : Outcome(g)' = Outcome(g)
    BY <1>6, <2>1 DEF Outcome
  <2>4. Announcing'
    BY <1>1, <1>6, <1>7, <2>1, <2>3, SameOutcome
  <2> QED BY <1>6, <2>1, <2>2, <2>4 DEF HudInv
<1>9. CASE PopEvent(h)
  <2> DEFINE e == Head(h.queue)
             w == Shown(picture, e)
             r == Tail(h.queue)
             k == [h EXCEPT !.queue = Tail(@)]
  <2>1. /\ h.queue # <<>> /\ picture' = w /\ hud' = k /\ UNCHANGED poll
        /\ announced' = IF e.type = "group"
                        THEN [announced EXCEPT ![e.group] = @ + 1] ELSE announced
    BY <1>9 DEF PopEvent
  <2>2. AfterPop(picture, h.queue, e, w, r)
    BY <1>1, <1>6, <2>1, PopWord DEF HudTyped
  <2>3. k = [h EXCEPT !.queue = r]
    BY <1>6 DEF HudType
  <2> HIDE DEF e, w, r, k
  <2>4. /\ k \in HudType /\ k.queue = r /\ k.session = h.session /\ k.lost = h.lost
        /\ k.speakers = h.speakers
    BY <1>6, <2>2, <2>3 DEF HudType, AfterPop
  <2>5. e.type # "group" => h.session \in Sessions
    <3> HAVE e.type # "group"
    <3>1. /\ 1 \in DOMAIN h.queue /\ e = h.queue[1]
      BY <1>6, <2>1, HeadTailProperties, LenProperties, EmptySeq DEF e
    <3>2. e.session = h.session
      BY <1>6, <3>1 DEF Following, QueueSound
    <3>3. e.session \in Sessions
      BY <2>2, EventsAre DEF Events, AfterPop
    <3> QED BY <3>2, <3>3
  <2>6. Following(w, k)
    <3>1. CASE h.session \in Sessions
      <4>1. QueueSound(picture, h.queue, h.session)
        BY <1>6 DEF Following
      <4>2. /\ QueueSound(w, r, h.session)
            /\ \A p \in Profiles :
                 /\ WillKnow(picture, h.queue, h.session, p) => WillKnow(w, r, h.session, p)
                 /\ WillSpeak(w, r, h.session, p) <=> WillSpeak(picture, h.queue, h.session, p)
            /\ \A x \in Sessions \ {h.session}, p \in Profiles : w[x][p] = picture[x][p]
        BY <2>2, <3>1, <4>1 DEF AfterPop
      <4>3. LeftBehind(w, k)
        BY <1>6, <2>4, <4>2 DEF Following, LeftBehind
      <4>4. \A p : Heard(k, p) <=> Heard(h, p)
        BY <2>4 DEF Heard
      <4>5. Followed(w, k)
        BY <1>6, <2>4, <4>2, <4>4 DEF Following, Followed
      <4>6. \A i \in Seats : h.speakers[i].profile \in Profiles \cup {Nobody}
        BY <1>6, HudIs
      <4>7. SpeakersSound(w, k)
        BY <1>6, <2>4, <4>2, <4>6 DEF Following, SpeakersSound
      <4> QED BY <2>4, <4>2, <4>3, <4>5, <4>7 DEF Following
    <3>2. CASE h.session = Nobody
      <4>1. e.type = "group" /\ w = picture
        BY <2>2, <2>5, <3>2, VoiceAssumption DEF AfterPop
      <4>2. \A i \in DOMAIN r : r[i].type = "group"
        <5> SUFFICES ASSUME NEW i \in DOMAIN r  PROVE r[i].type = "group"
          OBVIOUS
        <5>1. i + 1 \in DOMAIN h.queue /\ r[i] = h.queue[i + 1] /\ h.queue[i + 1] \in Events
          BY <1>6, <2>1, HeadTailProperties, LenProperties, EmptySeq, ElementOfSeq DEF r
        <5>2. r[i].type # "group" => r[i].session = Nobody /\ r[i].session \in Sessions
          BY <1>6, <3>2, <5>1, EventsAre DEF Following, QueueSound, Events
        <5> QED BY <5>2, VoiceAssumption
      <4>3. QueueSound(w, r, k.session)
        BY <4>2 DEF QueueSound
      <4> QED BY <1>6, <2>4, <3>2, <4>1, <4>3
            DEF Following, SpeakersSound, Followed, LeftBehind
    <3> QED BY <1>6, <3>1, <3>2
  <2>7. Single(r) /\ Waiting(r) = Waiting(hud.queue) \ (IF e.type = "group" THEN {e.group} ELSE {})
    BY <1>6, <2>2 DEF AfterPop
  <2>8. announced \in [Groups -> Nat] /\ announced' \in [Groups -> Nat]
        /\ (e.type = "group" => e.group \in Waiting(hud.queue) /\ e.group \in Groups)
    <3>1. e.type = "group" => e.group \in Waiting(hud.queue) /\ e.group \in Groups
      BY <1>6, <2>2 DEF AfterPop, Waiting
    <3>2. announced \in [Groups -> Nat]
      BY <1>1 DEF HudTyped
    <3>3. CASE e.type = "group"
      BY <2>1, <3>1, <3>2, <3>3
    <3>4. CASE e.type # "group"
      BY <2>1, <3>1, <3>2, <3>4
    <3> QED BY <3>3, <3>4
  <2>9. ASSUME NEW g \in Groups  PROVE Outcome(g)' = Outcome(g)
    BY <2>1, <2>4, <2>7, <2>8 DEF Outcome
  <2>10. HudTyped'
    <3>1. w \in PictureType
      BY <2>2 DEF AfterPop
    <3> QED BY <1>1, <1>3, <1>7, <2>1, <2>4, <2>8, <3>1 DEF HudTyped
  <2>11. Announcing'
    BY <1>1, <1>7, <2>1, <2>4, <2>7, <2>9, SameOutcome
  <2> QED BY <2>1, <2>6, <2>10, <2>11 DEF HudInv
<1> QED BY <1>5, <1>8, <1>9

(* An announcement in a queue that was empty says nothing of any player. *)
LEMMA AnnouncementIs ==
  ASSUME HudTyped, Following(picture, hud), hud.queue = <<>>, NEW g \in Groups,
         NEW k, k = QueueEvent(hud, GroupAdded(g))
  PROVE  /\ ~Refuses(hud.queue) /\ k \in HudType /\ Following(picture, k)
         /\ Single(k.queue) /\ Waiting(k.queue) = {g}
<1> DEFINE e == GroupAdded(g)
           r == Append(<<>>, e)
<1>1. e \in Events /\ e.type = "group" /\ ~IsUpdate(e) /\ hud \in HudType
  BY EventsMade DEF Events, HudTyped
<1>2. Len(hud.queue) = 0 /\ 0 < QueueLimit /\ ~(0 >= QueueLimit) /\ ~Refuses(hud.queue)
  BY VoiceAssumption DEF Refuses
<1>3. k = [hud EXCEPT !.queue = r, !.lost = @ \ Subject(e)]
  BY <1>2, <1>1 DEF QueueEvent, HudType
<1>4. Subject(e) = {}
  BY <1>1 DEF Subject
<1> HIDE DEF e
<1>5. r \in Seq(Events) /\ DOMAIN r = {1} /\ r[1] = e
  <2>1. r \in Seq(Events) /\ Len(r) = 1 /\ r[1] = e
    BY <1>1, AppendProperties
  <2> QED BY <2>1, LenProperties
<1> HIDE DEF r
<1>6. /\ k \in HudType /\ k.queue = r /\ k.lost = hud.lost /\ k.session = hud.session
      /\ k.speakers = hud.speakers
  <2>1. k = [hud EXCEPT !.queue = r]
    BY <1>1, <1>3, <1>4 DEF HudType
  <2>2. r \in Seq(Events)
    BY <1>5
  <2> QED BY <1>1, <2>1, <2>2 DEF HudType
<1>7. /\ \A s, p : ~About(e, s, p)
      /\ \A s \in Sessions, p \in Profiles : e # Speech(s, p) /\ e # Added(s, p)
  BY <1>1, EventsMade DEF About, Speech, Updated, Added
<1>8. \A s \in Sessions, p \in Profiles : WillSpeak(picture, r, s, p) <=> WillSpeak(picture, <<>>, s, p)
  BY <1>5, <1>7 DEF WillSpeak, NothingOn, EndsSpeaking
<1>9. \A s, p : WillKnow(picture, <<>>, s, p) => WillKnow(picture, r, s, p)
  BY DEF WillKnow
<1>10. QueueSound(picture, r, k.session)
  BY <1>1, <1>5 DEF QueueSound
<1>11. SpeakersSound(picture, k)
  BY <1>6, <1>9 DEF Following, SpeakersSound
<1>12. LeftBehind(picture, k)
  BY <1>6 DEF Following, LeftBehind
<1>13. \A p : Heard(k, p) <=> Heard(hud, p)
  BY <1>6 DEF Heard
<1>14. hud.session \in Sessions \cup {Nobody}
  BY <1>1, HudIs
<1>15. Followed(picture, k)
  BY <1>6, <1>8, <1>13, <1>14 DEF Following, Followed
<1>16. Single(r) /\ Waiting(r) = {g}
  <2>1. \A x \in Groups : e = GroupAdded(x) <=> x = g
    BY DEF e, GroupAdded
  <2> QED BY <1>5, <2>1 DEF Single, Waiting
<1> QED BY <1>2, <1>6, <1>10, <1>11, <1>12, <1>15, <1>16 DEF Following

(* vx_get_message finds no message of the SDK. *)
LEMMA NoMessageStep ==
  ASSUME HudInv, NoMessage
  PROVE  HudInv'
<1>1. poll' = "hud" /\ UNCHANGED <<hud, group, suppress, announced, pipe, wire, sidecar, sent, picture>>
  BY DEF NoMessage, SidecarStays
<1>2. HudTyped' /\ Following(picture, hud)'
  BY <1>1 DEF HudInv, HudTyped
<1>3. Announcing'
  BY <1>1, SameOutcome DEF HudInv, Announcing, Outcome
<1> QED BY <1>2, <1>3 DEF HudInv

(* A message of the SDK about a participant may be of another session. *)
LEMMA ParticipantStep ==
  ASSUME HudInv, NEW s \in Sessions, ParticipantMessage(s)
  PROVE  HudInv'
<1>1. /\ poll' = "hud" /\ hud' = CacheSession(hud, s) /\ poll = "sdk"
      /\ UNCHANGED <<group, suppress, announced, pipe, wire, sidecar, sent, picture>>
  BY DEF ParticipantMessage, SidecarStays
<1>2. hud \in HudType /\ hud.queue = <<>> /\ Following(picture, hud)
  BY <1>1 DEF HudInv, HudTyped
<1>3. hud' \in HudType /\ Following(picture, hud') /\ Single(hud'.queue) /\ Waiting(hud'.queue) = {}
  BY <1>1, <1>2, SessionKeeps
<1>4. Waiting(hud.queue) = {}
  BY <1>2 DEF Waiting
<1>5. HudTyped' /\ Following(picture, hud)'
  BY <1>1, <1>3 DEF HudInv, HudTyped
<1>6. \A g \in Groups : Outcome(g)' = Outcome(g)
  BY <1>1, <1>3, <1>4 DEF Outcome
<1>7. Announcing'
  BY <1>1, <1>3, <1>6, SameOutcome DEF HudInv
<1> QED BY <1>5, <1>7 DEF HudInv

(* What is known when the SDK has its turn *)
LEMMA SdkTurn ==
  ASSUME HudInv, poll = "sdk"
  PROVE  /\ hud.queue = <<>> /\ Waiting(hud.queue) = {}
         /\ group \in [Groups -> {"none", "asked", "answered", "accepted", "real"}]
         /\ suppress \in Groups \cup {Nobody} /\ announced \in [Groups -> Nat]
         /\ \A g \in Groups : Outcome(g) = announced[g] /\ announced[g] \in Nat
<1>1. /\ hud.queue = <<>> /\ announced \in [Groups -> Nat]
      /\ group \in [Groups -> {"none", "asked", "answered", "accepted", "real"}]
      /\ suppress \in Groups \cup {Nobody}
  BY DEF HudInv, HudTyped
<1>2. Waiting(hud.queue) = {}
  BY <1>1 DEF Waiting
<1> QED BY <1>1, <1>2 DEF Outcome

(* A group that takes a step never stops being a rival. *)
LEMMA GroupSteps ==
  ASSUME HudInv, NEW g \in Groups, NEW t \in {"none", "asked", "answered", "accepted", "real"},
         group' = [group EXCEPT ![g] = t],
         group[g] \in {"answered", "real"} => t \in {"answered", "real"}
  PROVE  /\ group' \in [Groups -> {"none", "asked", "answered", "accepted", "real"}]
         /\ group'[g] = t /\ \A o \in Groups \ {g} : group'[o] = group[o]
         /\ \A o \in Groups : Rival(o) => Rival(o)'
         /\ t = "answered" => \A o \in Groups \ {g} : Rival(o)'
<1>1. /\ group' \in [Groups -> {"none", "asked", "answered", "accepted", "real"}]
      /\ group'[g] = t /\ \A o \in Groups \ {g} : group'[o] = group[o]
  BY DEF HudInv, HudTyped
<1> QED BY <1>1 DEF Rival

(* The SDK creates the group itself. *)
LEMMA GroupAcceptedStep ==
  ASSUME HudInv, NEW g \in Groups, GroupAccepted(g)
  PROVE  HudInv'
<1>1. /\ poll' = "hud" /\ poll = "sdk" /\ group[g] = "asked"
      /\ group' = [group EXCEPT ![g] = "accepted"]
      /\ UNCHANGED <<hud, suppress, announced, pipe, wire, sidecar, sent, picture>>
  BY DEF GroupAccepted, SidecarStays
<1>2. /\ group' \in [Groups -> {"none", "asked", "answered", "accepted", "real"}]
      /\ group'[g] = "accepted" /\ \A o \in Groups \ {g} : group'[o] = group[o]
      /\ \A o \in Groups : Rival(o) => Rival(o)'
  BY <1>1, GroupSteps
<1>3. HudTyped' /\ Following(picture, hud)'
  BY <1>1, <1>2 DEF HudInv, HudTyped
<1>4. \A o \in Groups : Outcome(o)' = Outcome(o)
  BY <1>1 DEF Outcome
<1>5. Announcing'
  BY <1>1, <1>2, <1>4 DEF HudInv, Announcing
<1> QED BY <1>3, <1>5 DEF HudInv

(* The game asks for a group. *)
LEMMA CreateGroupStep ==
  ASSUME HudInv, NEW g \in Groups, CreateGroup(g)
  PROVE  HudInv'
<1>1. /\ group[g] = "none" /\ group' = [group EXCEPT ![g] = "asked"]
      /\ UNCHANGED <<hud, suppress, announced, pipe, wire, sidecar, sent, picture, poll>>
  BY DEF CreateGroup
<1>2. /\ group' \in [Groups -> {"none", "asked", "answered", "accepted", "real"}]
      /\ group'[g] = "asked" /\ \A o \in Groups \ {g} : group'[o] = group[o]
      /\ \A o \in Groups : Rival(o) => Rival(o)'
  BY <1>1, GroupSteps
<1>3. HudTyped' /\ Following(picture, hud)'
  BY <1>1, <1>2 DEF HudInv, HudTyped
<1>4. \A o \in Groups : Outcome(o)' = Outcome(o)
  BY <1>1 DEF Outcome
<1>5. Announcing'
  BY <1>1, <1>2, <1>4 DEF HudInv, Announcing
<1> QED BY <1>3, <1>5 DEF HudInv

(* The proxy answers: its announcement is the one that counts, or the SDK's will be. *)
LEMMA GroupRejectedStep ==
  ASSUME HudInv, NEW g \in Groups, GroupRejected(g)
  PROVE  HudInv'
<1>1. /\ poll' = "hud" /\ poll = "sdk" /\ group[g] = "asked"
      /\ group' = [group EXCEPT ![g] = "answered"]
      /\ UNCHANGED <<announced, pipe, wire, sidecar, sent, picture>>
      /\ \/ hud' = QueueEvent(hud, GroupAdded(g)) /\ suppress' = g
         \/ UNCHANGED <<hud, suppress>>
  BY DEF GroupRejected, SidecarStays
<1>2. /\ group' \in [Groups -> {"none", "asked", "answered", "accepted", "real"}]
      /\ group'[g] = "answered" /\ \A o \in Groups \ {g} : group'[o] = group[o]
      /\ \A o \in Groups : Rival(o) => Rival(o)'
      /\ \A o \in Groups \ {g} : Rival(o)'
  BY <1>1, GroupSteps
<1>3. /\ hud.queue = <<>> /\ Waiting(hud.queue) = {} /\ announced \in [Groups -> Nat]
      /\ \A o \in Groups : Outcome(o) = announced[o] /\ announced[o] \in Nat
  BY <1>1, SdkTurn
<1>4. HudTyped /\ Following(picture, hud) /\ Announcing
  BY DEF HudInv
<1>5. Outcome(g) = 0
  BY <1>1, <1>4 DEF Announcing
<1>6. CASE hud' = QueueEvent(hud, GroupAdded(g)) /\ suppress' = g
  <2>1. /\ hud' \in HudType /\ Following(picture, hud')
        /\ Single(hud'.queue) /\ Waiting(hud'.queue) = {g}
    BY <1>3, <1>4, <1>6, AnnouncementIs
  <2>2. HudTyped' /\ Following(picture, hud)'
    BY <1>1, <1>2, <1>4, <1>6, <2>1 DEF HudTyped
  <2>3. Outcome(g)' = 1 /\ \A o \in Groups \ {g} : Outcome(o)' = Outcome(o)
    <3>1. announced' = announced /\ announced[g] = 0 /\ Waiting(hud'.queue) = {g}
      BY <1>1, <1>3, <1>5, <2>1
    <3>2. Outcome(g)' = 1
      BY <3>1 DEF Outcome
    <3>3. ASSUME NEW o \in Groups \ {g}  PROVE Outcome(o)' = Outcome(o)
      <4>1. o \notin Waiting(hud'.queue) /\ o \notin Waiting(hud.queue)
        BY <1>3, <3>1
      <4> QED BY <3>1, <4>1 DEF Outcome
    <3> QED BY <3>2, <3>3
  <2>4. Announcing'
    BY <1>2, <1>4, <1>6, <2>1, <2>3 DEF Announcing
  <2> QED BY <2>2, <2>4 DEF HudInv
<1>7. CASE UNCHANGED <<hud, suppress>>
  <2>1. HudTyped' /\ Following(picture, hud)'
    BY <1>1, <1>2, <1>4, <1>7 DEF HudTyped
  <2>2. \A o \in Groups : Outcome(o)' = Outcome(o)
    BY <1>1, <1>7 DEF Outcome
  <2>3. suppress # g
    BY <1>1, <1>4 DEF Announcing
  <2>4. Announcing'
    BY <1>2, <1>4, <1>5, <1>7, <2>2, <2>3 DEF Announcing
  <2> QED BY <2>1, <2>4 DEF HudInv
<1> QED BY <1>1, <1>6, <1>7

(* The SDK announces: the game hears it, unless the proxy's stood for it. *)
LEMMA RealGroupStep ==
  ASSUME HudInv, NEW g \in Groups, RealGroup(g)
  PROVE  HudInv'
<1>1. /\ poll = "sdk" /\ group[g] \in {"answered", "accepted"}
      /\ group' = [group EXCEPT ![g] = "real"]
      /\ UNCHANGED <<hud, pipe, wire, sidecar, sent, picture>>
      /\ \/ suppress = g /\ suppress' = Nobody /\ UNCHANGED <<poll, announced>>
         \/ /\ suppress # g /\ poll' = "hud" /\ UNCHANGED suppress
            /\ announced' = [announced EXCEPT ![g] = @ + 1]
  BY DEF RealGroup, SidecarStays
<1>2. /\ group' \in [Groups -> {"none", "asked", "answered", "accepted", "real"}]
      /\ group'[g] = "real" /\ \A o \in Groups \ {g} : group'[o] = group[o]
      /\ \A o \in Groups : Rival(o) => Rival(o)'
  BY <1>1, GroupSteps
<1>3. /\ hud.queue = <<>> /\ Waiting(hud.queue) = {} /\ announced \in [Groups -> Nat]
      /\ suppress \in Groups \cup {Nobody}
      /\ \A o \in Groups : Outcome(o) = announced[o] /\ announced[o] \in Nat
  BY <1>1, SdkTurn
<1>4. HudTyped /\ Following(picture, hud) /\ Announcing
  BY DEF HudInv
<1>5. CASE suppress = g /\ suppress' = Nobody /\ UNCHANGED <<poll, announced>>
  <2>1. HudTyped' /\ Following(picture, hud)'
    BY <1>1, <1>2, <1>4, <1>5 DEF HudTyped
  <2>2. \A o \in Groups : Outcome(o)' = Outcome(o)
    BY <1>1, <1>5 DEF Outcome
  <2>3. Outcome(g) = 1
    BY <1>4, <1>5 DEF Announcing
  <2>4. Nobody \notin Groups
    BY VoiceAssumption
  <2>5. Announcing'
    BY <1>1, <1>2, <1>4, <1>5, <2>2, <2>3, <2>4 DEF Announcing
  <2> QED BY <2>1, <2>5 DEF HudInv
<1>6. CASE /\ suppress # g /\ poll' = "hud" /\ UNCHANGED suppress
           /\ announced' = [announced EXCEPT ![g] = @ + 1]
  <2>1. /\ announced' \in [Groups -> Nat] /\ announced'[g] = announced[g] + 1
        /\ \A o \in Groups \ {g} : announced'[o] = announced[o]
    BY <1>3, <1>6
  <2>2. HudTyped' /\ Following(picture, hud)'
    BY <1>1, <1>2, <1>4, <1>6, <2>1 DEF HudTyped
  <2>3. Outcome(g)' = Outcome(g) + 1 /\ \A o \in Groups \ {g} : Outcome(o)' = Outcome(o)
    BY <1>1, <1>3, <2>1 DEF Outcome
  <2>4. Outcome(g) \in {0, 1} /\ (Outcome(g) = 1 => Rival(g))
    BY <1>1, <1>4, <1>6 DEF Announcing
  <2>5. Announcing'
    BY <1>1, <1>2, <1>4, <1>6, <2>3, <2>4 DEF Announcing
  <2> QED BY <2>2, <2>5 DEF HudInv
<1> QED BY <1>1, <1>5, <1>6

(* The sidecar writes, or ends. *)
LEMMA WriteStep ==
  ASSUME HudInv, NEW f \in FrameType, Write(f),
         sidecar' \in [sequence : Nat, speaking : SUBSET Profiles]
  PROVE  HudInv'
<1>1. /\ wire' = Append(wire, f)
      /\ UNCHANGED <<hud, pipe, poll, picture, group, suppress, announced>>
  BY DEF Write
<1>2. wire' \in Seq(FrameType)
  BY <1>1, AppendProperties DEF HudInv, HudTyped
<1>3. HudTyped' /\ Following(picture, hud)'
  BY <1>1, <1>2 DEF HudInv, HudTyped
<1>4. Announcing'
  BY <1>1, SameOutcome DEF HudInv, Announcing, Outcome
<1> QED BY <1>3, <1>4 DEF HudInv

(* Whatever the sidecar does reaches the proxy through the pipe only. *)
LEMMA SidecarSteps ==
  ASSUME HudInv,
         \/ \E p \in Profiles, active \in BOOLEAN : SendSpeaking(p, active)
         \/ SendReset \/ SendBad \/ SidecarEnds
  PROVE  HudInv'
<1>1. sidecar \in [sequence : Nat, speaking : SUBSET Profiles]
      /\ Silent \in [sequence : Nat, speaking : SUBSET Profiles]
  BY DEF HudInv, HudTyped, Silent
<1>2. ASSUME NEW p \in Profiles, NEW active \in BOOLEAN, SendSpeaking(p, active)  PROVE HudInv'
  <2> DEFINE f == [op |-> "speaking", profile |-> p, active |-> active,
                   sequence |-> sidecar.sequence + 1]
  <2>1. f \in FrameType
    BY <1>1 DEF FrameType
  <2>2. Write(f) /\ sidecar' \in [sequence : Nat, speaking : SUBSET Profiles]
    BY <1>1, <1>2 DEF SendSpeaking
  <2> HIDE DEF f
  <2> QED BY <2>1, <2>2, WriteStep
<1>3. CASE SendReset
  <2>1. [op |-> "reset"] \in FrameType
    BY DEF FrameType
  <2> QED BY <1>1, <1>3, <2>1, WriteStep DEF SendReset
<1>4. CASE SendBad
  <2>1. [op |-> "bad"] \in FrameType
    BY DEF FrameType
  <2> QED BY <1>1, <1>4, <2>1, WriteStep DEF SendBad
<1>5. CASE SidecarEnds
  <2>1. UNCHANGED <<hud, wire, sent, poll, picture, group, suppress, announced>> /\ sidecar' = Silent
    BY <1>5 DEF SidecarEnds
  <2>2. HudTyped' /\ Following(picture, hud)'
    BY <1>1, <2>1 DEF HudInv, HudTyped
  <2>3. Announcing'
    BY <2>1, SameOutcome DEF HudInv, Announcing, Outcome
  <2> QED BY <2>2, <2>3 DEF HudInv
<1> QED BY <1>2, <1>3, <1>4, <1>5

-----------------------------------------------------------------------------
(* HudInv is inductive *)

LEMMA HudStart == HudInit => HudInv
<1> SUFFICES ASSUME HudInit  PROVE HudInv
  OBVIOUS
<1>1. /\ hud.speakers = [i \in Seats |-> NoSpeaker] /\ hud.queue = <<>>
      /\ hud.session = Nobody /\ hud.lost = {} /\ hud.unseated = {}
      /\ picture = [s \in Sessions |-> [p \in Profiles |-> "absent"]]
  BY DEF HudInit
<1>2. NoSpeaker \in SpeakerType
  BY DEF NoSpeaker, SpeakerType
<1>3. HudTyped
  BY <1>2 DEF HudInit, HudTyped, HudType, PictureType, Silent
<1>4. Following(picture, hud)
  BY <1>1 DEF Following, QueueSound, SpeakersSound, NoSpeaker, Followed, LeftBehind
<1>5. Announcing
  <2>1. Single(hud.queue) /\ Waiting(hud.queue) = {}
    BY <1>1 DEF Single, Waiting
  <2>2. group = [g \in Groups |-> "none"] /\ announced = [g \in Groups |-> 0] /\ suppress = Nobody
    BY DEF HudInit
  <2>3. \A g \in Groups : Outcome(g) = 0 /\ group[g] = "none" /\ suppress # g
    BY <2>1, <2>2, VoiceAssumption DEF Outcome
  <2> QED BY <2>1, <2>3 DEF Announcing
<1> QED BY <1>3, <1>4, <1>5 DEF HudInv

(* Every step keeps the invariant. *)
LEMMA HudSteps == HudInv /\ [HudNext]_hudVars => HudInv'
<1> SUFFICES ASSUME HudInv, [HudNext]_hudVars  PROVE HudInv'
  OBVIOUS
<1>1. CASE PollHud
  BY <1>1, PollHudStep
<1>2. CASE PollSdk
  BY <1>2, NoMessageStep, ParticipantStep, GroupAcceptedStep, GroupRejectedStep, RealGroupStep
     DEF PollSdk
<1>3. CASE \/ \E p \in Profiles, active \in BOOLEAN : SendSpeaking(p, active)
           \/ SendReset \/ SendBad \/ SidecarEnds
  BY <1>3, SidecarSteps
<1>4. CASE \E g \in Groups : CreateGroup(g)
  BY <1>4, CreateGroupStep
<1>5. CASE UNCHANGED hudVars
  <2>1. UNCHANGED <<hud, pipe, wire, sidecar, sent, poll, picture, group, suppress, announced>>
    BY <1>5 DEF hudVars
  <2>2. HudTyped' /\ Following(picture, hud)'
    BY <2>1 DEF HudInv, HudTyped
  <2>3. Announcing'
    BY <2>1, SameOutcome DEF HudInv, Announcing, Outcome
  <2> QED BY <2>2, <2>3 DEF HudInv
<1> QED BY <1>1, <1>2, <1>3, <1>4, <1>5 DEF HudNext

(* What holds of the queue, the speakers and the picture at every moment: the
   events lead the game to who speaks, and a group's announcement is one. *)
THEOREM HudInductive == HudSpec => []HudInv
<1>1. HudInit => HudInv
  BY HudStart
<1>2. HudInv /\ [HudNext]_hudVars => HudInv'
  BY HudSteps
<1> QED BY <1>1, <1>2, PTL DEF HudSpec

(* One announcement that waits is counted once. *)
LEMMA QueuedIs ==
  ASSUME NEW q \in Seq(Events), Single(q), NEW g \in Groups
  PROVE  Cardinality({i \in DOMAIN q : q[i] = GroupAdded(g)}) = IF g \in Waiting(q) THEN 1 ELSE 0
<1> DEFINE I == {i \in DOMAIN q : q[i] = GroupAdded(g)}
<1>1. CASE g \in Waiting(q)
  <2>1. PICK i \in DOMAIN q : q[i] = GroupAdded(g)
    BY <1>1 DEF Waiting
  <2>2. I = {i}
    BY <2>1, EventsMade DEF Single
  <2> QED BY <1>1, <2>2, FS_Singleton
<1>2. CASE g \notin Waiting(q)
  <2>1. I = {}
    BY <1>2 DEF Waiting
  <2> QED BY <1>2, <2>1, FS_EmptySet
<1> QED BY <1>1, <1>2

(* vivoxsdk_x64_proxy.c, compat_queue_sessiongroup_added and
   compat_suppress_real_sessiongroup_added: the client is told of a group at
   least once, and twice only when the proxy answered for another one. *)
THEOREM AnnouncedTheorem == HudSpec => []GroupAnnouncedOnce
<1>1. HudInv => GroupAnnouncedOnce
  <2> SUFFICES ASSUME HudInv, NEW g \in Groups
               PROVE  LET told == announced[g] + QueuedGroup(g)
                      IN /\ group[g] = "real" => told >= 1
                         /\ told > 1 => \E o \in Groups \ {g} : group[o] \in {"answered", "real"}
    BY DEF GroupAnnouncedOnce
  <2>1. QueuedGroup(g) = IF g \in Waiting(hud.queue) THEN 1 ELSE 0
    <3>1. hud.queue \in Seq(Events) /\ Single(hud.queue)
      BY HudIs DEF HudInv, HudTyped, Announcing
    <3> DEFINE q == hud.queue
    <3>2. QueuedGroup(g) = Cardinality({i \in DOMAIN q : q[i] = GroupAdded(g)})
      BY DEF QueuedGroup
    <3> HIDE DEF q
    <3>3. Cardinality({i \in DOMAIN q : q[i] = GroupAdded(g)}) = IF g \in Waiting(q) THEN 1 ELSE 0
      BY <3>1, QueuedIs DEF q
    <3> QED BY <3>2, <3>3 DEF q
  <2>2. announced[g] + QueuedGroup(g) = Outcome(g)
    BY <2>1 DEF Outcome
  <2>3. group[g] \in {"none", "asked", "answered", "accepted", "real"}
    BY DEF HudInv, HudTyped
  <2>4. /\ group[g] \in {"none", "asked", "accepted"} => Outcome(g) = 0
        /\ group[g] = "answered" => Outcome(g) \in {0, 1}
        /\ group[g] = "real" => Outcome(g) \in {1, 2} /\ (Outcome(g) = 2 => Rival(g))
    BY DEF HudInv, Announcing
  <2> QED BY <2>2, <2>3, <2>4 DEF Rival
<1> QED BY <1>1, HudInductive, PTL

(* What the game will show of a player is what the last event says. *)
LEMMA SettledIs ==
  ASSUME HudInv, hud.session # Nobody, NEW p \in Profiles
  PROVE  Settled[hud.session][p] = "speaking" <=> WillSpeak(picture, hud.queue, hud.session, p)
<1> DEFINE N == Len(hud.queue)
           s == hud.session
           q == hud.queue
           E(v, i) == Shown(v, q[i])
           P(g) == g = [i \in 0 .. N |-> IF i = 0 THEN picture ELSE E(g[i - 1], i)]
           G == CHOOSE g : P(g)
           step == [i \in 1 .. N |-> [v \in PictureType |-> E(v, i)]]
<1>1. /\ N \in Nat /\ DOMAIN q = 1 .. N /\ \A i \in 1 .. N : q[i] \in Events
      /\ picture \in PictureType /\ s \in Sessions /\ QueueSound(picture, q, s)
  BY HudIs, LenProperties, ElementOfSeq DEF HudInv, HudTyped, Following
<1>2. Settled = G[N]
  BY DEF Settled
<1> HIDE DEF N, q, s
<1>3. ASSUME NEW v \in PictureType, NEW i \in 1 .. N  PROVE E(v, i) \in PictureType
  BY <1>1, ShownIs DEF Shows
<1> HIDE DEF E
<1>4. step \in [1 .. N -> [PictureType -> PictureType]]
  BY <1>3
<1> HIDE DEF step
<1>5. PICK f \in [0 .. N -> PictureType] : Stepwise(N, picture, step, f)
  BY <1>1, <1>4, StepByStep
<1>6. f = [i \in 0 .. N |-> IF i = 0 THEN picture ELSE E(f[i - 1], i)]
  <2>1. ASSUME NEW i \in 0 .. N, i # 0  PROVE step[i][f[i - 1]] = E(f[i - 1], i)
    <3>1. i \in 1 .. N /\ i - 1 \in 0 .. N
      BY <1>1, <2>1
    <3>2. f[i - 1] \in PictureType
      BY <3>1
    <3> QED BY <3>1, <3>2 DEF step
  <2> QED BY <1>5, <2>1 DEF Stepwise
<1>7. P(G)
  <2>1. P(f)
    BY <1>6
  <2> QED BY <2>1
<1>8. G[0] = picture /\ \A i \in 1 .. N : G[i] = E(G[i - 1], i)
  <2> HIDE DEF G
  <2>1. G = [i \in 0 .. N |-> IF i = 0 THEN picture ELSE E(G[i - 1], i)]
    BY <1>7
  <2> HIDE DEF P
  <2> QED BY <1>1, <2>1
<1> HIDE DEF G, P
(* after i events, of the player *)
<1> DEFINE Ends(i) == \/ /\ \E j \in 1 .. i : q[j] = Speech(s, p)
                                             /\ \A l \in 1 .. i : l > j => ~About(q[l], s, p)
                      \/ /\ \A j \in 1 .. i : ~About(q[j], s, p)
                         /\ picture[s][p] = "speaking"
           Known(i) == \A x \in Profiles :
                         (\E j \in 1 .. i : q[j] = Added(s, x)) \/ picture[s][x] # "absent"
                           => G[i][s][x] # "absent"
           S == {i \in 0 .. N : G[i] \in PictureType /\ Known(i)
                                /\ (G[i][s][p] = "speaking" <=> Ends(i))}
<1>9. 0 \in S
  BY <1>1, <1>8
<1>10. ASSUME NEW i \in 1 .. N, i - 1 \in S  PROVE i \in S
  <2> DEFINE v == G[i - 1]
             e == q[i]
             w == G[i]
  <2>1. /\ v \in PictureType /\ Known(i - 1) /\ (v[s][p] = "speaking" <=> Ends(i - 1))
        /\ e \in Events /\ w = Shown(v, e) /\ i - 1 \in Nat /\ i \in Nat
        /\ \A j : j \in 1 .. i <=> j = i \/ j \in 1 .. i - 1
        /\ \A j \in 1 .. i - 1 : j < i
    BY <1>1, <1>8, <1>10 DEF E
  <2> HIDE DEF S
  <2>2. /\ w \in PictureType
        /\ e.type = "group" => w = v
        /\ e.type # "group" =>
             /\ e.session \in Sessions /\ e.profile \in Profiles
             /\ \A x \in Sessions, y \in Profiles : ~About(e, x, y) => w[x][y] = v[x][y]
             /\ e = Added(e.session, e.profile) => w[e.session][e.profile] = "silent"
             /\ IsUpdate(e) /\ v[e.session][e.profile] # "absent" =>
                  w[e.session][e.profile] =
                    IF e = Speech(e.session, e.profile) THEN "speaking" ELSE "silent"
    <3> HIDE DEF v, e, w
    <3>1. Shows(v, e, w)
      BY <2>1, ShownIs
    <3> QED BY <3>1 DEF Shows
  <2>3. e.type # "group" => e.session = s /\ (IsUpdate(e) => v[s][e.profile] # "absent")
    <3> HAVE e.type # "group"
    <3>1. e.session = s /\ e.profile \in Profiles
      BY <1>1, <2>2 DEF QueueSound
    <3>2. IsUpdate(e) => KnownTo(picture, q, i, s, e.profile)
      BY <1>1 DEF QueueSound
    <3>3. IsUpdate(e) => (\E j \in 1 .. i - 1 : q[j] = Added(s, e.profile))
                         \/ picture[s][e.profile] # "absent"
      BY <1>1, <3>2 DEF KnownTo
    <3> QED BY <2>1, <3>1, <3>3
  <2>4. e.type # "group" => IsUpdate(e) \/ e = Added(s, e.profile)
    BY <2>1, <2>3, EventsAre DEF Events
  <2> HIDE DEF v, e, w
  <2>5. \A x \in Profiles : ~About(e, s, x) => w[s][x] = v[s][x]
    BY <1>1, <2>2 DEF About
  <2>6. \A x \in Profiles : About(e, s, x) =>
          /\ w[s][x] # "absent" /\ (w[s][x] = "speaking" <=> e = Speech(s, x))
    <3> SUFFICES ASSUME NEW x \in Profiles, About(e, s, x)
                 PROVE  w[s][x] # "absent" /\ (w[s][x] = "speaking" <=> e = Speech(s, x))
      OBVIOUS
    <3>1. e.type # "group" /\ e.session = s /\ e.profile = x
      BY DEF About
    <3>2. CASE IsUpdate(e)
      BY <2>2, <2>3, <3>1, <3>2
    <3>3. CASE e = Added(s, x)
      <4>1. e # Speech(s, x)
        BY <1>1, <3>3, EventsMade, SpeechIs
      <4> QED BY <2>2, <3>1, <3>3, <4>1
    <3> QED BY <2>4, <3>1, <3>2, <3>3
  <2>7. Known(i)
    <3> SUFFICES ASSUME NEW x \in Profiles,
                        (\E j \in 1 .. i : q[j] = Added(s, x)) \/ picture[s][x] # "absent"
                 PROVE  w[s][x] # "absent"
      BY DEF w
    <3>1. CASE About(e, s, x)
      BY <2>6, <3>1
    <3>2. CASE ~About(e, s, x)
      <4>1. e # Added(s, x)
        BY <1>1, <3>2, EventsMade DEF About
      <4>2. (\E j \in 1 .. i - 1 : q[j] = Added(s, x)) \/ picture[s][x] # "absent"
        BY <2>1, <4>1 DEF e
      <4>3. v[s][x] # "absent"
        BY <2>1, <4>2 DEF v
      <4> QED BY <2>5, <3>2, <4>3
    <3> QED BY <3>1, <3>2
  <2>8. w[s][p] = "speaking" <=> Ends(i)
    <3>1. About(Speech(s, p), s, p)
      BY <1>1, SpeechIs
    <3>2. CASE About(e, s, p)
      <4>1. ~ \A j \in 1 .. i : ~About(q[j], s, p)
        BY <2>1, <3>2 DEF e
      <4>2. (\E j \in 1 .. i : q[j] = Speech(s, p)
                               /\ \A l \in 1 .. i : l > j => ~About(q[l], s, p))
              <=> e = Speech(s, p)
        BY <2>1, <3>2 DEF e
      <4> QED BY <2>6, <3>2, <4>1, <4>2
    <3>3. CASE ~About(e, s, p)
      <4>1. (\A j \in 1 .. i : ~About(q[j], s, p)) <=> \A j \in 1 .. i - 1 : ~About(q[j], s, p)
        BY <2>1, <3>3 DEF e
      <4>2. (\E j \in 1 .. i : q[j] = Speech(s, p)
                               /\ \A l \in 1 .. i : l > j => ~About(q[l], s, p))
              <=> \E j \in 1 .. i - 1 : q[j] = Speech(s, p)
                               /\ \A l \in 1 .. i - 1 : l > j => ~About(q[l], s, p)
        BY <2>1, <3>1, <3>3 DEF e
      <4>3. Ends(i) <=> Ends(i - 1)
        BY <4>1, <4>2
      <4> QED BY <2>1, <2>5, <3>3, <4>3
    <3> QED BY <3>2, <3>3
  <2> QED BY <2>2, <2>7, <2>8 DEF S, w
<1> HIDE DEF S
<1>11. N \in S
  <2>1. \A i \in 0 .. N : i \in S
    BY <1>1, <1>9, <1>10, UpTo
  <2> QED BY <1>1, <2>1
<1>12. G[N][s][p] = "speaking" <=> Ends(N)
  BY <1>11 DEF S
<1>13. Ends(N) <=> WillSpeak(picture, q, s, p)
  BY <1>1 DEF WillSpeak, EndsSpeaking, NothingOn
<1> QED BY <1>2, <1>12, <1>13 DEF q, s

(* hud_emit_speaker_locked, hud_queue_event_locked: the pending events lead the
   game to the speakers the proxy knows, but for those who were lost. *)
THEOREM FollowsTheorem == HudSpec => []HudFollowsSpeakers
<1>1. HudInv => HudFollowsSpeakers
  <2> SUFFICES ASSUME HudInv, hud.session # Nobody, NEW p \in Profiles,
                      <<hud.session, p>> \notin hud.lost
               PROVE  Settled[hud.session][p] = "speaking" <=> Speaks(p)
    BY DEF HudFollowsSpeakers
  <2>1. Settled[hud.session][p] = "speaking" <=> WillSpeak(picture, hud.queue, hud.session, p)
    BY SettledIs
  <2>2. WillSpeak(picture, hud.queue, hud.session, p) <=> Heard(hud, p)
    BY DEF HudInv, Following, Followed
  <2>3. Heard(hud, p) <=> Speaks(p)
    BY DEF Heard, Speaks
  <2> QED BY <2>1, <2>2, <2>3
<1> QED BY <1>1, HudInductive, PTL
=============================================================================
