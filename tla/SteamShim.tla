------------------------------ MODULE SteamShim ------------------------------
(***************************************************************************)
(* The callbacks of ROTK's steam_api64.dll and the partner that it shows   *)
(* in the lobby of the main menu (src/native/steamshim/steam_api64.c,      *)
(* menu_duo_native.h).                                                     *)
(*                                                                         *)
(* The game calls SteamAPI_RunCallbacks on its thread.  It runs handlers   *)
(* of the game one by one, and a handler may call any function of the DLL. *)
(* What a step of the game does between two handlers, it does idle here or *)
(* inside the handler that runs.  The server's frames reach the DLL as     *)
(* chat of the lobby, late and again.                                      *)
(***************************************************************************)
EXTENDS Naturals, Sequences, FiniteSetsExt

CONSTANTS
  Callbacks,     \* callback objects of the boot ids 304, 331 and 334
  CallResults,   \* objects that wait for the result of a call
  CallbackSlots, \* MAX_REGISTERED_CALLBACKS
  ResultSlots,   \* MAX_REGISTERED_CALLRESULTS
  PendingLimit,  \* MAX_PENDING_CALLRESULTS
  Lifetime,      \* ticks in 20 seconds
  Frames,        \* what the server publishes: partner and look
  None,          \* no object, no partner
  MaxCalls       \* bound: calls that the game makes

ASSUME SteamShimAssumption ==
  /\ {CallbackSlots, ResultSlots, PendingLimit, Lifetime} \subseteq Nat \ {0}
  /\ MaxCalls \in Nat

VARIABLES
  callbacks, \* g_registered_callbacks, as far as they are boot callbacks
  flushed,   \* g_boot_callbacks_dispatched
  results,   \* g_registered_callresults
  pending,   \* the handles in g_pending_callresults
  calls,     \* the last handle given out
  duo,       \* the partner, the update to apply, its sequence and its expiry
  pump,      \* where SteamAPI_RunCallbacks is
  view       \* what the game's callbacks told it of the lobby

shimVars == <<callbacks, flushed, results, pending, calls, duo, pump, view>>

Alone == [member |-> None, look |-> None]

(* A free entry of the tables, and the entries' numbers *)
NoCallback == [cb |-> None, once |-> FALSE]
NoResult   == [cb |-> None, call |-> 0]
BootSlots  == 1 .. CallbackSlots
Slots      == 1 .. ResultSlots

(* pc is the loop of RunCallbacks, slot its index, inside a handler runs *)
Idle == [pc |-> "idle", slot |-> 1, inside |-> FALSE, flush |-> FALSE, left |-> None]

ShimInit ==
  /\ callbacks = [i \in BootSlots |-> NoCallback] /\ flushed = FALSE
  /\ results = [i \in Slots |-> NoResult]
  /\ pending = {} /\ calls = 0
  /\ duo = [shown |-> Alone, next |-> Alone, staged |-> FALSE, sequence |-> 0, left |-> 0]
  /\ pump = Idle
  /\ view = [roster |-> {}, look |-> None]

(* The game's thread is in the game *)
InGame == pump = Idle \/ pump.inside

Duo   == <<duo, view>>
Calls == <<results, pending, calls>>
Boot  == <<callbacks, flushed>>

-----------------------------------------------------------------------------
(***************************************************************************)
(* Registrations and calls of the game.                                    *)
(***************************************************************************)
Registered(cb) == \E i \in BootSlots : callbacks[i].cb = cb

(* The first entry that is this object's or free, in the order of the table *)
FirstFor(table, numbers, cb) == {i \in numbers :
  /\ table[i].cb \in {cb, None}
  /\ \A j \in numbers : j < i => table[j].cb \notin {cb, None}}

(* The eleventh registration of all dispatches the boot callbacks once.  A
   handler does not register in the slot that it has itself left. *)
RegisterCallback(cb) ==
  /\ InGame /\ ~Registered(cb)
  /\ pump.inside => pump.pc # "boot"
  /\ callbacks' = [i \in BootSlots |->
       IF i \in FirstFor(callbacks, BootSlots, cb)
       THEN [cb |-> cb, once |-> FALSE] ELSE callbacks[i]]
  /\ \/ UNCHANGED <<flushed, pump>>
     \/ pump = Idle /\ ~flushed /\ flushed' = TRUE
          /\ pump' = [Idle EXCEPT !.pc = "boot", !.flush = TRUE]
  /\ UNCHANGED <<Calls, Duo>>

UnregisterCallback(cb) ==
  /\ InGame /\ Registered(cb)
  /\ callbacks' = [i \in BootSlots |->
       IF callbacks[i].cb = cb THEN NoCallback ELSE callbacks[i]]
  /\ UNCHANGED <<flushed, Calls, Duo, pump>>

(* queue_callresult: the handle is given out also when the table is full *)
Request ==
  /\ InGame /\ calls < MaxCalls
  /\ calls' = calls + 1
  /\ pending' = IF Cardinality(pending) < PendingLimit
                THEN pending \cup {calls'} ELSE pending
  /\ UNCHANGED <<Boot, results, Duo, pump>>

(* One object at a time waits for a handle *)
RegisterCallResult(cb, call) ==
  /\ InGame /\ call \in 1 .. calls
  /\ \A i \in Slots : results[i].call # call
  /\ results' = [i \in Slots |->
       IF i \in FirstFor(results, Slots, cb)
       THEN [cb |-> cb, call |-> call] ELSE results[i]]
  /\ UNCHANGED <<Boot, pending, calls, Duo, pump>>

Without(cb, call) ==
  [i \in Slots |-> IF results[i] = [cb |-> cb, call |-> call] THEN NoResult ELSE results[i]]

UnregisterCallResult(i) ==
  /\ InGame /\ results[i].cb # None
  /\ results' = Without(results[i].cb, results[i].call)
  /\ UNCHANGED <<Boot, pending, calls, Duo, pump>>

-----------------------------------------------------------------------------
(***************************************************************************)
(* receive_menu_duo_native, which stages an update and calls nobody.       *)
(***************************************************************************)
(* A frame without a partner has nothing else to show either *)
Content(n) == IF Frames[n].member = None THEN Alone ELSE Frames[n]

(* Mutant of Receive: any frame is news *)
ReceiveAgain(n) ==
  /\ InGame /\ n \in 1 .. Len(Frames)
  /\ duo' = [duo EXCEPT !.next = Content(n), !.staged = TRUE, !.sequence = n,
                        !.left = IF Frames[n].member = None THEN 0 ELSE Lifetime + 1]
  /\ UNCHANGED <<Boot, Calls, pump, view>>

(* Frames are lost, late and repeated; one that is not newer is refused *)
Receive(n) ==
  /\ InGame /\ n \in 1 .. Len(Frames)
  /\ duo' = IF n <= duo.sequence THEN duo
            ELSE [duo EXCEPT !.next = Content(n), !.staged = TRUE, !.sequence = n,
                   !.left = IF Frames[n].member = None THEN 0 ELSE Lifetime + 1]
  /\ UNCHANGED <<Boot, Calls, pump, view>>

(* The explicit clear has no sequence *)
ReceiveClear ==
  /\ InGame
  /\ duo' = [duo EXCEPT !.next = Alone, !.staged = TRUE, !.left = 0]
  /\ UNCHANGED <<Boot, Calls, pump, view>>

(* Time passes; with 1 tick left the update has expired *)
Tick ==
  /\ duo.left > 1 /\ duo' = [duo EXCEPT !.left = @ - 1]
  /\ UNCHANGED <<Boot, Calls, pump, view>>

-----------------------------------------------------------------------------
(***************************************************************************)
(* SteamAPI_RunCallbacks.                                                  *)
(***************************************************************************)
At(pc) == pump.pc = pc /\ ~pump.inside

RunCallbacks ==
  /\ pump = Idle /\ pump' = [Idle EXCEPT !.pc = "boot"]
  /\ UNCHANGED <<Boot, Calls, Duo>>

BootDue == {i \in BootSlots :
  i >= pump.slot /\ callbacks[i].cb # None /\ ~callbacks[i].once}

(* dispatch_boot_callbacks_if_needed *)
DispatchBoot ==
  /\ At("boot")
  /\ \/ BootDue # {} /\ pump' = [pump EXCEPT !.slot = Min(BootDue), !.inside = TRUE]
     \/ BootDue = {} /\ pump.flush /\ pump' = Idle
     \/ BootDue = {} /\ ~pump.flush /\ pump' = [Idle EXCEPT !.pc = "results"]
  /\ UNCHANGED <<Boot, Calls, Duo>>

(* The entry is marked after its handler, whoever has it now *)
BootReturns ==
  /\ pump.pc = "boot" /\ pump.inside
  /\ callbacks' = [callbacks EXCEPT ![pump.slot].once = callbacks[pump.slot].cb # None]
  /\ pump' = [pump EXCEPT !.inside = FALSE, !.slot = @ + 1]
  /\ UNCHANGED <<flushed, Calls, Duo>>

Answerable(i) == results[i].cb # None /\ results[i].call \in pending

(* Mutant of ResultsDue: the loop ends at the first free entry *)
ResultsDueUpToAFree == {i \in Slots :
  i >= pump.slot /\ Answerable(i) /\ \A j \in 1 .. i : results[j].cb # None}

ResultsDue == {i \in Slots : i >= pump.slot /\ Answerable(i)}

(* dispatch_registered_callresults_if_needed: the handle goes first *)
DispatchResult ==
  /\ At("results")
  /\ \/ /\ ResultsDue # {}
        /\ pump' = [pump EXCEPT !.slot = Min(ResultsDue), !.inside = TRUE]
        /\ pending' = pending \ {results[Min(ResultsDue)].call}
     \/ /\ ResultsDue = {} /\ pump' = [Idle EXCEPT !.pc = "poll"]
        /\ UNCHANGED pending
  /\ UNCHANGED <<Boot, results, calls, Duo>>

(* The entry is forgotten as it is after its handler *)
ResultReturns ==
  /\ pump.pc = "results" /\ pump.inside
  /\ results' = Without(results[pump.slot].cb, results[pump.slot].call)
  /\ pump' = [pump EXCEPT !.inside = FALSE, !.slot = @ + 1]
  /\ UNCHANGED <<Boot, pending, calls, Duo>>

(* Mutant of FirstNews: a partner who follows another says nothing of it *)
FirstNewsJoin(previous, member) ==
  IF member = None THEN "leave" ELSE IF previous # member THEN "join" ELSE "data"

(* Which of the events 506 (left), 506 (entered) and 505 (data) is first *)
FirstNews(previous, member) ==
  IF previous \notin {None, member} THEN "leave"
  ELSE IF previous # member THEN "join" ELSE "data"

(* poll_menu_duo_native: an update that expired is a clear *)
Poll ==
  /\ At("poll")
  /\ LET expired == duo.left = 1
         staged  == duo.staged \/ expired
         next    == IF expired THEN Alone ELSE duo.next
     IN /\ duo' = [duo EXCEPT !.staged = FALSE, !.next = next,
                     !.left = IF expired THEN 0 ELSE @,
                     !.shown = IF staged THEN next ELSE @]
        /\ pump' = IF ~staged \/ next = duo.shown THEN Idle
                   ELSE [Idle EXCEPT !.pc = FirstNews(duo.shown.member, next.member),
                                     !.left = duo.shown.member]
  /\ UNCHANGED <<Boot, Calls, view>>

(* The events.  The game looks at the member of a data event by
   GetLobbyMemberData, and at what the lobby shows by then. *)
DispatchLeave ==
  /\ At("leave")
  /\ view' = [view EXCEPT !.roster = @ \ {pump.left}]
  /\ pump' = [pump EXCEPT !.inside = TRUE]
  /\ UNCHANGED <<Boot, Calls, duo>>
DispatchJoin ==
  /\ At("join")
  /\ view' = [view EXCEPT !.roster = @ \cup {duo.shown.member}]
  /\ pump' = [pump EXCEPT !.inside = TRUE]
  /\ UNCHANGED <<Boot, Calls, duo>>
DispatchData ==
  /\ At("data")
  /\ view' = [view EXCEPT !.look = duo.shown.look]
  /\ pump' = [pump EXCEPT !.inside = TRUE]
  /\ UNCHANGED <<Boot, Calls, duo>>

MenuReturns ==
  /\ pump.inside
  /\ \/ pump.pc = "leave"
          /\ pump' = IF duo.shown.member = None THEN Idle ELSE [Idle EXCEPT !.pc = "join"]
     \/ pump.pc = "join" /\ pump' = [Idle EXCEPT !.pc = "data"]
     \/ pump.pc = "data" /\ pump' = Idle
  /\ UNCHANGED <<Boot, Calls, Duo>>

PumpStep ==
  \/ DispatchBoot \/ BootReturns \/ DispatchResult \/ ResultReturns
  \/ Poll \/ DispatchLeave \/ DispatchJoin \/ DispatchData \/ MenuReturns

ShimNext ==
  \/ \E cb \in Callbacks : RegisterCallback(cb) \/ UnregisterCallback(cb)
  \/ Request
  \/ \E cb \in CallResults, call \in 1 .. MaxCalls : RegisterCallResult(cb, call)
  \/ \E i \in Slots : UnregisterCallResult(i)
  \/ \E n \in 1 .. Len(Frames) : Receive(n)
  \/ ReceiveClear \/ Tick
  \/ RunCallbacks \/ PumpStep

(* The game pumps in every frame, its handlers return, and time passes *)
ShimFairness == WF_shimVars(RunCallbacks) /\ WF_shimVars(PumpStep) /\ WF_shimVars(Tick)

ShimSpec == ShimInit /\ [][ShimNext]_shimVars /\ ShimFairness
==============================================================================
