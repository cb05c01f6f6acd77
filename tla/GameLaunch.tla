----------------------------- MODULE GameLaunch ------------------------------
(***************************************************************************)
(* One launch of the game (game-launcher.ts launch, main.ts                *)
(* attestInstallation, launch-ticket.ts, session-gateway.ts): ask the      *)
(* server for a challenge, bring the client to the patch mode it directs,  *)
(* measure it, exchange the measurement for a ticket, open a local gateway *)
(* that serves the ticket, write the client's configuration, and spawn.  A *)
(* ticket that aged meanwhile is exchanged once for a new one, with a new  *)
(* challenge.                                                              *)
(*                                                                         *)
(* The server is external: it issues challenges with a mode and accepts or *)
(* refuses requests as it likes.  A challenge is its index in directives,  *)
(* a ticket its number.  What is measured, signed or displayed is left     *)
(* out, and so is the Vivox deployment before the attestation.             *)
(***************************************************************************)
EXTENDS GameplayPatch, Integers, Sequences

CONSTANTS
  MaxChallenges,  \* bound: challenges the server grants
  MaxTickets      \* bound: tickets the server issues

ASSUME BoundAssumption == MaxChallenges \in Nat /\ MaxTickets \in Nat

VARIABLES
  directives,  \* the server: the mode of every challenge it granted
  submitted,   \* the server: the challenges that came back with a request
  issued,      \* the server: how many tickets it issued
  cached,      \* gameplay-patch-state.v1.json: the recorded mode, or "none"
  launch,      \* the launch under way and its locals
  ticket,      \* launchIdentity: the ticket in hand
  gateways,    \* the tickets served by an open gateway
  config,      \* the ticket of the gateway ClientConfig.ini names, or 0
  child,       \* does the launcher know of a running game?
  game,        \* the game process
  troubles     \* history: what the properties have to allow for

serverVars == <<directives, submitted, issued>>
gameVars   == <<config, child, game>>
vars == <<patchVars, serverVars, cached, launch, ticket, gateways, gameVars,
          troubles>>

NoLaunch == [pc |-> "idle", pass |-> 1, fallback |-> "clean",
             challenge |-> 0, mode |-> "clean"]
NoTicket == [number |-> 0, challenge |-> 0, fresh |-> FALSE]
NoGame   == [running |-> FALSE, ticket |-> 0, mapped |-> FALSE]

Init ==
  /\ PatchInit
  /\ directives = <<>> /\ submitted = {} /\ issued = 0
  /\ cached = "none"
  /\ launch = NoLaunch /\ ticket = NoTicket /\ gateways = {}
  /\ config = 0 /\ child = FALSE /\ game = NoGame
  /\ troubles = {}

GoTo(pc) == launch' = [launch EXCEPT !.pc = pc]
Note(t)  == troubles' = troubles \cup t

(* Every way out of launch() but a running game: the gateway is closed *)
EndLaunch ==
  /\ launch' = NoLaunch /\ ticket' = NoTicket
  /\ gateways' = {}

-----------------------------------------------------------------------------
(***************************************************************************)
(* launch(): the checks before the attestation leave nothing behind.       *)
(***************************************************************************)
BeginLaunch ==
  /\ launch.pc = "idle" /\ ~child
  /\ GoTo("attest")
  /\ UNCHANGED <<patchVars, serverVars, cached, ticket, gateways, gameVars,
                 troubles>>

(* attestInstallation: the recorded mode, read before the challenge *)
ReadFallback ==
  /\ launch.pc = "attest"
  /\ launch' = [launch EXCEPT !.pc = "challenge", !.challenge = 0,
                              !.fallback = IF cached = "none" THEN "patched"
                                                              ELSE cached]
  /\ UNCHANGED <<patchVars, serverVars, cached, ticket, gateways, gameVars,
                 troubles>>

ChallengeGranted(mode) ==
  /\ launch.pc = "challenge" /\ Len(directives) < MaxChallenges
  /\ directives' = Append(directives, mode)
  /\ launch' = [launch EXCEPT !.pc = "apply", !.mode = mode,
                              !.challenge = Len(directives')]
  /\ apply' = StartApply(mode)
  /\ UNCHANGED <<dll, marker, submitted, issued, cached, ticket, gateways,
                 gameVars, troubles>>

(* No policy, or no answer: the fallback is applied, "unavailable" or
   "not-applicable" alike *)
FallBack ==
  /\ launch' = [launch EXCEPT !.pc = "fallback", !.mode = launch.fallback,
                              !.challenge = 0]
  /\ apply' = StartApply(launch.fallback)
  /\ UNCHANGED <<dll, marker, serverVars, ticket, gateways, gameVars>>

NoChallenge ==
  /\ launch.pc = "challenge"
  /\ FallBack
  /\ UNCHANGED <<cached, troubles>>

(* The installation's own marker is gone: no challenge, nothing is applied *)
NothingToAttest ==
  /\ launch.pc = "challenge"
  /\ launch' = [launch EXCEPT !.pc = "ticket", !.mode = launch.fallback]
  /\ UNCHANGED <<patchVars, serverVars, cached, ticket, gateways, gameVars,
                 troubles>>

(* Mutant of RecordDecision: nothing is recorded *)
RecordNothing ==
  /\ launch.pc = "apply" /\ apply.pc = "done"
  /\ GoTo("measure") /\ apply' = NoApply
  /\ UNCHANGED <<dll, marker, serverVars, cached, ticket, gateways, gameVars,
                 troubles>>

(* recordGameplayPatchState *)
RecordDecision ==
  /\ launch.pc = "apply" /\ apply.pc = "done"
  /\ cached' = launch.mode
  /\ GoTo("measure") /\ apply' = NoApply
  /\ UNCHANGED <<dll, marker, serverVars, ticket, gateways, gameVars, troubles>>

(* The directed mode could not be applied or recorded, or the manifest or the
   files could not be read: back to the mode read before the challenge *)
AttestationFails ==
  /\ \/ launch.pc = "apply" /\ apply.pc \in {"done", "failed"}
     \/ launch.pc = "measure"
  /\ FallBack
  /\ Note({"failed"})
  /\ UNCHANGED cached

Measured ==
  /\ launch.pc = "measure"
  /\ GoTo("ticket")
  /\ UNCHANGED <<patchVars, serverVars, cached, ticket, gateways, gameVars,
                 troubles>>

(* A fallback that cannot be applied is ignored here *)
FallbackApplied ==
  /\ launch.pc = "fallback" /\ apply.pc \in {"done", "failed"}
  /\ GoTo("ticket") /\ apply' = NoApply
  /\ Note(IF apply.pc = "failed" THEN {"failed"} ELSE {})
  /\ UNCHANGED <<dll, marker, serverVars, cached, ticket, gateways, gameVars>>

-----------------------------------------------------------------------------
(***************************************************************************)
(* createLaunchTicket and startLocalSessionGateway.                        *)
(***************************************************************************)
TicketIssued ==
  /\ launch.pc = "ticket" /\ issued < MaxTickets
  /\ issued' = issued + 1
  /\ submitted' = submitted \cup ({launch.challenge} \ {0})
  /\ ticket' = [number |-> issued', challenge |-> launch.challenge, fresh |-> TRUE]
  /\ GoTo("gateway")
  /\ UNCHANGED <<patchVars, directives, cached, gateways, gameVars, troubles>>

(* The request reached the server, the ticket did not reach the launcher *)
TicketLost ==
  /\ launch.pc = "ticket"
  /\ submitted' = submitted \cup ({launch.challenge} \ {0})
  /\ EndLaunch
  /\ UNCHANGED <<patchVars, directives, issued, cached, gameVars, troubles>>

GatewayStarted ==
  /\ launch.pc = "gateway"
  /\ gateways' = gateways \cup {ticket.number}
  /\ GoTo("prepare")
  /\ UNCHANGED <<patchVars, serverVars, cached, ticket, gameVars, troubles>>

(* Mutant of PatchChecked: the client is not looked at again *)
PatchUnchecked ==
  /\ launch.pc = "prepare"
  /\ GoTo("configure")
  /\ UNCHANGED <<patchVars, serverVars, cached, ticket, gateways, gameVars,
                 troubles>>

(* prepareClient: assertGameplayPatchState, then ClientConfig.ini *)
PatchChecked ==
  /\ launch.pc = "prepare" /\ FilesMatch(launch.mode)
  /\ GoTo("configure")
  /\ UNCHANGED <<patchVars, serverVars, cached, ticket, gateways, gameVars,
                 troubles>>

WriteClientConfig ==
  /\ launch.pc = "configure"
  /\ config' = ticket.number
  /\ GoTo("spawn")
  /\ UNCHANGED <<patchVars, serverVars, cached, ticket, gateways, child, game,
                 troubles>>

TicketAges ==
  /\ ticket.fresh
  /\ ticket' = [ticket EXCEPT !.fresh = FALSE]
  /\ UNCHANGED <<patchVars, serverVars, cached, launch, gateways, gameVars,
                 troubles>>

(* Mutant of RefreshTicket: without a close *)
RefreshKeepsGateway ==
  /\ launch.pc = "spawn" /\ ~ticket.fresh /\ launch.pass = 1
  /\ launch' = [launch EXCEPT !.pc = "attest", !.pass = 2]
  /\ UNCHANGED <<patchVars, serverVars, cached, ticket, gateways, gameVars,
                 troubles>>

(* The preparation outlived the ticket: once more from the attestation *)
RefreshTicket ==
  /\ launch.pc = "spawn" /\ ~ticket.fresh /\ launch.pass = 1
  /\ gateways' = {}
  /\ launch' = [launch EXCEPT !.pc = "attest", !.pass = 2]
  /\ UNCHANGED <<patchVars, serverVars, cached, ticket, gameVars, troubles>>

(* Bound: a second game beside one this launcher does not know is not followed *)
OneGame == ~game.running

(* The freshness check and the spawn are one synchronous step *)
Spawn ==
  /\ launch.pc = "spawn" /\ ticket.fresh /\ OneGame
  /\ game' = [running |-> TRUE, ticket |-> ticket.number, mapped |-> dll # "absent"]
  /\ child' = TRUE
  /\ GoTo("startup")
  /\ UNCHANGED <<patchVars, serverVars, cached, ticket, gateways, config, troubles>>

StartupStable ==
  /\ launch.pc = "startup"
  /\ launch' = NoLaunch /\ ticket' = NoTicket
  /\ UNCHANGED <<patchVars, serverVars, cached, gateways, gameVars, troubles>>

(* launcher_update_required, a refused request, a port, a file, a process that
   cannot be had, a second ticket that aged as well *)
LaunchThrows ==
  /\ launch.pc \in {"challenge", "ticket", "gateway", "prepare", "configure",
                    "spawn"}
  /\ EndLaunch
  /\ UNCHANGED <<patchVars, serverVars, cached, gameVars, troubles>>

-----------------------------------------------------------------------------
(* The game exits: finalize closes the gateway, a start-up that waits fails *)
GameExits ==
  /\ game.running
  /\ game' = NoGame
  /\ IF child
       THEN /\ child' = FALSE /\ gateways' = {}
            /\ launch' = NoLaunch /\ ticket' = NoTicket
       ELSE UNCHANGED <<child, gateways, launch, ticket>>
  /\ UNCHANGED <<patchVars, serverVars, cached, config, troubles>>

(* A game that is started without the launcher *)
GameStartedOutside ==
  /\ ~game.running
  /\ game' = [running |-> TRUE, ticket |-> 0, mapped |-> dll # "absent"]
  /\ UNCHANGED <<patchVars, serverVars, cached, launch, ticket, gateways, config,
                 child, troubles>>

(* The launcher dies and is started again; its game is detached and goes on.
   Bound: once *)
LauncherDies ==
  /\ "crash" \notin troubles
  /\ Note({"crash"})
  /\ apply' = NoApply
  /\ EndLaunch
  /\ child' = FALSE
  /\ UNCHANGED <<dll, marker, serverVars, cached, config, game>>

(* Bound: once *)
Drift ==
  /\ troubles \cap {"drift", "late", "raced"} = {}
  /\ FilesDrift(game.mapped)
  /\ Note(IF InWindow THEN {"raced"}
          ELSE IF launch.pc \in {"configure", "spawn"} THEN {"late"}
          ELSE {"drift"})
  /\ UNCHANGED <<serverVars, cached, launch, ticket, gateways, gameVars>>

PatchGoesOn ==
  /\ Working
  /\ \/ PatchStep(game.mapped) /\ UNCHANGED troubles
     \/ PatchFails /\ UNCHANGED troubles
     \/ \E written \in BOOLEAN :
          /\ WriteMarkerFails(written)
          /\ Note(IF written THEN {"readback"} ELSE {})
  /\ UNCHANGED <<serverVars, cached, launch, ticket, gateways, gameVars>>

LaunchStep ==
  \/ BeginLaunch \/ ReadFallback
  \/ \E mode \in Modes : ChallengeGranted(mode)
  \/ NoChallenge \/ NothingToAttest \/ RecordDecision \/ AttestationFails
  \/ Measured \/ FallbackApplied
  \/ TicketIssued \/ TicketLost \/ GatewayStarted
  \/ PatchChecked \/ WriteClientConfig \/ RefreshTicket
  \/ Spawn \/ StartupStable \/ LaunchThrows

Environment ==
  \/ TicketAges \/ GameExits \/ GameStartedOutside \/ LauncherDies \/ Drift

Next == LaunchStep \/ PatchGoesOn \/ Environment

Spec == Init /\ [][Next]_vars
==============================================================================
