-------------------------- MODULE GameLaunchProofs ---------------------------
(***************************************************************************)
(* Proofs that a launch keeps client, ticket, gateway and configuration    *)
(* together, for any number of challenges and tickets.                     *)
(***************************************************************************)
EXTENDS GameLaunchProps, TLAPS

(* The gateway, the configuration and the game along a launch. *)
Served ==
  /\ child => /\ launch.pc \in {"idle", "startup"} /\ game.running
              /\ gateways = {game.ticket} /\ config = game.ticket
  /\ ~child => launch.pc # "startup"
  /\ ~child /\ launch.pc \in {"prepare", "configure", "spawn"}
       => gateways = {ticket.number}
  /\ ~child /\ launch.pc \notin {"prepare", "configure", "spawn"}
       => gateways = {}
  /\ launch.pc = "spawn" => config = ticket.number
  /\ launch.pc \in {"gateway", "prepare", "configure", "spawn"} => ticket.number # 0

(* The challenge in hand has not been sent, and the mode is its directive. *)
Answered ==
  /\ launch.pc \in {"challenge", "apply", "fallback", "measure", "ticket"}
       => launch.challenge \notin submitted
  /\ launch.pc = "challenge" => launch.challenge = 0
  /\ launch.pc \in {"apply", "fallback", "measure", "ticket", "gateway",
                    "prepare", "configure", "spawn"}
       => launch.mode = IF launch.challenge = 0 THEN launch.fallback
                        ELSE directives[launch.challenge]
  /\ launch.pc \in {"apply", "measure"} => launch.challenge # 0
  /\ launch.pc \in {"gateway", "prepare", "configure", "spawn"}
       => ticket.challenge = launch.challenge

(* Once checked, the client's files only change by a drift. *)
Checked ==
  launch.pc \in {"configure", "spawn"} /\ "late" \notin troubles
    => FilesMatch(launch.mode)

(* Where a deployment or a removal is, and what the files are then. *)
Marked ==
  ~Drifted /\ "readback" \notin troubles =>
    /\ marker = "current" => dll = "active"
    /\ apply.pc \in {"stage", "rename", "verify"} => apply.seen # "active"
    /\ apply.pc \in {"stage", "rename", "verify", "mark"} /\ apply.seen # "active"
         => marker # "current"
    /\ apply.pc = "mark" => dll = "active"
    /\ apply.pc \in {"inspect", "unlink"} => marker = "none"
    /\ apply.pc = "withdraw" => marker # "current"

(* In the window in which the DLL is not looked at again, it is a known one. *)
Known == "raced" \notin troubles /\ InWindow => dll # "foreign"

(* What was inspected is known as well. *)
Seen == apply.seen # "foreign"

(* A deployment or removal works on the mode its launch waits for. *)
Worked ==
  /\ apply.pc # "idle" => apply.mode = launch.mode
  /\ apply.pc \in {"deploy", "stage", "rename", "verify", "mark", "withdraw"}
       => apply.mode = "patched"
  /\ apply.pc \in {"depatch", "inspect", "unlink"} => apply.mode = "clean"

(* Where the last directive is along an untroubled launch. *)
Rested ==
  troubles = {} =>
    /\ apply.pc = "done" => FilesMatch(apply.mode)
    /\ Decision # "none" =>
         /\ launch.pc # "apply" => cached = Decision
         /\ launch.pc \notin {"apply", "fallback"} => FilesMatch(Decision)
         /\ launch.pc \in {"apply", "fallback"} => launch.mode = Decision
         /\ launch.pc = "challenge" => launch.fallback = Decision

Files == Marked /\ Known /\ Seen
IInv  == TypeOK /\ Served /\ Answered /\ Checked /\ Files /\ Worked /\ Rested

-----------------------------------------------------------------------------

USE BoundAssumption

(* The step as one of the actions, with what each family leaves alone. *)
LEMMA StepCases ==
  ASSUME [Next]_vars
  PROVE  \/ LaunchStep \/ PatchGoesOn \/ TicketAges \/ GameExits
         \/ GameStartedOutside \/ LauncherDies \/ Drift \/ UNCHANGED vars
BY DEF Next, Environment

(* A new challenge is the next one, and the old ones keep their modes. *)
LEMMA Granted ==
  ASSUME TypeOK, NEW mode \in Modes, directives' = Append(directives, mode)
  PROVE  /\ directives' \in Seq(Modes)
         /\ Len(directives') = Len(directives) + 1
         /\ Len(directives) \in Nat
         /\ directives'[Len(directives')] = mode
         /\ \A n \in Challenges : directives'[n] = directives[n]
BY DEF TypeOK, Challenges

(* What no launch, no ticket and a started application are. *)
LEMMA Nothing ==
  ASSUME TypeOK
  PROVE  /\ NoLaunch \in Launches /\ NoTicket \in Tickets /\ NoGame \in Games
         /\ NoLaunch.pc = "idle" /\ NoTicket.number = 0
         /\ NoApply \in Applications /\ NoApply.pc = "idle"
         /\ \A mode \in Modes : /\ StartApply(mode) \in Applications
                                /\ StartApply(mode).pc # "idle"
         /\ Len(directives) \in Nat
BY DEF TypeOK, NoLaunch, NoTicket, NoGame, NoApply, StartApply, Launches, Tickets,
   Games, Applications, Challenges, Modes, DllFiles

(* Types are preserved by the steps of the patch. *)
LEMMA PatchTypes ==
  ASSUME TypeOK, PatchGoesOn
  PROVE  TypeOK'
<1>. DEFINE Typed == /\ dll' \in DllFiles /\ marker' \in Markers
                     /\ apply' \in Applications
                     /\ apply.pc # "idle" /\ apply'.pc # "idle"
<1>1. Typed
  <2>. USE DEF TypeOK, Applications, Modes, DllFiles, Markers
  <2>1. CASE PatchStep(game.mapped)
    BY <2>1 DEF PatchStep, InspectForDeploy, RecheckBeforeRename, RenameOver,
       VerifyDeployed, WriteMarker, WithdrawDll, RemoveMarker,
       InspectForRemoval, UnlinkDll, Move
  <2>2. CASE PatchFails
    BY <2>2 DEF PatchFails, Working, Move
  <2>3. CASE \E written \in BOOLEAN : WriteMarkerFails(written)
    BY <2>3 DEF WriteMarkerFails, Move
  <2>. QED
    BY <2>1, <2>2, <2>3 DEF PatchGoesOn
<1>2. troubles' \subseteq troubles \cup {"readback"}
  BY DEF PatchGoesOn, Note
<1>. QED
  BY <1>1, <1>2 DEF PatchGoesOn, serverVars, gameVars, TypeOK, Challenges,
     Launches, Tickets, Games, Troubles

(* Types are preserved by the steps of a launch. *)
LEMMA LaunchTypes ==
  ASSUME TypeOK, Served, LaunchStep
  PROVE  TypeOK'
<1>. USE Nothing DEF TypeOK, serverVars, gameVars, patchVars, GoTo, Note
<1>1. CASE BeginLaunch
  BY <1>1 DEF BeginLaunch, Launches, Tickets, Games, Challenges
<1>2. CASE ReadFallback
  BY <1>2 DEF ReadFallback, Launches, Tickets, Games, Challenges, Modes
<1>3. ASSUME NEW mode \in Modes, ChallengeGranted(mode)
      PROVE  TypeOK'
  <2>1. directives' = Append(directives, mode)
    BY <1>3 DEF ChallengeGranted
  <2>2. /\ directives' \in Seq(Modes)
        /\ Len(directives') = Len(directives) + 1 /\ Len(directives) \in Nat
    BY <2>1, Granted
  <2>3. Challenges \subseteq Challenges' /\ Len(directives') \in Challenges'
    BY <2>2 DEF Challenges
  <2>4. launch' \in Launches' /\ ticket' \in Tickets' /\ launch'.pc = "apply"
    BY <1>3, <2>3 DEF ChallengeGranted, Launches, Tickets
  <2>5. apply' \in Applications /\ apply'.pc # "idle"
    BY <1>3 DEF ChallengeGranted
  <2>6. submitted' \subseteq Challenges'
    BY <1>3, <2>3 DEF ChallengeGranted
  <2>. QED
    BY <1>3, <2>2, <2>4, <2>5, <2>6 DEF ChallengeGranted, Games, Applications
<1>4. ASSUME FallBack, UNCHANGED cached, troubles' \subseteq Troubles
      PROVE  TypeOK'
  <2>1. launch.fallback \in Modes
    BY DEF Launches
  <2>2. launch' \in Launches' /\ launch'.pc = "fallback"
    BY <1>4, <2>1 DEF FallBack, Launches, Challenges
  <2>3. apply' \in Applications /\ apply'.pc # "idle"
    BY <1>4, <2>1 DEF FallBack
  <2>. QED
    BY <1>4, <2>2, <2>3 DEF FallBack, Tickets, Games, Challenges, Applications
<1>5. CASE NoChallenge
  BY <1>4, <1>5 DEF NoChallenge
<1>6. CASE NothingToAttest
  BY <1>6 DEF NothingToAttest, Launches, Tickets, Games, Challenges
<1>7. CASE RecordDecision
  BY <1>7 DEF RecordDecision, Launches, Tickets, Games, Challenges, Applications
<1>8. CASE AttestationFails
  BY <1>4, <1>8 DEF AttestationFails, Troubles
<1>9. CASE Measured
  BY <1>9 DEF Measured, Launches, Tickets, Games, Challenges
<1>10. CASE FallbackApplied
  BY <1>10 DEF FallbackApplied, Launches, Tickets, Games, Challenges, Applications,
     Troubles
<1>11. CASE TicketIssued
  <2>2. /\ issued' \in 0..MaxTickets /\ issued' \in 0..issued'
        /\ 0..issued \subseteq 0..issued' /\ 1..issued \subseteq 1..issued'
    BY <1>11 DEF TicketIssued
  <2>4. launch.challenge \in Challenges' \cup {0}
    BY <1>11 DEF TicketIssued, Launches, Challenges
  <2>5. ticket' \in Tickets'
    BY <1>11, <2>2, <2>4 DEF TicketIssued, Tickets
  <2>6. game' \in Games'
    BY <1>11, <2>2 DEF TicketIssued, Games
  <2>1. ticket' \in Tickets' /\ game' \in Games' /\ launch' \in Launches'
    BY <1>11, <2>5, <2>6 DEF TicketIssued, Launches, Challenges
  <2>3. submitted' \subseteq Challenges
    BY <1>11 DEF TicketIssued, Launches
  <2>. QED
    BY <1>11, <2>1, <2>2, <2>3 DEF TicketIssued, Challenges, Launches
<1>12. ASSUME EndLaunch, UNCHANGED <<dll, marker, apply, directives, issued, cached,
                                    gameVars, troubles>>,
              submitted' \subseteq Challenges, launch.pc \notin {"apply", "fallback"}
       PROVE  TypeOK'
  <2>1. launch' \in Launches' /\ ticket' \in Tickets' /\ game' \in Games'
    BY <1>12 DEF EndLaunch, Launches, Tickets, Games, Challenges
  <2>. QED
    BY <1>12, <2>1 DEF EndLaunch, Challenges, Applications
<1>13. CASE TicketLost
  <2>1. submitted' \subseteq Challenges
    BY <1>13 DEF TicketLost, Launches
  <2>. QED
    BY <1>12, <1>13, <2>1 DEF TicketLost
<1>14. CASE GatewayStarted
  <2>1. ticket.number \in 1..issued
    BY <1>14 DEF GatewayStarted, Served, Tickets
  <2>. QED
    BY <1>14, <2>1 DEF GatewayStarted, Launches, Tickets, Games, Challenges
<1>15. CASE PatchChecked
  BY <1>15 DEF PatchChecked, Launches, Tickets, Games, Challenges
<1>16. CASE WriteClientConfig
  BY <1>16 DEF WriteClientConfig, Launches, Tickets, Games, Challenges
<1>17. CASE RefreshTicket
  BY <1>17 DEF RefreshTicket, Launches, Tickets, Games, Challenges
<1>18. CASE Spawn
  BY <1>18 DEF Spawn, Launches, Tickets, Games, Challenges
<1>19. CASE StartupStable
  BY <1>19 DEF StartupStable, Launches, Tickets, Games, Challenges
<1>20. CASE LaunchThrows
  BY <1>12, <1>20 DEF LaunchThrows
<1>. QED
  BY <1>1, <1>2, <1>3, <1>5, <1>6, <1>7, <1>8, <1>9, <1>10, <1>11, <1>13, <1>14,
     <1>15, <1>16, <1>17, <1>18, <1>19, <1>20 DEF LaunchStep

(* Types are preserved by everything else. *)
LEMMA EnvironmentTypes ==
  ASSUME TypeOK, Served, Environment \/ UNCHANGED vars
  PROVE  TypeOK'
<1>. USE Nothing DEF TypeOK, serverVars, gameVars, patchVars, Note
<1>1. CASE TicketAges
  <2>1. ticket' \in Tickets'
    BY <1>1 DEF TicketAges, Tickets, Challenges
  <2>. QED
    BY <1>1, <2>1 DEF TicketAges, Launches, Games, Challenges, Applications
<1>2. CASE GameExits
  <2>. game' \in Games'
    BY <1>2 DEF GameExits, Games
  <2>1. CASE child
    <3>1. launch'.pc = "idle" /\ launch' \in Launches' /\ ticket' \in Tickets'
      BY <1>2, <2>1 DEF GameExits, Launches, Tickets, Challenges
    <3>2. apply.pc = "idle"
      BY <2>1 DEF Served
    <3>. QED
      BY <1>2, <2>1, <3>1, <3>2 DEF GameExits, Challenges, Applications
  <2>2. CASE ~child
    <3>1. launch' \in Launches' /\ ticket' \in Tickets'
      BY <1>2, <2>2 DEF GameExits, Launches, Tickets, Challenges
    <3>. QED
      BY <1>2, <2>2, <3>1 DEF GameExits, Challenges, Applications
  <2>. QED
    BY <2>1, <2>2
<1>3. CASE GameStartedOutside
  BY <1>3 DEF GameStartedOutside, Launches, Tickets, Games, Challenges
<1>4. CASE LauncherDies
  <2>1. launch' \in Launches' /\ ticket' \in Tickets' /\ game' \in Games'
    BY <1>4 DEF LauncherDies, EndLaunch, Launches, Tickets, Games, Challenges
  <2>2. launch'.pc = "idle" /\ apply'.pc = "idle" /\ apply' \in Applications
    BY <1>4 DEF LauncherDies, EndLaunch
  <2>. QED
    BY <1>4, <2>1, <2>2 DEF LauncherDies, EndLaunch, Challenges, Troubles,
       Applications
<1>5. CASE Drift
  BY <1>5 DEF Drift, FilesDrift, DllFiles, Markers, Launches, Tickets, Games,
     Challenges, Troubles
<1>6. CASE UNCHANGED vars
  BY <1>6 DEF vars, Launches, Tickets, Games, Challenges
<1>. QED
  BY <1>1, <1>2, <1>3, <1>4, <1>5, <1>6 DEF Environment

-----------------------------------------------------------------------------

(* No step of a launch and nothing around it but a drift changes the files. *)
LEMMA FilesAlone ==
  ASSUME TypeOK, LaunchStep \/ (Environment /\ ~Drift) \/ UNCHANGED vars
  PROVE  /\ UNCHANGED <<dll, marker>> /\ troubles \subseteq troubles'
         /\ \/ apply' = apply \/ apply' = NoApply
            \/ \E mode \in Modes : apply' = StartApply(mode)
<1>. USE DEF patchVars
<1>1. CASE BeginLaunch \/ ReadFallback \/ NothingToAttest \/ Measured \/ TicketIssued
           \/ TicketLost \/ GatewayStarted \/ PatchChecked \/ WriteClientConfig
           \/ RefreshTicket \/ Spawn \/ StartupStable \/ LaunchThrows
  BY <1>1 DEF BeginLaunch, ReadFallback, NothingToAttest, Measured, TicketIssued,
     TicketLost, GatewayStarted, PatchChecked, WriteClientConfig, RefreshTicket,
     Spawn, StartupStable, LaunchThrows
<1>2. CASE (\E mode \in Modes : ChallengeGranted(mode)) \/ RecordDecision
           \/ FallbackApplied
  BY <1>2 DEF ChallengeGranted, RecordDecision, FallbackApplied, Note
<1>3. CASE NoChallenge \/ AttestationFails
  BY <1>3 DEF NoChallenge, AttestationFails, FallBack, Note, TypeOK, Launches
<1>4. CASE TicketAges \/ GameExits \/ GameStartedOutside \/ LauncherDies
  BY <1>4 DEF TicketAges, GameExits, GameStartedOutside, LauncherDies, Note
<1>5. CASE UNCHANGED vars
  BY <1>5 DEF vars
<1>. QED
  BY <1>1, <1>2, <1>3, <1>4, <1>5 DEF LaunchStep, Environment

(* The window, the marker and the DLL along a deployment or a removal. *)
LEMMA FilesStep ==
  ASSUME TypeOK, Files, [Next]_vars
  PROVE  Files'
<1>. USE DEF Files
<1>1. CASE LaunchStep \/ (Environment /\ ~Drift) \/ UNCHANGED vars
  <2>1. /\ UNCHANGED <<dll, marker>> /\ troubles \subseteq troubles'
        /\ \/ apply' = apply \/ apply' = NoApply
           \/ \E mode \in Modes : apply' = StartApply(mode)
    BY <1>1, FilesAlone
  <2>2. \/ apply' = apply
        \/ apply'.pc \in {"idle", "deploy", "depatch"} /\ apply'.seen = "absent"
    BY <2>1 DEF NoApply, StartApply
  <2>3. Marked'
    BY <2>1, <2>2 DEF Marked, Drifted
  <2>. QED
    BY <2>1, <2>2, <2>3 DEF Known, Seen, InWindow
<1>2. CASE Drift
  <2>1. /\ Drifted' /\ UNCHANGED apply
        /\ InWindow => "raced" \in troubles'
        /\ ~InWindow => UNCHANGED InWindow
    BY <1>2 DEF Drift, FilesDrift, Note, Drifted, InWindow
  <2>. QED
    BY <2>1 DEF Marked, Known, Seen
<1>3. CASE PatchStep(game.mapped) /\ UNCHANGED troubles
  <2>. USE <1>3 DEF Marked, Known, Seen, Drifted, InWindow, Move, TypeOK, Applications
  <2>1. CASE InspectForDeploy
    BY <2>1 DEF InspectForDeploy, Unknown
  <2>2. CASE RecheckBeforeRename
    BY <2>2 DEF RecheckBeforeRename
  <2>3. CASE RenameOver(game.mapped)
    BY <2>3 DEF RenameOver
  <2>4. CASE VerifyDeployed
    BY <2>4 DEF VerifyDeployed
  <2>5. CASE WriteMarker
    BY <2>5 DEF WriteMarker
  <2>6. CASE WithdrawDll(game.mapped)
    BY <2>6 DEF WithdrawDll
  <2>7. CASE RemoveMarker
    BY <2>7 DEF RemoveMarker
  <2>8. CASE InspectForRemoval
    BY <2>8 DEF InspectForRemoval, Unknown
  <2>9. CASE UnlinkDll(game.mapped)
    BY <2>9 DEF UnlinkDll
  <2>. QED
    BY <2>1, <2>2, <2>3, <2>4, <2>5, <2>6, <2>7, <2>8, <2>9 DEF PatchStep
<1>4. CASE PatchFails /\ UNCHANGED troubles
  BY <1>4 DEF PatchFails, Move, Marked, Known, Seen, Drifted, InWindow, TypeOK,
     Applications
<1>5. ASSUME NEW written \in BOOLEAN, WriteMarkerFails(written),
             Note(IF written THEN {"readback"} ELSE {})
      PROVE  Files'
  BY <1>5 DEF WriteMarkerFails, Move, Note, Marked, Known, Seen, Drifted, InWindow,
     TypeOK, Applications
<1>. QED
  BY <1>1, <1>2, <1>3, <1>4, <1>5 DEF Next, PatchGoesOn, Environment

(* The gateway, the challenge in hand and the checked files along a launch. *)
LEMMA LaunchKeeps ==
  ASSUME TypeOK, Served, Answered, Checked, LaunchStep
  PROVE  Served' /\ Answered' /\ Checked'
<1>. USE DEF patchVars, serverVars, gameVars, GoTo, Note
<1>1. CASE BeginLaunch \/ Measured \/ NothingToAttest
  <2>1. CASE BeginLaunch
    BY <2>1 DEF BeginLaunch, TypeOK, Launches, Served, Answered, Checked
  <2>2. CASE Measured
    BY <2>2 DEF Measured, TypeOK, Launches, Served, Answered, Checked
  <2>3. CASE NothingToAttest
    BY <2>3 DEF NothingToAttest, TypeOK, Launches, Served, Answered, Checked
  <2>. QED
    BY <1>1, <2>1, <2>2, <2>3
<1>2. CASE ReadFallback
  <2>1. 0 \notin submitted
    BY DEF TypeOK, Challenges
  <2>. QED
    BY <1>2, <2>1 DEF ReadFallback, TypeOK, Launches, Served, Answered, Checked
<1>3. ASSUME NEW mode \in Modes, ChallengeGranted(mode)
      PROVE  Served' /\ Answered' /\ Checked'
  <2>1. directives' = Append(directives, mode)
    BY <1>3 DEF ChallengeGranted
  <2>2. /\ Len(directives') \notin submitted /\ Len(directives') # 0
        /\ directives'[Len(directives')] = mode
    BY <2>1, Granted DEF TypeOK, Challenges
  <2>. QED
    BY <1>3, <2>2 DEF ChallengeGranted, TypeOK, Launches, Served, Answered, Checked
<1>4. CASE NoChallenge \/ AttestationFails
  <2>1. 0 \notin submitted
    BY DEF TypeOK, Challenges
  <2>2. FallBack /\ launch.pc \in {"challenge", "apply", "measure"}
    BY <1>4 DEF NoChallenge, AttestationFails
  <2>3. /\ launch'.pc = "fallback" /\ launch'.challenge = 0
        /\ launch'.mode = launch'.fallback
        /\ UNCHANGED <<serverVars, ticket, gateways, gameVars>>
    BY <2>2 DEF FallBack, TypeOK, Launches
  <2>. QED
    BY <2>1, <2>2, <2>3 DEF Served, Answered, Checked
<1>5. CASE RecordDecision \/ FallbackApplied
  BY <1>5 DEF RecordDecision, FallbackApplied, TypeOK, Launches, Served, Answered,
     Checked
<1>6. CASE TicketIssued
  BY <1>6, BoundAssumption DEF TicketIssued, TypeOK, Launches, Tickets, Served,
     Answered, Checked
<1>7. CASE TicketLost \/ LaunchThrows
  BY <1>7 DEF TicketLost, LaunchThrows, EndLaunch, NoLaunch, NoTicket, Served,
     Answered, Checked
<1>8. CASE GatewayStarted \/ PatchChecked
  BY <1>8 DEF GatewayStarted, PatchChecked, TypeOK, Launches, Served, Answered,
     Checked, FilesMatch
<1>9. CASE WriteClientConfig
  BY <1>9 DEF WriteClientConfig, TypeOK, Launches, Served, Answered, Checked,
     FilesMatch
<1>10. CASE RefreshTicket
  BY <1>10 DEF RefreshTicket, TypeOK, Launches, Served, Answered, Checked
<1>11. CASE Spawn
  BY <1>11 DEF Spawn, TypeOK, Launches, Served, Answered, Checked
<1>12. CASE StartupStable
  BY <1>12 DEF StartupStable, NoLaunch, NoTicket, TypeOK, Served, Answered, Checked
<1>. QED
  BY <1>1, <1>2, <1>3, <1>4, <1>5, <1>6, <1>7, <1>8, <1>9, <1>10, <1>11, <1>12
     DEF LaunchStep

(* The same for everything around a launch. *)
LEMMA OthersKeep ==
  ASSUME TypeOK, Served, Answered, Checked,
         PatchGoesOn \/ Environment \/ UNCHANGED vars
  PROVE  Served' /\ Answered' /\ Checked'
<1>. USE DEF patchVars, serverVars, gameVars
<1>1. CASE PatchGoesOn
  <2>1. launch.pc \in {"apply", "fallback"}
    BY <1>1 DEF PatchGoesOn, Working, TypeOK
  <2>. QED
    BY <1>1, <2>1 DEF PatchGoesOn, Served, Answered, Checked
<1>2. CASE TicketAges
  BY <1>2 DEF TicketAges, TypeOK, Tickets, Served, Answered, Checked, FilesMatch
<1>3. CASE GameExits
  BY <1>3 DEF GameExits, NoLaunch, NoTicket, Served, Answered, Checked, FilesMatch
<1>4. CASE GameStartedOutside
  BY <1>4 DEF GameStartedOutside, Served, Answered, Checked, FilesMatch
<1>5. CASE LauncherDies
  BY <1>5 DEF LauncherDies, EndLaunch, NoLaunch, NoTicket, Served, Answered, Checked
<1>6. CASE Drift
  <2>1. launch.pc \in {"configure", "spawn"} => "late" \in troubles'
    BY <1>6 DEF Drift, InWindow, Note, TypeOK
  <2>2. UNCHANGED <<serverVars, launch, ticket, gateways, gameVars>>
    BY <1>6 DEF Drift
  <2>. QED
    BY <2>1, <2>2 DEF Served, Answered, Checked, FilesMatch
<1>7. CASE UNCHANGED vars
  BY <1>7 DEF vars, Served, Answered, Checked, FilesMatch
<1>. QED
  BY <1>1, <1>2, <1>3, <1>4, <1>5, <1>6, <1>7 DEF Environment

(* The last directive along a deployment or a removal. *)
LEMMA PatchRests ==
  ASSUME TypeOK, Files, Worked, Rested, PatchGoesOn
  PROVE  Worked' /\ Rested'
<1>1. /\ launch.pc \in {"apply", "fallback"} /\ apply.pc # "done" /\ apply.pc # "idle"
      /\ UNCHANGED <<serverVars, cached, launch>> /\ troubles \subseteq troubles'
      /\ UNCHANGED Decision
  BY DEF PatchGoesOn, Working, TypeOK, Note, Decision, serverVars
<1>2. /\ apply'.mode = apply.mode
      /\ apply'.pc \in {"stage", "rename", "verify", "mark", "withdraw"}
           => apply.mode = "patched"
      /\ apply'.pc \in {"inspect", "unlink"} => apply.mode = "clean"
      /\ apply'.pc \notin {"idle", "deploy", "depatch"}
      /\ troubles' = {} /\ apply'.pc = "done" => FilesMatch(apply.mode)'
  <2>. USE DEF Files, Marked, Drifted, Worked, FilesMatch, Move, TypeOK, Applications
  <2>1. CASE PatchStep(game.mapped) /\ UNCHANGED troubles
    <3>1. CASE InspectForDeploy \/ RecheckBeforeRename \/ RenameOver(game.mapped)
               \/ VerifyDeployed
      BY <2>1, <3>1 DEF InspectForDeploy, RecheckBeforeRename, RenameOver,
         VerifyDeployed
    <3>2. CASE WriteMarker \/ WithdrawDll(game.mapped)
      BY <2>1, <3>2 DEF WriteMarker, WithdrawDll
    <3>3. CASE RemoveMarker \/ InspectForRemoval \/ UnlinkDll(game.mapped)
      BY <2>1, <3>3 DEF RemoveMarker, InspectForRemoval, UnlinkDll
    <3>. QED
      BY <2>1, <3>1, <3>2, <3>3 DEF PatchStep
  <2>2. CASE PatchFails
    BY <2>2 DEF PatchFails
  <2>3. ASSUME NEW written \in BOOLEAN, WriteMarkerFails(written)
        PROVE  /\ apply'.mode = apply.mode /\ apply.mode = "patched"
               /\ apply'.pc \in {"failed", "withdraw"}
    BY <2>3 DEF WriteMarkerFails
  <2>. QED
    BY <2>1, <2>2, <2>3 DEF PatchGoesOn
<1>3. Worked'
  BY <1>1, <1>2 DEF Worked
<1>. QED
  BY <1>1, <1>2, <1>3 DEF Rested

(* The last directive along a launch. *)
LEMMA LaunchRests ==
  ASSUME TypeOK, Worked, Rested, LaunchStep
  PROVE  Worked' /\ Rested'
<1>. USE DEF patchVars, serverVars, gameVars, GoTo, Note
<1>1. ASSUME NEW mode \in Modes, ChallengeGranted(mode)
      PROVE  Worked' /\ Rested'
  <2>1. directives' = Append(directives, mode)
    BY <1>1 DEF ChallengeGranted
  <2>2. directives' # <<>> /\ Decision' = mode /\ mode # "none"
    BY <2>1, Granted DEF Decision, Modes, TypeOK
  <2>3. /\ launch'.pc = "apply" /\ launch'.mode = mode /\ apply' = StartApply(mode)
    BY <1>1 DEF ChallengeGranted, TypeOK, Launches
  <2>. QED
    BY <2>2, <2>3 DEF Worked, Rested, StartApply, Modes
<1>3. Decision \in Modes \cup {"none"}
  BY DEF Decision, TypeOK
<1>4. ASSUME FallBack, launch.pc \in {"challenge", "apply", "measure"},
             UNCHANGED cached, troubles \subseteq troubles',
             troubles' # {} \/ launch.pc = "challenge"
      PROVE  Worked' /\ Rested'
  <2>1. UNCHANGED <<dll, marker, directives, cached>> /\ UNCHANGED Decision
    BY <1>4 DEF FallBack, Decision
  <2>2. /\ launch'.pc = "fallback" /\ launch'.mode = launch.fallback
        /\ apply' = StartApply(launch.fallback) /\ launch.fallback \in Modes
    BY <1>4 DEF FallBack, TypeOK, Launches
  <2>. QED
    BY <1>4, <2>1, <2>2 DEF Worked, Rested, StartApply, Modes
<1>5. CASE NoChallenge \/ AttestationFails
  BY <1>4, <1>5 DEF NoChallenge, AttestationFails
<1>6. CASE ReadFallback
  <2>. UNCHANGED Decision
    BY <1>6 DEF ReadFallback, Decision
  <2>. QED
    BY <1>3, <1>6 DEF ReadFallback, TypeOK, Launches, Worked, Rested, FilesMatch
<1>7. CASE NothingToAttest \/ Measured \/ BeginLaunch
  <2>. UNCHANGED Decision
    BY <1>7 DEF NothingToAttest, Measured, BeginLaunch, Decision
  <2>. QED
    BY <1>7 DEF NothingToAttest, Measured, BeginLaunch, TypeOK, Launches, Worked,
       Rested, FilesMatch
<1>8. CASE RecordDecision
  <2>. UNCHANGED Decision
    BY <1>8 DEF RecordDecision, Decision
  <2>. QED
    BY <1>3, <1>8 DEF RecordDecision, NoApply, TypeOK, Launches, Worked, Rested,
       FilesMatch
<1>9. CASE FallbackApplied
  <2>. UNCHANGED Decision
    BY <1>9 DEF FallbackApplied, Decision
  <2>. QED
    BY <1>3, <1>9 DEF FallbackApplied, NoApply, TypeOK, Launches, Worked, Rested,
       FilesMatch
<1>10. CASE \/ TicketIssued \/ TicketLost \/ GatewayStarted \/ PatchChecked
            \/ WriteClientConfig \/ RefreshTicket \/ Spawn \/ StartupStable
            \/ LaunchThrows
  <2>. DEFINE Aside ==
         /\ UNCHANGED <<dll, marker, apply, directives, cached, troubles>>
         /\ launch.pc \notin {"apply", "fallback"}
         /\ launch'.pc \notin {"apply", "fallback", "challenge"}
  <2>1. Aside
    <3>1. CASE TicketIssued \/ GatewayStarted \/ PatchChecked
      BY <3>1 DEF TicketIssued, GatewayStarted, PatchChecked, TypeOK, Launches
    <3>2. CASE WriteClientConfig \/ RefreshTicket \/ Spawn
      BY <3>2 DEF WriteClientConfig, RefreshTicket, Spawn, TypeOK, Launches
    <3>3. CASE TicketLost \/ StartupStable \/ LaunchThrows
      BY <3>3 DEF TicketLost, StartupStable, LaunchThrows, EndLaunch, NoLaunch
    <3>. QED
      BY <1>10, <3>1, <3>2, <3>3
  <2>2. UNCHANGED Decision /\ apply.pc = "idle"
    BY <2>1 DEF Decision, TypeOK
  <2>. QED
    BY <2>1, <2>2 DEF Worked, Rested, FilesMatch
<1>. QED
  BY <1>1, <1>5, <1>6, <1>7, <1>8, <1>9, <1>10 DEF LaunchStep

(* The last directive and everything around a launch. *)
LEMMA OthersRest ==
  ASSUME TypeOK, Served, Worked, Rested, Environment \/ UNCHANGED vars
  PROVE  Worked' /\ Rested'
<1>. USE DEF patchVars, serverVars, gameVars, Note
<1>1. UNCHANGED Decision
  BY DEF Environment, TicketAges, GameExits, GameStartedOutside, LauncherDies, Drift,
     vars, Decision
<1>2. CASE TicketAges \/ GameStartedOutside \/ UNCHANGED vars
  BY <1>1, <1>2 DEF TicketAges, GameStartedOutside, vars, Worked, Rested, FilesMatch
<1>3. CASE GameExits
  <2>1. child => apply.pc = "idle" /\ launch.pc \notin {"apply", "fallback"}
    BY DEF Served, TypeOK
  <2>. QED
    BY <1>1, <1>3, <2>1 DEF GameExits, NoLaunch, Worked, Rested, FilesMatch
<1>4. CASE LauncherDies
  BY <1>4 DEF LauncherDies, NoApply, Worked, Rested
<1>5. CASE Drift
  <2>1. troubles' # {} /\ UNCHANGED <<apply, launch>>
    BY <1>5 DEF Drift, FilesDrift
  <2>. QED
    BY <2>1 DEF Worked, Rested
<1>. QED
  BY <1>2, <1>3, <1>4, <1>5 DEF Environment

-----------------------------------------------------------------------------

(* The inductive invariant holds when the launcher starts. *)
LEMMA InitIInv ==
  ASSUME Init
  PROVE  IInv
<1>. USE DEF Init, PatchInit
<1>1. TypeOK
  <2>1. directives \in Seq(Modes) /\ Len(directives) = 0
    OBVIOUS
  <2>2. launch \in Launches /\ ticket \in Tickets /\ game \in Games
    BY <2>1 DEF NoLaunch, NoTicket, NoGame, Launches, Tickets, Games, Challenges, Modes
  <2>3. /\ apply \in Applications /\ apply.pc = "idle" /\ launch.pc = "idle"
        /\ dll \in DllFiles /\ marker \in Markers
    BY DEF NoApply, NoLaunch, Applications, Modes, DllFiles, Markers
  <2>4. issued \in 0..MaxTickets /\ config \in 0..issued
    BY BoundAssumption
  <2>5. /\ gateways \subseteq 1..issued /\ submitted \subseteq Challenges
        /\ troubles \subseteq Troubles
    OBVIOUS
  <2>6. cached \in Modes \cup {"none"} /\ child \in BOOLEAN
    OBVIOUS
  <2>. QED
    BY <2>1, <2>2, <2>3, <2>4, <2>5, <2>6 DEF TypeOK
<1>2. Served /\ Answered /\ Checked
  BY DEF NoLaunch, NoGame, NoTicket, Served, Answered, Checked
<1>3. Files
  BY DEF Files, Marked, Known, Seen, InWindow, NoApply
<1>4. Worked /\ Rested
  BY DEF Worked, Rested, NoApply, Decision
<1>. QED
  BY <1>1, <1>2, <1>3, <1>4 DEF IInv

(* Every step of the launch, the patch and the environment keeps it. *)
LEMMA NextIInv ==
  ASSUME IInv, [Next]_vars
  PROVE  IInv'
<1>. USE DEF IInv
<1>1. LaunchStep \/ PatchGoesOn \/ Environment \/ UNCHANGED vars
  BY DEF Next
<1>2. TypeOK'
  BY <1>1, LaunchTypes, PatchTypes, EnvironmentTypes
<1>3. Served' /\ Answered' /\ Checked'
  BY <1>1, LaunchKeeps, OthersKeep
<1>4. Files'
  BY FilesStep
<1>5. Worked' /\ Rested'
  BY <1>1, LaunchRests, PatchRests, OthersRest
<1>. QED
  BY <1>2, <1>3, <1>4, <1>5

(* The invariant from which every theorem below follows. *)
THEOREM Invariance == Spec => []IInv
<1>1. Init => IInv
  BY InitIInv
<1>2. IInv /\ [Next]_vars => IInv'
  BY NextIInv
<1>. QED
  BY <1>1, <1>2, PTL DEF Spec

-----------------------------------------------------------------------------

(* Every state of a launch has its types, and the patch is worked on exactly
   when the launch waits for it. *)
THEOREM TypeInvariant == Spec => []TypeOK
<1>1. IInv => TypeOK
  BY DEF IInv
<1>. QED
  BY <1>1, Invariance, PTL

(* A game the launcher knows has one gateway, its own, and without a launch or
   a game none is open. *)
THEOREM GatewayTheorem == Spec => []GameHasItsGateway
<1>1. IInv => GameHasItsGateway
  BY DEF IInv, Served, GameHasItsGateway
<1>. QED
  BY <1>1, Invariance, PTL

(* After launches without a failure, a crash or a drift, however many, the
   client and the record are what the server directed last. *)
THEOREM RestsTheorem == Spec => []RestsOnDecision
<1>1. IInv => RestsOnDecision
  BY DEF IInv, Rested, RestsOnDecision
<1>. QED
  BY <1>1, Invariance, PTL

(* Wherever a deployment or a removal stops, a marker stands beside its DLL. *)
THEOREM MarkerTheorem == Spec => []MarkerMeansActive
<1>1. IInv => MarkerMeansActive
  BY DEF IInv, Files, Marked, MarkerMeansActive
<1>. QED
  BY <1>1, Invariance, PTL

(* Every game starts with its client in the mode behind its ticket. *)
THEOREM DirectedTheorem == Spec => GameAsDirected
<1>1. IInv /\ [Next]_vars =>
        [Spawn /\ "late" \notin troubles =>
           FilesMatch(IF ticket.challenge = 0 THEN launch.fallback
                      ELSE directives[ticket.challenge])]_vars
  BY DEF IInv, Answered, Checked, Spawn
<1>. QED
  BY <1>1, Invariance, PTL DEF Spec, GameAsDirected

(* No challenge is sent to the server a second time. *)
THEOREM ChallengeTheorem == Spec => ChallengeUsedOnce
<1>1. IInv /\ [Next]_vars =>
        [TicketIssued \/ TicketLost => launch.challenge \notin submitted]_vars
  BY DEF IInv, Answered, TicketIssued, TicketLost
<1>. QED
  BY <1>1, Invariance, PTL DEF Spec, ChallengeUsedOnce

(* A deployment, a removal and a launch leave an unknown DLL alone. *)
THEOREM ForeignTheorem == Spec => ForeignSurvives
<1>1. IInv /\ [Next]_vars =>
        [dll = "foreign" /\ "raced" \notin troubles /\ ~Drift => dll' = "foreign"]_vars
  <2>1. SUFFICES ASSUME IInv, [Next]_vars, dll = "foreign", "raced" \notin troubles,
                        ~Drift
                 PROVE  dll' = "foreign"
    OBVIOUS
  <2>2. CASE LaunchStep \/ Environment \/ UNCHANGED vars
    BY <2>1, <2>2, FilesAlone DEF IInv
  <2>3. CASE PatchGoesOn
    <3>1. ~InWindow
      BY <2>1 DEF IInv, Files, Known
    <3>2. CASE PatchStep(game.mapped)
      BY <2>1, <3>1, <3>2 DEF PatchStep, InspectForDeploy, RecheckBeforeRename,
         RenameOver, VerifyDeployed, WriteMarker, WithdrawDll, RemoveMarker,
         InspectForRemoval, UnlinkDll, InWindow
    <3>. QED
      BY <2>1, <2>3, <3>2 DEF PatchGoesOn, PatchFails, WriteMarkerFails
  <2>. QED
    BY <2>1, <2>2, <2>3 DEF Next
<1>. QED
  BY <1>1, Invariance, PTL DEF Spec, ForeignSurvives
==============================================================================
