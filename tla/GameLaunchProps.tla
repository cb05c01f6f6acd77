--------------------------- MODULE GameLaunchProps ---------------------------
(***************************************************************************)
(* What a launch promises of the client, the ticket and the gateway.       *)
(***************************************************************************)
EXTENDS GameLaunch

Challenges == 1..Len(directives)

Applications ==
  [pc : {"idle", "deploy", "stage", "rename", "verify", "mark", "withdraw",
         "depatch", "inspect", "unlink", "done", "failed"},
   mode : Modes, seen : DllFiles]
Launches ==
  [pc : {"idle", "attest", "challenge", "apply", "fallback", "measure", "ticket",
         "gateway", "prepare", "configure", "spawn", "startup"},
   pass : {1, 2}, fallback : Modes, challenge : Challenges \cup {0}, mode : Modes]
Tickets ==
  [number : 0..issued, challenge : Challenges \cup {0}, fresh : BOOLEAN]
Games == [running : BOOLEAN, ticket : 0..issued, mapped : BOOLEAN]
Troubles == {"failed", "readback", "crash", "drift", "late", "raced"}

(* Types; the patch is worked on exactly when a launch waits for it, and the
   client's configuration never names a gateway that was not opened. *)
TypeOK ==
  /\ dll \in DllFiles /\ marker \in Markers /\ apply \in Applications
  /\ directives \in Seq(Modes) /\ submitted \subseteq Challenges
  /\ issued \in 0..MaxTickets
  /\ cached \in Modes \cup {"none"}
  /\ launch \in Launches /\ ticket \in Tickets
  /\ (apply.pc # "idle") <=> (launch.pc \in {"apply", "fallback"})
  /\ gateways \subseteq 1..issued /\ config \in 0..issued
  /\ child \in BOOLEAN /\ game \in Games
  /\ troubles \subseteq Troubles

(* game-launcher.ts: preparation rechecks the patch "so a concurrent drift
   cannot ride into the process".  Whatever was refreshed, failed or drifted
   before, a game starts with the client in the mode the server directed with
   the challenge behind its ticket, or in the fallback for a ticket without. *)
GameAsDirected ==
  [][Spawn /\ "late" \notin troubles =>
       FilesMatch(IF ticket.challenge = 0 THEN launch.fallback
                  ELSE directives[ticket.challenge])]_vars

(* A game this launcher knows has one gateway, which serves its ticket and is
   the one its configuration names; without a game or a launch none is open. *)
GameHasItsGateway ==
  /\ child => /\ game.running
              /\ gateways = {game.ticket} /\ config = game.ticket
  /\ ~child => gateways \subseteq {ticket.number}
  /\ launch.pc = "idle" /\ ~child => gateways = {}

(* "the first challenge was consumed by the request above and is not
   replayable": no challenge goes to the server twice, refreshed or retried. *)
ChallengeUsedOnce ==
  [][TicketIssued \/ TicketLost => launch.challenge \notin submitted]_vars

Decision ==
  IF directives = <<>> THEN "none" ELSE directives[Len(directives)]

Drifted == troubles \cap {"drift", "late", "raced"} # {}

(* Between launches the client is what the server last directed, and that is
   what is recorded, whichever launches reached the server; unless the files
   drifted, the launcher died or a step failed after the challenge. *)
RestsOnDecision ==
  launch.pc = "idle" /\ Decision # "none" /\ troubles = {}
    => cached = Decision /\ FilesMatch(Decision)

(* gameplay-patch.ts: the marker comes "after the DLL so an interrupted upgrade
   leaves an inert DLL rather than an old proxy that would ignore its own
   opt-in", and goes before it: this launcher's marker never stands beside
   another DLL or none, wherever a deployment or removal stopped. *)
MarkerMeansActive ==
  marker = "current" /\ ~Drifted /\ "readback" \notin troubles => dll = "active"

(* "arbitrary DLLs must never be overwritten or deleted by an automatic launcher
   migration": an unknown DLL stays until somebody else takes it away, unless
   it came in the window the code names. *)
ForeignSurvives ==
  [][dll = "foreign" /\ "raced" \notin troubles /\ ~Drift => dll' = "foreign"]_vars

(* gameplay-patch.ts: a launcher without attestation shall "reapply the last
   server decision instead of flipping the player's client on its own": while
   the recorded decision is a clean client, the marker is not written (even when
   nobody else touched the files). *)
DecisionStands ==
  [][marker # "current" /\ marker' = "current" /\ ~Drifted => cached # "clean"]_vars
==============================================================================
