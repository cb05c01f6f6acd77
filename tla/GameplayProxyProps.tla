-------------------------- MODULE GameplayProxyProps -------------------------
(***************************************************************************)
(* What the proxy promises the player and the launcher.                    *)
(***************************************************************************)
EXTENDS GameplayProxy

Taken == \E s \in Sites : site[s] = "foreign"

(* dinput8_proxy.c:543, "the caller can treat a false return as stock bytes
   still in place": an installation that was refused left no half of the pair
   behind, also when the second byte failed, as long as only one thing went
   wrong: one system call, or one site that another tool took. *)
RefusedMeansStock ==
  worker.pc = "refused" =>
    \/ \A s \in Sites : site[s] # "patched"
    \/ faults > 1 \/ (Taken /\ faults > 0)

(* The stance is changed only while the pair it belongs to is in place: the
   worker enables it after the second byte and before there is a watchdog, the
   watchdog disables it before it touches the first.  What another tool wrote
   over a site is not the proxy's to restore. *)
StanceNeedsPair ==
  enabled => \A s \in Sites : site[s] \in {"patched", "foreign"}

(* dinput8_proxy.c:29, "Removing that marker is a complete, local live switch":
   a marker that is gone for good, whoever removed it and whenever, leads to
   stock bytes, no stance, and the rule of the zone as the game made it, also
   while the DLL cannot be deleted.  A failing system call may prevent it. *)
SwitchedOff ==
  /\ \A s \in Sites : site[s] # "patched"
  /\ ~enabled /\ rule = "one"

MarkerIsLiveSwitch ==
  (<>[](~MarkerEnabled) /\ [](faults = 0)) => <>[]SwitchedOff
==============================================================================
