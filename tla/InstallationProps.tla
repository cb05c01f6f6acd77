-------------------------- MODULE InstallationProps --------------------------
(***************************************************************************)
(* What installing, adopting and launching promise about the client.       *)
(***************************************************************************)
EXTENDS Installation

(* CROUCH_PATCH_ROLLOUT.md:31 and README.md:61: the historical Vivox DLL is
   preserved.  Whatever stops an operation wherever, and whichever file changed
   under it, one of the three names still holds the stock DLL: the next launch
   can repair the client. *)
StockRecoverable == Exists("root") => VivoxStock(client.root)

(* The Steam DLL that was stock stays, over repeated adoptions and stops between
   backup and shim.  It is lost to the shim only where copyOnce takes something
   else for a backup: a copy that was cut short, or a DLL that was not stock. *)
SteamDllKept ==
  [][ Exists("root") /\ SteamStock(client.root)
        => \/ SteamStock(client'.root)
           \/ client.root.steamBackup \in {"torn", "foreign"} ]_vars

(* The settings and the marker on the disk never name two installations, over
   adoptions, stops between marker and settings, and adoptions again: what is
   remembered can be launched (game-launcher.ts, validateMarker). *)
IdentityKept == settings # 0 /\ marker.id # 0 => settings = marker.id

(* vivox-client.ts:196, "install, adoption and every launch repair it before
   H1Z1 starts": a player who keeps launching gets a complete client, whatever
   files changed and whichever operations stopped before. *)
LaunchRepairs ==
  []<><<BeginLaunch>>_vars => []<>VivoxComplete(client.root)
==============================================================================
