---------------------------- MODULE SteamShimProps ----------------------------
(***************************************************************************)
(* What the game can rely on.                                              *)
(***************************************************************************)
EXTENDS SteamShim

(* The lobby that the callbacks told the game of is the lobby that its other
   calls show (GetNumLobbyMembers, GetLobbyMemberByIndex, GetLobbyMemberData):
   after every pump, over frames that come inside handlers, a partner replaced
   by another, looks that change, clears and expiry. *)
CallbacksTellLobby ==
  pump = Idle =>
    /\ view.roster = {duo.shown.member} \ {None}
    /\ view.roster # {} => view.look = duo.shown.look

(* MENU_DUO.md:13, "Expiry after 20 seconds or an explicit clear removes the
   member": when the server has nothing new to say, the partner disappears from
   the menu for good, however often old frames come again. *)
PartnerLeaves == <>[](view.roster = {})

(* A handle whose result is to come, and for which an object is registered, is
   answered.  It may wait for ever only if the object gives it up: by
   unregistering, or by registering for another handle, also in its own
   handler, after which RunCallbacks forgets the entry. *)
CallsAnswered ==
  \A cb \in CallResults, call \in 1 .. MaxCalls :
    (call \in pending /\ \E i \in Slots : results[i] = [cb |-> cb, call |-> call])
      ~> (call \notin pending \/ \A i \in Slots : results[i] # [cb |-> cb, call |-> call])
==============================================================================
