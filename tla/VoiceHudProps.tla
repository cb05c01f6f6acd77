---------------------------- MODULE VoiceHudProps ----------------------------
(***************************************************************************)
(* What the game can rely on while it polls vx_get_message.                *)
(***************************************************************************)
EXTENDS VoiceHud

(* What the game will show once it has polled what is queued *)
Settled ==
  LET after[i \in 0 .. Len(hud.queue)] ==
        IF i = 0 THEN picture ELSE Shown(after[i - 1], hud.queue[i])
  IN after[Len(hud.queue)]

Speaks(p) == \E i \in Seats : LET sp == hud.speakers[i]
                              IN sp.profile = p /\ sp.active /\ sp.added

(* The pending events lead the game to exactly the speakers the proxy knows
   as active, whatever was reset, reused, refused or announced anew for the
   session; except where a full queue dropped a speaker's last update, or
   the session was left while the speaker spoke. *)
HudFollowsSpeakers ==
  hud.session # Nobody =>
    \A p \in Profiles : <<hud.session, p>> \notin hud.lost =>
      (Settled[hud.session][p] = "speaking" <=> Speaks(p))

QueuedGroup(g) == Cardinality({i \in DOMAIN hud.queue : hud.queue[i] = GroupAdded(g)})

(* vivoxsdk_x64_proxy.c:1672, the legacy client waits for the announcement of
   the session group it created: it is never left without one, although the
   real announcement may be swallowed, and gets two only when the proxy
   answered for another group in between. *)
GroupAnnouncedOnce ==
  \A g \in Groups :
    LET told == announced[g] + QueuedGroup(g)
    IN /\ group[g] = "real" => told >= 1
       /\ told > 1 => \E o \in Groups \ {g} : group[o] \in {"answered", "real"}

(* The picture in the game keeps returning to what the sidecar says, through
   restarts of the sidecar, broken frames and changes of the session, with
   the same exceptions and those who spoke while every slot was taken. *)
PictureIsRight ==
  hud.session # Nobody =>
    \A p \in Profiles :
      \/ <<hud.session, p>> \in hud.lost \/ p \in hud.unseated
      \/ picture[hud.session][p] = "speaking" <=> p \in sidecar.speaking

PictureSettles == []<>PictureIsRight
==============================================================================
