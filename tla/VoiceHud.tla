------------------------------- MODULE VoiceHud ------------------------------
(***************************************************************************)
(* The speakers of a match in the voice HUD of the game                    *)
(* (src/native/vivoxproxy/vivoxsdk_x64_proxy.c).  A sidecar writes frames  *)
(* to a pipe; the proxy keeps the speakers they name and turns changes     *)
(* into participant events of the voice session it has seen last.  The     *)
(* game polls vx_get_message: one event of the proxy, or, when there is    *)
(* none, a message of the SDK, some of which the proxy answers, adds to or *)
(* swallows for a client that predates the SDK.                            *)
(*                                                                         *)
(* The game polls from one thread.  Allocations of speaker events succeed. *)
(***************************************************************************)
EXTENDS Naturals, SequencesExt

CONSTANTS
  Profiles,      \* players who may speak
  Sessions,      \* voice sessions (handles)
  Groups,        \* session groups (handles)
  Nobody,        \* no profile, no session, no group
  SpeakerLimit,  \* HUD_SPEAKER_LIMIT
  QueueLimit,    \* HUD_EVENT_QUEUE_LIMIT
  MaxFrames      \* bound: frames the sidecar writes

ASSUME VoiceAssumption ==
  /\ Nobody \notin Profiles \cup Sessions \cup Groups
  /\ SpeakerLimit \in Nat \ {0} /\ QueueLimit \in Nat \ {0}
  /\ MaxFrames \in Nat

VARIABLES
  hud,       \* what g_hud_lock guards: speakers, queue, session
  pipe,      \* the proxy's end: "closed", "open", "broken"
  wire,      \* frames that arrived and are not read
  sidecar,   \* its sequence in this connection, and who speaks
  sent,      \* frames written so far
  poll,      \* vx_get_message: "hud", or "sdk" once the queue was empty
  picture,   \* the game: what it shows of each player, per session
  group,     \* session groups: "none", "asked", "answered" by the proxy,
             \* "accepted" by the SDK, "real" once the SDK announced it
  suppress,  \* the group whose real announcement is swallowed
  announced  \* how often the game was told of a group

hudVars == <<hud, pipe, wire, sidecar, sent, poll, picture, group, suppress, announced>>

Seats == 1 .. SpeakerLimit
NoSpeaker == [profile |-> Nobody, active |-> FALSE, added |-> FALSE, sequence |-> 0]

(* hud.lost: the pairs whose last update the game is not going to get;
   hud.unseated: who spoke while every slot was taken *)
HudInit ==
  /\ hud = [speakers |-> [i \in Seats |-> NoSpeaker], queue |-> <<>>,
            session |-> Nobody, lost |-> {}, unseated |-> {}]
  /\ pipe = "closed" /\ wire = <<>> /\ sent = 0
  /\ sidecar = [sequence |-> 0, speaking |-> {}]
  /\ poll = "hud"
  /\ picture = [s \in Sessions |-> [p \in Profiles |-> "absent"]]
  /\ group = [g \in Groups |-> "none"]
  /\ suppress = Nobody /\ announced = [g \in Groups |-> 0]

-----------------------------------------------------------------------------
(***************************************************************************)
(* The bounded queue: when it is full, the oldest update of any speaker    *)
(* makes room; when it holds no update, the new event is refused.          *)
(***************************************************************************)
IsUpdate(e) == e.type = "updated"
Added(s, p) == [type |-> "added", session |-> s, profile |-> p]
Updated(s, p, active) ==
  [type |-> "updated", session |-> s, profile |-> p, active |-> active]
GroupAdded(g) == [type |-> "group", group |-> g]

(* op of the value of k, which TLC then computes once *)
With(k, op(_)) == CHOOSE r \in {op(x) : x \in {k}} : TRUE

UpdatesOf(q, e) ==
  {i \in DOMAIN q : IsUpdate(q[i]) /\ q[i].session = e.session
                                  /\ q[i].profile = e.profile}
Subject(e) == IF IsUpdate(e) THEN {<<e.session, e.profile>>} ELSE {}

Refuses(q) == Len(q) >= QueueLimit /\ SelectInSeq(q, IsUpdate) = 0

(* Mutant of QueueEvent: a full queue refuses whatever is new *)
QueueEventOrDrop(h, e) ==
  IF Len(h.queue) >= QueueLimit THEN h
  ELSE [h EXCEPT !.queue = Append(@, e), !.lost = @ \ Subject(e)]

QueueEvent(h, e) ==
  LET oldest == SelectInSeq(h.queue, IsUpdate)
      q      == Append(RemoveAt(h.queue, oldest), e)
      gone   == h.queue[oldest]
  IN IF Refuses(h.queue) THEN [h EXCEPT !.lost = @ \cup Subject(e)]
     ELSE IF Len(h.queue) < QueueLimit
     THEN [h EXCEPT !.queue = Append(@, e), !.lost = @ \ Subject(e)]
     ELSE [h EXCEPT !.queue = q,
             !.lost = (@ \ Subject(e)) \cup
                      (IF UpdatesOf(q, gone) = {} THEN Subject(gone) ELSE {})]

-----------------------------------------------------------------------------
(***************************************************************************)
(* Speakers.                                                               *)
(***************************************************************************)
Join(h, i) == [QueueEvent(h, Added(h.session, h.speakers[i].profile))
                 EXCEPT !.speakers[i].added = TRUE]
Tell(h, i, active) == QueueEvent(h, Updated(h.session, h.speakers[i].profile, active))

(* hud_emit_speaker_locked *)
EmitSpeaker(h, i, active) ==
  LET sp    == h.speakers[i]
      joins == active /\ ~sp.added /\ ~Refuses(h.queue)
      told  == IF h.session = Nobody \/ ~(joins \/ sp.added) THEN h
               ELSE With(IF joins THEN Join(h, i) ELSE h,
                         LAMBDA k : Tell(k, i, active))
  IN [told EXCEPT !.speakers[i].active = active]

(* op(k, i) for the slots in turn *)
EachSlot(op(_, _), h) ==
  LET f[i \in 0 .. SpeakerLimit] ==
        IF i = 0 THEN h ELSE With(f[i - 1], LAMBDA k : op(k, i))
  IN f[SpeakerLimit]

(* hud_emit_waiting_speakers_locked *)
EmitWaiting(h) ==
  LET emit(k, i) == IF k.speakers[i].active /\ ~k.speakers[i].added
                    THEN EmitSpeaker(k, i, TRUE) ELSE k
  IN IF h.session = Nobody THEN h ELSE EachSlot(emit, h)

(* Mutant of ResetSpeakers: the sequences of the ended process stay *)
ResetKeepsSequence(h) ==
  LET reset(k, i) == IF k.speakers[i].active THEN EmitSpeaker(k, i, FALSE) ELSE k
  IN [EachSlot(reset, h) EXCEPT !.unseated = {}]

(* hud_reset_speakers_locked: everyone is silent, a new epoch of sequences *)
ResetSpeakers(h) ==
  LET reset(k, i) ==
        [IF k.speakers[i].active THEN EmitSpeaker(k, i, FALSE) ELSE k
           EXCEPT !.speakers[i].sequence = 0]
  IN [EachSlot(reset, h) EXCEPT !.unseated = {}]

(* hud_find_speaker_locked: the slots that may be taken for p, best first *)
Slot(h, p) ==
  LET mine   == {i \in Seats : h.speakers[i].profile = p}
      empty  == {i \in Seats : h.speakers[i].profile = Nobody}
      silent == {i \in Seats : ~h.speakers[i].active}
      least  == {i \in silent : \A j \in silent :
                   h.speakers[i].sequence <= h.speakers[j].sequence}
  IN IF mine # {} THEN mine ELSE IF empty # {} THEN empty ELSE least

(* hud_apply_speaking_frame_locked *)
ApplySpeaking(h, f) ==
  IF Slot(h, f.profile) = {} THEN [h EXCEPT !.unseated = @ \cup {f.profile}]
  ELSE LET i     == Min(Slot(h, f.profile))
           known == h.speakers[i].profile = f.profile
           seat  == [h EXCEPT !.speakers[i] =
                       [IF known THEN @ ELSE [NoSpeaker EXCEPT !.profile = f.profile]
                          EXCEPT !.sequence = f.sequence],
                              !.unseated = @ \ {f.profile}]
       IN IF known /\ h.speakers[i].sequence # 0 /\ f.sequence <= h.speakers[i].sequence
          THEN h
          ELSE With(seat, LAMBDA k : EmitSpeaker(k, i, f.active))

ApplyFrame(h, f) ==
  CASE f.op = "reset"    -> ResetSpeakers(h)
    [] f.op = "speaking" -> ApplySpeaking(h, f)
    [] OTHER             -> h

(* hud_consume_frames_locked, for frames that are all sound *)
ConsumeFrames(h, frames) ==
  LET f[i \in 0 .. Len(frames)] ==
        IF i = 0 THEN h ELSE With(f[i - 1], LAMBDA k : ApplyFrame(k, frames[i]))
  IN f[Len(frames)]

(* hud_cache_session_from_message_locked: a session the proxy has not seen
   last; what it told the game of the old one stays as it is there *)
CacheSession(h, s) ==
  LET left == {<<h.session, h.speakers[i].profile>> : i \in
                 {j \in Seats : h.speakers[j].added /\ h.speakers[j].active}}
  IN IF h.session = s THEN h
     ELSE With([h EXCEPT !.queue = <<>>, !.session = s,
                       !.speakers = [i \in Seats |-> [@[i] EXCEPT !.added = FALSE]],
                       !.lost = @ \cup left],
               EmitWaiting)

-----------------------------------------------------------------------------
(***************************************************************************)
(* vx_get_message, the part under g_hud_lock: the pipe, the speakers who   *)
(* wait to be shown, and one event for the game.                           *)
(***************************************************************************)
Silent == [sequence |-> 0, speaking |-> {}]

Piped(h, p, w, s) == [hud |-> h, pipe |-> p, wire |-> w, sidecar |-> s]

Sound(f) == f.op # "bad"
Bad      == SelectInSeq(wire, LAMBDA f : ~Sound(f))
AllSound == IF Bad = 0 THEN wire ELSE SubSeq(wire, 1, Bad - 1)

(* hud_pump_pipe_locked: no pipe, or one that opens; all that arrived is read
   (four reads hold more frames than the model has); a frame that is none,
   and a read that fails, close the pipe.  What a broken pipe still holds is
   read or not. *)
PumpPipe ==
  CASE pipe = "closed" ->
         {Piped(hud, p, <<>>, sidecar) : p \in {"closed", "open"}}
    [] pipe = "open" /\ Bad = 0 ->
         {Piped(ConsumeFrames(hud, wire), "open", <<>>, sidecar)}
    [] OTHER ->
         {Piped(With(ConsumeFrames(hud, frames), ResetSpeakers), "closed", <<>>, Silent) :
            frames \in {AllSound} \cup (IF pipe = "broken" THEN {<<>>} ELSE {})}

(* What the game makes of an event: it updates participants it was told of *)
Shown(v, e) ==
  CASE e.type = "group" -> v
    [] e.type = "added" -> [v EXCEPT ![e.session][e.profile] = "silent"]
    [] IsUpdate(e) /\ v[e.session][e.profile] = "absent" -> v
    [] OTHER -> [v EXCEPT ![e.session][e.profile] =
                            IF e.active THEN "speaking" ELSE "silent"]

PopEvent(h) ==
  /\ h.queue # <<>>
  /\ LET e == Head(h.queue)
     IN /\ picture' = Shown(picture, e)
        /\ announced' = IF e.type = "group"
                        THEN [announced EXCEPT ![e.group] = @ + 1] ELSE announced
  /\ hud' = [h EXCEPT !.queue = Tail(@)]
  /\ UNCHANGED poll

AskSdk(h) ==
  /\ h.queue = <<>>
  /\ hud' = h /\ poll' = "sdk"
  /\ UNCHANGED <<picture, announced>>

PollHud ==
  /\ poll = "hud"
  /\ \E o \in PumpPipe :
       /\ pipe' = o.pipe /\ wire' = o.wire /\ sidecar' = o.sidecar
       /\ \E h \in {EmitWaiting(o.hud)} : PopEvent(h) \/ AskSdk(h)
  /\ UNCHANGED <<sent, group, suppress>>

-----------------------------------------------------------------------------
(***************************************************************************)
(* The rest of vx_get_message: one message of the SDK.                     *)
(***************************************************************************)
SidecarStays == UNCHANGED <<pipe, wire, sidecar, sent, picture>>

NoMessage ==
  /\ poll = "sdk" /\ poll' = "hud"
  /\ UNCHANGED <<hud, group, suppress, announced>> /\ SidecarStays

(* A participant of session s is added or updated *)
ParticipantMessage(s) ==
  /\ poll = "sdk" /\ poll' = "hud"
  /\ hud' = CacheSession(hud, s)
  /\ UNCHANGED <<group, suppress, announced>> /\ SidecarStays

(* The SDK knows explicit session groups still *)
GroupAccepted(g) ==
  /\ poll = "sdk" /\ poll' = "hud"
  /\ group[g] = "asked" /\ group' = [group EXCEPT ![g] = "accepted"]
  /\ UNCHANGED <<hud, suppress, announced>> /\ SidecarStays

(* Mutant of GroupRejected: suppressed before there is an event *)
GroupRejectedSuppressed(g) ==
  /\ poll = "sdk" /\ poll' = "hud"
  /\ group[g] = "asked" /\ group' = [group EXCEPT ![g] = "answered"]
  /\ suppress' = g
  /\ hud' \in {hud, QueueEvent(hud, GroupAdded(g))}
  /\ UNCHANGED announced /\ SidecarStays

(* compat_sessiongroup_create_response, compat_queue_sessiongroup_added: the
   rejection becomes a success with an announcement of the proxy, if that can
   be built and queued *)
GroupRejected(g) ==
  /\ poll = "sdk" /\ poll' = "hud"
  /\ group[g] = "asked" /\ group' = [group EXCEPT ![g] = "answered"]
  /\ \/ ~Refuses(hud.queue) /\ hud' = QueueEvent(hud, GroupAdded(g)) /\ suppress' = g
     \/ UNCHANGED <<hud, suppress>>
  /\ UNCHANGED announced /\ SidecarStays

(* The SDK's own announcement; a suppressed one is destroyed and the next
   message asked for (compat_suppress_real_sessiongroup_added) *)
RealGroup(g) ==
  /\ poll = "sdk"
  /\ group[g] \in {"answered", "accepted"} /\ group' = [group EXCEPT ![g] = "real"]
  /\ \/ suppress = g /\ suppress' = Nobody /\ UNCHANGED <<poll, announced>>
     \/ suppress # g /\ poll' = "hud"
          /\ announced' = [announced EXCEPT ![g] = @ + 1] /\ UNCHANGED suppress
  /\ UNCHANGED hud /\ SidecarStays

PollSdk ==
  \/ NoMessage
  \/ \E s \in Sessions : ParticipantMessage(s)
  \/ \E g \in Groups : GroupAccepted(g) \/ GroupRejected(g) \/ RealGroup(g)

-----------------------------------------------------------------------------
(***************************************************************************)
(* The sidecar, and the game's requests.                                   *)
(***************************************************************************)
Write(f) ==
  /\ pipe = "open" /\ sent < MaxFrames
  /\ sent' = sent + 1 /\ wire' = Append(wire, f)
  /\ UNCHANGED <<hud, pipe, poll, picture, group, suppress, announced>>

(* It reports changes, in the order in which they happen *)
SendSpeaking(p, active) ==
  /\ active # (p \in sidecar.speaking)
  /\ Write([op |-> "speaking", profile |-> p, active |-> active,
            sequence |-> sidecar.sequence + 1])
  /\ sidecar' = [sequence |-> sidecar.sequence + 1,
                 speaking |-> IF active THEN sidecar.speaking \cup {p}
                                        ELSE sidecar.speaking \ {p}]

SendReset == Write([op |-> "reset"]) /\ sidecar' = Silent

SendBad == Write([op |-> "bad"]) /\ UNCHANGED sidecar

SidecarEnds ==
  /\ pipe = "open" /\ pipe' = "broken" /\ sidecar' = Silent
  /\ UNCHANGED <<hud, wire, sent, poll, picture, group, suppress, announced>>

CreateGroup(g) ==
  /\ group[g] = "none" /\ group' = [group EXCEPT ![g] = "asked"]
  /\ UNCHANGED <<hud, pipe, wire, sidecar, sent, poll, picture, suppress, announced>>

HudNext ==
  \/ PollHud \/ PollSdk
  \/ \E p \in Profiles, active \in BOOLEAN : SendSpeaking(p, active)
  \/ SendReset \/ SendBad \/ SidecarEnds
  \/ \E g \in Groups : CreateGroup(g)

(* The game polls as long as it runs *)
HudSpec == HudInit /\ [][HudNext]_hudVars /\ WF_hudVars(PollHud) /\ WF_hudVars(PollSdk)
==============================================================================
