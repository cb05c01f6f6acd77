----------------------------- MODULE CrouchBlend -----------------------------
(***************************************************************************)
(* The crouch blend of the Vivox proxy (src/native/vivoxproxy): a hook the *)
(* game's animation threads call for every player they draw.  The hook     *)
(* finds the player's blend in a fixed table (crouch_state_cache.h) under  *)
(* one lock, moves the blend on (crouch_transition.h) and returns a pose,  *)
(* or leaves the pose to the game when it cannot.                          *)
(*                                                                         *)
(* A player is an animation network, whose address the game gives to       *)
(* another player later.  Two more addresses read from it tell the         *)
(* players apart; together they are a generation here, and one generation  *)
(* of a network never comes back.                                          *)
(*                                                                         *)
(* The pose is left out: a blend has a target, it may be under way, and it *)
(* is over by its deadline at the latest.                                  *)
(***************************************************************************)
EXTENDS Naturals

CONSTANTS
  Threads,        \* the game's animation threads
  Networks,       \* addresses of animation networks
  NoNetwork,      \* the address in an empty entry
  Capacity,       \* CROUCH_STATE_CAPACITY
  Buckets,        \* entries of the hint table
  Bucket,         \* Bucket[n]: the hint of a network
  StaleAfter,     \* CROUCH_STATE_STALE_SECONDS, in ticks
  MaxBlend,       \* the longest blend, in ticks
  MaxBlendCalls,  \* bound: calls of the hook
  MaxClock,       \* bound: ticks of the clock
  MaxGeneration   \* bound: players a network address is given to

ASSUME TableAssumption ==
  /\ NoNetwork \notin Networks
  /\ Capacity \in Nat \ {0}
  /\ Bucket \in [Networks -> Buckets]
  /\ StaleAfter \in Nat /\ MaxBlend \in Nat \ {0}
  /\ MaxBlendCalls \in Nat /\ MaxClock \in Nat /\ MaxGeneration \in Nat

VARIABLES
  states,     \* g_crouch_states
  hints,      \* g_crouch_state_hints
  blendCalls, \* g_crouch_blend_call_count
  call,       \* the call of every thread
  live,       \* the generation every network has now
  clock       \* QueryPerformanceCounter, read under the lock

crouchVars == <<states, hints, blendCalls, call, live, clock>>

Entries == 1 .. Capacity

EmptyEntry ==
  [network |-> NoNetwork, generation |-> 0, last_seen |-> 0, last_call |-> 0,
   target |-> 0, transitioning |-> FALSE, deadline |-> 0]

NoCall == [pc |-> "idle", network |-> NoNetwork, generation |-> 0, sequence |-> 0]

CrouchInit ==
  /\ states = [i \in Entries |-> EmptyEntry]
  /\ hints = [b \in Buckets |-> 1]
  /\ blendCalls = 0
  /\ call = [t \in Threads |-> NoCall]
  /\ live = [n \in Networks |-> 0]
  /\ clock = 0

-----------------------------------------------------------------------------
(***************************************************************************)
(* Before the lock: take a number, then read the control and the addresses.*)
(***************************************************************************)
EnterHook(t, n) ==
  /\ call[t].pc = "idle"
  /\ blendCalls < MaxBlendCalls
  /\ blendCalls' = blendCalls + 1
  /\ call' = [call EXCEPT ![t] = [pc |-> "entered", network |-> n,
                                  generation |-> 0, sequence |-> blendCalls + 1]]
  /\ UNCHANGED <<states, hints, live, clock>>

ReadControl(t) ==
  /\ call[t].pc = "entered"
  /\ call' = [call EXCEPT ![t].pc = "read",
                          ![t].generation = live[call[t].network]]
  /\ UNCHANGED <<states, hints, blendCalls, live, clock>>

-----------------------------------------------------------------------------
(***************************************************************************)
(* crouch_state_cache_acquire, under the lock.                             *)
(***************************************************************************)
Active(i) == states[i].transitioning /\ states[i].deadline > clock

Stale(i) ==
  clock > states[i].last_seen /\ clock - states[i].last_seen > StaleAfter

Expired(i) == Stale(i) /\ ~Active(i)

(* Mutant of Found: an expired entry is not recognized *)
FoundFresh(n) == {i \in Entries : states[i].network = n /\ ~Expired(i)}

Found(n) == {i \in Entries : states[i].network = n}
Empty    == Found(NoNetwork)

(* Mutant of Reclaimable: the blend of an entry is not looked at *)
ReclaimableWhenStale ==
  {i \in Entries : states[i].network # NoNetwork /\ Stale(i)}

Reclaimable == {i \in Entries : states[i].network # NoNetwork /\ Expired(i)}

Earliest(S) == CHOOSE i \in S : \A j \in S : i <= j

OldestStale ==
  Earliest({i \in Reclaimable :
              \A j \in Reclaimable : states[i].last_seen <= states[j].last_seen})

FreeEntry == IF Empty # {} THEN Earliest(Empty) ELSE OldestStale

(* acquire_hint: the entry the hint names, or the first the scan meets *)
HintOf(n) == hints[Bucket[n]]

EntryOf(n) ==
  IF HintOf(n) \in Found(n) THEN HintOf(n) ELSE Earliest(Found(n))

(* The identity is checked again under the lock *)
Validated(t) ==
  call[t].pc = "read" /\ live[call[t].network] = call[t].generation

InOrder(t, i) == call[t].sequence > states[i].last_call

SameIdentity(t, i) == states[i].generation = call[t].generation

EndHook(t) == call' = [call EXCEPT ![t] = NoCall]

-----------------------------------------------------------------------------
(***************************************************************************)
(* The rest of the hook, still under the lock.  A new entry takes the pose *)
(* asked for; another one first moves its blend on, which may end it, and  *)
(* turns around when the other pose is asked for.                          *)
(***************************************************************************)
FreshEntry(t, desired) ==
  [network |-> call[t].network, generation |-> call[t].generation,
   last_seen |-> clock, last_call |-> call[t].sequence,
   target |-> desired, transitioning |-> FALSE, deadline |-> 0]

(* crouch_transition_evaluate: never over twice at one instant, over at the
   deadline.  The speed depends on the steps the player takes. *)
MayEnd(i)  == states[i].transitioning /\ clock > states[i].last_seen

MustEnd(i) == states[i].transitioning /\ clock >= states[i].deadline

Poses == {0, 1}

(* crouch_transition_start: the way back may be of length 0 if the blend has
   just begun *)
Lengths(blending) == IF blending THEN 0 .. MaxBlend ELSE 1 .. MaxBlend

Evaluated(i, ends) ==
  [states[i] EXCEPT !.transitioning = @ /\ ~ends,
                    !.deadline = IF ends THEN 0 ELSE @]

Turned(e, desired, length) ==
  IF desired = e.target THEN e
  ELSE [e EXCEPT !.target = desired, !.transitioning = length > 0,
                 !.deadline = IF length > 0 THEN clock + length ELSE 0]

Seen(t, e) == [e EXCEPT !.last_seen = clock, !.last_call = call[t].sequence]

-----------------------------------------------------------------------------
Hit(t) ==
  /\ Validated(t)
  /\ LET n == call[t].network  i == EntryOf(n)
     IN /\ Found(n) # {}
        /\ InOrder(t, i) /\ SameIdentity(t, i) /\ ~Expired(i)
        /\ \E ends \in BOOLEAN, desired \in Poses :
             /\ ends => MayEnd(i)
             /\ MustEnd(i) => ends
             /\ \E length \in Lengths(Evaluated(i, ends).transitioning) :
                  states' = [states EXCEPT ![i] =
                               Seen(t, Turned(Evaluated(i, ends), desired, length))]
        /\ hints' = [hints EXCEPT ![Bucket[n]] = i]
  /\ EndHook(t)
  /\ UNCHANGED <<blendCalls, live, clock>>

(* STALE_RESET, GENERATION_RESET *)
Reset(t) ==
  /\ Validated(t)
  /\ LET n == call[t].network  i == EntryOf(n)
     IN /\ Found(n) # {}
        /\ InOrder(t, i) /\ (~SameIdentity(t, i) \/ Expired(i))
        /\ \E desired \in Poses :
             states' = [states EXCEPT ![i] = FreshEntry(t, desired)]
        /\ hints' = [hints EXCEPT ![Bucket[n]] = i]
  /\ EndHook(t)
  /\ UNCHANGED <<blendCalls, live, clock>>

(* INSERTED, EVICTED *)
Insert(t) ==
  /\ Validated(t)
  /\ LET n == call[t].network
     IN /\ Found(n) = {}
        /\ Empty \cup Reclaimable # {}
        /\ \E desired \in Poses :
             states' = [states EXCEPT ![FreeEntry] = FreshEntry(t, desired)]
        /\ hints' = [hints EXCEPT ![Bucket[n]] = FreeEntry]
  /\ EndHook(t)
  /\ UNCHANGED <<blendCalls, live, clock>>

(* The stock pose: another player has the network by now, a later call was
   served first (OUT_OF_ORDER), or the table is full (PRESSURE) *)
FailOpen(t) ==
  /\ call[t].pc = "read"
  /\ LET n == call[t].network
     IN \/ ~Validated(t)
        \/ Found(n) # {} /\ ~InOrder(t, EntryOf(n))
        \/ Found(n) = {} /\ Empty \cup Reclaimable = {}
  /\ EndHook(t)
  /\ UNCHANGED <<states, hints, blendCalls, live, clock>>

-----------------------------------------------------------------------------
(* The game gives the address of a network to another player *)
Recycle(n) ==
  /\ live[n] < MaxGeneration
  /\ live' = [live EXCEPT ![n] = @ + 1]
  /\ UNCHANGED <<states, hints, blendCalls, call, clock>>

ClockTicks ==
  /\ clock < MaxClock
  /\ clock' = clock + 1
  /\ UNCHANGED <<states, hints, blendCalls, call, live>>

CrouchNext ==
  \/ \E t \in Threads :
       \/ \E n \in Networks : EnterHook(t, n)
       \/ ReadControl(t)
       \/ Hit(t) \/ Reset(t) \/ Insert(t) \/ FailOpen(t)
  \/ \E n \in Networks : Recycle(n)
  \/ ClockTicks

CrouchSpec == CrouchInit /\ [][CrouchNext]_crouchVars
==============================================================================
