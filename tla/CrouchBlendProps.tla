-------------------------- MODULE CrouchBlendProps ---------------------------
(***************************************************************************)
(* What the crouch blend promises.                                         *)
(***************************************************************************)
EXTENDS CrouchBlend

EntryType ==
  [network : Networks \cup {NoNetwork}, generation : Nat, last_seen : Nat,
   last_call : Nat, target : Poses, transitioning : BOOLEAN, deadline : Nat]

CallType ==
  [pc : {"idle", "entered", "read"}, network : Networks \cup {NoNetwork},
   generation : Nat, sequence : Nat]

(* Types, and what time has passed: no entry was seen in the future or served
   for a call that was not made, and a blend that is under way was looked at
   before its deadline. *)
TypeOK ==
  /\ states \in [Entries -> EntryType]
  /\ hints \in [Buckets -> Entries]
  /\ blendCalls \in Nat /\ clock \in Nat
  /\ call \in [Threads -> CallType]
  /\ \A t \in Threads : call[t].pc # "idle" => call[t].network \in Networks
  /\ live \in [Networks -> Nat]
  /\ \A i \in Entries :
       /\ states[i].last_seen <= clock
       /\ states[i].last_call <= blendCalls
       /\ states[i].transitioning => states[i].last_seen < states[i].deadline

(* crouch_state_cache.h: an entry is one live network.  Whatever threads race
   and entries are reclaimed, a network never has two entries, of which the
   scan and the hint could find different ones. *)
OneEntryPerNetwork ==
  \A i, j \in Entries :
    states[i].network = states[j].network /\ i # j => states[i].network = NoNetwork

(* "Hint only": what the hint table says never changes the answer of the scan. *)
HintAgreesWithScan ==
  \A n \in Networks : Found(n) # {} => EntryOf(n) = Earliest(Found(n))

(* "prevent recycled addresses from inheriting another actor's transition": a
   thread that was slow cannot bring back the blend of the player who had the
   network before, neither over the entry of the one who has it now nor in an
   entry of its own. *)
GenerationsOnlyGrow ==
  [][\A i, j \in Entries :
       states[i].network # NoNetwork /\ states'[j].network = states[i].network
         => states[i].generation <= states'[j].generation]_crouchVars

(* "rather than interrupting an existing player's blend": a blend that may still
   be under way, of the player who has the network, stays in its entry and keeps
   its deadline until it ends or turns around, whatever the table is asked. *)
LiveBlendIsKept ==
  [][\A i \in Entries :
       LET n == states[i].network
       IN /\ states[i].transitioning
          /\ clock < states[i].deadline
          /\ states[i].generation = live[n]
          => /\ states'[i].network = n
             /\ states'[i].generation = states[i].generation
             /\ states'[i].last_call >= states[i].last_call
             /\ states'[i].target = states[i].target =>
                  states'[i].deadline \in {0, states[i].deadline}]_crouchVars
==============================================================================
