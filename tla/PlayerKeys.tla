------------------------------ MODULE PlayerKeys ------------------------------
(***************************************************************************)
(* The keys a player authenticates with (player-key-store.ts; main.ts:     *)
(* setPlayerKey, clearPlayerKey, the frozen credential of play, the key a  *)
(* report is uploaded with; PlayerIdentityPanel.tsx): one encrypted record *)
(* with a slot per launch profile, the single-key file of older launchers  *)
(* that is migrated into one slot, and the keys in memory.                 *)
(*                                                                         *)
(* Every operation reads the whole record, changes one slot and renames a  *)
(* new record over the old one; nothing keeps two operations apart.  A     *)
(* panel awaits its own, but neither Play nor the panel of a window that   *)
(* was closed and opened again waits for it.  The process may die between  *)
(* any two steps.  The selected profile changes only between launches.     *)
(***************************************************************************)
EXTENDS FiniteSets, Naturals

CONSTANTS
  Profiles,   \* launch profiles: a server and a role
  Primary,    \* the slot the older launcher's key goes to
  KeysOf,     \* per profile, the keys a player may have
  None,       \* no key, no session
  Missing,    \* no file
  Broken,     \* a file that is no record
  Foreign,    \* a ciphertext this Windows account cannot decrypt
  MaxTroubles \* bound: kinds of trouble in one behaviour

Keys == UNION {KeysOf[p] : p \in Profiles}
ASSUME KeyAssumption ==
  /\ Primary \in Profiles
  /\ {None, Missing, Broken, Foreign} \cap Keys = {} /\ Foreign # None
  /\ {None, Foreign} \cap {Missing, Broken} = {} /\ Missing # Broken

VARIABLES
  record,     \* player-keys.v2.json
  legacy,     \* player-key.v1.json
  keys,       \* playerKeys of main.ts
  up,         \* "down", "starting" (load is running) or "up"
  available,  \* safeStorage.isEncryptionAvailable()
  op,         \* the running operation of each worker
  session,    \* the last launch and its report
  chosen,     \* history: the choices that reached the record
  troubles    \* history: what may cost a key

storeVars == <<record, legacy>>
vars == <<record, legacy, keys, up, available, op, session, chosen, troubles>>

Empty   == [p \in Profiles |-> None]
Slots   == [Profiles -> Keys \cup {None, Foreign}]
IsRecord(r) == r \notin {Missing, Broken}
ASSUME RecordAssumption == \A s \in Slots : IsRecord(s)

(* load at the start, the panel of a window, the panel of the window after it *)
Panels  == {"panel", "reopened"}
Workers == {"load"} \cup Panels
NoOp == [pc |-> "idle", profile |-> Primary, key |-> None, next |-> Empty]
NoSession == [stage |-> "none", profile |-> Primary, credential |-> None,
              hash |-> None, sent |-> None, settled |-> TRUE]

Init ==
  /\ record = Missing
  /\ legacy \in {Missing, Broken} \cup KeysOf[Primary]
  /\ chosen = IF legacy \in Keys THEN [Empty EXCEPT ![Primary] = legacy] ELSE Empty
  /\ keys = Empty /\ up = "down" /\ available = TRUE
  /\ op = [w \in Workers |-> NoOp]
  /\ session = NoSession
  /\ troubles = {}

At(w, pc)   == op[w].pc = pc
GoTo(w, pc) == op' = [op EXCEPT ![w].pc = pc]
Busy == \E w \in Panels : ~At(w, "idle")
Pending(p) == \E w \in Panels : ~At(w, "idle") /\ op[w].profile = p
Locked == session.stage \in {"launching", "running"}

Trouble(kinds) ==
  /\ troubles' = troubles \cup kinds
  /\ Cardinality(troubles') <= MaxTroubles

(* An operation throws: the start ends the launcher, a panel shows an error *)
Fails(w) ==
  /\ op' = [op EXCEPT ![w] = NoOp]
  /\ up' = IF w = "load" THEN "down" ELSE up
  /\ keys' = IF w = "load" THEN Empty ELSE keys
  /\ session' = session

Loaded(loaded) ==
  /\ keys' = loaded /\ up' = "up"
  /\ op' = [op EXCEPT !["load"] = NoOp]
Same == UNCHANGED <<available, chosen>>
SameSession == UNCHANGED <<available, session>>

-----------------------------------------------------------------------------
(* load, save and clear begin.  A key whose slot is empty cannot be removed,
   the key that is set cannot be applied again *)
Start(encryption) ==
  /\ up = "down"
  /\ available' = encryption
  /\ IF encryption THEN up' = "starting" /\ GoTo("load", "read")
                   ELSE up' = "up" /\ UNCHANGED op
  /\ UNCHANGED <<storeVars, keys, session, chosen, troubles>>

Change(w, p, k) ==
  /\ up = "up" /\ available /\ ~Locked /\ At(w, "idle")
  /\ w = "reopened" => Busy
  /\ k \in KeysOf[p] \cup {None} /\ k # keys[p]
  /\ op' = [op EXCEPT ![w] = [pc |-> "read", profile |-> p, key |-> k, next |-> Empty]]
  /\ Trouble(IF Busy THEN {"overlap"} ELSE {})
  /\ UNCHANGED <<storeVars, keys, up, available, session, chosen>>

-----------------------------------------------------------------------------
(***************************************************************************)
(* readStored.  The load takes what it can decrypt, and drops the rest.    *)
(***************************************************************************)
(* Mutant of Survivors: one bad slot costs the others *)
SurvivorsOrNone(r) == IF \E p \in Profiles : r[p] = Foreign THEN Empty ELSE r

Survivors(r) == [p \in Profiles |-> IF r[p] = Foreign THEN None ELSE r[p]]

ReadRecord(w) ==
  /\ op[w].pc \in {"read", "reread"} /\ IsRecord(record)
  /\ IF w # "load"
       THEN /\ op' = [op EXCEPT ![w].pc = "write", ![w].next = record]
            /\ UNCHANGED <<keys, up>>
       ELSE IF Survivors(record) = record
              THEN Loaded(record)
              ELSE /\ op' = [op EXCEPT ![w].pc = "write", ![w].next = Survivors(record)]
                   /\ UNCHANGED <<keys, up>>
  /\ UNCHANGED <<storeVars, session, troubles>> /\ Same

(* readOrMigrate: an older key first, once *)
ReadMissing(w) ==
  /\ op[w].pc \in {"read", "reread"} /\ record = Missing
  /\ IF At(w, "read") THEN GoTo(w, "legacy")
                      ELSE op' = [op EXCEPT ![w].pc = "write", ![w].next = Empty]
  /\ UNCHANGED <<storeVars, keys, up, session, troubles>> /\ Same

(* What is no record is deleted, and read as missing *)
ReadBroken(w) ==
  /\ op[w].pc \in {"read", "reread"} /\ record = Broken
  /\ \/ /\ record' = Missing
        /\ IF At(w, "read") THEN GoTo(w, "legacy")
                            ELSE op' = [op EXCEPT ![w].pc = "write", ![w].next = Empty]
        /\ UNCHANGED <<keys, up, session>>
     \/ Fails(w) /\ UNCHANGED record
  /\ UNCHANGED <<legacy, troubles>> /\ Same

-----------------------------------------------------------------------------
(***************************************************************************)
(* migrateLegacy.                                                          *)
(***************************************************************************)
(* Back to load, with what was migrated, or to readOrMigrate *)
Migrated(w, loaded) ==
  IF w = "load" THEN Loaded(loaded) ELSE GoTo(w, "reread") /\ UNCHANGED <<keys, up>>

NoLegacy(w) ==
  /\ At(w, "legacy") /\ legacy = Missing
  /\ Migrated(w, Empty)
  /\ UNCHANGED <<storeVars, session, troubles>> /\ Same

LegacyRead(w) ==
  /\ At(w, "legacy") /\ legacy # Missing
  /\ IF legacy = Broken
       THEN GoTo(w, "discard")
       ELSE op' = [op EXCEPT ![w].pc = "migrate",
                             ![w].next = [Empty EXCEPT ![Primary] = legacy]]
  /\ UNCHANGED <<storeVars, keys, up, session, troubles>> /\ Same

(* The record is written, or is not: then the older file is discarded as if it
   were unusable *)
MigrationWritten(w) ==
  /\ At(w, "migrate")
  /\ record' = op[w].next
  /\ GoTo(w, "unlink")
  /\ UNCHANGED <<legacy, keys, up, session, troubles>> /\ Same

MigrationFails(w) ==
  /\ At(w, "migrate")
  /\ GoTo(w, "discard")
  /\ Trouble({"migration"})
  /\ UNCHANGED <<storeVars, keys, up, session>> /\ Same

(* Mutant of Unlinked: the migrated file stays *)
UnlinkForgotten(w) ==
  /\ At(w, "unlink")
  /\ Migrated(w, op[w].next)
  /\ UNCHANGED <<storeVars, session, troubles>> /\ Same

Unlinked(w) ==
  /\ At(w, "unlink")
  /\ legacy' = Missing
  /\ Migrated(w, op[w].next)
  /\ UNCHANGED <<record, session, troubles>> /\ Same

(* It cannot be removed: once more, and the load finds no key *)
UnlinkFails(w) ==
  /\ At(w, "unlink")
  /\ GoTo(w, "discard")
  /\ Trouble({"migration"})
  /\ UNCHANGED <<storeVars, keys, up, session>> /\ Same

Discarded(w) ==
  /\ At(w, "discard")
  /\ legacy' = Missing
  /\ Migrated(w, Empty)
  /\ UNCHANGED <<record, session, troubles>> /\ Same

DiscardFails(w) ==
  /\ At(w, "discard")
  /\ Fails(w)
  /\ Trouble(IF IsRecord(record) THEN {"leftover"} ELSE {})
  /\ UNCHANGED storeVars /\ Same

-----------------------------------------------------------------------------
(***************************************************************************)
(* The end of load, save and clear.                                        *)
(***************************************************************************)
(* The slots that survived, written or not *)
DropForeign ==
  /\ At("load", "write")
  /\ record' \in {record, op["load"].next}
  /\ Loaded(op["load"].next)
  /\ UNCHANGED <<legacy, session, troubles>> /\ Same

(* writeStored; nothing to clear in an empty slot *)
WriteRecord(w) ==
  /\ w \in Panels /\ At(w, "write")
  /\ LET p == op[w].profile  k == op[w].key
     IN  /\ record' = IF k = None /\ op[w].next[p] = None
                        THEN record ELSE [op[w].next EXCEPT ![p] = k]
         /\ chosen' = [chosen EXCEPT ![p] = k]
  /\ op' = [op EXCEPT ![w].pc = "remember", ![w].next = Empty]
  /\ UNCHANGED <<legacy, keys, up, troubles>> /\ SameSession

WriteFails(w) ==
  /\ w \in Panels /\ At(w, "write")
  /\ Fails(w)
  /\ UNCHANGED <<storeVars, troubles>> /\ Same

Remember(w) ==
  /\ w \in Panels /\ At(w, "remember")
  /\ keys' = [keys EXCEPT ![op[w].profile] = op[w].key]
  /\ op' = [op EXCEPT ![w] = NoOp]
  /\ UNCHANGED <<storeVars, up, troubles, chosen>> /\ SameSession

-----------------------------------------------------------------------------
(***************************************************************************)
(* The launch freezes the key it was pressed with; its report names the    *)
(* key of the moment the report was opened, and is uploaded with the key   *)
(* of the profile if that is still the one it names.                       *)
(***************************************************************************)
Play(p) ==
  /\ up = "up" /\ session.stage \notin {"launching", "running"} /\ keys[p] # None
  /\ session' = [NoSession EXCEPT !.stage = "launching", !.profile = p,
                                  !.credential = keys[p], !.settled = ~Pending(p)]
  /\ UNCHANGED <<storeVars, keys, up, available, op, chosen, troubles>>

(* diagnosticContext *)
OpenReport ==
  /\ up = "up" /\ session.stage = "launching"
  /\ session' = [session EXCEPT !.stage = "running", !.hash = keys[session.profile]]
  /\ UNCHANGED <<storeVars, keys, up, available, op, chosen, troubles>>

LaunchEnds ==
  /\ up = "up" /\ Locked
  /\ session' = IF session.stage = "launching" THEN NoSession
                ELSE [session EXCEPT !.stage = "over"]
  /\ UNCHANGED <<storeVars, keys, up, available, op, chosen, troubles>>

(* Mutant of Upload: any key of the profile uploads the report *)
UploadUnchecked ==
  /\ up = "up" /\ session.stage = "over"
  /\ keys[session.profile] # None
  /\ session' = [session EXCEPT !.stage = "sent", !.hash = None,
                                 !.sent = keys[session.profile]]
  /\ UNCHANGED <<storeVars, keys, up, available, op, chosen, troubles>>

(* uploadSession *)
Upload ==
  /\ up = "up" /\ session.stage = "over"
  /\ keys[session.profile] # None /\ keys[session.profile] = session.hash
  /\ session' = [session EXCEPT !.stage = "sent", !.hash = None,
                                 !.sent = keys[session.profile]]
  /\ UNCHANGED <<storeVars, keys, up, available, op, chosen, troubles>>

-----------------------------------------------------------------------------
(***************************************************************************)
(* The environment.                                                        *)
(***************************************************************************)
(* A migrated file that was not removed yet stays for good *)
Dies ==
  /\ up # "down"
  /\ up' = "down" /\ keys' = Empty
  /\ op' = [w \in Workers |-> NoOp]
  /\ session' = CASE session.stage = "launching" -> NoSession
                  [] session.stage = "running" -> [session EXCEPT !.stage = "over"]
                  [] OTHER -> session
  /\ Trouble(IF \E w \in Workers : op[w].pc \in {"unlink", "discard"} /\ IsRecord(record)
               THEN {"leftover"} ELSE {})
  /\ UNCHANGED <<storeVars, available, chosen>>

(* The record is damaged, or one of its keys is encrypted for another account;
   bound: once *)
Damage ==
  /\ up = "down" /\ IsRecord(record) /\ "damage" \notin troubles
  /\ record' = Broken /\ chosen' = Empty
  /\ Trouble({"damage"})
  /\ UNCHANGED <<legacy, keys, up, available, op, session>>

Seal(p) ==
  /\ up = "down" /\ IsRecord(record) /\ record[p] \in Keys /\ "damage" \notin troubles
  /\ record' = [record EXCEPT ![p] = Foreign]
  /\ chosen' = [chosen EXCEPT ![p] = None]
  /\ Trouble({"damage"})
  /\ UNCHANGED <<legacy, keys, up, available, op, session>>

Next ==
  \/ \E b \in BOOLEAN : Start(b)
  \/ \E w \in Panels, p \in Profiles, k \in Keys \cup {None} : Change(w, p, k)
  \/ \E w \in Workers :
       \/ ReadRecord(w) \/ ReadMissing(w) \/ ReadBroken(w)
       \/ NoLegacy(w) \/ LegacyRead(w) \/ MigrationWritten(w) \/ MigrationFails(w)
       \/ Unlinked(w) \/ UnlinkFails(w) \/ Discarded(w) \/ DiscardFails(w)
       \/ WriteRecord(w) \/ WriteFails(w) \/ Remember(w)
  \/ DropForeign
  \/ \E p \in Profiles : Play(p) \/ Seal(p)
  \/ OpenReport \/ LaunchEnds \/ Upload \/ Dies \/ Damage

Spec == Init /\ [][Next]_vars
==============================================================================
