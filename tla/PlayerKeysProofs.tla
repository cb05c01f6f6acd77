--------------------------- MODULE PlayerKeysProofs ---------------------------
(***************************************************************************)
(* A report goes out under the key its game was launched with, and a key   *)
(* that reached the record is remembered: for every number of profiles and *)
(* keys, and any number of troubles.                                       *)
(***************************************************************************)
EXTENDS PlayerKeysProps, TLAPS

Codes == {"idle", "read", "reread", "legacy", "migrate", "unlink", "discard",
          "write", "remember"}
OpType == [pc : Codes, profile : Profiles, key : Keys \cup {None}, next : Slots]
Credentials == Keys \cup {None, Foreign}
SessionType == [stage : {"none", "launching", "running", "over", "sent"},
                profile : Profiles, credential : Credentials,
                hash : Credentials, sent : Credentials, settled : BOOLEAN]

Typed ==
  /\ record \in {Missing, Broken} \cup Slots
  /\ legacy \in {Missing, Broken} \cup Keys
  /\ keys \in Slots
  /\ up \in {"down", "starting", "up"} /\ available \in BOOLEAN
  /\ op \in [Workers -> OpType]
  /\ session \in SessionType
  /\ chosen \in [Profiles -> Keys \cup {None}]

(* The older launcher's keys are keys of the primary profile. *)
LEMMA KeyFacts ==
  /\ Primary \in Profiles /\ Empty \in Slots /\ Empty \in [Profiles -> Keys \cup {None}]
  /\ \A p \in Profiles : KeysOf[p] \subseteq Keys
  /\ \A r \in Slots : Survivors(r) \in Slots
  /\ \A s \in Slots : IsRecord(s) /\ s # Missing /\ s # Broken
  /\ NoOp \in OpType /\ NoSession \in SessionType
<1>1. Primary \in Profiles /\ Empty \in Slots /\ Empty \in [Profiles -> Keys \cup {None}]
  BY KeyAssumption DEF KeyAssumption, Empty, Slots
<1>2. \A p \in Profiles : KeysOf[p] \subseteq Keys
  BY DEF Keys
<1>3. \A r \in Slots : Survivors(r) \in Slots
  BY DEF Slots, Survivors
<1>4. \A s \in Slots : IsRecord(s) /\ s # Missing /\ s # Broken
  BY RecordAssumption DEF RecordAssumption, IsRecord
<1>5. NoOp \in OpType /\ NoSession \in SessionType
  BY <1>1 DEF NoOp, NoSession, OpType, SessionType, Codes, Credentials
<1>6. QED
  BY <1>1, <1>2, <1>3, <1>4, <1>5

(* Every step keeps the shape of the state. *)
LEMMA TypeKeeps ==
  ASSUME Typed, [Next]_vars
  PROVE  Typed'
<1> USE KeyFacts DEF Typed, OpType, Codes, SessionType, Credentials, Slots, At, GoTo,
        Fails, Loaded, Same, SameSession, Migrated, storeVars, Workers, Panels
<1>1. ASSUME NEW b \in BOOLEAN, Start(b) PROVE Typed'
  BY <1>1 DEF Start
<1>2. ASSUME NEW w \in Panels, NEW p \in Profiles, NEW k \in Keys \cup {None},
             Change(w, p, k)
      PROVE Typed'
  BY <1>2 DEF Change
<1>3. ASSUME NEW w \in Workers, ReadRecord(w) PROVE Typed'
  BY <1>3 DEF ReadRecord, IsRecord
<1>4. ASSUME NEW w \in Workers, ReadMissing(w) PROVE Typed'
  BY <1>4 DEF ReadMissing
<1>5. ASSUME NEW w \in Workers, ReadBroken(w) PROVE Typed'
  BY <1>5 DEF ReadBroken
<1>6. ASSUME NEW w \in Workers, NoLegacy(w) PROVE Typed'
  BY <1>6 DEF NoLegacy
<1>7. ASSUME NEW w \in Workers, LegacyRead(w) PROVE Typed'
  BY <1>7 DEF LegacyRead
<1>8. ASSUME NEW w \in Workers, MigrationWritten(w) PROVE Typed'
  BY <1>8 DEF MigrationWritten
<1>9. ASSUME NEW w \in Workers, MigrationFails(w) PROVE Typed'
  BY <1>9 DEF MigrationFails
<1>10. ASSUME NEW w \in Workers, Unlinked(w) PROVE Typed'
  BY <1>10 DEF Unlinked
<1>11. ASSUME NEW w \in Workers, UnlinkFails(w) PROVE Typed'
  BY <1>11 DEF UnlinkFails
<1>12. ASSUME NEW w \in Workers, Discarded(w) PROVE Typed'
  BY <1>12 DEF Discarded
<1>13. ASSUME NEW w \in Workers, DiscardFails(w) PROVE Typed'
  BY <1>13 DEF DiscardFails
<1>14. ASSUME NEW w \in Workers, WriteRecord(w) PROVE Typed'
  BY <1>14 DEF WriteRecord
<1>15. ASSUME NEW w \in Workers, WriteFails(w) PROVE Typed'
  BY <1>15 DEF WriteFails
<1>16. ASSUME NEW w \in Workers, Remember(w) PROVE Typed'
  BY <1>16 DEF Remember
<1>17. ASSUME DropForeign PROVE Typed'
  BY <1>17 DEF DropForeign
<1>18. ASSUME NEW p \in Profiles, Play(p) PROVE Typed'
  BY <1>18 DEF Play
<1>19. ASSUME NEW p \in Profiles, Seal(p) PROVE Typed'
  BY <1>19 DEF Seal, IsRecord
<1>20. ASSUME OpenReport PROVE Typed'
  BY <1>20 DEF OpenReport
<1>21. ASSUME LaunchEnds PROVE Typed'
  BY <1>21 DEF LaunchEnds
<1>22. ASSUME Upload PROVE Typed'
  BY <1>22 DEF Upload
<1>23. ASSUME Dies PROVE Typed'
  BY <1>23 DEF Dies
<1>24. ASSUME Damage PROVE Typed'
  BY <1>24 DEF Damage
<1>25. CASE UNCHANGED vars
  BY <1>25 DEF vars
<1>26. QED
  BY <1>1, <1>2, <1>3, <1>4, <1>5, <1>6, <1>7, <1>8, <1>9, <1>10, <1>11, <1>12, <1>13,
     <1>14, <1>15, <1>16, <1>17, <1>18, <1>19, <1>20, <1>21, <1>22, <1>23, <1>24, <1>25
     DEF Next

(* The load runs alone, before any panel. *)
Phased ==
  /\ At("load", "idle") <=> up # "starting"
  /\ \A w \in Panels : ~At(w, "idle") => up = "up" /\ available
  /\ up = "starting" => available

(* No panel works before the load has ended. *)
LEMMA PhaseKeeps ==
  ASSUME Typed, Phased, [Next]_vars
  PROVE  Phased'
<1> USE KeyFacts DEF Typed, Phased, OpType, NoOp, At, GoTo, Fails, Loaded, Same,
        SameSession, Migrated, storeVars, Workers, Panels
<1>1. ASSUME NEW b \in BOOLEAN, Start(b) PROVE Phased'
  BY <1>1 DEF Start
<1>2. ASSUME NEW w \in Panels, NEW p \in Profiles, NEW k \in Keys \cup {None},
             Change(w, p, k)
      PROVE Phased'
  BY <1>2 DEF Change
<1>3. ASSUME NEW w \in Workers, ReadRecord(w) PROVE Phased'
  BY <1>3 DEF ReadRecord
<1>4. ASSUME NEW w \in Workers, ReadMissing(w) PROVE Phased'
  BY <1>4 DEF ReadMissing
<1>5. ASSUME NEW w \in Workers, ReadBroken(w) PROVE Phased'
  BY <1>5 DEF ReadBroken
<1>6. ASSUME NEW w \in Workers, NoLegacy(w) PROVE Phased'
  BY <1>6 DEF NoLegacy
<1>7. ASSUME NEW w \in Workers, LegacyRead(w) PROVE Phased'
  BY <1>7 DEF LegacyRead
<1>8. ASSUME NEW w \in Workers, MigrationWritten(w) PROVE Phased'
  BY <1>8 DEF MigrationWritten
<1>9. ASSUME NEW w \in Workers, MigrationFails(w) PROVE Phased'
  BY <1>9 DEF MigrationFails
<1>10. ASSUME NEW w \in Workers, Unlinked(w) PROVE Phased'
  BY <1>10 DEF Unlinked
<1>11. ASSUME NEW w \in Workers, UnlinkFails(w) PROVE Phased'
  BY <1>11 DEF UnlinkFails
<1>12. ASSUME NEW w \in Workers, Discarded(w) PROVE Phased'
  BY <1>12 DEF Discarded
<1>13. ASSUME NEW w \in Workers, DiscardFails(w) PROVE Phased'
  BY <1>13 DEF DiscardFails
<1>14. ASSUME NEW w \in Workers, WriteRecord(w) PROVE Phased'
  BY <1>14 DEF WriteRecord
<1>15. ASSUME NEW w \in Workers, WriteFails(w) PROVE Phased'
  BY <1>15 DEF WriteFails
<1>16. ASSUME NEW w \in Workers, Remember(w) PROVE Phased'
  BY <1>16 DEF Remember
<1>17. ASSUME DropForeign PROVE Phased'
  BY <1>17 DEF DropForeign
<1>18. ASSUME NEW p \in Profiles, Play(p) PROVE Phased'
  BY <1>18 DEF Play
<1>19. ASSUME NEW p \in Profiles, Seal(p) PROVE Phased'
  BY <1>19 DEF Seal
<1>20. ASSUME OpenReport PROVE Phased'
  BY <1>20 DEF OpenReport
<1>21. ASSUME LaunchEnds PROVE Phased'
  BY <1>21 DEF LaunchEnds
<1>22. ASSUME Upload PROVE Phased'
  BY <1>22 DEF Upload
<1>23. ASSUME Dies PROVE Phased'
  BY <1>23 DEF Dies
<1>24. ASSUME Damage PROVE Phased'
  BY <1>24 DEF Damage
<1>25. CASE UNCHANGED vars
  BY <1>25 DEF vars
<1>26. QED
  BY <1>1, <1>2, <1>3, <1>4, <1>5, <1>6, <1>7, <1>8, <1>9, <1>10, <1>11, <1>12, <1>13,
     <1>14, <1>15, <1>16, <1>17, <1>18, <1>19, <1>20, <1>21, <1>22, <1>23, <1>24, <1>25
     DEF Next

(* While a game that was launched with a settled key is on its way, that key
   stays: it is the one its report names. *)
Credited ==
  /\ session.stage = "launching" => up = "up"
  /\ session.stage \in {"launching", "running"} /\ session.settled => ~Pending(session.profile)
  /\ session.stage = "launching" /\ session.settled =>
       keys[session.profile] = session.credential
  /\ session.stage \in {"running", "over"} /\ session.settled =>
       session.hash = session.credential
  /\ ReportUnderItsCredential

(* What is set or removed meanwhile is of another profile. *)
LEMMA CreditKeeps ==
  ASSUME Typed, Phased, Credited, [Next]_vars
  PROVE  Credited'
<1> USE KeyFacts DEF Typed, Phased, Credited, ReportUnderItsCredential, Pending, Locked,
        OpType, SessionType, NoOp, NoSession, Slots, At, GoTo, Fails, Loaded, Same,
        SameSession, Migrated, storeVars, Workers, Panels
<1>1. ASSUME NEW b \in BOOLEAN, Start(b) PROVE Credited'
  BY <1>1 DEF Start
<1>2. ASSUME NEW w \in Panels, NEW p \in Profiles, NEW k \in Keys \cup {None},
             Change(w, p, k)
      PROVE Credited'
  BY <1>2 DEF Change
<1>3. ASSUME NEW w \in Workers, ReadRecord(w) PROVE Credited'
  BY <1>3 DEF ReadRecord
<1>4. ASSUME NEW w \in Workers, ReadMissing(w) PROVE Credited'
  BY <1>4 DEF ReadMissing
<1>5. ASSUME NEW w \in Workers, ReadBroken(w) PROVE Credited'
  BY <1>5 DEF ReadBroken
<1>6. ASSUME NEW w \in Workers, NoLegacy(w) PROVE Credited'
  BY <1>6 DEF NoLegacy
<1>7. ASSUME NEW w \in Workers, LegacyRead(w) PROVE Credited'
  BY <1>7 DEF LegacyRead
<1>8. ASSUME NEW w \in Workers, MigrationWritten(w) PROVE Credited'
  BY <1>8 DEF MigrationWritten
<1>9. ASSUME NEW w \in Workers, MigrationFails(w) PROVE Credited'
  BY <1>9 DEF MigrationFails
<1>10. ASSUME NEW w \in Workers, Unlinked(w) PROVE Credited'
  BY <1>10 DEF Unlinked
<1>11. ASSUME NEW w \in Workers, UnlinkFails(w) PROVE Credited'
  BY <1>11 DEF UnlinkFails
<1>12. ASSUME NEW w \in Workers, Discarded(w) PROVE Credited'
  BY <1>12 DEF Discarded
<1>13. ASSUME NEW w \in Workers, DiscardFails(w) PROVE Credited'
  BY <1>13 DEF DiscardFails
<1>14. ASSUME NEW w \in Workers, WriteRecord(w) PROVE Credited'
  BY <1>14 DEF WriteRecord
<1>15. ASSUME NEW w \in Workers, WriteFails(w) PROVE Credited'
  BY <1>15 DEF WriteFails
<1>16. ASSUME NEW w \in Workers, Remember(w) PROVE Credited'
  BY <1>16 DEF Remember
<1>17. ASSUME DropForeign PROVE Credited'
  BY <1>17 DEF DropForeign
<1>18. ASSUME NEW p \in Profiles, Play(p) PROVE Credited'
  BY <1>18 DEF Play
<1>19. ASSUME NEW p \in Profiles, Seal(p) PROVE Credited'
  BY <1>19 DEF Seal
<1>20. ASSUME OpenReport PROVE Credited'
  BY <1>20 DEF OpenReport
<1>21. ASSUME LaunchEnds PROVE Credited'
  BY <1>21 DEF LaunchEnds
<1>22. ASSUME Upload PROVE Credited'
  BY <1>22 DEF Upload
<1>23. ASSUME Dies PROVE Credited'
  BY <1>23 DEF Dies
<1>24. ASSUME Damage PROVE Credited'
  BY <1>24 DEF Damage
<1>25. CASE UNCHANGED vars
  BY <1>25 DEF vars
<1>26. QED
  BY <1>1, <1>2, <1>3, <1>4, <1>5, <1>6, <1>7, <1>8, <1>9, <1>10, <1>11, <1>12, <1>13,
     <1>14, <1>15, <1>16, <1>17, <1>18, <1>19, <1>20, <1>21, <1>22, <1>23, <1>24, <1>25
     DEF Next

(* A report is sent under the key its game was launched with. *)
THEOREM ReportTheorem == Spec => []ReportUnderItsCredential
<1> DEFINE IInv == Typed /\ Phased /\ Credited
<1>1. Init => IInv
  BY KeyFacts, KeyAssumption DEF KeyAssumption, Init, Typed, Phased, Credited,
     ReportUnderItsCredential,
     Pending, At, NoOp, NoSession, OpType, Codes, SessionType, Credentials, Workers, Panels,
     Empty, Slots, Keys
<1>2. IInv /\ [Next]_vars => IInv'
  BY TypeKeeps, PhaseKeeps, CreditKeeps
<1>3. IInv => ReportUnderItsCredential
  BY DEF Credited
<1>4. QED
  BY <1>1, <1>2, <1>3, PTL DEF Spec

(***************************************************************************)
(* A key that reached the record is remembered.                            *)
(***************************************************************************)
Sound == troubles \cap {"overlap", "migration"} = {}
Remembers(slots) == \A p \in Profiles : chosen[p] # None => slots[p] = chosen[p]
NoneChosen == \A p \in Profiles : chosen[p] = None

(* The record tells what was chosen; before there is one, the older launcher's
   file does, until the load has migrated it. *)
Stored ==
  /\ IsRecord(record) => Remembers(record)
  /\ ~IsRecord(record) =>
       \A p \in Profiles : chosen[p] # None =>
         record = Missing /\ p = Primary /\ legacy = chosen[p]
  /\ ~IsRecord(record) /\ up = "up" /\ available => NoneChosen

(* One operation runs at a time, and what it has read is still so. *)
Alone == \A v, w \in Workers : ~At(v, "idle") /\ ~At(w, "idle") => v = w
Working ==
  \A w \in Workers :
    /\ op[w].pc \in {"legacy", "migrate", "discard"} => ~IsRecord(record)
    /\ At(w, "migrate") => /\ op[w].next = [Empty EXCEPT ![Primary] = legacy]
                           /\ legacy \in Keys
    /\ At(w, "unlink") => record = op[w].next
    /\ At(w, "discard") => NoneChosen
    /\ At(w, "write") => Remembers(op[w].next) /\ (w = "load" => IsRecord(record))
    /\ At(w, "remember") => op[w].key = chosen[op[w].profile]
    /\ w = "load" => op[w].pc \notin {"reread", "remember"}

(* The launcher knows the choices, but the one it is about to remember. *)
InMind ==
  up = "up" /\ available =>
    \A p \in Profiles : chosen[p] # None =>
      \/ keys[p] = chosen[p]
      \/ \E w \in Panels : At(w, "remember") /\ op[w].profile = p

Kept == Sound => Stored /\ Alone /\ Working /\ InMind

(* Once keys may be lost, they may be lost for good. *)
LEMMA SoundOnce == ASSUME [Next]_vars, Sound' PROVE Sound
BY DEF Next, vars, Sound, Trouble, Start, Change, ReadRecord, ReadMissing, ReadBroken,
   NoLegacy,
   LegacyRead, MigrationWritten, MigrationFails, Unlinked, UnlinkFails, Discarded, DiscardFails,
   WriteRecord, WriteFails, Remember, DropForeign, Play, Seal, OpenReport, LaunchEnds, Upload,
   Dies, Damage

(* A second operation beside another is a trouble. *)
LEMMA AloneKeeps ==
  ASSUME Typed, Phased, "overlap" \notin troubles', Alone, [Next]_vars
  PROVE  Alone'
<1> USE KeyFacts DEF Typed, Phased, OpType, NoOp, Alone, Busy, Trouble, At, GoTo,
        Fails, Loaded, Same, SameSession, Migrated, storeVars, Workers, Panels
<1>1. ASSUME NEW b \in BOOLEAN, Start(b) PROVE Alone'
  BY <1>1 DEF Start
<1>2. ASSUME NEW w \in Panels, NEW p \in Profiles, NEW k \in Keys \cup {None},
             Change(w, p, k)
      PROVE Alone'
  BY <1>2 DEF Change
<1>3. ASSUME NEW w \in Workers, ReadRecord(w) PROVE Alone'
  BY <1>3 DEF ReadRecord
<1>4. ASSUME NEW w \in Workers, ReadMissing(w) PROVE Alone'
  BY <1>4 DEF ReadMissing
<1>5. ASSUME NEW w \in Workers, ReadBroken(w) PROVE Alone'
  BY <1>5 DEF ReadBroken
<1>6. ASSUME NEW w \in Workers, NoLegacy(w) PROVE Alone'
  BY <1>6 DEF NoLegacy
<1>7. ASSUME NEW w \in Workers, LegacyRead(w) PROVE Alone'
  BY <1>7 DEF LegacyRead
<1>8. ASSUME NEW w \in Workers, MigrationWritten(w) PROVE Alone'
  BY <1>8 DEF MigrationWritten
<1>9. ASSUME NEW w \in Workers, MigrationFails(w) PROVE Alone'
  BY <1>9 DEF MigrationFails
<1>10. ASSUME NEW w \in Workers, Unlinked(w) PROVE Alone'
  BY <1>10 DEF Unlinked
<1>11. ASSUME NEW w \in Workers, UnlinkFails(w) PROVE Alone'
  BY <1>11 DEF UnlinkFails
<1>12. ASSUME NEW w \in Workers, Discarded(w) PROVE Alone'
  BY <1>12 DEF Discarded
<1>13. ASSUME NEW w \in Workers, DiscardFails(w) PROVE Alone'
  BY <1>13 DEF DiscardFails
<1>14. ASSUME NEW w \in Workers, WriteRecord(w) PROVE Alone'
  BY <1>14 DEF WriteRecord
<1>15. ASSUME NEW w \in Workers, WriteFails(w) PROVE Alone'
  BY <1>15 DEF WriteFails
<1>16. ASSUME NEW w \in Workers, Remember(w) PROVE Alone'
  BY <1>16 DEF Remember
<1>17. ASSUME DropForeign PROVE Alone'
  BY <1>17 DEF DropForeign
<1>18. ASSUME NEW p \in Profiles, Play(p) PROVE Alone'
  BY <1>18 DEF Play
<1>19. ASSUME NEW p \in Profiles, Seal(p) PROVE Alone'
  BY <1>19 DEF Seal
<1>20. ASSUME OpenReport PROVE Alone'
  BY <1>20 DEF OpenReport
<1>21. ASSUME LaunchEnds PROVE Alone'
  BY <1>21 DEF LaunchEnds
<1>22. ASSUME Upload PROVE Alone'
  BY <1>22 DEF Upload
<1>23. ASSUME Dies PROVE Alone'
  BY <1>23 DEF Dies
<1>24. ASSUME Damage PROVE Alone'
  BY <1>24 DEF Damage
<1>25. CASE UNCHANGED vars
  BY <1>25 DEF vars
<1>26. QED
  BY <1>1, <1>2, <1>3, <1>4, <1>5, <1>6, <1>7, <1>8, <1>9, <1>10, <1>11, <1>12, <1>13,
     <1>14, <1>15, <1>16, <1>17, <1>18, <1>19, <1>20, <1>21, <1>22, <1>23, <1>24, <1>25
     DEF Next
(* No step loses a choice on the disk. *)
LEMMA StoredKeeps ==
  ASSUME Typed, Phased, Sound, Sound', Stored, Alone, Working, [Next]_vars
  PROVE  Stored'
<1> USE KeyFacts, KeyAssumption DEF KeyAssumption, Typed, Phased, OpType, NoOp, Slots,
        Stored, Working, Sound, Trouble, Remembers, NoneChosen, At, GoTo, Fails, Loaded,
        Same, SameSession, Migrated, storeVars, Workers, Panels
<1>1. ASSUME NEW b \in BOOLEAN, Start(b) PROVE Stored'
  BY <1>1 DEF Start
<1>2. ASSUME NEW w \in Panels, NEW p \in Profiles, NEW k \in Keys \cup {None},
             Change(w, p, k)
      PROVE Stored'
  BY <1>2 DEF Change
<1>3. ASSUME NEW w \in Workers, ReadRecord(w) PROVE Stored'
  BY <1>3 DEF ReadRecord
<1>4. ASSUME NEW w \in Workers, ReadMissing(w) PROVE Stored'
  BY <1>4 DEF ReadMissing
<1>5. ASSUME NEW w \in Workers, ReadBroken(w) PROVE Stored'
  BY <1>5 DEF ReadBroken, IsRecord
<1>6. ASSUME NEW w \in Workers, NoLegacy(w) PROVE Stored'
  BY <1>6 DEF NoLegacy
<1>7. ASSUME NEW w \in Workers, LegacyRead(w) PROVE Stored'
  BY <1>7 DEF LegacyRead
<1>8. ASSUME NEW w \in Workers, MigrationWritten(w) PROVE Stored'
  BY <1>8 DEF MigrationWritten, Empty
<1>9. ASSUME NEW w \in Workers, MigrationFails(w) PROVE Stored'
  BY <1>9 DEF MigrationFails
<1>10. ASSUME NEW w \in Workers, Unlinked(w) PROVE Stored'
  BY <1>10 DEF Unlinked
<1>11. ASSUME NEW w \in Workers, UnlinkFails(w) PROVE Stored'
  BY <1>11 DEF UnlinkFails
<1>12. ASSUME NEW w \in Workers, Discarded(w) PROVE Stored'
  BY <1>12 DEF Discarded
<1>13. ASSUME NEW w \in Workers, DiscardFails(w) PROVE Stored'
  BY <1>13 DEF DiscardFails
<1>14. ASSUME NEW w \in Workers, WriteRecord(w) PROVE Stored'
  BY <1>14 DEF WriteRecord
<1>15. ASSUME NEW w \in Workers, WriteFails(w) PROVE Stored'
  BY <1>15 DEF WriteFails
<1>16. ASSUME NEW w \in Workers, Remember(w) PROVE Stored'
  BY <1>16 DEF Remember
<1>17. ASSUME DropForeign PROVE Stored'
  BY <1>17 DEF DropForeign
<1>18. ASSUME NEW p \in Profiles, Play(p) PROVE Stored'
  BY <1>18 DEF Play
<1>19. ASSUME NEW p \in Profiles, Seal(p) PROVE Stored'
  BY <1>19 DEF Seal, IsRecord
<1>20. ASSUME OpenReport PROVE Stored'
  BY <1>20 DEF OpenReport
<1>21. ASSUME LaunchEnds PROVE Stored'
  BY <1>21 DEF LaunchEnds
<1>22. ASSUME Upload PROVE Stored'
  BY <1>22 DEF Upload
<1>23. ASSUME Dies PROVE Stored'
  BY <1>23 DEF Dies
<1>24. ASSUME Damage PROVE Stored'
  BY <1>24 DEF Damage, Empty
<1>25. CASE UNCHANGED vars
  BY <1>25 DEF vars
<1>26. QED
  BY <1>1, <1>2, <1>3, <1>4, <1>5, <1>6, <1>7, <1>8, <1>9, <1>10, <1>11, <1>12, <1>13,
     <1>14, <1>15, <1>16, <1>17, <1>18, <1>19, <1>20, <1>21, <1>22, <1>23, <1>24, <1>25
     DEF Next
(* Nobody changes what an operation has read. *)
LEMMA WorkingKeeps ==
  ASSUME Typed, Phased, Sound, Sound', Stored, Alone, Working, [Next]_vars
  PROVE  Working'
<1> USE KeyFacts, KeyAssumption DEF KeyAssumption, Typed, Phased, OpType, NoOp, Slots,
        Stored, Working, Sound, Trouble, Remembers, NoneChosen, At, GoTo, Fails, Loaded,
        Same, SameSession, Migrated, storeVars, Workers, Panels, Alone, Empty
<1>1. ASSUME NEW b \in BOOLEAN, Start(b) PROVE Working'
  BY <1>1 DEF Start
<1>2. ASSUME NEW w \in Panels, NEW p \in Profiles, NEW k \in Keys \cup {None},
             Change(w, p, k)
      PROVE Working'
  BY <1>2 DEF Change
<1>3. ASSUME NEW w \in Workers, ReadRecord(w) PROVE Working'
  BY <1>3 DEF ReadRecord, Survivors
<1>4. ASSUME NEW w \in Workers, ReadMissing(w) PROVE Working'
  BY <1>4 DEF ReadMissing, IsRecord
<1>5. ASSUME NEW w \in Workers, ReadBroken(w) PROVE Working'
  BY <1>5 DEF ReadBroken, IsRecord
<1>6. ASSUME NEW w \in Workers, NoLegacy(w) PROVE Working'
  BY <1>6 DEF NoLegacy
<1>7. ASSUME NEW w \in Workers, LegacyRead(w) PROVE Working'
  BY <1>7 DEF LegacyRead
<1>8. ASSUME NEW w \in Workers, MigrationWritten(w) PROVE Working'
  BY <1>8 DEF MigrationWritten
<1>9. ASSUME NEW w \in Workers, MigrationFails(w) PROVE Working'
  BY <1>9 DEF MigrationFails
<1>10. ASSUME NEW w \in Workers, Unlinked(w) PROVE Working'
  BY <1>10 DEF Unlinked
<1>11. ASSUME NEW w \in Workers, UnlinkFails(w) PROVE Working'
  BY <1>11 DEF UnlinkFails
<1>12. ASSUME NEW w \in Workers, Discarded(w) PROVE Working'
  BY <1>12 DEF Discarded
<1>13. ASSUME NEW w \in Workers, DiscardFails(w) PROVE Working'
  BY <1>13 DEF DiscardFails
<1>14. ASSUME NEW w \in Workers, WriteRecord(w) PROVE Working'
  BY <1>14 DEF WriteRecord
<1>15. ASSUME NEW w \in Workers, WriteFails(w) PROVE Working'
  BY <1>15 DEF WriteFails
<1>16. ASSUME NEW w \in Workers, Remember(w) PROVE Working'
  BY <1>16 DEF Remember
<1>17. ASSUME DropForeign PROVE Working'
  BY <1>17 DEF DropForeign
<1>18. ASSUME NEW p \in Profiles, Play(p) PROVE Working'
  BY <1>18 DEF Play
<1>19. ASSUME NEW p \in Profiles, Seal(p) PROVE Working'
  BY <1>19 DEF Seal
<1>20. ASSUME OpenReport PROVE Working'
  BY <1>20 DEF OpenReport
<1>21. ASSUME LaunchEnds PROVE Working'
  BY <1>21 DEF LaunchEnds
<1>22. ASSUME Upload PROVE Working'
  BY <1>22 DEF Upload
<1>23. ASSUME Dies PROVE Working'
  BY <1>23 DEF Dies
<1>24. ASSUME Damage PROVE Working'
  BY <1>24 DEF Damage
<1>25. CASE UNCHANGED vars
  BY <1>25 DEF vars
<1>26. QED
  BY <1>1, <1>2, <1>3, <1>4, <1>5, <1>6, <1>7, <1>8, <1>9, <1>10, <1>11, <1>12, <1>13,
     <1>14, <1>15, <1>16, <1>17, <1>18, <1>19, <1>20, <1>21, <1>22, <1>23, <1>24, <1>25
     DEF Next
(* The keys in memory follow the record. *)
LEMMA MindKeeps ==
  ASSUME Typed, Phased, Sound, Sound', Stored, Alone, Working, InMind, [Next]_vars
  PROVE  InMind'
<1> USE KeyFacts, KeyAssumption DEF KeyAssumption, Typed, Phased, OpType, NoOp, Slots,
        Stored, Working, Sound, Trouble, Remembers, NoneChosen, At, GoTo, Fails, Loaded,
        Same, SameSession, Migrated, storeVars, Workers, Panels, InMind, Alone, Empty
<1>1. ASSUME NEW b \in BOOLEAN, Start(b) PROVE InMind'
  BY <1>1 DEF Start
<1>2. ASSUME NEW w \in Panels, NEW p \in Profiles, NEW k \in Keys \cup {None},
             Change(w, p, k)
      PROVE InMind'
  BY <1>2 DEF Change
<1>3. ASSUME NEW w \in Workers, ReadRecord(w) PROVE InMind'
  BY <1>3 DEF ReadRecord
<1>4. ASSUME NEW w \in Workers, ReadMissing(w) PROVE InMind'
  BY <1>4 DEF ReadMissing
<1>5. ASSUME NEW w \in Workers, ReadBroken(w) PROVE InMind'
  BY <1>5 DEF ReadBroken
<1>6. ASSUME NEW w \in Workers, NoLegacy(w) PROVE InMind'
  BY <1>6 DEF NoLegacy
<1>7. ASSUME NEW w \in Workers, LegacyRead(w) PROVE InMind'
  BY <1>7 DEF LegacyRead
<1>8. ASSUME NEW w \in Workers, MigrationWritten(w) PROVE InMind'
  BY <1>8 DEF MigrationWritten
<1>9. ASSUME NEW w \in Workers, MigrationFails(w) PROVE InMind'
  BY <1>9 DEF MigrationFails
<1>10. ASSUME NEW w \in Workers, Unlinked(w) PROVE InMind'
  BY <1>10 DEF Unlinked
<1>11. ASSUME NEW w \in Workers, UnlinkFails(w) PROVE InMind'
  BY <1>11 DEF UnlinkFails
<1>12. ASSUME NEW w \in Workers, Discarded(w) PROVE InMind'
  BY <1>12 DEF Discarded
<1>13. ASSUME NEW w \in Workers, DiscardFails(w) PROVE InMind'
  BY <1>13 DEF DiscardFails
<1>14. ASSUME NEW w \in Workers, WriteRecord(w) PROVE InMind'
  BY <1>14 DEF WriteRecord
<1>15. ASSUME NEW w \in Workers, WriteFails(w) PROVE InMind'
  BY <1>15 DEF WriteFails
<1>16. ASSUME NEW w \in Workers, Remember(w) PROVE InMind'
  BY <1>16 DEF Remember
<1>17. ASSUME DropForeign PROVE InMind'
  BY <1>17 DEF DropForeign
<1>18. ASSUME NEW p \in Profiles, Play(p) PROVE InMind'
  BY <1>18 DEF Play
<1>19. ASSUME NEW p \in Profiles, Seal(p) PROVE InMind'
  BY <1>19 DEF Seal
<1>20. ASSUME OpenReport PROVE InMind'
  BY <1>20 DEF OpenReport
<1>21. ASSUME LaunchEnds PROVE InMind'
  BY <1>21 DEF LaunchEnds
<1>22. ASSUME Upload PROVE InMind'
  BY <1>22 DEF Upload
<1>23. ASSUME Dies PROVE InMind'
  BY <1>23 DEF Dies
<1>24. ASSUME Damage PROVE InMind'
  BY <1>24 DEF Damage
<1>25. CASE UNCHANGED vars
  BY <1>25 DEF vars
<1>26. QED
  BY <1>1, <1>2, <1>3, <1>4, <1>5, <1>6, <1>7, <1>8, <1>9, <1>10, <1>11, <1>12, <1>13,
     <1>14, <1>15, <1>16, <1>17, <1>18, <1>19, <1>20, <1>21, <1>22, <1>23, <1>24, <1>25
     DEF Next

(* A launcher at rest knows every key whose choice reached the record. *)
THEOREM KeysTheorem == Spec => []KeysRemembered
<1> DEFINE IInv == Typed /\ Phased /\ Kept
<1>1. Init => IInv
  <2> SUFFICES ASSUME Init PROVE IInv
    OBVIOUS
  <2>1. Typed
    BY KeyFacts DEF Init, Typed, Slots, Keys, OpType
  <2>2. Phased /\ Alone /\ InMind
    BY DEF Init, Phased, Alone, InMind, At, NoOp, Workers, Panels
  <2>3. Stored
    BY KeyFacts, KeyAssumption DEF KeyAssumption, Init, Stored, IsRecord, NoneChosen,
       Empty, Keys
  <2>4. Working
    BY DEF Init, Working, At, NoOp, Workers, Panels
  <2>5. QED
    BY <2>1, <2>2, <2>3, <2>4 DEF Kept
<1>2. IInv /\ [Next]_vars => IInv'
  <2> SUFFICES ASSUME IInv, [Next]_vars PROVE IInv'
    OBVIOUS
  <2>1. Sound' => "overlap" \notin troubles'
    BY DEF Sound
  <2>2. QED
    BY <2>1, TypeKeeps, PhaseKeeps, SoundOnce, AloneKeeps, StoredKeeps, WorkingKeeps,
       MindKeeps DEF Kept
<1>3. IInv => KeysRemembered
  BY KeyFacts DEF Typed, Kept, Sound, Stored, InMind, KeysRemembered, Settled, Busy,
     Remembers,
     NoneChosen, At
<1>4. QED
  BY <1>1, <1>2, <1>3, PTL DEF Spec

(***************************************************************************)
(* A key that was removed stays removed.                                   *)
(***************************************************************************)
Trusted == troubles \cap {"overlap", "leftover"} = {}
Own(slots) == \A p \in Profiles : slots[p] \in {None, chosen[p]}
OwnOrForeign(slots) == \A p \in Profiles : slots[p] \in {None, Foreign, chosen[p]}

(* The record has no key that was not chosen; the older launcher's key is
   beside it only until its migration ends, and else it is what was chosen. *)
OnFile ==
  /\ IsRecord(record) => OwnOrForeign(record)
  /\ legacy \in Keys =>
       IF IsRecord(record)
         THEN \E w \in Workers : op[w].pc \in {"unlink", "discard"}
         ELSE legacy = chosen[Primary]

(* What an operation has read has no other key either. *)
Reading ==
  \A w \in Workers :
    /\ op[w].pc \in {"legacy", "migrate"} => ~IsRecord(record)
    /\ At(w, "migrate") => /\ op[w].next = [Empty EXCEPT ![Primary] = legacy]
                           /\ legacy \in Keys
    /\ At(w, "unlink") => Own(op[w].next)
    /\ op[w].pc \in {"reread", "write"} => legacy \notin Keys
    /\ w \in Panels /\ At(w, "write") => /\ OwnOrForeign(op[w].next)
                                         /\ IsRecord(record) => record = op[w].next
    /\ w = "load" /\ At(w, "write") => Own(op[w].next)
    /\ At(w, "remember") => op[w].key = chosen[op[w].profile]
    /\ w = "load" => op[w].pc \notin {"reread", "remember"}

(* Nor has the launcher, but for the one it is about to replace. *)
NoOtherKey ==
  /\ up # "up" => keys = Empty
  /\ up = "up" =>
       \A p \in Profiles :
         \/ keys[p] \in {None, chosen[p]}
         \/ \E w \in Panels : At(w, "remember") /\ op[w].profile = p

OnlyChosen == Trusted => OnFile /\ Alone /\ Reading /\ NoOtherKey

(* Once an old key may come back, it may for good. *)
LEMMA TrustedOnce == ASSUME [Next]_vars, Trusted' PROVE Trusted
BY DEF Next, vars, Trusted, Trouble, Start, Change, ReadRecord, ReadMissing, ReadBroken,
   NoLegacy, LegacyRead, MigrationWritten, MigrationFails, Unlinked, UnlinkFails,
   Discarded, DiscardFails, WriteRecord, WriteFails, Remember, DropForeign, Play, Seal,
   OpenReport, LaunchEnds, Upload, Dies, Damage

(* No key comes back onto the disk. *)
LEMMA FileKeeps ==
  ASSUME Typed, Phased, Trusted, Trusted', OnFile, Alone, Reading, [Next]_vars
  PROVE  OnFile'
<1> USE KeyFacts, KeyAssumption DEF KeyAssumption, Typed, Phased, OpType, NoOp, Slots,
        Trusted, Own, OwnOrForeign, Trouble, At, GoTo, Fails, Loaded, Same, SameSession,
        Migrated, storeVars, Workers, Panels, OnFile, Reading, Alone
<1>1. ASSUME NEW b \in BOOLEAN, Start(b) PROVE OnFile'
  BY <1>1 DEF Start
<1>2. ASSUME NEW w \in Panels, NEW p \in Profiles, NEW k \in Keys \cup {None},
             Change(w, p, k)
      PROVE OnFile'
  BY <1>2 DEF Change
<1>3. ASSUME NEW w \in Workers, ReadRecord(w) PROVE OnFile'
  BY <1>3 DEF ReadRecord
<1>4. ASSUME NEW w \in Workers, ReadMissing(w) PROVE OnFile'
  BY <1>4 DEF ReadMissing
<1>5. ASSUME NEW w \in Workers, ReadBroken(w) PROVE OnFile'
  BY <1>5 DEF ReadBroken, IsRecord
<1>6. ASSUME NEW w \in Workers, NoLegacy(w) PROVE OnFile'
  BY <1>6 DEF NoLegacy
<1>7. ASSUME NEW w \in Workers, LegacyRead(w) PROVE OnFile'
  BY <1>7 DEF LegacyRead
<1>8. ASSUME NEW w \in Workers, MigrationWritten(w) PROVE OnFile'
  BY <1>8 DEF MigrationWritten, Empty
<1>9. ASSUME NEW w \in Workers, MigrationFails(w) PROVE OnFile'
  BY <1>9 DEF MigrationFails
<1>10. ASSUME NEW w \in Workers, Unlinked(w) PROVE OnFile'
  BY <1>10 DEF Unlinked
<1>11. ASSUME NEW w \in Workers, UnlinkFails(w) PROVE OnFile'
  BY <1>11 DEF UnlinkFails
<1>12. ASSUME NEW w \in Workers, Discarded(w) PROVE OnFile'
  BY <1>12 DEF Discarded
<1>13. ASSUME NEW w \in Workers, DiscardFails(w) PROVE OnFile'
  BY <1>13 DEF DiscardFails
<1>14. ASSUME NEW w \in Workers, WriteRecord(w) PROVE OnFile'
  BY <1>14 DEF WriteRecord
<1>15. ASSUME NEW w \in Workers, WriteFails(w) PROVE OnFile'
  BY <1>15 DEF WriteFails
<1>16. ASSUME NEW w \in Workers, Remember(w) PROVE OnFile'
  BY <1>16 DEF Remember
<1>17. ASSUME DropForeign PROVE OnFile'
  <2>1. /\ record' \in {record, op["load"].next} /\ Own(op["load"].next)
        /\ legacy \notin Keys /\ UNCHANGED <<legacy, chosen>>
    BY <1>17 DEF DropForeign
  <2>2. QED
    BY <2>1
<1>18. ASSUME NEW p \in Profiles, Play(p) PROVE OnFile'
  BY <1>18 DEF Play
<1>19. ASSUME NEW p \in Profiles, Seal(p) PROVE OnFile'
  BY <1>19 DEF Seal, IsRecord
<1>20. ASSUME OpenReport PROVE OnFile'
  BY <1>20 DEF OpenReport
<1>21. ASSUME LaunchEnds PROVE OnFile'
  BY <1>21 DEF LaunchEnds
<1>22. ASSUME Upload PROVE OnFile'
  BY <1>22 DEF Upload
<1>23. ASSUME Dies PROVE OnFile'
  BY <1>23 DEF Dies
<1>24. ASSUME Damage PROVE OnFile'
  BY <1>24 DEF Damage, Empty, IsRecord
<1>25. CASE UNCHANGED vars
  BY <1>25 DEF vars
<1>26. QED
  BY <1>1, <1>2, <1>3, <1>4, <1>5, <1>6, <1>7, <1>8, <1>9, <1>10, <1>11, <1>12, <1>13,
     <1>14, <1>15, <1>16, <1>17, <1>18, <1>19, <1>20, <1>21, <1>22, <1>23, <1>24, <1>25
     DEF Next

(* No operation brings one back. *)
LEMMA ReadingKeeps ==
  ASSUME Typed, Phased, Trusted, Trusted', OnFile, Alone, Reading, [Next]_vars
  PROVE  Reading'
<1> USE KeyFacts, KeyAssumption DEF KeyAssumption, Typed, Phased, OpType, NoOp, Slots,
        Trusted, Own, OwnOrForeign, Trouble, At, GoTo, Fails, Loaded, Same, SameSession,
        Migrated, storeVars, Workers, Panels, OnFile, Reading, Alone, Empty
<1>1. ASSUME NEW b \in BOOLEAN, Start(b) PROVE Reading'
  BY <1>1 DEF Start
<1>2. ASSUME NEW w \in Panels, NEW p \in Profiles, NEW k \in Keys \cup {None},
             Change(w, p, k)
      PROVE Reading'
  BY <1>2 DEF Change
<1>3. ASSUME NEW w \in Workers, ReadRecord(w) PROVE Reading'
  BY <1>3 DEF ReadRecord, Survivors
<1>4. ASSUME NEW w \in Workers, ReadMissing(w) PROVE Reading'
  BY <1>4 DEF ReadMissing, IsRecord
<1>5. ASSUME NEW w \in Workers, ReadBroken(w) PROVE Reading'
  BY <1>5 DEF ReadBroken, IsRecord
<1>6. ASSUME NEW w \in Workers, NoLegacy(w) PROVE Reading'
  BY <1>6 DEF NoLegacy
<1>7. ASSUME NEW w \in Workers, LegacyRead(w) PROVE Reading'
  BY <1>7 DEF LegacyRead
<1>8. ASSUME NEW w \in Workers, MigrationWritten(w) PROVE Reading'
  BY <1>8 DEF MigrationWritten
<1>9. ASSUME NEW w \in Workers, MigrationFails(w) PROVE Reading'
  BY <1>9 DEF MigrationFails
<1>10. ASSUME NEW w \in Workers, Unlinked(w) PROVE Reading'
  BY <1>10 DEF Unlinked
<1>11. ASSUME NEW w \in Workers, UnlinkFails(w) PROVE Reading'
  BY <1>11 DEF UnlinkFails
<1>12. ASSUME NEW w \in Workers, Discarded(w) PROVE Reading'
  BY <1>12 DEF Discarded
<1>13. ASSUME NEW w \in Workers, DiscardFails(w) PROVE Reading'
  BY <1>13 DEF DiscardFails
<1>14. ASSUME NEW w \in Workers, WriteRecord(w) PROVE Reading'
  BY <1>14 DEF WriteRecord
<1>15. ASSUME NEW w \in Workers, WriteFails(w) PROVE Reading'
  BY <1>15 DEF WriteFails
<1>16. ASSUME NEW w \in Workers, Remember(w) PROVE Reading'
  BY <1>16 DEF Remember
<1>17. ASSUME DropForeign PROVE Reading'
  BY <1>17 DEF DropForeign
<1>18. ASSUME NEW p \in Profiles, Play(p) PROVE Reading'
  BY <1>18 DEF Play
<1>19. ASSUME NEW p \in Profiles, Seal(p) PROVE Reading'
  BY <1>19 DEF Seal
<1>20. ASSUME OpenReport PROVE Reading'
  BY <1>20 DEF OpenReport
<1>21. ASSUME LaunchEnds PROVE Reading'
  BY <1>21 DEF LaunchEnds
<1>22. ASSUME Upload PROVE Reading'
  BY <1>22 DEF Upload
<1>23. ASSUME Dies PROVE Reading'
  BY <1>23 DEF Dies
<1>24. ASSUME Damage PROVE Reading'
  BY <1>24 DEF Damage
<1>25. CASE UNCHANGED vars
  BY <1>25 DEF vars
<1>26. QED
  BY <1>1, <1>2, <1>3, <1>4, <1>5, <1>6, <1>7, <1>8, <1>9, <1>10, <1>11, <1>12, <1>13,
     <1>14, <1>15, <1>16, <1>17, <1>18, <1>19, <1>20, <1>21, <1>22, <1>23, <1>24, <1>25
     DEF Next

(* Nor does the launcher take one to mind. *)
LEMMA NoOtherKeeps ==
  ASSUME Typed, Phased, Trusted, Trusted', OnFile, Alone, Reading, NoOtherKey, [Next]_vars
  PROVE  NoOtherKey'
<1> USE KeyFacts, KeyAssumption DEF KeyAssumption, Typed, Phased, OpType, NoOp, Slots,
        Trusted, Own, OwnOrForeign, Trouble, At, GoTo, Fails, Loaded, Same, SameSession,
        Migrated, storeVars, Workers, Panels,
        OnFile, Reading, Alone, NoOtherKey, Empty
<1>1. ASSUME NEW b \in BOOLEAN, Start(b) PROVE NoOtherKey'
  BY <1>1 DEF Start
<1>2. ASSUME NEW w \in Panels, NEW p \in Profiles, NEW k \in Keys \cup {None},
             Change(w, p, k)
      PROVE NoOtherKey'
  BY <1>2 DEF Change
<1>3. ASSUME NEW w \in Workers, ReadRecord(w) PROVE NoOtherKey'
  BY <1>3 DEF ReadRecord, Survivors
<1>4. ASSUME NEW w \in Workers, ReadMissing(w) PROVE NoOtherKey'
  BY <1>4 DEF ReadMissing
<1>5. ASSUME NEW w \in Workers, ReadBroken(w) PROVE NoOtherKey'
  BY <1>5 DEF ReadBroken
<1>6. ASSUME NEW w \in Workers, NoLegacy(w) PROVE NoOtherKey'
  BY <1>6 DEF NoLegacy
<1>7. ASSUME NEW w \in Workers, LegacyRead(w) PROVE NoOtherKey'
  BY <1>7 DEF LegacyRead
<1>8. ASSUME NEW w \in Workers, MigrationWritten(w) PROVE NoOtherKey'
  BY <1>8 DEF MigrationWritten
<1>9. ASSUME NEW w \in Workers, MigrationFails(w) PROVE NoOtherKey'
  BY <1>9 DEF MigrationFails
<1>10. ASSUME NEW w \in Workers, Unlinked(w) PROVE NoOtherKey'
  BY <1>10 DEF Unlinked
<1>11. ASSUME NEW w \in Workers, UnlinkFails(w) PROVE NoOtherKey'
  BY <1>11 DEF UnlinkFails
<1>12. ASSUME NEW w \in Workers, Discarded(w) PROVE NoOtherKey'
  BY <1>12 DEF Discarded
<1>13. ASSUME NEW w \in Workers, DiscardFails(w) PROVE NoOtherKey'
  BY <1>13 DEF DiscardFails
<1>14. ASSUME NEW w \in Workers, WriteRecord(w) PROVE NoOtherKey'
  BY <1>14 DEF WriteRecord
<1>15. ASSUME NEW w \in Workers, WriteFails(w) PROVE NoOtherKey'
  BY <1>15 DEF WriteFails
<1>16. ASSUME NEW w \in Workers, Remember(w) PROVE NoOtherKey'
  BY <1>16 DEF Remember
<1>17. ASSUME DropForeign PROVE NoOtherKey'
  BY <1>17 DEF DropForeign
<1>18. ASSUME NEW p \in Profiles, Play(p) PROVE NoOtherKey'
  BY <1>18 DEF Play
<1>19. ASSUME NEW p \in Profiles, Seal(p) PROVE NoOtherKey'
  BY <1>19 DEF Seal
<1>20. ASSUME OpenReport PROVE NoOtherKey'
  BY <1>20 DEF OpenReport
<1>21. ASSUME LaunchEnds PROVE NoOtherKey'
  BY <1>21 DEF LaunchEnds
<1>22. ASSUME Upload PROVE NoOtherKey'
  BY <1>22 DEF Upload
<1>23. ASSUME Dies PROVE NoOtherKey'
  BY <1>23 DEF Dies
<1>24. ASSUME Damage PROVE NoOtherKey'
  BY <1>24 DEF Damage
<1>25. CASE UNCHANGED vars
  BY <1>25 DEF vars
<1>26. QED
  BY <1>1, <1>2, <1>3, <1>4, <1>5, <1>6, <1>7, <1>8, <1>9, <1>10, <1>11, <1>12, <1>13,
     <1>14, <1>15, <1>16, <1>17, <1>18, <1>19, <1>20, <1>21, <1>22, <1>23, <1>24, <1>25
     DEF Next

(* A key that was removed, or lost with its record, is not used again until it is
   entered again (player-key-store.ts clear, migrateLegacy). *)
THEOREM ClearedTheorem == Spec => []ClearedStaysCleared
<1> DEFINE IInv == Typed /\ Phased /\ OnlyChosen
<1>1. Init => IInv
  <2> SUFFICES ASSUME Init PROVE IInv
    OBVIOUS
  <2>1. Typed
    BY KeyFacts DEF Init, Typed, Slots, Keys, OpType
  <2>2. Phased /\ Alone
    BY DEF Init, Phased, Alone, At, NoOp, Workers, Panels
  <2>3. OnFile /\ NoOtherKey
    BY KeyFacts, KeyAssumption DEF KeyAssumption, Init, OnFile, NoOtherKey, IsRecord,
       Empty, Keys
  <2>4. Reading
    BY DEF Init, Reading, At, NoOp, Workers, Panels
  <2>5. QED
    BY <2>1, <2>2, <2>3, <2>4 DEF OnlyChosen
<1>2. IInv /\ [Next]_vars => IInv'
  <2> SUFFICES ASSUME IInv, [Next]_vars PROVE IInv'
    OBVIOUS
  <2>1. Trusted' => "overlap" \notin troubles'
    BY DEF Trusted
  <2>2. QED
    BY <2>1, TypeKeeps, PhaseKeeps, TrustedOnce, AloneKeeps, FileKeeps, ReadingKeeps,
       NoOtherKeeps DEF OnlyChosen
<1>3. IInv => ClearedStaysCleared
  BY DEF OnlyChosen, Trusted, NoOtherKey, ClearedStaysCleared, Busy, At
<1>4. QED
  BY <1>1, <1>2, <1>3, PTL DEF Spec
==============================================================================
