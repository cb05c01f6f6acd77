---------------------------- MODULE PlayerKeysProps ----------------------------
(***************************************************************************)
(* What the keys of a player promise.                                      *)
(***************************************************************************)
EXTENDS PlayerKeys

Settled == up = "up" /\ available /\ ~Busy

(* player-key-store.ts:123, "keeps a save() that precedes any load() from
   overwriting a key", and :88, "Drop that slot ... and keep the others": a
   launcher at rest knows every key whose choice reached the record, the older
   launcher's included, across crashes, failed writes, damaged files and keys
   of another account.  Two changes at once may cost one, and so may a migration
   whose write or whose removal fails. *)
KeysRemembered ==
  Settled /\ troubles \cap {"overlap", "migration"} = {} =>
    \A p \in Profiles : chosen[p] # None => keys[p] = chosen[p] /\ record[p] = chosen[p]

(* A key that was removed, or lost with its record, is used again only when it
   was entered again: neither the record nor the older launcher's file brings it
   back, unless that file could not be removed, or two changes overlapped. *)
ClearedStaysCleared ==
  up = "up" /\ ~Busy /\ troubles \cap {"overlap", "leftover"} = {} =>
    \A p \in Profiles : keys[p] \in {None, chosen[p]}

(* main.ts:1343, "Diagnostic account changed": a report is sent under the key
   that its game was launched with, whatever was set, removed or restored in
   between, if no change of that key was pending when Play was pressed. *)
ReportUnderItsCredential ==
  session.stage = "sent" /\ session.settled => session.sent = session.credential
==============================================================================
