----------------------------- MODULE MCPlayerKeys -----------------------------
(***************************************************************************)
(* Two profiles, two keys for the one that an older key is migrated into.  *)
(***************************************************************************)
EXTENDS PlayerKeysProps

CONSTANTS player, admin, first, second, moderator

MCProfiles == {player, admin}
MCKeysOf   == [p \in MCProfiles |-> IF p = player THEN {first, second} ELSE {moderator}]
==============================================================================
