----------------------------- MODULE MCAssetSync -----------------------------
(***************************************************************************)
(* A client with two vanilla files, ui and bank.  The feed first publishes *)
(* the zip pack, which overwrites ui and adds map, and the standalone file *)
(* voice over bank; version 2 of pack drops map; then nothing is listed.   *)
(***************************************************************************)
EXTENDS AssetSyncProps, Naturals, FiniteSets

CONSTANTS ui, bank, map, pack, voice, v1, v2

MCFiles    == {ui, bank, map}
MCAssets   == {pack, voice}
MCVersions == {v1, v2}
MCFilesOf  ==
  [a \in MCAssets |->
     [v \in MCVersions |->
        CASE a = voice -> {bank}
          [] a = pack  -> IF v = v1 THEN {ui, map} ELSE {ui}]]

Listing(p, v) == [a \in MCAssets |-> IF a = pack THEN p ELSE v]

MCManifests == {Listing(v1, v1), Listing(v2, v1), Listing(Absent, v1),
                Listing(Absent, Absent)}

MCZips         == {pack}
MCVanillaFiles == {ui, bank}
MCSameSize     == {ui}

(* Bound: behaviours are followed until a second kind of mishap happens. *)
FewMishaps == Cardinality(mishaps) <= 2 /\ "overlap" \notin mishaps
==============================================================================
