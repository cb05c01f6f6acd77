----------------------------- MODULE MCAttestation -----------------------------
(* A pack the feed replaces, the voice proxy, the patch file, which nobody
   declares in a clean client, and the player's settings; a second build that
   only the server knows. *)
EXTENDS AttestationProps

MCPaths == {"pack", "vivox", "dinput8", "settings"}
MCVersions == {"stock", "feed", "other", "vanilla", "proxy", "patch", "mod",
               "defaults", "player"}
(* The other pack has the size of the stock one and the date of the feed's *)
MCStamp == [v \in MCVersions |->
             [size |-> IF v \in {"stock", "other"} THEN 1 ELSE 2,
              mtimeMs |-> CASE v \in {"feed", "other"} -> 2
                            [] v = "vanilla" -> 3 [] v = "proxy" -> 4
                            [] v = "patch" -> 5 [] v = "mod" -> 6
                            [] v = "defaults" -> 7 [] v = "player" -> 8
                            [] OTHER -> 1]]
MCDigest == [v \in MCVersions |-> v]
MCPristine == [b \in {"b1", "b2"} |->
                [pack |-> IF b = "b1" THEN "stock" ELSE "feed",
                 vivox |-> "vanilla", settings |-> "defaults"]]
MCArtifacts == [vivox |-> "proxy", dinput8 |-> "patch"]
MCLedgers == {[p \in {} |-> "feed"], [p \in {"pack"} |-> "feed"]}
MCOutside == {<<"pack", "other">>, <<"pack", "stock">>,
              <<"dinput8", "mod">>, <<"dinput8", Absent>>}
MCPlayerFiles == [settings |-> "player"]
================================================================================
