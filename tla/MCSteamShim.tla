---------------------------- MODULE MCSteamShim ----------------------------
(* Two partners, one of whom changes the look, and a frame without any. *)
EXTENDS SteamShimProps

CONSTANTS m, n, a, b

MCFrames == << [member |-> m, look |-> a], [member |-> m, look |-> b],
               [member |-> None, look |-> None], [member |-> n, look |-> a] >>
=============================================================================
