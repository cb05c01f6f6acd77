---------------------------- MODULE MCCrouchBlend ----------------------------
(***************************************************************************)
(* Two threads, two entries, three networks that share one hint.           *)
(***************************************************************************)
EXTENDS CrouchBlendProps, TLC

CONSTANTS t1, t2, a, b, c

MCThreads  == {t1, t2}
MCNetworks == {a, b, c}
MCBuckets  == {1}
MCBucket   == [n \in MCNetworks |-> 1]

(* Nothing tells two threads or two networks apart *)
Symmetry == Permutations(MCThreads) \cup Permutations(MCNetworks)
==============================================================================
