---------------------------- MODULE MCDirtyRing ----------------------------
(* Small instances of DirtyRing for TLC. *)
EXTENDS DirtyRing, TLC

CONSTANTS b1, b2

MCBackends == {b1, b2}
MCSymmetry == Permutations(MCBackends)
=============================================================================
