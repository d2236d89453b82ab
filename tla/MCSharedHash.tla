---------------------------- MODULE MCSharedHash ----------------------------
(* Small instances of SharedHash for TLC. *)
EXTENDS SharedHash, TLC

CONSTANTS f1, f2, f3, f4, f5

\* f1 and f2 collide in tables of up to 8 buckets, where their chain wraps
\* around the end; all five fields crowd the smaller tables.
MCHash == f1 :> 7 @@ f2 :> 15 @@ f3 :> 2 @@ f4 :> 4 @@ f5 :> 13
=============================================================================
