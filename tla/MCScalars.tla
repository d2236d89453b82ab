----------------------------- MODULE MCScalars -----------------------------
(* Small instances of Scalars for TLC. *)
EXTENDS Scalars

\* With Base = 2 an int64 has 8 bits, and 127 is the largest.
MCTexts == {<<>>, Glyph("word", 0), Glyph("loose", 127), Glyph("plain", 128)}
MCIntRange == {126, 127, -128}
=============================================================================
