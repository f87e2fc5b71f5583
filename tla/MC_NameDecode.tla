---------------------------- MODULE MC_NameDecode ----------------------------
EXTENDS NameDecode

(* Every label takes at least two bytes, so a correct decoder never holds  *)
(* more than MaxLen labels; the bound only cuts a looping decoder.         *)
LabelBound == Len(labels) <= MaxLen

=============================================================================
