---------------------------- MODULE MCPtyHandoff ----------------------------
(* Instances of PtyHandoff for TLC.                                         *)
EXTENDS PtyHandoff, TLC

Symmetry == Permutations(Key)
=============================================================================
