--------------------------- MODULE MCProfileLock ---------------------------
(***************************************************************************)
(* ProfileLock with two processes of the user's GUI, which may also be one *)
(* GUI before and after its restart, and two Shadows.                      *)
(***************************************************************************)
EXTENDS ProfileLock, TLC

Symmetric == Permutations(Active) \cup Permutations(Shadow)
=============================================================================
