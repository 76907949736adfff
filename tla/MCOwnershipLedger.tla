------------------------- MODULE MCOwnershipLedger -------------------------
(* Instances of OwnershipLedger for TLC.                                   *)
EXTENDS OwnershipLedger, TLC

CONSTANTS a, b, c

(* The third daemon gets the pid of the first.                             *)
ReusedPid == a :> 1 @@ b :> 2 @@ c :> 1

(* Rows are alike.                                                         *)
Symmetric == Permutations(Session)
=============================================================================
