------------------------- MODULE MCHotRestartQueue -------------------------
(* Instances of HotRestartQueue for TLC.                                   *)
EXTENDS HotRestartQueue, TLC

CONSTANTS a, b, c

(* A daemon of each version.                                               *)
Versions == a :> 1 @@ b :> 2 @@ c :> 3

(* The two older ones. *)
TwoVersions == a :> 1 @@ b :> 2

(* The oldest alone. *)
OneVersion == a :> 1
=============================================================================
