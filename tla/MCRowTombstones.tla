-------------------------- MODULE MCRowTombstones --------------------------
(***************************************************************************)
(* Two daemons share the remembered close of one row; a close lives two    *)
(* ticks and is renewed from the first on.                                 *)
(***************************************************************************)
EXTENDS RowTombstones, TLC

CONSTANTS d1, d2, r1

MCDaemon == {d1, d2}
MCRow == {r1}
MCSymmetry == Permutations(MCDaemon)
=============================================================================
