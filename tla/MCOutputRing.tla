---------------------------- MODULE MCOutputRing ----------------------------
(***************************************************************************)
(* OutputRing with five chunk numbers and a ring of two, one idle: the     *)
(* ring trims below a client's cursor, and two contract lines fit between  *)
(* PTY chunks.                                                             *)
(***************************************************************************)
EXTENDS OutputRing
=============================================================================
