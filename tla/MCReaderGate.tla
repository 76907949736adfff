---------------------------- MODULE MCReaderGate ----------------------------
(***************************************************************************)
(* ReaderGate with three chunks and two sweeps: the second sweep can park  *)
(* the reader while it is still on its way out of the first park.          *)
(***************************************************************************)
EXTENDS ReaderGate
=============================================================================
