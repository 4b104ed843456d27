-------------------------------- MODULE MCRas --------------------------------
(***************************************************************************)
(* The ring of eight entries: it fills, wraps and overwrites.              *)
(***************************************************************************)
EXTENDS Ras

MCLink == 0 .. 1
=============================================================================
