------------------------------ MODULE MCRteRing -----------------------------
(* Model of the ring for TLC.                                              *)
EXTENDS RteRing
=============================================================================
