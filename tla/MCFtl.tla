------------------------------- MODULE MCFtl --------------------------------
(* Model of the FTL for TLC. The geometries come from the .cfg files.      *)
EXTENDS Ftl
=============================================================================
