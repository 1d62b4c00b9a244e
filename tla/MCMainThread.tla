---------------------------- MODULE MCMainThread ----------------------------
(* Instances of MainThread for TLC.                                          *)
EXTENDS MainThread
=============================================================================
