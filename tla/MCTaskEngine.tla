---------------------------- MODULE MCTaskEngine ----------------------------
(***************************************************************************)
(* Constants for model-checking TaskEngine.                                *)
(***************************************************************************)
EXTENDS TaskEngine

NoFaults == {}
RestartOnly == {"restart"}
=============================================================================
