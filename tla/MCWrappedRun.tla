---------------------------- MODULE MCWrappedRun ----------------------------
(***************************************************************************)
(* Model-checks WrappedRun; the configuration gives its constants.         *)
(***************************************************************************)
EXTENDS WrappedRun
=============================================================================
