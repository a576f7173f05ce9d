-------------------------- MODULE MCArtifactTransfer --------------------------
(***************************************************************************)
(* Model-checks ArtifactTransfer; the configuration gives its constants.   *)
(***************************************************************************)
EXTENDS ArtifactTransfer
=============================================================================
