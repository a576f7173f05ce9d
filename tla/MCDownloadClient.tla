--------------------------- MODULE MCDownloadClient ---------------------------
(***************************************************************************)
(* Constants for model-checking DownloadClient.                            *)
(***************************************************************************)
EXTENDS DownloadClient

NoFaults == {}
=============================================================================
