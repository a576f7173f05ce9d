------------------------- MODULE MCChunkedDownload -------------------------
(***************************************************************************)
(* Constants for model-checking ChunkedDownload.                           *)
(***************************************************************************)
EXTENDS ChunkedDownload

AllFaults == {"retry", "expired", "fatal", "save", "cancel", "kill"}
=============================================================================
