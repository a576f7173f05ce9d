----------------------------- MODULE MCControlAPI -----------------------------
(***************************************************************************)
(* Constants for model-checking ControlAPI.                                *)
(***************************************************************************)
EXTENDS ControlAPI, TLC

TokenSaveAndRestart == {"save", "restart"}

\* Devices and callers are interchangeable.
Interchangeable == Permutations(Device) \cup Permutations(Caller)
=============================================================================
