---------------------------- MODULE MCResumeFiles ----------------------------
(***************************************************************************)
(* Constants for model-checking ResumeFiles: two versions of one size, for *)
(* which a meta file of one passes for the other's, and a small one that   *)
(* is always streamed.                                                     *)
(***************************************************************************)
EXTENDS ResumeFiles, TLC

CONSTANTS v1, v2, v3

Three == {v1, v2, v3}
SizeOfThree == v1 :> 2 @@ v2 :> 2 @@ v3 :> 1

\* Content that never changes.
One == {v1}
SizeOfOne == v1 :> 2
=============================================================================
