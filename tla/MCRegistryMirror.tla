-------------------------- MODULE MCRegistryMirror --------------------------
(***************************************************************************)
(* Constants for model-checking RegistryMirror.                            *)
(***************************************************************************)
EXTENDS RegistryMirror

CONSTANT R1  \* the repository of which more than blobs are asked for

\* Every page has a second origin to fall back on.
TwoOrigins == [p \in Index |-> 2]

\* The index pages and the registry share nothing, so they need not be asked
\* for together.  Of the registry: everything of one repository, and of the
\* others the blobs, with which they meet the flights of the first.
SomeLoads ==
  {Index,
   {TagOf(R1), HeadOf(R1)} \cup {HeadBlobOf(<<R1, d>>) : d \in Digest}
     \cup {BlobOf(b) : b \in Blob}}
=============================================================================
