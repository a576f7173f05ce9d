----------------------------- MODULE TaskStatus -----------------------------
(***************************************************************************)
(* The life-cycle graph of a cache task (internal/transfer/tasks/state.go) *)
(*                                                                         *)
(*   queued -> downloading -> downloaded -> uploading -> registering       *)
(*          -> ready,  any active status -> failed -> downloading | dead   *)
(***************************************************************************)

Status == {"queued", "downloading", "downloaded", "uploading", "registering",
           "ready", "failed", "dead"}

\* The allowed edges; ready and dead have no successor.
transitions ==
  [queued      |-> {"downloading"},
   downloading |-> {"downloaded", "failed"},
   downloaded  |-> {"uploading", "failed"},
   uploading   |-> {"registering", "failed"},
   registering |-> {"ready", "failed"},
   failed      |-> {"downloading", "dead"},
   ready       |-> {},
   dead        |-> {}]

Can(from, to) == to \in transitions[from]

Terminal(s) == s \in {"ready", "dead"}

\* The statuses Resolve answers with while somebody is expected to work on
\* the task.
InProgress == {"queued", "downloading", "downloaded", "uploading",
               "registering"}
=============================================================================
