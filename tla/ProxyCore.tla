------------------------------- MODULE ProxyCore -------------------------------
(***************************************************************************)
(* The upstream proxy of the server: internal/server/proxycore runs        *)
(* sing-box as a child process (Manager), and internal/upstreamproxy       *)
(* reaches targets through it.  With a core App.New makes it the upstream  *)
(* of the executor and of the tunnel.  An upstream that somebody else runs *)
(* behaves like a core that is never killed.                               *)
(***************************************************************************)

VARIABLE core  \* the child: not wanted, not yet started, running, or over

CoreTypeOK == core \in {"off", "new", "running", "exited", "killed"}

CoreInit == core \in {"off", "new"}

Upstream == core # "off"

\* Start.
StartCore == core = "new" /\ core' = "running"

\* WaitReady: the port answers before the time is over, and the child has not
\* been seen to exit.
WaitReady == core = "running" /\ UNCHANGED core

\* The child ends by itself; nobody starts it again.
CoreExits == core = "running" /\ core' = "exited"

\* Stop kills a child that has not exited, and waits for it.
Killed(c) == IF c = "running" THEN "killed" ELSE c

\* CONNECT is answered only by a child that runs.
Accepts == core = "running"
=============================================================================
