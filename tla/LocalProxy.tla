----------------------------- MODULE LocalProxy -----------------------------
(***************************************************************************)
(* The client's local proxy, internal/client/proxy: the accept loop, one   *)
(* goroutine per connection with its two pumps, and Stop, which waits for  *)
(* them.  Where a connection goes is the subject of Egress; here it is     *)
(* dialled or it is not, and may hang for as long as nothing bounds it.    *)
(***************************************************************************)
EXTENDS Naturals, FiniteSets

CONSTANT Conn  \* connections that are made

\* The accept loop is in one of its own states, or has a connection in hand.
ASSUME ConnAssumption == {"accept", "over"} \cap Conn = {}

VARIABLES
  listener,  \* the listener is open
  queue,     \* connections the system has accepted and Accept not yet returned
  loop,      \* the accept loop: "accept", "over", or the connection in hand
  wg,        \* connections activeWG counts
  handler,   \* handler[c]: the step of handleConn
  pumps,     \* pumps[c]: the directions whose copyDir still runs
  stop,      \* Stop
  late       \* connections accepted after Stop had returned with all done

proxyVars == <<listener, queue, loop, wg, handler, pumps, stop, late>>

Dir == {"in", "out"}

\* The goroutine of a connection is in handleConn.
Handled == {"read", "dial", "relay", "pump", "ending"}
Running(c) == handler[c] \in Handled

ProxyInit ==
  /\ listener = TRUE
  /\ queue = {}
  /\ loop = "accept"
  /\ wg = {}
  /\ handler = [c \in Conn |-> "none"]
  /\ pumps = [c \in Conn |-> {}]
  /\ stop = "no"
  /\ late = {}

-----------------------------------------------------------------------------
(* acceptLoop *)

Connect(c) ==
  /\ listener /\ handler[c] = "none" /\ c \notin queue
  /\ queue' = queue \cup {c}
  /\ UNCHANGED <<listener, loop, wg, handler, pumps, stop, late>>

Accept(c) ==
  /\ listener /\ loop = "accept" /\ c \in queue
  /\ queue' = queue \ {c}
  /\ loop' = c
  /\ handler' = [handler EXCEPT ![c] = "accepted"]
  /\ UNCHANGED <<listener, wg, pumps, stop, late>>

\* MUTANT of Count: the goroutine is started and not counted.
CountNothing(c) ==
  /\ loop = c
  /\ UNCHANGED wg
  /\ handler' = [handler EXCEPT ![c] = "read"]
  /\ late' = IF stop = "drained" THEN late \cup {c} ELSE late
  /\ loop' = "accept"
  /\ UNCHANGED <<listener, queue, pumps, stop>>

\* activeWG.Add(1) and the goroutine; Stop may have returned meanwhile.
Count(c) ==
  /\ loop = c
  /\ wg' = wg \cup {c}
  /\ handler' = [handler EXCEPT ![c] = "read"]
  /\ late' = IF stop = "drained" THEN late \cup {c} ELSE late
  /\ loop' = "accept"
  /\ UNCHANGED <<listener, queue, pumps, stop>>

\* Accept fails for good once the listener is closed.
LoopEnds ==
  /\ loop = "accept" /\ ~ listener
  /\ loop' = "over"
  /\ UNCHANGED <<listener, queue, wg, handler, pumps, stop, late>>

-----------------------------------------------------------------------------
(* handleConn *)

Step(c, from, to) ==
  /\ handler[c] = from
  /\ handler' = [handler EXCEPT ![c] = to]
  /\ UNCHANGED <<listener, queue, loop, wg, pumps, stop, late>>

\* The connection is closed and activeWG.Done called.
End(c, from) ==
  /\ handler[c] = from
  /\ handler' = [handler EXCEPT ![c] = "closed"]
  /\ wg' = wg \ {c}
  /\ UNCHANGED <<listener, queue, loop, pumps, stop, late>>

\* The request line, within the idle time-out of the client's side: a request
\* for a tunnel or a plain one, which is dialled, or something that is
\* answered by an error (the proxy's own port among it).
ReadRequest(c) == Step(c, "read", "dial") \/ End(c, "read")

\* connectUpstream; neither the dial of the tunnel's TLS nor the exchange of a
\* plain request with its upstream has a deadline.
DialFails(c) == End(c, "dial")
DialPlain(c) == Step(c, "dial", "relay")
RelayEnds(c) == End(c, "relay")

\* CONNECT: 200 is written and both directions are pumped.
DialConnect(c) ==
  /\ handler[c] = "dial"
  /\ handler' = [handler EXCEPT ![c] = "pump"]
  /\ pumps' = [pumps EXCEPT ![c] = Dir]
  /\ UNCHANGED <<listener, queue, loop, wg, stop, late>>

\* One direction ends: end of stream, an error, or its idle time-out.
PumpEnds(c) ==
  /\ \E d \in pumps[c] : pumps' = [pumps EXCEPT ![c] = @ \ {d}]
  /\ UNCHANGED <<listener, queue, loop, wg, handler, stop, late>>

\* MUTANT of CloseBoth: the connections are closed only after both ends.
CloseAtLast(c) ==
  /\ handler[c] = "pump" /\ pumps[c] = {}
  /\ handler' = [handler EXCEPT ![c] = "ending"]
  /\ UNCHANGED <<listener, queue, loop, wg, pumps, stop, late>>

\* pump has seen one end and closes both connections ...
CloseBoth(c) ==
  /\ handler[c] = "pump" /\ pumps[c] # Dir
  /\ handler' = [handler EXCEPT ![c] = "ending"]
  /\ UNCHANGED <<listener, queue, loop, wg, pumps, stop, late>>

\* ... and waits for the other.
PumpDone(c) == pumps[c] = {} /\ End(c, "ending")

Handle(c) ==
  \/ ReadRequest(c) \/ DialFails(c) \/ DialPlain(c) \/ RelayEnds(c)
  \/ DialConnect(c) \/ PumpEnds(c) \/ CloseBoth(c) \/ PumpDone(c)

-----------------------------------------------------------------------------
(* Stop *)

\* A second Stop returns at once.  Closing the listener drops what Accept has
\* not returned.
StopBegins ==
  /\ stop = "no"
  /\ stop' = "waiting"
  /\ listener' = FALSE
  /\ queue' = {}
  /\ UNCHANGED <<loop, wg, handler, pumps, late>>

StopDrained ==
  /\ stop = "waiting" /\ wg = {}
  /\ stop' = "drained"
  /\ UNCHANGED <<listener, queue, loop, wg, handler, pumps, late>>

StopTimesOut ==
  /\ stop = "waiting"
  /\ stop' = "timeout"
  /\ UNCHANGED <<listener, queue, loop, wg, handler, pumps, late>>

Stopped == stop \in {"drained", "timeout"}

ProxyStep ==
  \/ \E c \in Conn : Connect(c) \/ Accept(c) \/ Count(c) \/ Handle(c)
  \/ LoopEnds \/ StopDrained \/ StopTimesOut

-----------------------------------------------------------------------------
(* Properties *)

ProxyTypeOK ==
  /\ queue \subseteq Conn
  /\ loop \in {"accept", "over"} \cup Conn
  /\ wg \subseteq Conn
  /\ handler \in [Conn -> Handled \cup {"none", "accepted", "closed"}]
  /\ pumps \in [Conn -> SUBSET Dir]
  /\ stop \in {"no", "waiting", "drained", "timeout"}
  /\ late \subseteq Conn

\* A handler that runs is one Stop waits for: it ends no earlier than both its
\* pumps, so nothing copies once everything is drained.
PumpsAreCounted == \A c \in Conn : pumps[c] # {} => c \in wg

\* When Stop says that everything is drained, no connection is handled but the
\* one the accept loop may have had in hand: the loop counts it after Stop has
\* looked, and never a second one.
DrainedButOne ==
  stop = "drained" =>
    /\ \A c \in Conn : Running(c) => c \in late
    /\ Cardinality(late) <= 1
=============================================================================
