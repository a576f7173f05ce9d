----------------------------- MODULE WrappedRun -----------------------------
(***************************************************************************)
(* dldw <tool> ...: internal/client/wrapper starts the local proxy, runs   *)
(* the tool as a child in a process group of its own, passes the first     *)
(* signal on, kills the child some seconds after any signal, and stops the *)
(* proxy when the child has ended.  `dldw proxy' (cmdProxy of              *)
(* internal/client/cli) is the same proxy without a tool: it is stopped by *)
(* the first signal.                                                       *)
(***************************************************************************)
EXTENDS LocalProxy

CONSTANTS
  MaxSignals,  \* bound: signals that arrive
  NoCode       \* nothing to return yet

ASSUME SignalAssumption == MaxSignals \in Nat

VARIABLES
  main,      \* Run, or cmdProxy
  child,     \* the tool's process
  sent,      \* signals that have arrived (at the wrapper)
  pending,   \* signals in sigCh
  forwarded, \* sigOnce is used up
  timers,    \* kill timers that run
  code       \* what is returned: the status of the child, or a word for a
             \* run that has none

wrapVars == <<main, child, sent, pending, forwarded, timers, code>>
runVars == <<proxyVars, wrapVars>>

WrapInit ==
  /\ ProxyInit
  /\ main \in {"start", "proxy"} /\ child = "none"
  /\ sent = 0 /\ pending = 0
  /\ forwarded = FALSE /\ timers = 0
  /\ code = NoCode

-----------------------------------------------------------------------------

\* cmd.Start, or 127.
StartChild ==
  /\ main = "start"
  /\ \/ main' = "notify" /\ child' = "running" /\ UNCHANGED code
     \/ main' = "stop" /\ UNCHANGED child /\ code' = "notstarted"
  /\ UNCHANGED <<proxyVars, sent, pending, forwarded, timers>>

\* signal.Notify: from here on signals reach sigCh.
Notify ==
  /\ main = "notify"
  /\ main' = "wait"
  /\ UNCHANGED <<proxyVars, child, sent, pending, forwarded, timers, code>>

\* A signal before that ends the process by default, and only this process.
Signal ==
  /\ main \notin {"returned", "died"} /\ sent < MaxSignals
  /\ sent' = sent + 1
  /\ IF main \in {"start", "notify", "proxy"} \/ code = "notstarted"
       THEN main' = "died" /\ UNCHANGED pending
       ELSE pending' = pending + 1 /\ UNCHANGED main
  /\ UNCHANGED <<proxyVars, child, forwarded, timers, code>>

\* cmdProxy is notified and waits; later signals stay in the channel.
ProxyNotify ==
  /\ main = "proxy"
  /\ main' = "serve"
  /\ UNCHANGED <<proxyVars, child, sent, pending, forwarded, timers, code>>

ProxySignalled ==
  /\ main = "serve" /\ pending > 0
  /\ pending' = pending - 1
  /\ code' = "notool" /\ main' = "stop"
  /\ UNCHANGED <<proxyVars, child, sent, forwarded, timers>>

\* The goroutine that receives from sigCh, of Run alone.
Relays == child # "none" /\ pending > 0 /\ main # "returned"

\* MUTANT of Relay: only a repeated signal starts the timer.
RelayTwice ==
  /\ Relays
  /\ pending' = pending - 1
  /\ forwarded' = TRUE
  /\ timers' = timers + (IF forwarded THEN 1 ELSE 0)
  /\ \/ UNCHANGED child
     \/ ~ forwarded /\ child = "running" /\ child' = "signaled"
  /\ UNCHANGED <<proxyVars, main, sent, code>>

\* The goroutine passes the first signal to the child's group, which may end
\* by it, and starts a timer for every one, the first included.
Relay ==
  /\ Relays
  /\ pending' = pending - 1
  /\ forwarded' = TRUE
  /\ timers' = timers + 1
  /\ \/ UNCHANGED child
     \/ ~ forwarded /\ child = "running" /\ child' = "signaled"
  /\ UNCHANGED <<proxyVars, main, sent, code>>

\* A timer kills the child, whatever it is doing; one that is over already is
\* not touched.
Kill ==
  /\ timers > 0 /\ main # "returned"
  /\ timers' = timers - 1
  /\ child' = IF child = "running" THEN "killed" ELSE child
  /\ UNCHANGED <<proxyVars, main, sent, pending, forwarded, code>>

\* The tool ends by itself.
ChildExits ==
  /\ child = "running"
  /\ child' = "exited"
  /\ UNCHANGED <<proxyVars, main, sent, pending, forwarded, timers, code>>

\* cmd.Wait; the status is that of the child.
Wait ==
  /\ main = "wait"
  /\ child \in {"exited", "signaled", "killed"}
  /\ code' = child
  /\ main' = "stop"
  /\ UNCHANGED <<proxyVars, child, sent, pending, forwarded, timers>>

\* px.Stop, on every way out.
BeginStop ==
  /\ main = "stop" /\ StopBegins
  /\ UNCHANGED wrapVars

Return ==
  /\ main = "stop" /\ Stopped
  /\ main' = "returned"
  /\ UNCHANGED <<proxyVars, child, sent, pending, forwarded, timers, code>>

WrapStep ==
  StartChild \/ Notify \/ ProxyNotify \/ ProxySignalled \/ Signal
    \/ Relay \/ Kill \/ ChildExits \/ Wait \/ BeginStop \/ Return

\* When the process is gone nothing of the proxy is left.
WrapNext ==
  \/ WrapStep
  \/ main \notin {"returned", "died"} /\ ProxyStep /\ UNCHANGED wrapVars

WrapSpec == WrapInit /\ [][WrapNext]_runVars

\* Goroutines run, timers fire, and copyDir ends once both connections are
\* closed.  That the tool ends by itself, or a dial, a plain exchange or a
\* direction that is never idle ends, is not assumed.
FairWrap ==
  /\ WrapSpec
  /\ WF_runVars(StartChild) /\ WF_runVars(Notify)
  /\ WF_runVars(ProxyNotify) /\ WF_runVars(ProxySignalled)
  /\ WF_runVars(Relay) /\ WF_runVars(Kill)
  /\ WF_runVars(Wait) /\ WF_runVars(BeginStop) /\ WF_runVars(Return)
  /\ WF_runVars(main # "died" /\ StopTimesOut /\ UNCHANGED wrapVars)
  /\ \A c \in Conn :
       WF_runVars(/\ main \notin {"returned", "died"}
               /\ \/ Count(c) \/ CloseBoth(c) \/ PumpDone(c)
                  \/ handler[c] = "ending" /\ PumpEnds(c)
               /\ UNCHANGED wrapVars)

-----------------------------------------------------------------------------
(* Properties *)

\* The type invariant.
WrapTypeOK ==
  /\ ProxyTypeOK
  /\ main \in {"start", "notify", "wait", "proxy", "serve", "stop",
              "returned", "died"}
  /\ child \in {"none", "running", "exited", "signaled", "killed"}
  /\ sent \in 0 .. MaxSignals /\ pending \in 0 .. MaxSignals
  /\ timers \in 0 .. MaxSignals /\ pending + timers <= sent
  /\ forwarded \in BOOLEAN
  /\ code \in {NoCode, "exited", "signaled", "killed", "notstarted", "notool"}

\* Whoever runs the wrapper may trust its return: the tool is over by then,
\* the status is the tool's, and it was killed or signalled only after a
\* signal had arrived.
ReturnIsChilds ==
  /\ main = "returned" /\ code \notin {"notstarted", "notool"} =>
       child = code /\ child # "running"
  /\ child \in {"signaled", "killed"} => sent > 0

\* What the proxy and the wrapper rely on of each other, with the types.
WrappedInv == WrapTypeOK /\ PumpsAreCounted /\ DrainedButOne /\ ReturnIsChilds

\* A signal ends the run, also when the tool ignores it, when connections hang
\* and when it arrives while the proxy is being stopped.
SignalEndsRun == sent > 0 ~> main \in {"returned", "died"}

\* When one direction of a connection has ended, the handler is over in the
\* end, also if the other direction could go on, or the run is.
PumpsEnd ==
  \A c \in Conn :
    handler[c] = "pump" /\ pumps[c] # Dir
      ~> handler[c] = "closed" \/ main \in {"returned", "died"}
=============================================================================
