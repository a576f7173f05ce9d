-------------------------------- MODULE Tunnel --------------------------------
(***************************************************************************)
(* The server side of the DLDW/1 tunnel (internal/server/tunnel): one      *)
(* goroutine per connection runs the handshake, takes one of the token's   *)
(* slots (ratelimit.Conc), dials the target and starts two pumps that copy *)
(* in either direction and share a byte count.  Nonces are remembered in   *)
(* auth.NonceStore, which is bounded.                                      *)
(*                                                                         *)
(* What the token store, the whitelist and the port and address policies   *)
(* answer is left open; AuthTokens has the token store.                    *)
(***************************************************************************)
EXTENDS Naturals, FiniteSets

CONSTANTS Conn,              \* connections that may be open at once
          Token,             \* token ids
          Nonce,
          MaxSeen,           \* NonceStore.maxMem
          MaxConnsPerToken,
          MaxBytesPerConn,
          CopyBuffer         \* bytes one Read may return

ASSUME TunnelAssumption ==
  /\ IsFiniteSet(Conn)
  /\ MaxSeen \in Nat \ {0}
  /\ MaxConnsPerToken \in Nat \ {0}
  /\ MaxBytesPerConn \in Nat \ {0}
  /\ CopyBuffer \in Nat \ {0}

VARIABLES at,      \* at[c]: the statement of handle c's goroutine is at
          req,     \* req[c]: the token and nonce of the handshake
          pump,    \* pump[c][w]: where the pump in direction w is
          chunk,   \* chunk[c][w]: the bytes it holds
          total,   \* total[c]: the bytes both pumps have counted
          cur,     \* Conc.cur: connections counted per token
          seen,    \* NonceStore.seen
          stale,   \* those of them that are older than the ttl
          recent,  \* nonces accepted within the last ttl
          reset    \* the nonce store has been emptied

pumpVars == <<pump, chunk, total>>
nonceVars == <<seen, stale, recent, reset>>
vars == <<at, req, pumpVars, cur, nonceVars>>

Way == {"up", "down"}

\* A connection is "free" before it is accepted and after handle returns.
Step == {"free", "handshake", "nonce", "policy", "acquire", "dial", "reply",
         "pump", "drain", "release"}

Handshake == [token : Token, nonce : Nonce]

\* The type invariant.
TypeOK ==
  /\ at \in [Conn -> Step]
  /\ req \in [Conn -> Handshake]
  /\ pump \in [Conn -> [Way -> {"read", "write", "count", "done"}]]
  /\ chunk \in [Conn -> [Way -> 0 .. CopyBuffer]]
  /\ total \in [Conn -> Nat]
  /\ cur \in [Token -> Nat]
  /\ seen \subseteq Handshake /\ stale \subseteq Handshake
  /\ recent \subseteq Handshake
  /\ reset \in BOOLEAN

Stopped == [w \in Way |-> "done"]
Empty == [w \in Way |-> 0]

Init ==
  /\ at = [c \in Conn |-> "free"]
  /\ req \in [Conn -> Handshake]
  /\ \A c, d \in Conn : req[c] = req[d]
  /\ pump = [c \in Conn |-> Stopped]
  /\ chunk = [c \in Conn |-> Empty]
  /\ total = [c \in Conn |-> 0]
  /\ cur = [t \in Token |-> 0]
  /\ seen = {} /\ stale = {} /\ recent = {} /\ reset = FALSE

-----------------------------------------------------------------------------
(* handle, up to the pumps *)

Move(c, from, to) == at[c] = from /\ at' = [at EXCEPT ![c] = to]

Accept(c) ==
  /\ Move(c, "free", "handshake")
  /\ UNCHANGED <<req, pumpVars, cur, nonceVars>>

\* The line is read before the handshake times out, parsed, and its token is
\* valid; or the connection is rejected.
ReadHandshake(c) ==
  /\ \/ /\ Move(c, "handshake", "nonce")
        /\ \E r \in Handshake : req' = [req EXCEPT ![c] = r]
     \/ Move(c, "handshake", "free") /\ UNCHANGED req
  /\ UNCHANGED <<pumpVars, cur, nonceVars>>

\* MUTANT of Kept: a full store drops everything but what has expired.
KeptStale == IF Cardinality(seen) < MaxSeen THEN seen ELSE seen \cap stale

\* A full store first drops the nonces older than the ttl ...
Kept == IF Cardinality(seen) < MaxSeen THEN seen ELSE seen \ stale

\* ... and, still full, all of them.  Then the nonce is looked up and added.
CheckAndAdd(c) ==
  LET full == Cardinality(Kept) >= MaxSeen
      kept == IF full THEN {} ELSE Kept
  IN /\ \/ /\ req[c] \in kept
           /\ Move(c, "nonce", "free")
           /\ seen' = kept /\ UNCHANGED recent
        \/ /\ req[c] \notin kept
           /\ Move(c, "nonce", "policy")
           /\ seen' = kept \cup {req[c]}
           /\ recent' = recent \cup {req[c]}
     /\ stale' = stale \cap kept
     /\ reset' = (reset \/ full)
     /\ UNCHANGED <<req, pumpVars, cur>>

\* Whitelist, port and address.
CheckPolicy(c) ==
  /\ Move(c, "policy", "acquire") \/ Move(c, "policy", "free")
  /\ UNCHANGED <<req, pumpVars, cur, nonceVars>>

\* Conc.Acquire.
Acquire(c) ==
  LET t == req[c].token
  IN /\ \/ /\ cur[t] < MaxConnsPerToken
           /\ Move(c, "acquire", "dial")
           /\ cur' = [cur EXCEPT ![t] = @ + 1]
        \/ /\ cur[t] >= MaxConnsPerToken
           /\ Move(c, "acquire", "free")
           /\ UNCHANGED cur
     /\ UNCHANGED <<req, pumpVars, nonceVars>>

\* MUTANT of Dial: the slot of a connection that cannot be made is kept.
DialKeepsSlot(c) ==
  /\ Move(c, "dial", "reply") \/ Move(c, "dial", "free")
  /\ UNCHANGED <<req, pumpVars, cur, nonceVars>>

Dial(c) ==
  /\ Move(c, "dial", "reply") \/ Move(c, "dial", "release")
  /\ UNCHANGED <<req, pumpVars, cur, nonceVars>>

\* OK is written, and the pumps start.
Reply(c) ==
  /\ \/ /\ Move(c, "reply", "pump")
        /\ pump' = [pump EXCEPT ![c] = [w \in Way |-> "read"]]
     \/ Move(c, "reply", "release") /\ UNCHANGED pump
  /\ UNCHANGED <<req, chunk, total, cur, nonceVars>>

-----------------------------------------------------------------------------
(* The pumps, and the end of handle *)

\* Both connections are closed when the first pump has ended.
Closed(c) == at[c] = "drain"

PumpTo(c, w, step) == pump' = [pump EXCEPT ![c][w] = step]

\* Read returns some bytes, or ends the pump: end of file, an error, nothing
\* for IdleTimeout, or the connections are closed.
PumpRead(c, w) ==
  /\ pump[c][w] = "read"
  /\ \/ /\ ~ Closed(c)
        /\ \E n \in 1 .. CopyBuffer : chunk' = [chunk EXCEPT ![c][w] = n]
        /\ PumpTo(c, w, "write")
     \/ PumpTo(c, w, "done") /\ UNCHANGED chunk
  /\ UNCHANGED <<at, req, total, cur, nonceVars>>

\* All of it is written, or the pump ends and the bytes are not counted.
PumpWrite(c, w) ==
  /\ pump[c][w] = "write"
  /\ \/ ~ Closed(c) /\ PumpTo(c, w, "count") /\ UNCHANGED chunk
     \/ PumpTo(c, w, "done") /\ chunk' = [chunk EXCEPT ![c][w] = 0]
  /\ UNCHANGED <<at, req, total, cur, nonceVars>>

\* MUTANT of PumpCount: the cap is never looked at.
PumpCountUncapped(c, w) ==
  /\ pump[c][w] = "count"
  /\ total' = [total EXCEPT ![c] = IF @ > MaxBytesPerConn + 2 * CopyBuffer
                                   THEN @ ELSE @ + chunk[c][w]]
  /\ chunk' = [chunk EXCEPT ![c][w] = 0]
  /\ PumpTo(c, w, "read")
  /\ UNCHANGED <<at, req, cur, nonceVars>>

\* They are added to the common count, which must not have passed the cap.
PumpCount(c, w) ==
  /\ pump[c][w] = "count"
  /\ total' = [total EXCEPT ![c] = @ + chunk[c][w]]
  /\ chunk' = [chunk EXCEPT ![c][w] = 0]
  /\ PumpTo(c, w, IF total'[c] > MaxBytesPerConn THEN "done" ELSE "read")
  /\ UNCHANGED <<at, req, cur, nonceVars>>

Pump(c, w) == PumpRead(c, w) \/ PumpWrite(c, w) \/ PumpCount(c, w)

Ended(c) == {w \in Way : pump[c][w] = "done"}

\* <-done, then both connections are closed to end the other pump.
FirstDone(c) ==
  /\ Move(c, "pump", "drain")
  /\ Ended(c) # {}
  /\ UNCHANGED <<req, pumpVars, cur, nonceVars>>

SecondDone(c) ==
  /\ Move(c, "drain", "release")
  /\ Ended(c) = Way
  /\ UNCHANGED <<req, pumpVars, cur, nonceVars>>

\* The deferred release, whichever way handle returns after Acquire.
Release(c) ==
  /\ Move(c, "release", "free")
  /\ cur' = [cur EXCEPT ![req[c].token] = @ - 1]
  /\ total' = [total EXCEPT ![c] = 0]
  /\ UNCHANGED <<req, pump, chunk, nonceVars>>

Handle(c) ==
  \/ ReadHandshake(c) \/ CheckAndAdd(c) \/ CheckPolicy(c) \/ Acquire(c)
  \/ Dial(c) \/ Reply(c) \/ FirstDone(c) \/ SecondDone(c) \/ Release(c)

\* More than the ttl of the nonces goes by.
TimePasses ==
  /\ stale' = seen
  /\ recent' = {}
  /\ UNCHANGED <<at, req, pumpVars, cur, seen, reset>>

Next ==
  \/ \E c \in Conn : Accept(c) \/ Handle(c)
  \/ \E c \in Conn, w \in Way : Pump(c, w)
  \/ TimePasses

Spec == Init /\ [][Next]_vars

\* Every blocking call of handle has a deadline: the handshake, the dial, the
\* reply and every Read and Write of the pumps.
Fairness ==
  \A c \in Conn : WF_vars(Handle(c)) /\ \A w \in Way : WF_vars(Pump(c, w))

FairSpec == Spec /\ Fairness

-----------------------------------------------------------------------------
(* Properties *)

\* A token's count is the number of its connections between Acquire and the
\* release, on every path out of handle; so it does not pass the limit, and
\* no slot is lost.
Holders(t) ==
  {c \in Conn : req[c].token = t
                  /\ at[c] \in {"dial", "reply", "pump", "drain", "release"}}

SlotsAreHeld ==
  \A t \in Token :
    cur[t] = Cardinality(Holders(t)) /\ cur[t] <= MaxConnsPerToken

\* The pumps check the cap after they have written, and they are two: what
\* goes through a connection is the cap and at most a buffer for each.
BytesAreCapped ==
  \A c \in Conn : total[c] <= MaxBytesPerConn + 2 * CopyBuffer

\* No pump works on a connection whose handler is not there to wait for it,
\* so a slot is free only when nothing flows in its name any more.
PumpsAreAwaited ==
  \A c \in Conn : at[c] \notin {"pump", "drain"} => pump[c] = Stopped

\* "Tunnel nonces are single-use per token" (README.en.md:176): what was
\* accepted within the ttl is remembered, unless the store had to be emptied.
RecentIsSeen == reset \/ recent \subseteq seen

\* Why these hold, as an inductive invariant.  A pump passes the cap only with
\* the buffer after which it ends, and counting starts from 0.  A nonce that
\* may be dropped is not a recent one.
Overrun(c, w) == IF pump[c][w] = "done" THEN CopyBuffer ELSE 0

CappedInv ==
  \A c \in Conn :
    /\ total[c] <= MaxBytesPerConn + Overrun(c, "up") + Overrun(c, "down")
    /\ at[c] \notin {"pump", "drain", "release"} => total[c] = 0

TunnelInv ==
  /\ TypeOK
  /\ CappedInv
  /\ PumpsAreAwaited
  /\ SlotsAreHeld
  /\ RecentIsSeen
  /\ recent \cap stale = {}

\* Every connection comes to an end, and gives back its slot, whatever the
\* client and the target do.
EveryConnectionEnds == \A c \in Conn : at[c] # "free" ~> at[c] = "free"
=============================================================================
