------------------------------- MODULE ControlAPI -------------------------------
(***************************************************************************)
(* The control API (internal/server/api/api.go) in front of the token      *)
(* store: the middleware and its limiter per address, withAuth, the        *)
(* resolve budget per device, and POST /token.  A request interleaves with *)
(* others between its readings of the clock and its turns at the limiters' *)
(* mutexes.  The limiters live in memory: a restart forgets them.          *)
(*                                                                         *)
(* One address, so one bucket.  Registrations have a second limiter of the *)
(* same kind, which is not repeated; what a granted resolve does is        *)
(* TaskEngine.                                                             *)
(***************************************************************************)
EXTENDS AuthTokens, RateLimit

VARIABLES now,      \* the clock
          asking,   \* asking[c]: where caller c's request is, the device it
                    \* is for and its last reading of the clock
          bucket,   \* the bucket of the address, or Unknown
          events,   \* events[d]: what Count has under device d
          latest,   \* latest[d]: the latest reading brought for device d, or
                    \* by whom its key was collected
          granted,  \* granted[d]: d's grants, each with its reading
          astray,   \* astray[d]: those of them whose reading was older than
                    \* latest[d], or that were still in the window when Count
                    \* forgot them
          admitted, \* requests of the address that were let in
          rewound   \* ticks by which old readings set the bucket back

limits == <<bucket, events, latest, granted, astray, admitted, rewound>>
apiVars == <<tokenVars, now, asking, limits>>

Unknown == [tokens |-> Burst, last |-> -1]
NoRequest == [step |-> "none", device |-> Nobody, at |-> 0]
Request(step, d, at) == [step |-> step, device |-> d, at |-> at]

NoLimits ==
  [bucket |-> Unknown, events |-> [d \in Device |-> {}],
   latest |-> [d \in Device |-> 0]]

APIInit ==
  /\ TokensInit
  /\ now = 0
  /\ asking = [c \in Caller |-> NoRequest]
  /\ bucket = NoLimits.bucket /\ events = NoLimits.events
  /\ latest = NoLimits.latest
  /\ granted = NoLimits.events /\ astray = NoLimits.events
  /\ admitted = 0 /\ rewound = 0

Becomes(c, request) == asking' = [asking EXCEPT ![c] = request]

-----------------------------------------------------------------------------
(* The middleware *)

\* A request arrives and IPRate.Allow reads the clock.
Arrive(c) ==
  /\ asking[c] = NoRequest /\ refresh[c] = NoTicket
  /\ Becomes(c, Request("arrived", Nobody, now))
  /\ UNCHANGED <<tokenVars, now, limits>>

\* Limiter.Allow under its mutex; what it refuses ends here.
Admit(c) ==
  LET at == asking[c].at
      new == bucket = Unknown
      b == IF new THEN FullBucket(at) ELSE bucket
      ok == Refilled(b, at) >= 1
  IN /\ asking[c].step = "arrived"
     /\ Becomes(c, IF ok THEN Request("in", Nobody, 0) ELSE NoRequest)
     /\ bucket' = Spend(b, at)
     /\ rewound' = rewound + Max({0, (IF new THEN now ELSE b.last) - at})
     /\ admitted' = IF ok THEN admitted + 1 ELSE admitted
     /\ UNCHANGED <<tokenVars, now, events, latest, granted, astray>>

\* Another address finds the limiter full of keys and has it collected.
Collect ==
  /\ bucket # Unknown
  /\ now - bucket.last > IdleTicks
  /\ bucket' = Unknown
  /\ UNCHANGED <<tokenVars, now, asking, events, latest, granted, astray,
                 admitted, rewound>>

-----------------------------------------------------------------------------
(* POST /resolve *)

\* withAuth lets a valid secret pass; ResolveRate.Allow reads the clock.
AskResolve(c, s) ==
  /\ asking[c].step = "in"
  /\ Validate(s)
  /\ Becomes(c, Request("resolve", byHash[s], now))
  /\ UNCHANGED <<tokenVars, now, limits>>

Grant(d, at) == [n |-> Cardinality(granted[d]) + 1, at |-> at]

\* What a reading that finds Count full collects, what is left of the events,
\* and what of the grants is astray then.
Collected(at) == {d \in Device : Outdated(events[d], at)}
Left(gone) == [d \in Device |-> IF d \in gone THEN {} ELSE events[d]]
Later(who, at) ==
  [d \in Device |-> IF d \in who THEN Max({latest[d], at}) ELSE latest[d]]
Astray(gone, at) ==
  [d \in Device |->
     IF d \in gone THEN astray[d] \cup {g \in granted[d] : at - g.at <= Window}
                   ELSE astray[d]]

\* Count.Allow under its mutex, keyed by the record's id, which survives a
\* rotation: a full map is collected first.  A revocation since withAuth is not
\* looked at again.
DecideResolve(c) ==
  LET d == asking[c].device
      at == asking[c].at
      grant == Grant(d, at)
  IN /\ asking[c].step = "resolve"
     /\ Becomes(c, NoRequest)
     /\ \E gone \in {{}, Collected(at)} :
          LET left == Left(gone)[d]
              late == IF at < latest[d] THEN {grant} ELSE {}
          IN /\ latest' = Later(gone \cup {d}, at)
             /\ \/ /\ HasRoom(left, at)
                   /\ events' = [Left(gone) EXCEPT ![d] = Recent(left, at) \cup {grant}]
                   /\ granted' = [granted EXCEPT ![d] = @ \cup {grant}]
                   /\ astray' = [Astray(gone, at) EXCEPT ![d] = @ \cup late]
                \/ /\ ~ HasRoom(left, at)
                   /\ events' = [Left(gone) EXCEPT ![d] = Recent(left, at)]
                   /\ astray' = Astray(gone, at)
                   /\ UNCHANGED granted
     /\ UNCHANGED <<tokenVars, now, bucket, admitted, rewound>>

\* A resolve for yet another device finds the map full.
CollectEvents ==
  \E at \in 0 .. now :
    LET gone == Collected(at)
    IN /\ gone # {}
       /\ events' = Left(gone)
       /\ latest' = Later(gone, at)
       /\ astray' = Astray(gone, at)
       /\ UNCHANGED <<tokenVars, now, asking, bucket, granted, admitted, rewound>>

-----------------------------------------------------------------------------
(* POST /token, and whatever else a request may want *)

HandleToken(c) ==
  /\ asking[c].step = "in"
  /\ Becomes(c, NoRequest)
  /\ \/ \E d \in Device : Register(d)
     \/ \E s \in Secret : RefreshValidate(c, s) \/ Revoke(s)
  /\ UNCHANGED <<now, limits>>

\* The second half of a refresh.
FinishRefresh(c) ==
  /\ RefreshRotate(c)
  /\ UNCHANGED <<now, asking, limits>>

\* A request that is refused, or that changes nothing.
Leave(c) ==
  /\ asking[c].step = "in"
  /\ Becomes(c, NoRequest)
  /\ UNCHANGED <<tokenVars, now, limits>>

Serve(c) ==
  \/ Arrive(c) \/ Admit(c) \/ (\E s \in Secret : AskResolve(c, s))
  \/ DecideResolve(c) \/ HandleToken(c) \/ FinishRefresh(c) \/ Leave(c)

-----------------------------------------------------------------------------

Tick ==
  /\ now < MaxTime
  /\ now' = now + 1
  /\ UNCHANGED <<tokenVars, asking, limits>>

TokenExpires ==
  /\ \E d \in Device : Expire(d)
  /\ UNCHANGED <<now, asking, limits>>

\* The token file survives, the limits do not; the clock counts from here.
APIRestart ==
  /\ TokensRestart
  /\ now' = 0
  /\ asking' = [c \in Caller |-> NoRequest]
  /\ bucket' = NoLimits.bucket /\ events' = NoLimits.events
  /\ latest' = NoLimits.latest
  /\ granted' = NoLimits.events /\ astray' = NoLimits.events
  /\ admitted' = 0 /\ rewound' = 0

APINext ==
  \/ \E c \in Caller : Serve(c)
  \/ Collect \/ CollectEvents \/ Tick \/ TokenExpires \/ APIRestart

APISpec == APIInit /\ [][APINext]_apiVars

-----------------------------------------------------------------------------
(* Properties *)

\* "Count counts events per key over a sliding window" (ratelimit.go:75):
\* rotating the secret renews no budget, and in no window has a device more
\* resolves than it may, but for those that came late to the mutex and those
\* that a collection forgot because a late one stood last.
BudgetHolds ==
  \A d \in Device, t \in Time :
    Cardinality({g \in granted[d] \ astray[d] : g.at - t \in 0 .. Window}) <= Most

\* "rate is tokens per second, burst is bucket capacity" (ratelimit.go:12):
\* what an address was let in for is covered by its burst, by the time that
\* has passed and by the ticks that late readings made the bucket see twice.
RateHolds == admitted + bucket.tokens <= Burst + PerTick * (now + rewound)
=============================================================================
