----------------------------- MODULE IndexCache -----------------------------
(***************************************************************************)
(* The index pages of the package mirrors: internal/server/pypi            *)
(* (ServeSimple) and internal/server/npm (ServeMetadata), whose caches are *)
(* the same code twice.  A page is looked up under a lock, fetched without *)
(* one from the origins in turn, rewritten and stored with the time of the *)
(* store.  The module knows a body only by its age: how long ago the       *)
(* request that delivered it was sent.  Ages stop growing where nothing    *)
(* tells them apart any more.                                              *)
(***************************************************************************)
EXTENDS Naturals

CONSTANTS
  Caller,    \* requests that may be under way at one time
  Index,     \* the pages of the pypi and npm mirrors
  Origins,   \* Origins[p]: how many origins are configured for page p
  TTL,       \* how long an entry is served (IndexTTL)
  FetchMax,  \* the time-out of one exchange of the client the indexes use
  None

ASSUME CacheAssumption ==
  /\ Origins \in [Index -> Nat \ {0}]
  /\ TTL \in Nat \ {0} /\ FetchMax \in Nat \ {0}

VARIABLES cache,  \* cache[p]: the entry of page p (idx), or NoEntry
          req     \* req[c]: the request c handles

cacheVars == <<cache, req>>

Older(a, max) == IF a = max THEN a ELSE a + 1
Past == TTL + 1            \* past the time an entry is served
OldAge == TTL + FetchMax + 1

\* stored counts from fetchedAt, body from the request that brought the body.
Entry == [stored : 0 .. Past, body : 0 .. OldAge]
NoEntry == [stored |-> Past, body |-> OldAge]

\* pc is the step of the handler, want what is asked for, origin the candidate
\* being tried, age the time since the exchange under way began (of the
\* answer, once there is one), code the answer, to where a redirect leads.
NoRequest == [pc |-> "idle", want |-> None, origin |-> 0, age |-> 0,
              code |-> "none", to |-> None]

Goto(c, at) == req' = [req EXCEPT ![c].pc = at]

\* The response is written: body of that age, or an error.
Respond(c, code, age) ==
  req' = [req EXCEPT ![c].pc = "answered", ![c].code = code, ![c].age = age]

CacheInit ==
  /\ cache = [p \in Index |-> NoEntry]
  /\ req = [c \in Caller |-> NoRequest]

-----------------------------------------------------------------------------

\* A request arrives.
Ask(c, want) ==
  /\ req[c].pc = "idle"
  /\ req' = [req EXCEPT ![c].pc = "lookup", ![c].want = want]
  /\ UNCHANGED cache

Fresh(p) == cache[p].stored <= TTL

\* MUTANT of Hit: every hit renews the entry.
HitRenews(c) ==
  /\ req[c].pc = "lookup" /\ req[c].want \in Index
  /\ Fresh(req[c].want)
  /\ Respond(c, "ok", cache[req[c].want].body)
  /\ cache' = [cache EXCEPT ![req[c].want].stored = 0]

\* cachedIndex, cachedMeta: a fresh entry is the answer.
Hit(c) ==
  /\ req[c].pc = "lookup" /\ req[c].want \in Index
  /\ Fresh(req[c].want)
  /\ Respond(c, "ok", cache[req[c].want].body)
  /\ UNCHANGED cache

\* The exchange with one origin begins.
Send(c, n) ==
  req' = [req EXCEPT ![c].pc = "fetch", ![c].origin = n, ![c].age = 0]

\* A miss sends a request of its own: equal misses are not collapsed.
Miss(c) ==
  /\ req[c].pc = "lookup" /\ req[c].want \in Index
  /\ ~ Fresh(req[c].want)
  /\ Send(c, 1)
  /\ UNCHANGED cache

FetchingIndex(c) == req[c].pc = "fetch" /\ req[c].want \in Index

\* 200 and the whole body.
Delivered(c) ==
  /\ FetchingIndex(c)
  /\ Goto(c, "store")
  /\ UNCHANGED cache

\* An answer that is final although it is not 200 (4xx but 429).
Refused(c) ==
  /\ FetchingIndex(c)
  /\ Respond(c, "refused", 0)
  /\ UNCHANGED cache

\* MUTANT of OriginFails: a failure on the last origin tries it again.
OriginFailsAgain(c) ==
  /\ FetchingIndex(c)
  /\ Send(c, req[c].origin)
  /\ UNCHANGED cache

\* No answer, half an answer, 5xx or 429: the next origin, or 502.
OriginFails(c) ==
  /\ FetchingIndex(c)
  /\ IF req[c].origin < Origins[req[c].want]
       THEN Send(c, req[c].origin + 1)
       ELSE Respond(c, "failed", 0)
  /\ UNCHANGED cache

\* The entry replaces whatever is there, a newer one too.
StoreIndex(c) ==
  /\ req[c].pc = "store" /\ req[c].want \in Index
  /\ cache' = [cache EXCEPT ![req[c].want] = [stored |-> 0, body |-> req[c].age]]
  /\ Respond(c, "ok", req[c].age)

\* The response has been written out.
Done(c) ==
  /\ req[c].pc = "answered"
  /\ req' = [req EXCEPT ![c] = NoRequest]
  /\ UNCHANGED cache

IndexStep(c) ==
  Hit(c) \/ Miss(c) \/ Delivered(c) \/ Refused(c) \/ OriginFails(c)
    \/ StoreIndex(c)

\* Time passes only while every handler waits for somebody else, and an index
\* exchange ends by its time-out.
MayTick ==
  \A c \in Caller :
    /\ req[c].pc \in {"idle", "token", "fetch", "wait"}
    /\ FetchingIndex(c) => req[c].age < FetchMax

Aged(entry) == [stored |-> Older(entry.stored, Past),
                body |-> Older(entry.body, OldAge)]

AgeRequests ==
  req' = [c \in Caller |->
            IF FetchingIndex(c)
              THEN [req[c] EXCEPT !.age = Older(@, OldAge)] ELSE req[c]]

-----------------------------------------------------------------------------
(* Properties *)

\* What a mirror answers from its cache was the origin's page no longer ago
\* than the time an entry is served plus the time one exchange may take,
\* whichever callers stored, overtook or hit in between.
BoundedStaleness ==
  \A c \in Caller :
    req[c].pc = "answered" /\ req[c].want \in Index /\ req[c].code = "ok"
      => req[c].age <= TTL + FetchMax
=============================================================================
