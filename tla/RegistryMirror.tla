--------------------------- MODULE RegistryMirror ---------------------------
(***************************************************************************)
(* The pull-through Docker registry, internal/server/registrymirror, beside *)
(* the index pages of IndexCache.  A manifest is cached like a page, after *)
(* a bearer token of the repository that is cached itself.  A blob is      *)
(* fetched by one request per digest, which the others wait for            *)
(* (doFlight); it is checked against its digest, stored, registered as a   *)
(* ready task and answered by a redirect.  HEAD requests pass through.     *)
(*                                                                         *)
(* A request for a blob names a repository and a digest: flights are kept  *)
(* by digest alone, tasks and objects by both.                             *)
(***************************************************************************)
EXTENDS IndexCache

CONSTANTS
  Repo,      \* repositories
  Digest,    \* blob digests
  TokenTTL,  \* a token is used while younger than this (four minutes)
  Loads      \* bound: each is a set of things that are asked for together

ASSUME RegistryAssumption == TokenTTL \in Nat \ {0}

VARIABLES
  manifest,  \* manifest[r]: age of the cached manifest of r's tag (mfs)
  token,     \* token[r]: age of r's cached token (toks)
  flight,    \* flight[d]: the caller whose flight is registered for d
             \* (flights), and the value it has returned, if it has
  load,      \* the member of Loads this behaviour is about
  object,    \* object[b]: what the storage holds for b
  ready      \* ready[b]: the task of b is ready in the task store

vars == <<cache, req, manifest, token, flight, object, ready, load>>
blobVars == <<flight, object, ready>>

Blob == Repo \X Digest
TagOf(r) == [kind |-> "tag", repo |-> r]
BlobOf(b) == [kind |-> "blob", repo |-> b[1], digest |-> b[2]]
HeadOf(r) == [kind |-> "head", repo |-> r]
HeadBlobOf(b) == [kind |-> "headBlob", repo |-> b[1], digest |-> b[2]]

Want == {TagOf(r) : r \in Repo} \cup {BlobOf(b) : b \in Blob}
          \cup {HeadOf(r) : r \in Repo} \cup {HeadBlobOf(b) : b \in Blob}

\* A page is no request for the registry, and nobody is called None.
ASSUME WantAssumption ==
  /\ Loads \subseteq SUBSET (Index \cup Want) /\ Index \cap Want = {}
  /\ None \notin Caller

\* The request of c is one for the registry, and of this kind.
Wants(c, kind) ==
  /\ req[c].pc # "idle" /\ req[c].want \notin Index
  /\ req[c].want.kind = kind
RepoOf(c) == req[c].want.repo
DigestOf(c) == req[c].want.digest
Asked(c) == <<RepoOf(c), DigestOf(c)>>

NoFlight == [leader |-> None, done |-> FALSE, to |-> None]
\* c runs the function of a flight.
Leads(c, d) == flight[d].leader = c /\ ~ flight[d].done

Init ==
  /\ CacheInit
  /\ load \in Loads
  /\ manifest = [r \in Repo |-> Past]
  /\ token = [r \in Repo |-> TokenTTL]
  /\ flight = [d \in Digest |-> NoFlight]
  /\ object = [b \in Blob |-> None]
  /\ ready = [b \in Blob |-> FALSE]

-----------------------------------------------------------------------------
(* token *)

TokenIsCached(c) == token[RepoOf(c)] < TokenTTL

\* Whatever needs the upstream gets a token first.
NeedUpstream(c) == IF TokenIsCached(c) THEN Send(c, 1) ELSE Goto(c, "token")

\* The token endpoint answers, and the upstream is asked.
GetToken(c) ==
  /\ req[c].pc = "token"
  /\ token' = [token EXCEPT ![RepoOf(c)] = 0]
  /\ Send(c, 1)
  /\ UNCHANGED <<cache, manifest, blobVars>>

\* It fails: a request that leads a flight ends it, any other is a 502.
TokenFails(c) ==
  /\ req[c].pc = "token"
  /\ IF Wants(c, "blob") THEN Goto(c, "failed") ELSE Respond(c, "failed", 0)
  /\ UNCHANGED <<cache, manifest, token, blobVars>>

-----------------------------------------------------------------------------
(* serveManifest, and proxyUpstream for HEAD *)

ManifestHit(c) ==
  /\ req[c].pc = "lookup" /\ Wants(c, "tag")
  /\ manifest[RepoOf(c)] <= TTL
  /\ Respond(c, "ok", 0)
  /\ UNCHANGED <<cache, manifest, token, blobVars>>

ManifestMiss(c) ==
  /\ req[c].pc = "lookup" /\ Wants(c, "tag")
  /\ manifest[RepoOf(c)] > TTL
  /\ NeedUpstream(c)
  /\ UNCHANGED <<cache, manifest, token, blobVars>>

\* Only 200 is stored.
ManifestDelivered(c) ==
  /\ req[c].pc = "fetch" /\ Wants(c, "tag")
  /\ manifest' = [manifest EXCEPT ![RepoOf(c)] = 0]
  /\ Respond(c, "ok", 0)
  /\ UNCHANGED <<cache, token, blobVars>>

\* The upstream's own refusal is passed on, no answer is a 502; a HEAD passes
\* on whatever comes.
UpstreamEnds(c) ==
  /\ req[c].pc = "fetch"
  /\ \E kind \in {"tag", "head", "headBlob"} : Wants(c, kind)
  /\ \/ Respond(c, "failed", 0)
     \/ Respond(c, "refused", 0)
     \/ ~ Wants(c, "tag") /\ Respond(c, "ok", 0)
  /\ UNCHANGED <<cache, manifest, token, blobVars>>

\* serveBlobHead answers for a stored blob itself.
Head(c) ==
  /\ req[c].pc = "lookup"
  /\ \/ Wants(c, "head") /\ NeedUpstream(c)
     \/ /\ Wants(c, "headBlob")
        /\ IF ready[Asked(c)] THEN Respond(c, "ok", 0) ELSE NeedUpstream(c)
  /\ UNCHANGED <<cache, manifest, token, blobVars>>

-----------------------------------------------------------------------------
(* serveBlob: doFlight around fetchOrPresignBlob *)

Redirect(c, to) == [req[c] EXCEPT !.pc = "answered", !.to = to, !.age = 0,
                                  !.code = IF to = None THEN "failed" ELSE "ok"]

\* MUTANT of Join: a flight under way is not found.
JoinNobody(c) ==
  /\ req[c].pc = "lookup" /\ Wants(c, "blob")
  /\ flight' = [flight EXCEPT ![DigestOf(c)] = [NoFlight EXCEPT !.leader = c]]
  /\ Goto(c, "presign")
  /\ UNCHANGED <<cache, manifest, token, object, ready>>

\* The first one leads; a later one waits, or takes the value of a flight
\* that has ended and is still registered.
Join(c) ==
  /\ req[c].pc = "lookup" /\ Wants(c, "blob")
  /\ LET f == flight[DigestOf(c)]
     IN IF f.leader = None
          THEN /\ flight' = [flight EXCEPT ![DigestOf(c)].leader = c]
               /\ Goto(c, "presign")
          ELSE /\ UNCHANGED flight
               /\ IF f.done THEN req' = [req EXCEPT ![c] = Redirect(c, f.to)]
                            ELSE Goto(c, "wait")
  /\ UNCHANGED <<cache, manifest, token, object, ready>>

\* A ready task is presigned at once.
PresignOrFetch(c) ==
  /\ req[c].pc = "presign"
  /\ IF ready[Asked(c)] THEN Goto(c, "redirect") ELSE NeedUpstream(c)
  /\ UNCHANGED <<cache, manifest, token, blobVars>>

\* MUTANT of FetchBlob: the digest is not compared.
FetchBlobUnchecked(c) ==
  /\ req[c].pc = "fetch" /\ Wants(c, "blob")
  /\ \/ \E got \in Digest \cup {None} :
          object' = [object EXCEPT ![Asked(c)] = got] /\ Goto(c, "register")
     \/ UNCHANGED object /\ Goto(c, "failed")
  /\ UNCHANGED <<cache, manifest, token, flight, ready>>

\* The body is what the digest says and replaces the object; Put may fail on
\* either side of that.  Anything else, the leader's client gone among it
\* (its context is that of the flight), is an error.
FetchBlob(c) ==
  /\ req[c].pc = "fetch" /\ Wants(c, "blob")
  /\ \/ object' = [object EXCEPT ![Asked(c)] = DigestOf(c)]
        /\ (Goto(c, "register") \/ Goto(c, "failed"))
     \/ UNCHANGED object /\ Goto(c, "failed")
  /\ UNCHANGED <<cache, manifest, token, flight, ready>>

\* store.Put keeps the task in memory even when it cannot save it.
Register(c) ==
  /\ req[c].pc = "register"
  /\ ready' = [ready EXCEPT ![Asked(c)] = TRUE]
  /\ Goto(c, "redirect") \/ Goto(c, "failed")
  /\ UNCHANGED <<cache, manifest, token, flight, object>>

\* The function returns a URL or fails, presigning included; everybody who
\* waits gets what the leader got.
Return(c) ==
  /\ req[c].pc \in {"redirect", "failed"}
  /\ \E to \in {None} \cup (IF req[c].pc = "redirect" THEN {Asked(c)} ELSE {}) :
       /\ flight' = [flight EXCEPT ![DigestOf(c)].done = TRUE,
                                   ![DigestOf(c)].to = to]
       /\ req' = [x \in Caller |->
                    IF x = c THEN [req[c] EXCEPT !.pc = "land"]
                    ELSE IF req[x].pc = "wait" /\ DigestOf(x) = DigestOf(c)
                    THEN Redirect(x, to) ELSE req[x]]
  /\ UNCHANGED <<cache, manifest, token, object, ready>>

\* The leader removes the flight and answers its own client.
Land(c) ==
  /\ req[c].pc = "land"
  /\ flight' = [flight EXCEPT ![DigestOf(c)] = NoFlight]
  /\ req' = [req EXCEPT ![c] = Redirect(c, flight[DigestOf(c)].to)]
  /\ UNCHANGED <<cache, manifest, token, object, ready>>

-----------------------------------------------------------------------------

PageStep(c) ==
  IndexStep(c) /\ UNCHANGED <<manifest, token, blobVars>>

\* What c does by itself, or with the answer of the upstream it waits for.
RequestStep(c) ==
  \/ PageStep(c)
  \/ Done(c) /\ UNCHANGED <<manifest, token, blobVars>>
  \/ GetToken(c) \/ TokenFails(c)
  \/ ManifestHit(c) \/ ManifestMiss(c) \/ ManifestDelivered(c)
  \/ UpstreamEnds(c) \/ Head(c)
  \/ Join(c) \/ PresignOrFetch(c) \/ FetchBlob(c) \/ Register(c)
  \/ Return(c) \/ Land(c)

Arrive(c) ==
  /\ \E want \in load : Ask(c, want)
  /\ UNCHANGED <<manifest, token, blobVars>>

Tick ==
  /\ MayTick
  /\ AgeRequests
  /\ cache' = [p \in Index |-> Aged(cache[p])]
  /\ manifest' = [r \in Repo |-> Older(manifest[r], Past)]
  /\ token' = [r \in Repo |-> Older(token[r], TokenTTL)]
  /\ UNCHANGED blobVars

Next ==
  /\ UNCHANGED load
  /\ \/ \E c \in Caller : Arrive(c) \/ RequestStep(c)
     \/ Tick

Spec == Init /\ [][Next]_vars

\* An exchange with an upstream ends: by an answer, an error, the time-out of
\* the client the indexes use, or the requester's going away, which is all
\* that bounds the exchanges of the registry.
FairSpec == Spec /\ \A c \in Caller : WF_vars(RequestStep(c) /\ UNCHANGED load)

-----------------------------------------------------------------------------
(* Properties *)

Step == {"idle", "lookup", "token", "fetch", "store", "presign", "wait",
         "register", "redirect", "failed", "land", "answered"}
Code == {"none", "ok", "refused", "failed"}
Request == [pc : Step, want : Index \cup Want \cup {None}, origin : Nat,
            age : 0 .. OldAge, code : Code, to : Blob \cup {None}]

\* The type invariant.
TypeOK ==
  /\ cache \in [Index -> Entry]
  /\ manifest \in [Repo -> 0 .. Past]
  /\ token \in [Repo -> 0 .. TokenTTL]
  /\ flight \in [Digest -> [leader : Caller \cup {None}, done : BOOLEAN,
                            to : Blob \cup {None}]]
  /\ object \in [Blob -> Digest \cup {None}]
  /\ ready \in [Blob -> BOOLEAN]
  /\ load \in Loads
  /\ req \in [Caller -> Request]
  /\ \A c \in Caller :
       req[c].pc = "fetch" =>
         req[c].origin \in 1 .. (IF req[c].want \in Index
                                   THEN Origins[req[c].want] ELSE 1)

\* A redirect leads to an object with the digest that was asked for, also for
\* a request that shares the flight of another repository.
RedirectIsDigest ==
  \A c \in Caller :
    req[c].to # None => object[req[c].to] = DigestOf(c)

\* A blob is fetched by one request at a time, and never again once its task
\* is ready: a flight is registered until its task is.
NoSecondFetch ==
  \A c \in Caller :
    Wants(c, "blob") /\ req[c].pc \in {"token", "fetch", "register"} =>
      /\ ~ ready[Asked(c)]
      /\ \A x \in Caller \ {c} :
           Wants(x, "blob") /\ DigestOf(x) = DigestOf(c) =>
             req[x].pc \in {"lookup", "wait", "answered"}

\* Whoever waits for a flight waits for one whose leader is still at work.
NobodyWaitsAlone ==
  \A c \in Caller :
    req[c].pc = "wait" =>
      \E x \in Caller \ {c} :
        Leads(x, DigestOf(c)) /\ Wants(x, "blob") /\ DigestOf(x) = DigestOf(c)

\* The life of a flight, whoever joins, fails or comes late: one at work, the
\* others waiting for it, and the state well typed.
FlightInv == TypeOK /\ NoSecondFetch /\ NobodyWaitsAlone

\* Every request is answered, provided that the exchanges with the upstream end.
EveryRequestEnds ==
  \A c \in Caller : req[c].pc # "idle" ~> req[c].pc = "idle"
=============================================================================
