------------------------ MODULE RegistryMirrorProofs ------------------------
(***************************************************************************)
(* FlightInv, RedirectIsDigest and BoundedStaleness are invariants of      *)
(* RegistryMirror, for any number of requests, pages, repositories and     *)
(* digests.  What has to be added to FlightInv to make it inductive is how *)
(* a flight and its leader know of each other (RequestOK, FlightOK), and   *)
(* to BoundedStaleness how old what is on its way to the cache can be.     *)
(***************************************************************************)
EXTENDS RegistryMirror, TLAPS

\* c runs the function of the flight of its blob, or is about to remove it.
AtWork(c) ==
  /\ Wants(c, "blob")
  /\ req[c].pc \in {"presign", "token", "fetch", "register", "redirect",
                    "failed", "land"}

\* The storage holds b, and what it holds is b.
Stored(b) == object[b] = b[2]

\* Where a request for this kind of thing can be.
RightKind(c) ==
  /\ req[c].pc # "idle" => req[c].want \in Index \cup Want
  /\ req[c].pc = "token" => req[c].want \notin Index
  /\ req[c].pc = "store" => req[c].want \in Index
  /\ req[c].pc \in {"presign", "wait", "register", "redirect", "failed", "land"}
       => Wants(c, "blob")

\* What a request knows of the flight of its blob, and of the blob.
RequestOK(c) ==
  /\ AtWork(c) => flight[DigestOf(c)].leader = c
  /\ req[c].pc = "wait" =>
       flight[DigestOf(c)].leader # None /\ ~ flight[DigestOf(c)].done
  /\ Wants(c, "blob") /\ req[c].pc \in {"token", "fetch", "register"} =>
       ~ ready[Asked(c)]
  /\ req[c].pc \in {"register", "redirect"} => Stored(Asked(c))
  /\ req[c].to # None =>
       Wants(c, "blob") /\ req[c].to[2] = DigestOf(c) /\ Stored(req[c].to)

\* A registered flight has its leader, and its value leads to its digest.
FlightOK(d) ==
  /\ flight[d].leader # None =>
       /\ AtWork(flight[d].leader) /\ DigestOf(flight[d].leader) = d
       /\ flight[d].done <=> req[flight[d].leader].pc = "land"
  /\ flight[d].leader = None => ~ flight[d].done /\ flight[d].to = None
  /\ flight[d].to # None => flight[d].to[2] = d /\ Stored(flight[d].to)

BlobsOK ==
  /\ \A c \in Caller : RightKind(c) /\ RequestOK(c)
  /\ \A d \in Digest : FlightOK(d)
  /\ \A b \in Blob : ready[b] => Stored(b)

MirrorInv == TypeOK /\ BlobsOK

\* The age of what is in the cache, and of what is on its way to it or from it.
AgesOK ==
  /\ \A p \in Index : Fresh(p) => cache[p].body <= cache[p].stored + FetchMax
  /\ \A c \in Caller :
       req[c].want \in Index /\ req[c].pc \in {"fetch", "store"} =>
         req[c].age <= FetchMax
  /\ BoundedStaleness

-----------------------------------------------------------------------------
(* What the assignments to req do *)

\* A request but c keeps its record, and c what it asks for.
Others(c) == \A x \in Caller \ {c} : req'[x] = req[x]

LEMMA GotoDoes ==
  ASSUME NEW c \in Caller, req \in [Caller -> Request], NEW at \in Step,
         Goto(c, at)
  PROVE  /\ req' \in [Caller -> Request] /\ Others(c)
         /\ req'[c].pc = at /\ req'[c].want = req[c].want
         /\ req'[c].origin = req[c].origin /\ req'[c].age = req[c].age
         /\ req'[c].code = req[c].code /\ req'[c].to = req[c].to
<1> DEFINE r == [req[c] EXCEPT !.pc = at]
<1>1. req[c] \in Request
  OBVIOUS
<1>2. r \in Request
  BY <1>1 DEF Request
<1>3. req' = [req EXCEPT ![c] = r]
  BY DEF Goto
<1>4. req'[c] = r /\ Others(c) /\ req' \in [Caller -> Request]
  BY <1>2, <1>3 DEF Others
<1> QED
  BY <1>1, <1>4 DEF Request

LEMMA RespondDoes ==
  ASSUME NEW c \in Caller, req \in [Caller -> Request], NEW code \in Code,
         NEW age \in 0 .. OldAge, Respond(c, code, age)
  PROVE  /\ req' \in [Caller -> Request] /\ Others(c)
         /\ req'[c].pc = "answered" /\ req'[c].want = req[c].want
         /\ req'[c].age = age /\ req'[c].code = code /\ req'[c].to = req[c].to
<1> DEFINE r == [req[c] EXCEPT !.pc = "answered", !.code = code, !.age = age]
<1>1. req[c] \in Request
  OBVIOUS
<1>2. r \in Request
  BY <1>1 DEF Request, Step
<1>3. req' = [req EXCEPT ![c] = r]
  BY DEF Respond
<1>4. req'[c] = r /\ Others(c) /\ req' \in [Caller -> Request]
  BY <1>2, <1>3 DEF Others
<1> QED
  BY <1>1, <1>4 DEF Request

LEMMA SendDoes ==
  ASSUME NEW c \in Caller, req \in [Caller -> Request], NEW n \in Nat,
         Send(c, n)
  PROVE  /\ req' \in [Caller -> Request] /\ Others(c)
         /\ req'[c].pc = "fetch" /\ req'[c].want = req[c].want
         /\ req'[c].origin = n /\ req'[c].age = 0 /\ req'[c].to = req[c].to
<1> DEFINE r == [req[c] EXCEPT !.pc = "fetch", !.origin = n, !.age = 0]
<1>1. req[c] \in Request /\ 0 \in 0 .. OldAge
  BY CacheAssumption DEF OldAge
<1>2. r \in Request
  BY <1>1 DEF Request, Step
<1>3. req' = [req EXCEPT ![c] = r]
  BY DEF Send
<1>4. req'[c] = r /\ Others(c) /\ req' \in [Caller -> Request]
  BY <1>2, <1>3 DEF Others
<1> QED
  BY <1>1, <1>4 DEF Request

\* The record that answers a request for a blob.
LEMMA RedirectIs ==
  ASSUME NEW c \in Caller, req[c] \in Request, NEW to \in Blob \cup {None}
  PROVE  /\ Redirect(c, to) \in Request
         /\ Redirect(c, to).pc = "answered" /\ Redirect(c, to).to = to
         /\ Redirect(c, to).want = req[c].want
<1>1. 0 \in 0 .. OldAge
  BY CacheAssumption DEF OldAge
<1>2. (IF to = None THEN "failed" ELSE "ok") \in Code
  BY DEF Code
<1> QED
  BY <1>1, <1>2 DEF Redirect, Request, Step

\* What a request for something of the registry names.
LEMMA WantNames ==
  ASSUME NEW c \in Caller, req[c].want \in Want
  PROVE  /\ RepoOf(c) \in Repo
         /\ Wants(c, "blob") => DigestOf(c) \in Digest /\ Asked(c) \in Blob
<1>1. CASE \E r \in Repo : req[c].want = TagOf(r)
  BY <1>1 DEF TagOf, RepoOf, Wants
<1>2. CASE \E b \in Blob : req[c].want = BlobOf(b)
  BY <1>2 DEF BlobOf, RepoOf, Wants, DigestOf, Asked, Blob
<1>3. CASE \E r \in Repo : req[c].want = HeadOf(r)
  BY <1>3 DEF HeadOf, RepoOf, Wants
<1>4. CASE \E b \in Blob : req[c].want = HeadBlobOf(b)
  BY <1>4 DEF HeadBlobOf, RepoOf, Wants, Blob
<1> QED
  BY <1>1, <1>2, <1>3, <1>4 DEF Want

\* A request for a blob is one for the registry.
LEMMA AtWorkNames ==
  ASSUME TypeOK, NEW c \in Caller, RightKind(c), Wants(c, "blob")
  PROVE  DigestOf(c) \in Digest /\ Asked(c) \in Blob /\ Asked(c)[2] = DigestOf(c)
<1>1. req[c].want \in Want
  BY DEF RightKind, Wants
<1> QED
  BY <1>1, WantNames DEF Asked

-----------------------------------------------------------------------------
(* Flights and blobs *)

\* A step of c keeps the flights in order, if it neither takes up nor leaves
\* the work of a flight, loses no object, makes no task ready but that of its
\* own flight, and is itself in order where it gets to.
LEMMA WorkStep ==
  ASSUME TypeOK, BlobsOK, NEW c \in Caller, Others(c), flight' = flight,
         \A b \in Blob : Stored(b) => Stored(b)',
         \A b \in Blob : ready'[b] => Stored(b)',
         \A b \in Blob : ready'[b] => ready[b] \/ (AtWork(c) /\ b = Asked(c)),
         RightKind(c)', RequestOK(c)',
         AtWork(c) => AtWork(c)' /\ req'[c].want = req[c].want
                        /\ (req'[c].pc = "land" <=> req[c].pc = "land")
  PROVE  BlobsOK'
<1>1. \A x \in Caller : RightKind(x)' /\ RequestOK(x)'
  <2> SUFFICES ASSUME NEW x \in Caller, x # c
               PROVE  RightKind(x)' /\ RequestOK(x)'
    OBVIOUS
  <2>1. req'[x] = req[x]
    BY DEF Others
  <2>2. RightKind(x) /\ RequestOK(x) /\ req[x].to \in Blob \cup {None}
    BY DEF BlobsOK, TypeOK, Request
  <2>3. RightKind(x)'
    BY <2>1, <2>2 DEF RightKind, Wants
  <2>4. Wants(x, "blob") => Asked(x) \in Blob
    BY <2>2, AtWorkNames
  <2>5. /\ Wants(x, "blob")' <=> Wants(x, "blob")
        /\ AtWork(x)' <=> AtWork(x)
        /\ DigestOf(x)' = DigestOf(x) /\ Asked(x)' = Asked(x)
    BY <2>1 DEF Wants, AtWork, DigestOf, RepoOf, Asked
  <2>6. Wants(x, "blob") /\ req[x].pc \in {"token", "fetch", "register"}
          => ~ ready'[Asked(x)]
    <3> SUFFICES ASSUME Wants(x, "blob"), ready'[Asked(x)],
                        req[x].pc \in {"token", "fetch", "register"}
                 PROVE  FALSE
      OBVIOUS
    <3>1. AtWork(c) /\ Asked(x) = Asked(c)
      BY <2>2, <2>4 DEF RequestOK
    <3>2. AtWork(x) /\ DigestOf(x) = DigestOf(c)
      BY <3>1 DEF AtWork, Asked
    <3> QED
      BY <2>2, <3>1, <3>2 DEF RequestOK, BlobsOK
  <2>7. req[x].pc \in {"register", "redirect"} => Stored(Asked(x))'
    <3> SUFFICES ASSUME req[x].pc \in {"register", "redirect"}
                 PROVE  Stored(Asked(x))'
      OBVIOUS
    <3>1. PICK b \in Blob : b = Asked(x) /\ Stored(b)
      BY <2>2, <2>4 DEF RightKind, RequestOK
    <3> QED
      BY <2>5, <3>1 DEF Stored
  <2>8. req[x].to # None => Stored(req[x].to)'
    <3> SUFFICES ASSUME req[x].to # None PROVE Stored(req[x].to)'
      OBVIOUS
    <3>1. PICK b \in Blob : b = req[x].to /\ Stored(b)
      BY <2>2 DEF RequestOK
    <3> QED
      BY <2>1, <3>1 DEF Stored
  <2> QED
    BY <2>1, <2>2, <2>3, <2>5, <2>6, <2>7, <2>8 DEF RequestOK
<1>2. \A d \in Digest : FlightOK(d)'
  <2> SUFFICES ASSUME NEW d \in Digest PROVE FlightOK(d)'
    OBVIOUS
  <2>1. /\ FlightOK(d) /\ flight[d].leader \in Caller \cup {None}
        /\ flight[d].to \in Blob \cup {None}
    BY DEF BlobsOK, TypeOK
  <2>2. flight[d].to # None => Stored(flight[d].to)'
    <3> SUFFICES ASSUME flight[d].to # None PROVE Stored(flight[d].to)'
      OBVIOUS
    <3>1. PICK b \in Blob : b = flight[d].to /\ Stored(b)
      BY <2>1 DEF FlightOK
    <3> QED
      BY <3>1 DEF Stored
  <2>3. CASE flight[d].leader = None
    BY <2>1, <2>2, <2>3 DEF FlightOK
  <2>4. CASE flight[d].leader = c /\ c # None
    BY <2>1, <2>2, <2>4 DEF FlightOK, DigestOf
  <2>5. CASE flight[d].leader # c /\ flight[d].leader # None
    <3>1. PICK x \in Caller : x = flight[d].leader
      BY <2>1, <2>5
    <3>2. req'[x] = req[x]
      BY <2>5, <3>1 DEF Others
    <3> QED
      BY <2>1, <2>2, <3>1, <3>2 DEF FlightOK, DigestOf, AtWork, Wants
  <2> QED
    BY <2>3, <2>4, <2>5
<1> QED
  BY <1>1, <1>2 DEF BlobsOK

\* Most steps leave flights, objects and tasks alone altogether.
LEMMA OwnStep ==
  ASSUME TypeOK, BlobsOK, NEW c \in Caller, Others(c), UNCHANGED blobVars,
         RightKind(c)', RequestOK(c)',
         AtWork(c) => AtWork(c)' /\ req'[c].want = req[c].want
                        /\ (req'[c].pc = "land" <=> req[c].pc = "land")
  PROVE  BlobsOK'
<1>1. flight' = flight /\ object' = object /\ ready' = ready
  BY DEF blobVars
<1>2. \A b \in Blob : (Stored(b) => Stored(b)') /\ (ready[b] => Stored(b))
  BY <1>1 DEF Stored, BlobsOK
<1> QED
  BY <1>1, <1>2, WorkStep

\* The same for the types.
LEMMA OwnTypes ==
  ASSUME TypeOK, NEW c \in Caller, Others(c), UNCHANGED <<blobVars, load>>,
         req' \in [Caller -> Request], cache' \in [Index -> Entry],
         manifest' \in [Repo -> 0 .. Past], token' \in [Repo -> 0 .. TokenTTL],
         req'[c].pc = "fetch" =>
           req'[c].origin \in 1 .. (IF req'[c].want \in Index
                                      THEN Origins[req'[c].want] ELSE 1)
  PROVE  TypeOK'
BY DEF TypeOK, Others, blobVars

\* Where a request for a page goes: nowhere near a flight.
LEMMA PageOwnStep ==
  ASSUME MirrorInv, NEW c \in Caller, Others(c), UNCHANGED blobVars,
         req[c].pc # "idle", req[c].want \in Index,
         req'[c].want = req[c].want, req'[c].to = req[c].to,
         req'[c].pc \in {"fetch", "store", "answered"}
  PROVE  BlobsOK'
<1>1. ~ AtWork(c) /\ ~ Wants(c, "blob") /\ req[c].to = None
  BY DEF AtWork, Wants, MirrorInv, BlobsOK, RequestOK
<1>2. ~ AtWork(c)' /\ ~ Wants(c, "blob")'
  BY DEF AtWork, Wants
<1>3. RightKind(c)' /\ RequestOK(c)'
  BY <1>1, <1>2 DEF RightKind, RequestOK
<1> QED
  BY <1>1, <1>3, OwnStep DEF MirrorInv

LEMMA PageStepKeeps ==
  ASSUME MirrorInv, NEW c \in Caller, PageStep(c), UNCHANGED load
  PROVE  MirrorInv'
<1> USE CacheAssumption
<1>0. TypeOK /\ req \in [Caller -> Request] /\ cache \in [Index -> Entry]
      /\ manifest \in [Repo -> 0 .. Past] /\ token \in [Repo -> 0 .. TokenTTL]
  BY DEF MirrorInv, TypeOK
<1>1. /\ UNCHANGED blobVars /\ UNCHANGED load
      /\ manifest' = manifest /\ token' = token /\ IndexStep(c)
  BY DEF PageStep, blobVars
<1>2. 0 \in 0 .. OldAge /\ 0 \in 0 .. Past
  BY DEF OldAge, Past
<1>3. \A p \in Index : cache[p].body \in 0 .. OldAge
  BY <1>0 DEF Entry
<1>4. req[c].pc # "idle" /\ req[c].want \in Index
  BY <1>1 DEF IndexStep, Hit, Miss, Delivered, Refused, OriginFails, StoreIndex,
       FetchingIndex
<1>5. req[c].age \in 0 .. OldAge /\ req[c].origin \in Nat
  BY <1>0 DEF Request
<1>6. ASSUME Others(c), req' \in [Caller -> Request],
             req'[c].pc \in {"fetch", "store", "answered"},
             req'[c].want = req[c].want, req'[c].to = req[c].to,
             req'[c].pc = "fetch" => req'[c].origin \in 1 .. Origins[req[c].want],
             cache' \in [Index -> Entry]
      PROVE  MirrorInv'
  <2>1. BlobsOK'
    BY <1>1, <1>4, <1>6, PageOwnStep
  <2>2. TypeOK'
    BY <1>0, <1>1, <1>4, <1>6, OwnTypes
  <2> QED
    BY <2>1, <2>2 DEF MirrorInv
<1>7. CASE Hit(c)
  <2>1. Respond(c, "ok", cache[req[c].want].body) /\ cache' = cache
    BY <1>7 DEF Hit
  <2> QED
    BY <1>0, <1>3, <1>4, <1>6, <2>1, RespondDoes DEF Code
<1>8. CASE Miss(c)
  <2>1. Send(c, 1) /\ cache' = cache /\ 1 \in 1 .. Origins[req[c].want]
    BY <1>4, <1>8 DEF Miss
  <2> QED
    BY <1>0, <1>6, <2>1, SendDoes
<1>9. CASE Delivered(c)
  BY <1>0, <1>6, <1>9, GotoDoes DEF Delivered, Step
<1>10. CASE Refused(c)
  BY <1>0, <1>2, <1>6, <1>10, RespondDoes DEF Refused, Code
<1>11. CASE OriginFails(c)
  <2>1. CASE req[c].origin < Origins[req[c].want]
    <3>1. Send(c, req[c].origin + 1) /\ cache' = cache
      BY <1>11, <2>1 DEF OriginFails
    <3>2. req[c].origin + 1 \in 1 .. Origins[req[c].want]
      BY <1>4, <1>5, <2>1
    <3> QED
      BY <1>0, <1>5, <1>6, <3>1, <3>2, SendDoes
  <2>2. CASE ~ (req[c].origin < Origins[req[c].want])
    BY <1>0, <1>2, <1>6, <1>11, <2>2, RespondDoes DEF OriginFails, Code
  <2> QED
    BY <2>1, <2>2
<1>12. CASE StoreIndex(c)
  <2>1. /\ Respond(c, "ok", req[c].age)
        /\ cache' = [cache EXCEPT ![req[c].want] =
                       [stored |-> 0, body |-> req[c].age]]
    BY <1>12 DEF StoreIndex
  <2>2. [stored |-> 0, body |-> req[c].age] \in Entry
    BY <1>2, <1>5 DEF Entry
  <2>3. cache' \in [Index -> Entry]
    BY <1>0, <2>1, <2>2
  <2> QED
    BY <1>0, <1>5, <1>6, <2>1, <2>3, RespondDoes DEF Code
<1> QED
  BY <1>1, <1>7, <1>8, <1>9, <1>10, <1>11, <1>12 DEF IndexStep

\* The step of a request for something of the registry that leaves flights,
\* objects and tasks alone.
LEMMA RegistryOwnStep ==
  ASSUME MirrorInv, NEW c \in Caller, Others(c),
         UNCHANGED <<cache, blobVars, load>>, req[c].want \in Want,
         manifest' \in [Repo -> 0 .. Past], token' \in [Repo -> 0 .. TokenTTL],
         req' \in [Caller -> Request], req'[c].want = req[c].want,
         req'[c].pc = "fetch" => req'[c].origin = 1,
         RightKind(c)', RequestOK(c)',
         AtWork(c) => AtWork(c)' /\ (req'[c].pc = "land" <=> req[c].pc = "land")
  PROVE  MirrorInv'
<1>1. TypeOK /\ BlobsOK /\ UNCHANGED blobVars /\ UNCHANGED load
  BY DEF MirrorInv
<1>2. cache' \in [Index -> Entry] /\ req'[c].want \notin Index
  BY <1>1, WantAssumption DEF TypeOK
<1>3. TypeOK'
  BY <1>1, <1>2, OwnTypes
<1> QED
  BY <1>1, <1>3, OwnStep DEF MirrorInv

\* The same for a request that is not for a blob's body.
LEMMA PassingStep ==
  ASSUME MirrorInv, NEW c \in Caller, Others(c),
         UNCHANGED <<cache, blobVars, load>>, req[c].pc # "idle",
         req[c].want \notin Index, ~ Wants(c, "blob"),
         manifest' \in [Repo -> 0 .. Past], token' \in [Repo -> 0 .. TokenTTL],
         req' \in [Caller -> Request], req'[c].want = req[c].want,
         req'[c].to = req[c].to, req'[c].pc \in {"token", "fetch", "answered"},
         req'[c].pc = "fetch" => req'[c].origin = 1
  PROVE  MirrorInv'
<1>1. ~ AtWork(c) /\ req[c].to = None /\ req[c].want \in Want
  BY DEF AtWork, MirrorInv, BlobsOK, RequestOK, RightKind
<1>2. ~ AtWork(c)' /\ ~ Wants(c, "blob")'
  BY DEF AtWork, Wants
<1>3. RightKind(c)' /\ RequestOK(c)'
  BY <1>1, <1>2 DEF RightKind, RequestOK
<1> QED
  BY <1>1, <1>3, RegistryOwnStep

\* What a request that asks the upstream may do.
LEMMA NeedUpstreamDoes ==
  ASSUME TypeOK, NEW c \in Caller, NeedUpstream(c)
  PROVE  /\ req' \in [Caller -> Request] /\ Others(c)
         /\ req'[c].want = req[c].want /\ req'[c].to = req[c].to
         /\ req'[c].pc \in {"token", "fetch"}
         /\ req'[c].pc = "fetch" => req'[c].origin = 1
<1>1. req \in [Caller -> Request]
  BY DEF TypeOK
<1>2. CASE Send(c, 1)
  BY <1>1, <1>2, SendDoes
<1>3. CASE Goto(c, "token")
  BY <1>1, <1>3, GotoDoes DEF Step
<1> QED
  BY <1>2, <1>3 DEF NeedUpstream

\* Zero is an age of everything.
LEMMA ZeroIsAnAge ==
  0 \in 0 .. OldAge /\ 0 \in 0 .. Past /\ 0 \in 0 .. TokenTTL
BY CacheAssumption, RegistryAssumption DEF OldAge, Past

\* Manifests and HEAD requests.
LEMMA PassingKeeps ==
  ASSUME MirrorInv, NEW c \in Caller, UNCHANGED load,
         ManifestHit(c) \/ ManifestMiss(c) \/ ManifestDelivered(c)
           \/ UpstreamEnds(c) \/ Head(c)
  PROVE  MirrorInv'
<1>0. TypeOK /\ req \in [Caller -> Request]
      /\ manifest \in [Repo -> 0 .. Past] /\ token \in [Repo -> 0 .. TokenTTL]
  BY DEF MirrorInv, TypeOK
<1>1. /\ req[c].pc # "idle" /\ req[c].want \notin Index /\ ~ Wants(c, "blob")
      /\ UNCHANGED <<cache, blobVars, load>> /\ token' = token
  BY DEF ManifestHit, ManifestMiss, ManifestDelivered, UpstreamEnds, Head, Wants
<1>2. req[c].want \in Want
  BY <1>1 DEF MirrorInv, BlobsOK, RightKind
<1>3. manifest' \in [Repo -> 0 .. Past] /\ token' \in [Repo -> 0 .. TokenTTL]
  BY <1>0, <1>2, ZeroIsAnAge, WantNames
  DEF ManifestHit, ManifestMiss, ManifestDelivered, UpstreamEnds, Head
<1>4. \/ NeedUpstream(c)
      \/ \E code \in Code : Respond(c, code, 0)
  BY DEF ManifestHit, ManifestMiss, ManifestDelivered, UpstreamEnds, Head, Code
<1>5. CASE NeedUpstream(c)
  BY <1>0, <1>1, <1>3, <1>5, NeedUpstreamDoes, PassingStep
<1>6. CASE \E code \in Code : Respond(c, code, 0)
  <2>1. PICK code \in Code : Respond(c, code, 0)
    BY <1>6
  <2> QED
    BY <1>0, <1>1, <1>3, <2>1, ZeroIsAnAge, RespondDoes, PassingStep
<1> QED
  BY <1>4, <1>5, <1>6

\* The token of a repository, for whatever it was needed.
LEMMA TokenKeeps ==
  ASSUME MirrorInv, NEW c \in Caller, UNCHANGED load,
         GetToken(c) \/ TokenFails(c)
  PROVE  MirrorInv'
<1>0. TypeOK /\ req \in [Caller -> Request]
      /\ manifest \in [Repo -> 0 .. Past] /\ token \in [Repo -> 0 .. TokenTTL]
  BY DEF MirrorInv, TypeOK
<1>1. /\ req[c].pc = "token" /\ req[c].want \in Want /\ req[c].want \notin Index
      /\ RightKind(c) /\ RequestOK(c)
      /\ UNCHANGED <<cache, blobVars, load>> /\ manifest' = manifest
  BY DEF GetToken, TokenFails, MirrorInv, BlobsOK, RightKind
<1>2. manifest' \in [Repo -> 0 .. Past] /\ token' \in [Repo -> 0 .. TokenTTL]
  BY <1>0, <1>1, ZeroIsAnAge, WantNames DEF GetToken, TokenFails
<1>3. \/ Send(c, 1)
      \/ Wants(c, "blob") /\ Goto(c, "failed")
      \/ ~ Wants(c, "blob") /\ Respond(c, "failed", 0)
  BY DEF GetToken, TokenFails
<1>4. ASSUME Wants(c, "blob"), Others(c), req' \in [Caller -> Request],
             req'[c].want = req[c].want, req'[c].to = req[c].to,
             req'[c].pc \in {"fetch", "failed"},
             req'[c].pc = "fetch" => req'[c].origin = 1
      PROVE  MirrorInv'
  <2>1. AtWork(c) /\ AtWork(c)' /\ Wants(c, "blob")'
    BY <1>1, <1>4 DEF AtWork, Wants
  <2>2. RightKind(c)'
    BY <1>1, <1>4, <2>1 DEF RightKind
  <2>3. RequestOK(c)'
    BY <1>1, <1>4, <2>1
    DEF RequestOK, DigestOf, RepoOf, Asked, Stored, blobVars
  <2> QED
    BY <1>1, <1>2, <1>4, <2>1, <2>2, <2>3, RegistryOwnStep
<1>5. CASE Wants(c, "blob")
  <2>1. CASE Send(c, 1)
    BY <1>0, <1>4, <1>5, <2>1, SendDoes
  <2>2. CASE Goto(c, "failed")
    BY <1>0, <1>4, <1>5, <2>2, GotoDoes DEF Step
  <2> QED
    BY <1>3, <1>5, <2>1, <2>2
<1>6. CASE ~ Wants(c, "blob")
  <2>1. CASE Send(c, 1)
    BY <1>0, <1>1, <1>2, <1>6, <2>1, SendDoes, PassingStep
  <2>2. CASE Respond(c, "failed", 0)
    BY <1>0, <1>1, <1>2, <1>6, <2>2, RespondDoes, PassingStep, ZeroIsAnAge DEF Code
  <2> QED
    BY <1>3, <1>6, <2>1, <2>2
<1> QED
  BY <1>5, <1>6

\* A request begins, or its response has been written out.
LEMMA EndsKeep ==
  ASSUME MirrorInv, NEW c \in Caller, UNCHANGED load,
         Arrive(c) \/ (Done(c) /\ UNCHANGED <<manifest, token, blobVars>>)
  PROVE  MirrorInv'
<1>0. TypeOK /\ BlobsOK /\ req \in [Caller -> Request] /\ cache \in [Index -> Entry]
      /\ manifest \in [Repo -> 0 .. Past] /\ token \in [Repo -> 0 .. TokenTTL]
      /\ load \in Loads
  BY DEF MirrorInv, TypeOK
<1>1. /\ UNCHANGED <<blobVars, load>> /\ UNCHANGED blobVars
      /\ cache' = cache /\ manifest' = manifest /\ token' = token
      /\ req[c].pc \in {"idle", "answered"}
  BY DEF Arrive, Ask, Done
<1>2. ~ AtWork(c)
  BY <1>1 DEF AtWork
<1>3. CASE Arrive(c)
  <2>1. PICK want \in load : Ask(c, want)
    BY <1>3 DEF Arrive
  <2> DEFINE r == [req[c] EXCEPT !.pc = "lookup", !.want = want]
  <2>2. want \in Index \cup Want /\ req[c] \in Request /\ req[c].pc = "idle"
    BY <1>0, <2>1, WantAssumption DEF Ask
  <2>3. req' = [req EXCEPT ![c] = r]
    BY <2>1 DEF Ask
  <2>4. /\ r \in Request /\ r.pc = "lookup" /\ r.want = want /\ r.to = req[c].to
    BY <2>2 DEF Request, Step
  <2>5. /\ req' \in [Caller -> Request] /\ Others(c)
        /\ req'[c].pc = "lookup" /\ req'[c].want = want /\ req'[c].to = req[c].to
    <3> HIDE DEF r
    <3> QED
      BY <1>0, <2>3, <2>4 DEF Others
  <2>6. req[c].to = None
    BY <1>0, <2>2 DEF BlobsOK, RequestOK, Wants
  <2>7. RightKind(c)' /\ RequestOK(c)'
    BY <2>2, <2>5, <2>6 DEF RightKind, RequestOK, AtWork
  <2>8. TypeOK'
    BY <1>0, <1>1, <2>5, OwnTypes
  <2> QED
    BY <1>0, <1>1, <1>2, <2>5, <2>7, <2>8, OwnStep DEF MirrorInv
<1>4. CASE Done(c)
  <2>1. NoRequest \in Request
    BY ZeroIsAnAge DEF NoRequest, Request, Step, Code
  <2>2. req' \in [Caller -> Request] /\ Others(c) /\ req'[c] = NoRequest
    BY <1>0, <1>4, <2>1 DEF Done, Others
  <2>3. RightKind(c)' /\ RequestOK(c)' /\ req'[c].pc = "idle"
    BY <2>2 DEF NoRequest, RightKind, RequestOK, AtWork
  <2>4. TypeOK'
    BY <1>0, <1>1, <2>2, <2>3, OwnTypes
  <2> QED
    BY <1>0, <1>1, <1>2, <2>2, <2>3, <2>4, OwnStep DEF MirrorInv
<1> QED
  BY <1>3, <1>4

\* The leader of a flight looks for the task.
LEMMA PresignOrFetchKeeps ==
  ASSUME MirrorInv, NEW c \in Caller, UNCHANGED load, PresignOrFetch(c)
  PROVE  MirrorInv'
<1>0. TypeOK /\ req \in [Caller -> Request] /\ BlobsOK
      /\ manifest \in [Repo -> 0 .. Past] /\ token \in [Repo -> 0 .. TokenTTL]
  BY DEF MirrorInv, TypeOK
<1>1. /\ req[c].pc = "presign" /\ Wants(c, "blob") /\ RightKind(c)
      /\ RequestOK(c) /\ AtWork(c)
      /\ UNCHANGED <<cache, blobVars, load>> /\ manifest' = manifest
      /\ token' = token
  BY DEF PresignOrFetch, MirrorInv, BlobsOK, RightKind, AtWork
<1>2. req[c].want \in Want /\ Asked(c) \in Blob
  BY <1>0, <1>1, AtWorkNames DEF RightKind, Wants
<1>3. /\ req' \in [Caller -> Request] /\ Others(c)
      /\ req'[c].want = req[c].want /\ req'[c].to = req[c].to
      /\ req'[c].pc \in {"token", "fetch", "redirect"}
      /\ req'[c].pc = "fetch" => req'[c].origin = 1
      /\ req'[c].pc = "redirect" <=> ready[Asked(c)]
  <2>1. CASE ready[Asked(c)]
    BY <1>0, <2>1, GotoDoes DEF PresignOrFetch, Step
  <2>2. CASE ~ ready[Asked(c)]
    BY <1>0, <2>2, NeedUpstreamDoes DEF PresignOrFetch
  <2> QED
    BY <2>1, <2>2
<1>4. AtWork(c)' /\ Wants(c, "blob")'
  BY <1>1, <1>3 DEF AtWork, Wants
<1>5. RightKind(c)'
  BY <1>2, <1>3, <1>4, WantAssumption DEF RightKind
<1>6. ready[Asked(c)] => Stored(Asked(c))
  BY <1>0, <1>2 DEF BlobsOK
<1>7. RequestOK(c)'
  BY <1>1, <1>3, <1>4, <1>6
  DEF RequestOK, DigestOf, RepoOf, Asked, Stored, blobVars
<1> QED
  BY <1>0, <1>1, <1>2, <1>3, <1>4, <1>5, <1>7, RegistryOwnStep

\* The body arrives and replaces the object, or something fails.
LEMMA FetchBlobKeeps ==
  ASSUME MirrorInv, NEW c \in Caller, UNCHANGED load, FetchBlob(c)
  PROVE  MirrorInv'
<1>0. TypeOK /\ req \in [Caller -> Request] /\ BlobsOK
      /\ object \in [Blob -> Digest \cup {None}]
  BY DEF MirrorInv, TypeOK
<1>1. /\ req[c].pc = "fetch" /\ Wants(c, "blob") /\ RightKind(c)
      /\ RequestOK(c) /\ AtWork(c)
      /\ UNCHANGED <<cache, manifest, token, flight, ready, load>>
  BY <1>0 DEF FetchBlob, BlobsOK, AtWork
<1>2. /\ Asked(c) \in Blob /\ DigestOf(c) \in Digest
      /\ Asked(c)[2] = DigestOf(c)
  BY <1>0, <1>1, AtWorkNames
<1>3. \/ Goto(c, "failed")
      \/ Goto(c, "register") /\ object' = [object EXCEPT ![Asked(c)] = DigestOf(c)]
  BY DEF FetchBlob
<1>4. /\ req' \in [Caller -> Request] /\ Others(c)
      /\ req'[c].want = req[c].want /\ req'[c].to = req[c].to
      /\ req'[c].pc \in {"register", "failed"}
      /\ req'[c].pc = "register" => object'[Asked(c)] = DigestOf(c)
  BY <1>0, <1>2, <1>3, GotoDoes DEF Step
<1>5. /\ object' \in [Blob -> Digest \cup {None}]
      /\ \A b \in Blob : Stored(b) => Stored(b)'
  <2>1. \/ object' = object
        \/ object' = [object EXCEPT ![Asked(c)] = DigestOf(c)]
    BY DEF FetchBlob
  <2> QED
    BY <1>0, <1>2, <2>1 DEF Stored
<1>6. AtWork(c)' /\ Wants(c, "blob")'
  BY <1>1, <1>4 DEF AtWork, Wants
<1>7. RightKind(c)'
  BY <1>1, <1>4, <1>6 DEF RightKind
<1>8. req[c].to # None => Stored(req[c].to)'
  <2> SUFFICES ASSUME req[c].to # None PROVE Stored(req[c].to)'
    OBVIOUS
  <2>1. PICK b \in Blob : b = req[c].to /\ Stored(b)
    BY <1>0, <1>1 DEF RequestOK, Request
  <2> QED
    BY <1>4, <1>5, <2>1 DEF Stored
<1>9. Asked(c)' = Asked(c) /\ DigestOf(c)' = DigestOf(c)
  BY <1>4 DEF Asked, DigestOf, RepoOf
<1>10. RequestOK(c)'
  BY <1>1, <1>2, <1>4, <1>6, <1>8, <1>9 DEF RequestOK, Stored
<1>11. BlobsOK'
  <2>1. \A b \in Blob : ready'[b] => Stored(b)' /\ ready[b]
    BY <1>0, <1>1, <1>5 DEF BlobsOK
  <2> QED
    BY <1>0, <1>1, <1>4, <1>5, <1>6, <1>7, <1>10, <2>1, WorkStep
<1>12. TypeOK'
  <2>1. \A x \in Caller : req'[x].pc = "fetch" => req'[x] = req[x]
    BY <1>4 DEF Others
  <2> QED
    BY <1>0, <1>1, <1>4, <1>5, <2>1 DEF TypeOK
<1> QED
  BY <1>11, <1>12 DEF MirrorInv

\* The task of the blob is ready.
LEMMA RegisterKeeps ==
  ASSUME MirrorInv, NEW c \in Caller, UNCHANGED load, Register(c)
  PROVE  MirrorInv'
<1>0. TypeOK /\ req \in [Caller -> Request] /\ BlobsOK
      /\ ready \in [Blob -> BOOLEAN]
  BY DEF MirrorInv, TypeOK
<1>1. /\ req[c].pc = "register" /\ Wants(c, "blob") /\ RightKind(c)
      /\ RequestOK(c) /\ AtWork(c) /\ Stored(Asked(c))
      /\ UNCHANGED <<cache, manifest, token, flight, object, load>>
  BY <1>0 DEF Register, BlobsOK, AtWork, RightKind, RequestOK
<1>2. Asked(c) \in Blob
  BY <1>0, <1>1, AtWorkNames
<1>3. Goto(c, "redirect") \/ Goto(c, "failed")
  BY DEF Register
<1>4. /\ req' \in [Caller -> Request] /\ Others(c)
      /\ req'[c].want = req[c].want /\ req'[c].to = req[c].to
      /\ req'[c].pc \in {"redirect", "failed"}
  BY <1>0, <1>3, GotoDoes DEF Step
<1>5. /\ ready' \in [Blob -> BOOLEAN]
      /\ \A b \in Blob : ready'[b] => ready[b] \/ b = Asked(c)
  BY <1>0, <1>2 DEF Register
<1>6. AtWork(c)' /\ Wants(c, "blob")'
  BY <1>1, <1>4 DEF AtWork, Wants
<1>7. RightKind(c)' /\ RequestOK(c)'
  BY <1>1, <1>4, <1>6
  DEF RightKind, RequestOK, Stored, Asked, DigestOf, RepoOf
<1>8. \A b \in Blob : (Stored(b) => Stored(b)') /\ (ready'[b] => Stored(b)')
  BY <1>0, <1>1, <1>5 DEF Stored, BlobsOK
<1>9. BlobsOK'
  BY <1>0, <1>1, <1>4, <1>5, <1>6, <1>7, <1>8, WorkStep
<1>10. TypeOK'
  <2>1. \A x \in Caller : req'[x].pc = "fetch" => req'[x] = req[x]
    BY <1>4 DEF Others
  <2> QED
    BY <1>0, <1>1, <1>4, <1>5, <2>1 DEF TypeOK
<1> QED
  BY <1>9, <1>10 DEF MirrorInv

Flight == [leader : Caller \cup {None}, done : BOOLEAN, to : Blob \cup {None}]

\* A request for a blob leads a flight, waits for one, or takes what one that
\* has ended brought.
LEMMA JoinKeeps ==
  ASSUME MirrorInv, NEW c \in Caller, UNCHANGED load, Join(c)
  PROVE  MirrorInv'
<1> DEFINE d == DigestOf(c)
<1>0. /\ TypeOK /\ req \in [Caller -> Request] /\ BlobsOK
      /\ flight \in [Digest -> Flight]
      /\ manifest \in [Repo -> 0 .. Past] /\ token \in [Repo -> 0 .. TokenTTL]
  BY DEF MirrorInv, TypeOK, Flight
<1>1. /\ req[c].pc = "lookup" /\ Wants(c, "blob") /\ RightKind(c)
      /\ RequestOK(c) /\ ~ AtWork(c) /\ c # None
      /\ UNCHANGED <<cache, manifest, token, object, ready, load>>
  BY <1>0, WantAssumption DEF Join, BlobsOK, AtWork
<1>2. d \in Digest /\ req[c].want \in Want /\ req[c] \in Request
  BY <1>0, <1>1, AtWorkNames DEF RightKind, Wants
<1>3. FlightOK(d) /\ flight[d] \in Flight
  BY <1>0, <1>2 DEF BlobsOK
<1>4. CASE flight[d].leader = None
  <2>1. Goto(c, "presign") /\ flight' = [flight EXCEPT ![d].leader = c]
    BY <1>4 DEF Join
  <2>2. /\ req' \in [Caller -> Request] /\ Others(c)
        /\ req'[c].want = req[c].want /\ req'[c].to = req[c].to
        /\ req'[c].pc = "presign"
    BY <1>0, <2>1, GotoDoes DEF Step
  <2> DEFINE f == [flight[d] EXCEPT !.leader = c]
  <2>3. f \in Flight /\ f.leader = c /\ f.done = flight[d].done /\ f.to = flight[d].to
    BY <1>3 DEF Flight
  <2>4. /\ flight' \in [Digest -> Flight] /\ flight'[d] = f
        /\ \A e \in Digest \ {d} : flight'[e] = flight[e]
    <3>1. flight' = [flight EXCEPT ![d] = f]
      BY <2>1
    <3> HIDE DEF f, d
    <3> QED
      BY <1>0, <1>2, <2>3, <3>1
  <2>5. AtWork(c)' /\ Wants(c, "blob")' /\ DigestOf(c)' = d
    BY <1>1, <2>2 DEF AtWork, Wants, DigestOf
  <2>6. \A x \in Caller : RightKind(x)' /\ RequestOK(x)'
    <3>1. RightKind(c)' /\ RequestOK(c)'
      BY <1>1, <1>2, <2>2, <2>3, <2>4, <2>5, WantAssumption
      DEF RightKind, RequestOK, Stored
    <3>2. ASSUME NEW x \in Caller, x # c PROVE RightKind(x)' /\ RequestOK(x)'
      <4>1. req'[x] = req[x] /\ RightKind(x) /\ RequestOK(x)
        BY <1>0, <2>2, <3>2 DEF Others, BlobsOK
      <4>2. Wants(x, "blob") => DigestOf(x) \in Digest
        BY <1>0, <4>1, AtWorkNames
      <4>3. RightKind(x)'
        BY <4>1 DEF RightKind, Wants
      <4>4. AtWork(x) \/ req[x].pc = "wait" => DigestOf(x) # d
        BY <1>1, <1>4, <4>1, WantAssumption DEF RequestOK
      <4>5. AtWork(x) \/ req[x].pc = "wait" => flight'[DigestOf(x)] = flight[DigestOf(x)]
        BY <2>4, <4>1, <4>2, <4>4 DEF AtWork, RightKind
      <4>6. /\ AtWork(x)' <=> AtWork(x)
            /\ DigestOf(x)' = DigestOf(x) /\ Asked(x)' = Asked(x)
            /\ Wants(x, "blob")' <=> Wants(x, "blob")
        BY <4>1 DEF AtWork, Wants, DigestOf, RepoOf, Asked
      <4>7. RequestOK(x)'
        BY <1>1, <4>1, <4>5, <4>6 DEF RequestOK, Stored
      <4> QED
        BY <4>3, <4>7
    <3> QED
      BY <3>1, <3>2
  <2>7. \A e \in Digest : FlightOK(e)'
    <3>1. ASSUME NEW e \in Digest, e = d PROVE FlightOK(e)'
      BY <1>1, <1>3, <1>4, <2>2, <2>3, <2>4, <2>5, <3>1 DEF FlightOK, Stored
    <3>2. ASSUME NEW e \in Digest, e # d PROVE FlightOK(e)'
      <4>1. FlightOK(e) /\ flight'[e] = flight[e]
            /\ flight[e].leader \in Caller \cup {None}
        BY <1>0, <2>4, <3>2 DEF BlobsOK, Flight
      <4>2. flight[e].leader # c
        BY <1>1, <4>1 DEF FlightOK
      <4>3. CASE flight[e].leader = None
        BY <1>1, <4>1, <4>3 DEF FlightOK, Stored
      <4>4. CASE flight[e].leader # None
        <5>1. PICK x \in Caller : x = flight[e].leader /\ x # c
          BY <4>1, <4>2, <4>4
        <5>2. req'[x] = req[x]
          BY <2>2, <5>1 DEF Others
        <5> QED
          BY <1>1, <4>1, <5>1, <5>2 DEF FlightOK, Stored, AtWork, Wants, DigestOf
      <4> QED
        BY <4>3, <4>4
    <3> QED
      BY <3>1, <3>2
  <2>8. BlobsOK'
    BY <1>0, <1>1, <2>6, <2>7 DEF BlobsOK, Stored
  <2>9. TypeOK'
    <3>1. \A x \in Caller : req'[x].pc = "fetch" => req'[x] = req[x]
      BY <2>2 DEF Others
    <3> QED
      BY <1>0, <1>1, <2>2, <2>4, <3>1 DEF TypeOK, Flight
  <2> QED
    BY <2>8, <2>9 DEF MirrorInv
<1>5. CASE flight[d].leader # None
  <2>1. flight' = flight /\ UNCHANGED <<cache, blobVars, load>>
    BY <1>1, <1>5 DEF Join, blobVars
  <2>2. /\ req' \in [Caller -> Request] /\ Others(c)
        /\ req'[c].want = req[c].want
        /\ \/ flight[d].done /\ req'[c].pc = "answered" /\ req'[c].to = flight[d].to
           \/ ~ flight[d].done /\ req'[c].pc = "wait" /\ req'[c].to = req[c].to
    <3>1. CASE flight[d].done
      <4> DEFINE r == Redirect(c, flight[d].to)
      <4>1. req' = [req EXCEPT ![c] = r]
        BY <1>5, <3>1 DEF Join
      <4>2. /\ r \in Request /\ r.pc = "answered" /\ r.to = flight[d].to
            /\ r.want = req[c].want
        BY <1>2, <1>3, RedirectIs DEF Flight
      <4> HIDE DEF r
      <4>3. /\ req' \in [Caller -> Request] /\ Others(c) /\ req'[c] = r
        BY <1>0, <4>1, <4>2 DEF Others
      <4> QED
        BY <3>1, <4>2, <4>3
    <3>2. CASE ~ flight[d].done
      BY <1>0, <1>5, <3>2, GotoDoes DEF Join, Step
    <3> QED
      BY <3>1, <3>2
  <2>3. Wants(c, "blob")' /\ ~ AtWork(c)' /\ DigestOf(c)' = d
    BY <1>1, <2>2 DEF AtWork, Wants, DigestOf
  <2>4. RightKind(c)'
    BY <1>1, <1>2, <2>2, <2>3 DEF RightKind
  <2>5. RequestOK(c)'
    BY <1>1, <1>3, <1>5, <2>1, <2>2, <2>3 DEF RequestOK, FlightOK, Stored
  <2> QED
    BY <1>0, <1>1, <1>2, <2>1, <2>2, <2>4, <2>5, RegistryOwnStep
<1> QED
  BY <1>4, <1>5

\* The function of a flight returns, and so do all who wait for it.
LEMMA ReturnKeeps ==
  ASSUME MirrorInv, NEW c \in Caller, UNCHANGED load, Return(c)
  PROVE  MirrorInv'
<1>0. /\ TypeOK /\ req \in [Caller -> Request] /\ BlobsOK
      /\ flight \in [Digest -> Flight]
  BY DEF MirrorInv, TypeOK, Flight
<1>1. /\ req[c].pc \in {"redirect", "failed"} /\ Wants(c, "blob") /\ RightKind(c)
      /\ RequestOK(c) /\ AtWork(c)
      /\ UNCHANGED <<cache, manifest, token, object, ready, load>>
  BY <1>0 DEF Return, BlobsOK, AtWork, RightKind
<1>2. PICK d \in Digest : d = DigestOf(c) /\ Asked(c) \in Blob /\ Asked(c)[2] = d
  BY <1>0, <1>1, AtWorkNames
<1>3. PICK to \in Blob \cup {None} :
        /\ to # None => to[2] = d /\ Stored(to)
        /\ flight' = [flight EXCEPT ![d].done = TRUE, ![d].to = to]
        /\ req' = [x \in Caller |->
                    IF x = c THEN [req[c] EXCEPT !.pc = "land"]
                    ELSE IF req[x].pc = "wait" /\ DigestOf(x) = d
                    THEN Redirect(x, to) ELSE req[x]]
  <2>1. PICK to \in {None} \cup (IF req[c].pc = "redirect" THEN {Asked(c)} ELSE {}) :
          /\ flight' = [flight EXCEPT ![DigestOf(c)].done = TRUE,
                                      ![DigestOf(c)].to = to]
          /\ req' = [x \in Caller |->
                      IF x = c THEN [req[c] EXCEPT !.pc = "land"]
                      ELSE IF req[x].pc = "wait" /\ DigestOf(x) = DigestOf(c)
                      THEN Redirect(x, to) ELSE req[x]]
    BY ZenonT(30) DEF Return
  <2>2. /\ to \in Blob \cup {None}
        /\ to # None => to[2] = d /\ Stored(to)
    BY <1>1, <1>2 DEF RequestOK
  <2> QED
    BY <1>2, <2>1, <2>2, ZenonT(30)
<1>4. flight[d] \in Flight /\ flight[d].leader = c
  BY <1>0, <1>1, <1>2 DEF RequestOK
<1> DEFINE f == [flight[d] EXCEPT !.done = TRUE, !.to = to]
<1>5. f \in Flight /\ f.leader = c /\ f.done /\ f.to = to
  BY <1>4 DEF Flight
<1>6. /\ flight' \in [Digest -> Flight]
      /\ flight'[d].leader = c /\ flight'[d].done /\ flight'[d].to = to
      /\ \A e \in Digest \ {d} : flight'[e] = flight[e]
  <2>1. flight' = [flight EXCEPT ![d] = f]
    BY <1>3
  <2> HIDE DEF f
  <2> QED
    BY <1>0, <1>5, <2>1
<1> DEFINE r == [req[c] EXCEPT !.pc = "land"]
<1>7. r \in Request /\ r.pc = "land" /\ r.want = req[c].want /\ r.to = req[c].to
  <2>1. req[c] \in Request
    BY <1>0
  <2> QED
    BY <2>1 DEF Request, Step
<1>8. /\ req'[c] = r
      /\ \A x \in Caller \ {c} :
           IF req[x].pc = "wait" /\ DigestOf(x) = d
             THEN req'[x] = Redirect(x, to) ELSE req'[x] = req[x]
  <2> HIDE DEF r
  <2> QED
    BY <1>3 DEF r
<1>9. \A x \in Caller : req'[x] \in Request /\ req'[x].want = req[x].want
  <2>1. ASSUME NEW x \in Caller, req'[x] = Redirect(x, to)
        PROVE  req'[x] \in Request /\ req'[x].want = req[x].want
    BY <1>0, <2>1, RedirectIs
  <2> HIDE DEF r
  <2> QED
    BY <1>0, <1>7, <1>8, <2>1
<1>10. req' \in [Caller -> Request]
  <2>1. req' = [x \in Caller |-> req'[x]]
    BY <1>3
  <2> QED
    BY <1>9, <2>1
<1> HIDE DEF f, r
<1>11. \A x \in Caller : DigestOf(x)' = DigestOf(x) /\ Asked(x)' = Asked(x)
  BY <1>9 DEF DigestOf, RepoOf, Asked
<1>12. \A x \in Caller : RightKind(x)' /\ RequestOK(x)'
  <2>1. RightKind(c)' /\ RequestOK(c)'
    <3>1. Wants(c, "blob")' /\ AtWork(c)'
      BY <1>1, <1>7, <1>8 DEF Wants, AtWork
    <3> QED
      BY <1>1, <1>2, <1>6, <1>7, <1>8, <1>11, <3>1 DEF RightKind, RequestOK, Stored
  <2>2. ASSUME NEW x \in Caller, x # c, req[x].pc = "wait", DigestOf(x) = d
        PROVE  RightKind(x)' /\ RequestOK(x)'
    <3>1. req'[x] = Redirect(x, to) /\ RightKind(x) /\ RequestOK(x)
      BY <1>0, <1>8, <2>2 DEF BlobsOK
    <3>2. /\ req'[x].pc = "answered" /\ req'[x].to = to
          /\ req'[x].want = req[x].want
      BY <1>0, <3>1, RedirectIs
    <3>3. Wants(x, "blob")' /\ ~ AtWork(x)' /\ req'[x].want \in Index \cup Want
      BY <2>2, <3>1, <3>2 DEF RightKind, Wants, AtWork
    <3> QED
      BY <1>1, <1>3, <1>11, <2>2, <3>2, <3>3 DEF RightKind, RequestOK, Stored
  <2>3. ASSUME NEW x \in Caller, x # c, ~ (req[x].pc = "wait" /\ DigestOf(x) = d)
        PROVE  RightKind(x)' /\ RequestOK(x)'
    <3>1. req'[x] = req[x] /\ RightKind(x) /\ RequestOK(x)
      BY <1>0, <1>8, <2>3 DEF BlobsOK
    <3>2. Wants(x, "blob") => DigestOf(x) \in Digest
      BY <1>0, <3>1, AtWorkNames
    <3>3. req[x].pc = "wait" => flight'[DigestOf(x)] = flight[DigestOf(x)]
      BY <1>6, <2>3, <3>1, <3>2 DEF RightKind
    <3>4. AtWork(x) => flight'[DigestOf(x)].leader = x
      BY <1>4, <1>6, <3>1, <3>2 DEF AtWork, RequestOK
    <3>5. (Wants(x, "blob")' <=> Wants(x, "blob")) /\ (AtWork(x)' <=> AtWork(x))
      BY <3>1 DEF Wants, AtWork
    <3> QED
      BY <1>1, <1>11, <3>1, <3>3, <3>4, <3>5 DEF RightKind, RequestOK, Stored
  <2> QED
    BY <2>1, <2>2, <2>3
<1>13. \A e \in Digest : FlightOK(e)'
  <2>1. FlightOK(d)'
    <3>1. AtWork(c)' /\ req'[c].pc = "land"
      BY <1>1, <1>7, <1>8 DEF Wants, AtWork
    <3>2. to # None => Stored(to)'
      BY <1>1, <1>3 DEF Stored
    <3> QED
      BY <1>2, <1>3, <1>6, <1>11, <3>1, <3>2, WantAssumption DEF FlightOK
  <2>2. ASSUME NEW e \in Digest, e # d PROVE FlightOK(e)'
    <3>1. FlightOK(e) /\ flight'[e] = flight[e]
          /\ flight[e].leader \in Caller \cup {None}
      BY <1>0, <1>6, <2>2 DEF BlobsOK, Flight
    <3>2. CASE flight[e].leader = None
      BY <1>1, <3>1, <3>2 DEF FlightOK, Stored
    <3>3. CASE flight[e].leader # None
      <4>1. PICK x \in Caller : x = flight[e].leader
        BY <3>1, <3>3
      <4>2. x # c /\ req[x].pc # "wait"
        BY <1>2, <2>2, <3>1, <3>3, <4>1 DEF FlightOK, AtWork
      <4>3. req'[x] = req[x]
        BY <1>8, <4>2
      <4> QED
        BY <1>1, <3>1, <4>1, <4>3 DEF FlightOK, Stored, AtWork, Wants, DigestOf
    <3> QED
      BY <3>2, <3>3
  <2> QED
    BY <2>1, <2>2
<1>14. BlobsOK'
  BY <1>0, <1>1, <1>12, <1>13 DEF BlobsOK, Stored
<1>15. TypeOK'
  <2>1. \A x \in Caller : req'[x].pc = "fetch" => req'[x] = req[x]
    <3>1. \A x \in Caller : req'[x] = Redirect(x, to) => req'[x].pc = "answered"
      BY <1>0, RedirectIs
    <3> QED
      BY <1>7, <1>8, <3>1
  <2> QED
    BY <1>0, <1>1, <1>6, <1>10, <2>1 DEF TypeOK, Flight
<1> QED
  BY <1>14, <1>15 DEF MirrorInv

\* The leader removes its flight.
LEMMA LandKeeps ==
  ASSUME MirrorInv, NEW c \in Caller, UNCHANGED load, Land(c)
  PROVE  MirrorInv'
<1>0. /\ TypeOK /\ req \in [Caller -> Request] /\ BlobsOK
      /\ flight \in [Digest -> Flight]
  BY DEF MirrorInv, TypeOK, Flight
<1>1. /\ req[c].pc = "land" /\ Wants(c, "blob") /\ RightKind(c)
      /\ RequestOK(c) /\ AtWork(c)
      /\ UNCHANGED <<cache, manifest, token, object, ready, load>>
  BY <1>0 DEF Land, BlobsOK, AtWork, RightKind
<1>2. PICK d \in Digest : d = DigestOf(c)
  BY <1>0, <1>1, AtWorkNames
<1>3. flight[d].leader = c /\ c # None /\ FlightOK(d) /\ flight[d] \in Flight
  BY <1>0, <1>1, <1>2, WantAssumption DEF BlobsOK, RequestOK
<1>4. flight[d].done
  BY <1>1, <1>3 DEF FlightOK
<1>5. PICK to \in Blob \cup {None} : to = flight[d].to
  BY <1>3 DEF Flight
<1>6. /\ flight' = [flight EXCEPT ![d] = NoFlight]
      /\ req' = [req EXCEPT ![c] = Redirect(c, to)]
  BY <1>2, <1>5 DEF Land
<1>7. /\ flight' \in [Digest -> Flight] /\ flight'[d] = NoFlight
      /\ \A e \in Digest \ {d} : flight'[e] = flight[e]
  <2>1. NoFlight \in Flight
    BY DEF NoFlight, Flight
  <2> QED
    BY <1>0, <1>6, <2>1
<1>8. /\ req' \in [Caller -> Request] /\ Others(c)
      /\ req'[c].pc = "answered" /\ req'[c].to = to
      /\ req'[c].want = req[c].want
  <2> DEFINE r == Redirect(c, to)
  <2>1. /\ r \in Request /\ r.pc = "answered" /\ r.to = to
        /\ r.want = req[c].want
    BY <1>0, RedirectIs
  <2> HIDE DEF r
  <2>2. req' \in [Caller -> Request] /\ Others(c) /\ req'[c] = r
    BY <1>0, <1>6, <2>1 DEF Others, r
  <2> QED
    BY <2>1, <2>2
<1>9. \A x \in Caller : RightKind(x)' /\ RequestOK(x)'
  <2>1. RightKind(c)' /\ RequestOK(c)'
    <3>1. Wants(c, "blob")' /\ ~ AtWork(c)' /\ DigestOf(c)' = d
      BY <1>1, <1>2, <1>8 DEF Wants, AtWork, DigestOf
    <3>2. to # None => to[2] = d /\ Stored(to)'
      BY <1>1, <1>3, <1>5 DEF FlightOK, Stored
    <3> QED
      BY <1>1, <1>8, <3>1, <3>2 DEF RightKind, RequestOK
  <2>2. ASSUME NEW x \in Caller, x # c PROVE RightKind(x)' /\ RequestOK(x)'
    <3>1. req'[x] = req[x] /\ RightKind(x) /\ RequestOK(x)
      BY <1>0, <1>8, <2>2 DEF Others, BlobsOK
    <3>2. Wants(x, "blob") => DigestOf(x) \in Digest
      BY <1>0, <3>1, AtWorkNames
    <3>3. AtWork(x) \/ req[x].pc = "wait" => DigestOf(x) # d
      BY <1>3, <1>4, <2>2, <3>1 DEF RequestOK
    <3>4. AtWork(x) \/ req[x].pc = "wait" => flight'[DigestOf(x)] = flight[DigestOf(x)]
      BY <1>7, <3>1, <3>2, <3>3 DEF AtWork, RightKind
    <3>5. /\ AtWork(x)' <=> AtWork(x)
          /\ DigestOf(x)' = DigestOf(x) /\ Asked(x)' = Asked(x)
          /\ Wants(x, "blob")' <=> Wants(x, "blob")
      BY <3>1 DEF AtWork, Wants, DigestOf, RepoOf, Asked
    <3>6. RequestOK(x)'
      BY <1>1, <3>1, <3>4, <3>5 DEF RequestOK, Stored
    <3>7. RightKind(x)'
      BY <3>1, <3>5 DEF RightKind
    <3> QED
      BY <3>6, <3>7
  <2> QED
    BY <2>1, <2>2
<1>10. \A e \in Digest : FlightOK(e)'
  <2>1. FlightOK(d)'
    BY <1>7 DEF FlightOK, NoFlight
  <2>2. ASSUME NEW e \in Digest, e # d PROVE FlightOK(e)'
    <3>1. FlightOK(e) /\ flight'[e] = flight[e]
          /\ flight[e].leader \in Caller \cup {None}
      BY <1>0, <1>7, <2>2 DEF BlobsOK, Flight
    <3>2. flight[e].leader # c
      BY <1>2, <1>3, <2>2, <3>1 DEF FlightOK
    <3>3. CASE flight[e].leader = None
      BY <1>1, <3>1, <3>3 DEF FlightOK, Stored
    <3>4. CASE flight[e].leader # None
      <4>1. PICK x \in Caller : x = flight[e].leader /\ x # c
        BY <3>1, <3>2, <3>4
      <4>2. req'[x] = req[x]
        BY <1>8, <4>1 DEF Others
      <4> QED
        BY <1>1, <3>1, <4>1, <4>2 DEF FlightOK, Stored, AtWork, Wants, DigestOf
    <3> QED
      BY <3>3, <3>4
  <2> QED
    BY <2>1, <2>2
<1>11. BlobsOK'
  BY <1>0, <1>1, <1>9, <1>10 DEF BlobsOK, Stored
<1>12. TypeOK'
  <2>1. \A x \in Caller : req'[x].pc = "fetch" => req'[x] = req[x]
    BY <1>8 DEF Others
  <2> QED
    BY <1>0, <1>1, <1>7, <1>8, <2>1 DEF TypeOK, Flight
<1> QED
  BY <1>11, <1>12 DEF MirrorInv

\* Time makes things older, and nothing too old to have an age.
LEMMA OlderIsAnAge ==
  ASSUME NEW max \in Nat, NEW a \in 0 .. max
  PROVE  Older(a, max) \in 0 .. max
BY DEF Older

\* The record of a request whose exchange has become older.
LEMMA AgedRequest ==
  ASSUME NEW r \in Request
  PROVE  LET s == [r EXCEPT !.age = Older(@, OldAge)]
         IN  /\ s \in Request /\ s.pc = r.pc /\ s.want = r.want
             /\ s.origin = r.origin /\ s.to = r.to /\ s.code = r.code
             /\ s.age = Older(r.age, OldAge)
<1>1. Older(r.age, OldAge) \in 0 .. OldAge
  BY CacheAssumption, OlderIsAnAge DEF Request, OldAge
<1> QED
  BY <1>1 DEF Request

\* Of a request, a tick changes only the age of an exchange for a page.
LEMMA TickRequests ==
  ASSUME req \in [Caller -> Request], AgeRequests
  PROVE  /\ req' \in [Caller -> Request]
         /\ \A c \in Caller :
              /\ req'[c].pc = req[c].pc /\ req'[c].want = req[c].want
              /\ req'[c].origin = req[c].origin /\ req'[c].to = req[c].to
              /\ req'[c].code = req[c].code
              /\ req'[c].age = IF FetchingIndex(c) THEN Older(req[c].age, OldAge)
                                                   ELSE req[c].age
<1>1. req' = [c \in Caller |-> req'[c]]
  BY DEF AgeRequests
<1>2. ASSUME NEW c \in Caller
      PROVE  /\ req'[c] \in Request
             /\ req'[c].pc = req[c].pc /\ req'[c].want = req[c].want
             /\ req'[c].origin = req[c].origin /\ req'[c].to = req[c].to
             /\ req'[c].code = req[c].code
             /\ req'[c].age = IF FetchingIndex(c) THEN Older(req[c].age, OldAge)
                                                  ELSE req[c].age
  <2>1. req[c] \in Request
    OBVIOUS
  <2>2. CASE FetchingIndex(c)
    <3>1. req'[c] = [req[c] EXCEPT !.age = Older(@, OldAge)]
      BY <2>2 DEF AgeRequests
    <3> QED
      BY <2>1, <2>2, <3>1, AgedRequest
  <2>3. CASE ~ FetchingIndex(c)
    <3>1. req'[c] = req[c]
      BY <2>3 DEF AgeRequests
    <3> QED
      BY <2>1, <2>3, <3>1
  <2> QED
    BY <2>2, <2>3
<1> QED
  BY <1>1, <1>2

LEMMA TickKeeps ==
  ASSUME MirrorInv, UNCHANGED load, Tick
  PROVE  MirrorInv'
<1>0. /\ TypeOK /\ req \in [Caller -> Request] /\ BlobsOK
      /\ cache \in [Index -> Entry]
      /\ manifest \in [Repo -> 0 .. Past] /\ token \in [Repo -> 0 .. TokenTTL]
  BY DEF MirrorInv, TypeOK
<1>1. flight' = flight /\ object' = object /\ ready' = ready
  BY DEF Tick, blobVars
<1>2. /\ req' \in [Caller -> Request]
      /\ \A c \in Caller :
           /\ req'[c].pc = req[c].pc /\ req'[c].want = req[c].want
           /\ req'[c].origin = req[c].origin /\ req'[c].to = req[c].to
  BY <1>0, TickRequests DEF Tick
<1>3. \A c \in Caller : RightKind(c)' /\ RequestOK(c)'
  <2> SUFFICES ASSUME NEW c \in Caller PROVE RightKind(c)' /\ RequestOK(c)'
    OBVIOUS
  <2>1. RightKind(c) /\ RequestOK(c)
    BY <1>0 DEF BlobsOK
  <2> QED
    BY <1>1, <1>2, <2>1
    DEF RightKind, RequestOK, AtWork, Wants, DigestOf, RepoOf, Asked, Stored
<1>4. \A d \in Digest : FlightOK(d)'
  <2> SUFFICES ASSUME NEW d \in Digest PROVE FlightOK(d)'
    OBVIOUS
  <2>1. FlightOK(d) /\ flight[d].leader \in Caller \cup {None}
    BY <1>0 DEF BlobsOK, TypeOK
  <2> QED
    BY <1>1, <1>2, <2>1 DEF FlightOK, AtWork, Wants, DigestOf, Stored
<1>5. BlobsOK'
  BY <1>0, <1>1, <1>3, <1>4 DEF BlobsOK, Stored
<1>6. /\ manifest' \in [Repo -> 0 .. Past] /\ token' \in [Repo -> 0 .. TokenTTL]
  BY <1>0, OlderIsAnAge, CacheAssumption, RegistryAssumption DEF Tick, Past
<1>7. cache' \in [Index -> Entry]
  <2>1. ASSUME NEW e \in Entry PROVE Aged(e) \in Entry
    BY OlderIsAnAge, CacheAssumption DEF Aged, Entry, Past, OldAge
  <2> QED
    BY <1>0, <2>1 DEF Tick
<1>8. TypeOK'
  BY <1>0, <1>1, <1>2, <1>6, <1>7 DEF TypeOK
<1> QED
  BY <1>5, <1>8 DEF MirrorInv

LEMMA MirrorInit == Init => MirrorInv
<1> SUFFICES ASSUME Init PROVE MirrorInv
  OBVIOUS
<1>1. NoRequest \in Request
  BY ZeroIsAnAge DEF NoRequest, Request, Step, Code
<1>2. /\ cache = [p \in Index |-> NoEntry] /\ req = [c \in Caller |-> NoRequest]
      /\ \A d \in Digest : flight[d] = NoFlight
  BY DEF Init, CacheInit
<1>3. TypeOK
  <2>1. cache \in [Index -> Entry] /\ req \in [Caller -> Request]
    BY <1>1, <1>2, CacheAssumption DEF Entry, NoEntry, Past, OldAge
  <2>2. \A c \in Caller : req[c].pc = "idle"
    BY <1>2 DEF NoRequest
  <2>3. /\ manifest \in [Repo -> 0 .. Past] /\ token \in [Repo -> 0 .. TokenTTL]
    BY CacheAssumption, RegistryAssumption DEF Init, Past
  <2> QED
    BY <2>1, <2>2, <2>3 DEF Init, TypeOK, NoFlight
<1>4. \A c \in Caller : RightKind(c) /\ RequestOK(c)
  BY <1>2 DEF NoRequest, RightKind, RequestOK, AtWork, Wants
<1>5. \A d \in Digest : FlightOK(d)
  BY <1>2 DEF FlightOK, NoFlight
<1> QED
  BY <1>3, <1>4, <1>5 DEF MirrorInv, BlobsOK, Init

LEMMA MirrorNext == MirrorInv /\ [Next]_vars => MirrorInv'
<1> SUFFICES ASSUME MirrorInv, [Next]_vars PROVE MirrorInv'
  OBVIOUS
<1>1. CASE UNCHANGED vars
  BY <1>1
  DEF vars, MirrorInv, BlobsOK, TypeOK, RightKind, RequestOK, FlightOK, Stored,
      AtWork, Wants, DigestOf, RepoOf, Asked
<1>2. CASE Next
  <2>1. UNCHANGED load
    BY <1>2 DEF Next
  <2>2. ASSUME NEW c \in Caller, Arrive(c) \/ RequestStep(c) PROVE MirrorInv'
    BY <2>1, <2>2, PageStepKeeps, PassingKeeps, TokenKeeps, EndsKeep,
       PresignOrFetchKeeps, FetchBlobKeeps, RegisterKeeps, JoinKeeps, ReturnKeeps,
       LandKeeps DEF RequestStep
  <2> QED
    BY <1>2, <2>1, <2>2, TickKeeps DEF Next
<1> QED
  BY <1>1, <1>2

\* What the invariant says of those who share a digest.
LEMMA MirrorInvImplies == MirrorInv => FlightInv /\ RedirectIsDigest
<1> SUFFICES ASSUME MirrorInv PROVE FlightInv /\ RedirectIsDigest
  OBVIOUS
<1>1. TypeOK /\ BlobsOK
  BY DEF MirrorInv
<1>2. NoSecondFetch
  <2> SUFFICES ASSUME NEW c \in Caller, Wants(c, "blob"),
                      req[c].pc \in {"token", "fetch", "register"}
               PROVE  /\ ~ ready[Asked(c)]
                      /\ \A x \in Caller \ {c} :
                           Wants(x, "blob") /\ DigestOf(x) = DigestOf(c) =>
                             req[x].pc \in {"lookup", "wait", "answered"}
    BY DEF NoSecondFetch
  <2>1. RequestOK(c) /\ AtWork(c)
    BY <1>1 DEF BlobsOK, AtWork
  <2>2. ASSUME NEW x \in Caller \ {c}, Wants(x, "blob"), DigestOf(x) = DigestOf(c)
        PROVE  req[x].pc \in {"lookup", "wait", "answered"}
    <3>1. RequestOK(x) /\ RightKind(x) /\ req[x].pc \in Step
      BY <1>1 DEF BlobsOK, TypeOK, Request
    <3>2. ~ AtWork(x)
      BY <2>1, <2>2, <3>1 DEF RequestOK
    <3> QED
      BY <2>2, <3>1, <3>2 DEF AtWork, RightKind, Wants, Step
  <2> QED
    BY <2>1, <2>2 DEF RequestOK
<1>3. NobodyWaitsAlone
  <2> SUFFICES ASSUME NEW c \in Caller, req[c].pc = "wait"
               PROVE  \E x \in Caller \ {c} :
                        /\ Leads(x, DigestOf(c)) /\ Wants(x, "blob")
                        /\ DigestOf(x) = DigestOf(c)
    BY DEF NobodyWaitsAlone
  <2>1. RequestOK(c) /\ RightKind(c) /\ Wants(c, "blob")
    BY <1>1 DEF BlobsOK, RightKind
  <2>2. PICK d \in Digest : d = DigestOf(c)
    BY <1>1, <2>1, AtWorkNames
  <2>3. flight[d].leader \in Caller /\ ~ flight[d].done
    BY <1>1, <2>1, <2>2 DEF RequestOK, TypeOK
  <2>4. AtWork(flight[d].leader) /\ DigestOf(flight[d].leader) = d
    BY <1>1, <2>1, <2>2 DEF RequestOK, BlobsOK, FlightOK
  <2> QED
    BY <2>2, <2>3, <2>4 DEF Leads, AtWork
<1>4. RedirectIsDigest
  BY <1>1 DEF BlobsOK, RequestOK, RedirectIsDigest, Stored
<1> QED
  BY <1>1, <1>2, <1>3, <1>4 DEF FlightInv

\* MirrorInv, which says what flights, requests, objects and tasks know of
\* each other, is an invariant of doFlight and all that goes on around it.
THEOREM MirrorCorrect == Spec => []MirrorInv
BY MirrorInit, MirrorNext, PTL DEF Spec

\* A blob is fetched by one request at a time and never again once its task is
\* ready, and whoever waits for a flight (doFlight) waits for one at work.
THEOREM FlightCorrect == Spec => []FlightInv
<1>1. MirrorInv => FlightInv
  BY MirrorInvImplies
<1> QED
  BY <1>1, MirrorCorrect, PTL

\* The redirect of serveBlob leads to an object with the digest asked for,
\* whichever repository's request fetched it.
THEOREM RedirectCorrect == Spec => []RedirectIsDigest
<1>1. MirrorInv => RedirectIsDigest
  BY MirrorInvImplies
<1> QED
  BY <1>1, MirrorCorrect, PTL

-----------------------------------------------------------------------------
(* Ages of pages *)

\* c carries no page that is too old.
AgeOK(c) ==
  /\ req[c].want \in Index /\ req[c].pc \in {"fetch", "store"} =>
       req[c].age <= FetchMax
  /\ req[c].pc = "answered" /\ req[c].want \in Index /\ req[c].code = "ok"
       => req[c].age <= TTL + FetchMax

LEMMA AgesByRequest ==
  AgesOK <=> /\ \A p \in Index : Fresh(p) => cache[p].body <= cache[p].stored + FetchMax
             /\ \A c \in Caller : AgeOK(c)
BY DEF AgesOK, AgeOK, BoundedStaleness

\* A step of c that does not touch the cache changes the age of no other page.
LEMMA AgesOwnStep ==
  ASSUME AgesOK, NEW c \in Caller, Others(c), cache' = cache, AgeOK(c)'
  PROVE  AgesOK'
<1>1. \A x \in Caller : AgeOK(x)'
  <2> SUFFICES ASSUME NEW x \in Caller, x # c PROVE AgeOK(x)'
    OBVIOUS
  <2>1. req'[x] = req[x] /\ AgeOK(x)
    BY AgesByRequest DEF Others
  <2> QED
    BY <2>1 DEF AgeOK
<1>2. \A p \in Index : Fresh(p)' => cache'[p].body <= cache'[p].stored + FetchMax
  BY DEF AgesOK, Fresh
<1> QED
  BY <1>1, <1>2, AgesByRequest DEF AgesOK, AgeOK, BoundedStaleness

LEMMA PageAges ==
  ASSUME MirrorInv, AgesOK, NEW c \in Caller, PageStep(c)
  PROVE  AgesOK'
<1> USE CacheAssumption
<1>0. TypeOK /\ req \in [Caller -> Request] /\ cache \in [Index -> Entry]
  BY DEF MirrorInv, TypeOK
<1>1. /\ IndexStep(c) /\ AgeOK(c)
      /\ \A p \in Index : Fresh(p) => cache[p].body <= cache[p].stored + FetchMax
  BY AgesByRequest DEF PageStep
<1>2. 0 \in 0 .. OldAge
  BY ZeroIsAnAge
<1>3. \A p \in Index : cache[p].body \in 0 .. OldAge /\ cache[p].stored \in 0 .. Past
  BY <1>0 DEF Entry
<1>4. req[c].age \in 0 .. OldAge /\ req[c].origin \in Nat
  BY <1>0 DEF Request
<1>5. CASE Hit(c)
  <2>1. /\ Respond(c, "ok", cache[req[c].want].body) /\ cache' = cache
        /\ req[c].want \in Index /\ Fresh(req[c].want)
    BY <1>5 DEF Hit
  <2>2. cache[req[c].want].body <= TTL + FetchMax
    BY <1>1, <1>3, <2>1 DEF Fresh, Past, OldAge
  <2>3. /\ Others(c) /\ req'[c].pc = "answered"
        /\ req'[c].age = cache[req[c].want].body
    BY <1>0, <1>3, <2>1, RespondDoes DEF Code
  <2> QED
    BY <2>1, <2>2, <2>3, AgesOwnStep DEF AgeOK
<1>6. CASE Miss(c)
  <2>1. cache' = cache /\ Others(c) /\ req'[c].pc = "fetch" /\ req'[c].age = 0
    BY <1>0, <1>6, SendDoes DEF Miss
  <2> QED
    BY <2>1, AgesOwnStep DEF AgeOK
<1>7. CASE Delivered(c)
  <2>1. /\ cache' = cache /\ Others(c) /\ req'[c].pc = "store"
        /\ req'[c].age = req[c].age /\ req[c].age <= FetchMax
    BY <1>0, <1>1, <1>7, GotoDoes DEF Delivered, FetchingIndex, AgeOK, Step
  <2> QED
    BY <2>1, AgesOwnStep DEF AgeOK
<1>8. CASE Refused(c)
  <2>1. cache' = cache /\ Others(c) /\ req'[c].pc = "answered" /\ req'[c].age = 0
    BY <1>0, <1>2, <1>8, RespondDoes DEF Refused, Code
  <2> QED
    BY <2>1, AgesOwnStep DEF AgeOK
<1>9. CASE OriginFails(c)
  <2>1. Send(c, req[c].origin + 1) \/ Respond(c, "failed", 0)
    BY <1>9 DEF OriginFails
  <2>2. /\ cache' = cache /\ Others(c) /\ req'[c].pc \in {"fetch", "answered"}
        /\ req'[c].age = 0
    <3>1. CASE Send(c, req[c].origin + 1)
      BY <1>0, <1>4, <1>9, <3>1, SendDoes DEF OriginFails
    <3>2. CASE Respond(c, "failed", 0)
      BY <1>0, <1>2, <1>9, <3>2, RespondDoes DEF OriginFails, Code
    <3> QED
      BY <2>1, <3>1, <3>2
  <2> QED
    BY <2>2, AgesOwnStep DEF AgeOK
<1>10. CASE StoreIndex(c)
  <2>1. /\ Respond(c, "ok", req[c].age) /\ req[c].want \in Index
        /\ cache' = [cache EXCEPT ![req[c].want] =
                       [stored |-> 0, body |-> req[c].age]]
    BY <1>10 DEF StoreIndex
  <2>2. req[c].age <= FetchMax
    BY <1>1, <1>10 DEF StoreIndex, AgeOK
  <2>3. Others(c) /\ req'[c].pc = "answered" /\ req'[c].age = req[c].age
    BY <1>0, <1>4, <2>1, RespondDoes DEF Code
  <2>4. \A x \in Caller : AgeOK(x)'
    <3> SUFFICES ASSUME NEW x \in Caller PROVE AgeOK(x)'
      OBVIOUS
    <3>1. CASE x = c
      BY <1>4, <2>2, <2>3, <3>1 DEF AgeOK
    <3>2. CASE x # c
      <4>1. req'[x] = req[x] /\ AgeOK(x)
        BY <2>3, <3>2, AgesByRequest DEF Others
      <4> QED
        BY <4>1 DEF AgeOK
    <3> QED
      BY <3>1, <3>2
  <2>5. \A p \in Index : Fresh(p)' => cache'[p].body <= cache'[p].stored + FetchMax
    <3> SUFFICES ASSUME NEW p \in Index, Fresh(p)'
                 PROVE  cache'[p].body <= cache'[p].stored + FetchMax
      OBVIOUS
    <3>1. CASE p = req[c].want
      BY <1>0, <1>4, <2>1, <2>2, <3>1
    <3>2. CASE p # req[c].want
      <4>1. cache'[p] = cache[p]
        BY <1>0, <2>1, <3>2
      <4> QED
        BY <1>1, <4>1 DEF Fresh
    <3> QED
      BY <3>1, <3>2
  <2> QED
    BY <2>4, <2>5 DEF AgesOK, AgeOK, BoundedStaleness
<1> QED
  BY <1>1, <1>5, <1>6, <1>7, <1>8, <1>9, <1>10 DEF IndexStep

\* Time passes only while no page is on its way to the cache or to a client,
\* and an exchange is over by its time-out.
LEMMA TickAges ==
  ASSUME MirrorInv, AgesOK, Tick
  PROVE  AgesOK'
<1> USE CacheAssumption
<1>0. TypeOK /\ req \in [Caller -> Request] /\ cache \in [Index -> Entry]
  BY DEF MirrorInv, TypeOK
<1>1. \A c \in Caller : AgeOK(c)'
  <2> SUFFICES ASSUME NEW c \in Caller PROVE AgeOK(c)'
    OBVIOUS
  <2>1. /\ req[c].pc \in {"idle", "token", "fetch", "wait"}
        /\ FetchingIndex(c) => req[c].age < FetchMax
    BY DEF Tick, MayTick
  <2>2. /\ req'[c].pc = req[c].pc /\ req'[c].want = req[c].want
        /\ req'[c].age = IF FetchingIndex(c) THEN Older(req[c].age, OldAge)
                                             ELSE req[c].age
    BY <1>0, TickRequests DEF Tick
  <2>3. req[c].age \in 0 .. OldAge
    BY <1>0 DEF Request
  <2> QED
    BY <2>1, <2>2, <2>3 DEF AgeOK, FetchingIndex, Older, OldAge
<1>2. \A p \in Index : Fresh(p)' => cache'[p].body <= cache'[p].stored + FetchMax
  <2> SUFFICES ASSUME NEW p \in Index, Fresh(p)'
               PROVE  cache'[p].body <= cache'[p].stored + FetchMax
    OBVIOUS
  <2>1. /\ cache'[p].stored = Older(cache[p].stored, Past)
        /\ cache'[p].body = Older(cache[p].body, OldAge)
    BY DEF Tick, Aged
  <2>2. cache[p].body \in 0 .. OldAge /\ cache[p].stored \in 0 .. Past
    BY <1>0 DEF Entry
  <2>3. cache'[p].stored = cache[p].stored + 1 /\ cache[p].stored <= TTL
    BY <2>1, <2>2 DEF Fresh, Older, Past
  <2>4. cache[p].body <= cache[p].stored + FetchMax
    BY <2>3 DEF AgesOK, Fresh
  <2> QED
    BY <2>1, <2>2, <2>3, <2>4 DEF Older
<1> QED
  BY <1>1, <1>2 DEF AgesOK, AgeOK, BoundedStaleness

\* What asks for something of the registry carries no page.
LEMMA RegistryAges ==
  ASSUME MirrorInv, AgesOK, cache' = cache,
         \A x \in Caller : req'[x] = req[x] \/ req'[x].want \notin Index
  PROVE  AgesOK'
<1>1. \A x \in Caller : AgeOK(x)'
  <2> SUFFICES ASSUME NEW x \in Caller PROVE AgeOK(x)'
    OBVIOUS
  <2>1. AgeOK(x)
    BY AgesByRequest
  <2> QED
    BY <2>1 DEF AgeOK
<1> QED
  BY <1>1 DEF AgesOK, AgeOK, BoundedStaleness, Fresh

LEMMA RegistryLeavesPages ==
  ASSUME MirrorInv, NEW c \in Caller,
         \/ GetToken(c) \/ TokenFails(c)
         \/ ManifestHit(c) \/ ManifestMiss(c) \/ ManifestDelivered(c)
         \/ UpstreamEnds(c) \/ Head(c)
         \/ Join(c) \/ PresignOrFetch(c) \/ FetchBlob(c) \/ Register(c)
         \/ Return(c) \/ Land(c)
  PROVE  /\ cache' = cache
         /\ \A x \in Caller : req'[x] = req[x] \/ req'[x].want \notin Index
<1>0. TypeOK /\ req \in [Caller -> Request] /\ BlobsOK
  BY DEF MirrorInv, TypeOK
<1>1. req[c].want \notin Index
  <2>1. RightKind(c)
    BY <1>0 DEF BlobsOK
  <2> QED
    BY <2>1 DEF GetToken, TokenFails, ManifestHit, ManifestMiss,
      ManifestDelivered, UpstreamEnds, Head, Join, PresignOrFetch, FetchBlob,
      Register, Return, Land, Wants, RightKind
<1>2. ASSUME cache' = cache,
             \/ NeedUpstream(c) \/ Send(c, 1)
             \/ \E at \in Step : Goto(c, at)
             \/ \E code \in Code : Respond(c, code, 0)
      PROVE  /\ cache' = cache
             /\ \A x \in Caller : req'[x] = req[x] \/ req'[x].want \notin Index
  <2>1. Others(c) /\ req'[c].want = req[c].want
    BY <1>0, <1>2, NeedUpstreamDoes, SendDoes, GotoDoes, RespondDoes, ZeroIsAnAge
  <2> QED
    BY <1>1, <1>2, <2>1 DEF Others
<1>3. CASE \/ GetToken(c) \/ TokenFails(c)
           \/ ManifestHit(c) \/ ManifestMiss(c) \/ ManifestDelivered(c)
           \/ UpstreamEnds(c) \/ Head(c)
  <2>1. cache' = cache
    BY <1>3 DEF GetToken, TokenFails, ManifestHit, ManifestMiss,
      ManifestDelivered, UpstreamEnds, Head
  <2>2. \/ NeedUpstream(c) \/ Send(c, 1)
        \/ \E at \in Step : Goto(c, at)
        \/ \E code \in Code : Respond(c, code, 0)
    BY <1>3 DEF GetToken, TokenFails, ManifestHit, ManifestMiss,
      ManifestDelivered, UpstreamEnds, Head, Step, Code
  <2> QED
    BY <1>2, <2>1, <2>2
<1>4. CASE PresignOrFetch(c) \/ FetchBlob(c) \/ Register(c)
  <2>1. cache' = cache
    BY <1>4 DEF PresignOrFetch, FetchBlob, Register
  <2>2. NeedUpstream(c) \/ \E at \in Step : Goto(c, at)
    BY <1>4 DEF PresignOrFetch, FetchBlob, Register, Step
  <2> QED
    BY <1>2, <2>1, <2>2
<1>5. CASE Join(c) \/ Land(c)
  <2>1. Wants(c, "blob") /\ cache' = cache
    BY <1>0, <1>5 DEF Join, Land, BlobsOK, RightKind
  <2>2. DigestOf(c) \in Digest
    BY <1>0, <2>1, AtWorkNames DEF BlobsOK
  <2>3. flight[DigestOf(c)].to \in Blob \cup {None}
    BY <1>0, <2>2 DEF TypeOK
  <2>4. \/ \E at \in Step : Goto(c, at)
        \/ req' = [req EXCEPT ![c] = Redirect(c, flight[DigestOf(c)].to)]
    BY <1>5 DEF Join, Land, Step
  <2>5. CASE \E at \in Step : Goto(c, at)
    BY <1>2, <2>1, <2>5
  <2>6. CASE req' = [req EXCEPT ![c] = Redirect(c, flight[DigestOf(c)].to)]
    <3>1. Redirect(c, flight[DigestOf(c)].to).want = req[c].want
      BY <1>0, <2>3, RedirectIs
    <3> QED
      BY <1>0, <1>1, <2>1, <2>6, <3>1
  <2> QED
    BY <2>4, <2>5, <2>6
<1>6. CASE Return(c)
  <2>1. Wants(c, "blob") /\ cache' = cache
    BY <1>0, <1>6 DEF Return, BlobsOK, RightKind
  <2>2. Asked(c) \in Blob
    BY <1>0, <2>1, AtWorkNames DEF BlobsOK
  <2>3. PICK to \in {None} \cup (IF req[c].pc = "redirect" THEN {Asked(c)} ELSE {}) :
          req' = [x \in Caller |->
                   IF x = c THEN [req[c] EXCEPT !.pc = "land"]
                   ELSE IF req[x].pc = "wait" /\ DigestOf(x) = DigestOf(c)
                   THEN Redirect(x, to) ELSE req[x]]
    BY <1>6, ZenonT(30) DEF Return
  <2>4. to \in Blob \cup {None}
    BY <2>2
  <2>5. ASSUME NEW x \in Caller PROVE req'[x] = req[x] \/ req'[x].want \notin Index
    <3>1. \/ x = c /\ req'[x] = [req[c] EXCEPT !.pc = "land"]
          \/ req[x].pc = "wait" /\ req'[x] = Redirect(x, to)
          \/ req'[x] = req[x]
      BY <2>3, ZenonT(30)
    <3>2. [req[c] EXCEPT !.pc = "land"].want = req[c].want
      <4>1. req[c] \in Request
        BY <1>0
      <4> QED
        BY <4>1 DEF Request
    <3>3. Redirect(x, to).want = req[x].want
      BY <1>0, <2>4, RedirectIs
    <3>4. req[x].pc = "wait" => req[x].want \notin Index
      BY <1>0 DEF BlobsOK, RightKind, Wants
    <3> QED
      BY <1>1, <3>1, <3>2, <3>3, <3>4
  <2> QED
    BY <2>1, <2>5
<1> QED
  BY <1>3, <1>4, <1>5, <1>6

LEMMA EndsAges ==
  ASSUME MirrorInv, AgesOK, NEW c \in Caller, Arrive(c) \/ Done(c)
  PROVE  AgesOK'
<1>0. req \in [Caller -> Request] /\ req[c] \in Request
  BY DEF MirrorInv, TypeOK
<1>1. cache' = cache
  BY DEF Arrive, Ask, Done
<1>2. Others(c) /\ req'[c].pc \in {"lookup", "idle"}
  <2>1. CASE Arrive(c)
    <3>1. PICK want \in load : Ask(c, want)
      BY <2>1 DEF Arrive
    <3> DEFINE r == [req[c] EXCEPT !.pc = "lookup", !.want = want]
    <3>2. r.pc = "lookup"
      BY <1>0 DEF Request
    <3>3. req' = [req EXCEPT ![c] = r]
      BY <3>1 DEF Ask
    <3> HIDE DEF r
    <3> QED
      BY <1>0, <3>2, <3>3 DEF Others
  <2>2. CASE Done(c)
    BY <1>0, <2>2 DEF Done, Others, NoRequest
  <2> QED
    BY <2>1, <2>2
<1> QED
  BY <1>1, <1>2, AgesOwnStep DEF AgeOK

\* The ages are in order from the empty cache on.
LEMMA AgesInit == Init => AgesOK
BY CacheAssumption
DEF Init, CacheInit, AgesOK, BoundedStaleness, NoEntry, NoRequest, Fresh, Past

LEMMA AgesNext == MirrorInv /\ AgesOK /\ [Next]_vars => AgesOK'
<1> SUFFICES ASSUME MirrorInv, AgesOK, [Next]_vars PROVE AgesOK'
  OBVIOUS
<1>1. CASE UNCHANGED vars
  BY <1>1 DEF vars, AgesOK, BoundedStaleness, Fresh
<1>2. ASSUME NEW c \in Caller, Arrive(c) \/ RequestStep(c) PROVE AgesOK'
  BY <1>2, EndsAges, PageAges, RegistryLeavesPages, RegistryAges DEF RequestStep
<1> QED
  BY <1>1, <1>2, TickAges DEF Next

\* What ServeSimple and ServeMetadata answer from the cache was the origin's
\* page at most TTL + FetchMax ago.
THEOREM StalenessBounded == Spec => []BoundedStaleness
<1>1. AgesOK => BoundedStaleness
  BY DEF AgesOK
<1> QED
  BY <1>1, AgesInit, AgesNext, MirrorCorrect, PTL DEF Spec
=============================================================================
