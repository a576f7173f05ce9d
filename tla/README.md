# dldw in TLA+

A verification project for dldw: a pull-through download cache (the server) and
its client.  It holds TLA+ modules translated from the Go sources, TLC
configurations that check them on small instances, and TLAPS proofs of the
properties that matter most, for all instances.

Contents

1. [Inventory of the system](#1-inventory-of-the-system)
2. [Modules and how they correspond to the code](#2-modules-and-how-they-correspond-to-the-code)
3. [Runs: what is checked, bounds, fairness](#3-runs)
4. [Proofs](#4-proofs)
5. [Findings](#5-findings)
6. [What is not modelled](#6-what-is-not-modelled)
7. [Plan](#7-plan)

Paths below are relative to `src/internal/` unless they begin with `src/`.

To repeat everything, in this directory:

    tlc -workers 2 -config server_faults.cfg MCCacheServer.tla   # any run of section 3
    tlapm TaskEngineProofs.tla                                   # any *Proofs module

---------------------------------------------------------------------------

## 1. Inventory of the system

### Server

| Component | State | Operations | Interacts with | What is hard | What makes it correct |
|---|---|---|---|---|---|
| Task life cycle, `transfer/tasks/state.go` | none | `Can`, `Terminal` | store, engine | - | only listed edges are followed |
| Task store, `transfer/tasks/store.go` | `byID`, `byCacheKey`, the tasks file | `Put`, `Update`, `Delete`, look-ups, `NewStore` | engine, mirrors, progress loop, API | a save that fails leaves memory changed; several writers that do not know of each other; restart | index = the one a restart would build; what is ready can be served, in memory and in the file |
| Resolve engine, `transfer/tasks/engine.go` | `processing`, a goroutine per task with a private copy of it, the temp directory | `Resolve`, `process`, `fail`, `GC`, `Refresh` | store, executor, storage, progress | Resolve revives a task its processor is about to retry; GC lists and deletes in two steps; back-off; restart | one processor per task, retry budget, every task ends, ready means servable |
| Singleflight, `transfer/tasks/singleflight.go` | calls under way | `Do` | engine, mirrors | a leader's panic; the leader's context serves its followers | one execution per key |
| Mirror fetcher, `server/mirrorcore` | flights per key | `PresignOrFetchMulti` | store, storage, origins | writes the same objects and tasks as the engine without its singleflight; candidates are tried in turn | a task born ready can be served |
| Fetch progress, `server/app/progress_exec.go` | one record for all fetches | `Begin`, `End`, byte reports, a tick every two seconds | engine, store | writes a task it read the id of before | a tick changes no status and resurrects nothing |
| Device tokens, `server/auth` (`Store`) | `records`, `byHash`, the tokens file | `Register`, `Validate`, `Refresh`, `Revoke` | API, mirrors, tunnel | `Refresh` is two critical sections; failing saves; restart | index and records agree; revocation and rotation are final |
| Nonces, `server/auth` (`NonceStore`) | nonces seen, bounded | `CheckAndAdd` | tunnel | a full store forgets | a recent nonce is not accepted again |
| Tunnel, `server/tunnel` | slots per token, two pumps and a byte count per connection | `handle`, `pump` | tokens, nonces, whitelist, `ratelimit.Conc` | a slot on every path out; a cap shared by two pumps; ends of either pump | slots = connections, cap, every connection ends |
| Rate limits, `server/ratelimit` | a bucket per address, a list of events per device, a counter per token | `Limiter.Allow`, `Count.Allow`, `Conc` | API, tunnel | the clock is read before the mutex is taken; buckets and lists of events are collected | what is granted is covered by burst, time and late readings |
| Control API, `server/api` | none of its own | resolve, tasks, token, whitelist, files | all of the above | a token that changes between check and use | every path checks the token; a rotated secret renews no budget |
| Registry mirror, `server/registrymirror` | manifest and token cache, flights | manifests, blobs, HEAD | storage, task store, upstream | flights keyed by digest, objects by repository and digest; a leader that fails; late comers | a redirect leads to the digest; one fetch at a time; nobody waits for nothing |
| Package mirrors, `server/{pypi,npm,gomod,hfmirror,webmirror}` | index caches with a TTL | index, artifact | mirror fetcher, origins | fail-over between origins, slow answers that overtake quick ones; what may be kept for ever and what not | bounded age; nothing mutable is kept |
| Executors, `transfer/executor`, `transfer/aria2ctl` | a temporary file; aria2's queue | `Fetch` | origin, aria2, storage | retries inside retries, an RPC that fails after it was carried out, a deadline | the hash is of what is stored; a fetch ends |
| Storage, `transfer/storage/*`, `transfer/openlist` | data and metadata files, a log-in token | `Put`, `Get`, `Stat`, `/files/` | engine, mirrors, API | data and metadata are two files, and Puts of one key overlap; one token for all callers, which expires and is drawn by several of them | data and metadata agree but for the known windows; a stale token costs a log-in, not the request |
| Presigned URLs, `transfer/presign` | none | `Sign`, `Verify` | engine, API | expiry between signing and use | - |
| Egress policy, `policy/*`, `urlcanon` | the whitelist behind a pointer | `Match`, `Entries`, `CheckHost`, `CheckPort`, `DialContext` | API, tunnel, mirrors, both proxies | a file that is rewritten while it is loaded; names that change their addresses; a list that loses detail on its way to the client | what is dialled was checked; both ends agree on the route; a newer file is taken over |
| Proxy core, `server/proxycore`, `upstreamproxy` | the sing-box child | `Start`, `WaitReady`, `Stop`, `Dial` | executor, tunnel, mirrors' pass-through client | a child that exits; what may go round it | it does not outlive Run; tunnel traffic never falls back from it |
| Application, `server/app` | the parts above, tickers | `New`, `Run`, reload, GC ticks, shutdown | all | order of start and shutdown | - |

### Client

| Component | State | Operations | What is hard | What makes it correct |
|---|---|---|---|---|
| Ranged download, `client/downloader/chunk.go` | part file, meta file, `jobs`, `workerErr`, `abort`, `refreshMu` | `runChunked` | workers, publisher and caller over channels; an error, Ctrl-C or the end of all workers in any order; resume after a kill | marked means written; nil means complete; it returns |
| Download front end, `client/downloader/downloader.go` | output, part, meta and hash files | `Download`, `pollTask`, `fetchPresigned`, `downloadDirect`, `downloadStream`, `finishFile` | a task that is revived, replaced or collected while it is polled; leftovers of earlier runs of either kind, content that changes | it waits only for what somebody works on; a success is one whole version |
| Local proxy, `client/proxy` | wait group, listener, two pumps per connection | accept, CONNECT over the tunnel or directly, plain requests, `Stop` | accept while stopping; requests without deadline | what `Stop` calls drained is drained |
| Command wrapper, `client/wrapper` and `dldw proxy` | child process, signal channel, kill timers | `Run`, `cmdProxy` | repeated signals, signals too early, a tool that ignores them | any signal ends the run; the status is the child's |
| Command line, adapters, configuration, doctor, bench | none that lives | - | - | - |

How they interact.  A client resolves a URL through the API; the engine looks
the cache key up in the store and presigns, reports progress or starts a
processor, which fetches, uploads and registers the task as ready.  The client
polls until then and downloads by the presigned URL, in ranges or as a stream.
Mirrors write the same store and the same objects on their own requests.  A
progress loop and a garbage collector update and delete tasks on tickers.  The
local proxy and the tunnel carry everything that is not cached.

The hazards this leads to are listed at their lines in `PROJECT.json`
("hazards"), with the properties that cover them.

---------------------------------------------------------------------------

## 2. Modules and how they correspond to the code

An arrow points from a module to what it EXTENDS.

    DownloadClient --> TaskEngine --> TaskStore --> TaskStatus       server cache, and
    CacheServer -----> TaskEngine       TaskLifecycle --> TaskStatus   `dldw get`'s waiting
       \--(implements)--> TaskLifecycle
    ControlAPI --> AuthTokens, RateLimit                   API, devices, limits
    Tunnel                                                 tunnel, slots, nonces
    RegistryMirror --> IndexCache                          mirrors that answer requests
    Egress --> MirrorRoutes, ProxyCore                     which way, what is kept, App.Run
    ArtifactTransfer --> LocalStore, OpenListStore         executors and storage drivers
    ChunkedDownload      ResumeFiles                       client downloads
    WrappedRun --> LocalProxy                              client proxy, wrapped tools

`MC*` modules give constants for TLC, `*Proofs` modules hold the theorems
(section 4), each beside the component it is about.  A definition called `MUTANT
of X` is X with a plausible slip; it is used only to see that a property would
notice.

### Server cache

**TaskStatus** has the statuses and `transitions` of `state.go`.
**TaskLifecycle** is the abstract specification: what clients may see of a
task's status, and that the file lags behind by whole saves.

**TaskStore** has the store's indexes and its file.  Every operation runs under
`Store.mu`, so each is one effect of the action that calls it.  `Write` is the
shared part of `Put` and `Update`: store the copy, take over the key's index,
save.  As in `persistLocked`, memory changes first; a save that fails reports
an error and leaves memory as it is.  `UpdatedAt` is abstracted to the two
questions the code asks of it: which of two tasks was updated last (`later`)
and whether a task is older than the GC's day (`old`).

**TaskEngine** adds the actors of `engine.go`.  `ResolveLookup`, `ResolveRetry`
and `ResolveCreate` are the three critical sections of Resolve's leader;
followers of the singleflight change nothing.  `Start` to `Exit` are the
statements of `process`, `pc[t]` naming the next one; `Fail`, `Kill`, `Backoff`
are `fail` and the sleep; with the fault "stall" a whole attempt may overtake a
Resolve, without it `MayTakeTime` rules that out (section 3, Time).
`GCList`/`GCDelete` are the two halves of GC.  `Restart` rebuilds memory from
the file.  `got`, `object` and `art` are contents, as members of a small set:
what a fetch returned, what the storage holds, what the artifact describes.

**CacheServer** extends it by the other two writers: mirror flights
(`MirrorLookup`, `MirrorFetch`, `MirrorPut`, `MirrorRegister`) and the progress
loop (`ReportBytes`, `Tick`, `WriteProgress`).

**DownloadClient** puts `dldw get` in front of the engine: `Ask` is POST /resolve
with the three answers of Resolve (a client that meets a resolve under way is
answered with it, `AnswerRevived`, `AnswerCreated`), `PollReady`, `PollOver` and
`PollFails` are the three ends of `pollTask`, `GetURLs` is the request for URLs
afterwards.  Clients remember the task they were given by its id, while the
engine revives, replaces and deletes tasks.  `EngineMoves` is everything the
engine does without being asked by a client.  Giving up leads to the origin or to
an error, as `download.direct_fallback` says.

### Access

**AuthTokens** has the token store: `Register`, `Revoke` and `Validate` are
critical sections, `Refresh` is two of them (`RefreshValidate`,
`RefreshRotate`).  A secret stands for its hash.  `retired` and `revoked` record
what callers were told; they influence nothing.

**RateLimit** has the arithmetic of `Limiter` and `Count` as operators of a
reading of the clock.  **ControlAPI** composes both with the API's middleware,
`withAuth`, POST /resolve and POST /token: a request reads the clock in one step
and meets the limiter in another, so readings arrive out of order, and a restart
forgets limits but not tokens.  A bucket is tokens and a time; a device's events
are grants with serial numbers, since two of one reading are two. `Collect` and
`CollectEvents` are the collections of the two limiters when their maps are
full.  `granted`, `astray`, `latest`, `admitted` and `rewound` are history and
influence nothing: what was granted; which of it on a late reading, or forgotten
while still in the window; and what late readings gave twice.

**Tunnel** has `handle` statement by statement, its two pumps
(`PumpRead`, `PumpWrite`, `PumpCount`), the slots of `ratelimit.Conc` and the
nonces.  The answers of the token store, the whitelist, the policies and the
dialler are left open.  `stale` and `recent` abstract the age of nonces.

### Mirrors, ways out, storage

**IndexCache** is the page cache of the pypi and npm mirrors, which is the same
code twice: look-up, candidates in turn, store, each its own step.  A body is
known by its age only.  **RegistryMirror** adds the Docker registry: tokens and
manifests, and blobs with `doFlight` (`Join` to `Land`): a flight ends in three
steps (its value is there, the leader removes it, the leader answers), and late
comers may meet each.

**MirrorRoutes** has the classification of URLs: `ClassifyFamily` of `urlcanon`,
`classify` and `isRepoMetadata` of the web mirror, `isImmutable` of gomod,
`isCommitSHA` of the Hub.  Names and paths are cut into the parts that the code
compares.  `Mutable` says what changes upstream, by the comment at `classify`
and the README and not by what the code recognises; `Overlooked` names the kinds
among them that the code keeps all the same (section 5).  **Egress** has the
whitelist from its file (`StartLoad`, `StartStat`, `TickStat`, `TickLoad`: the
code stats and reads in separate steps) over the server's list to the client's
(`FetchList`, which sends bare domains), and connections of three kinds that
consult them: the client's proxy, the tunnel, a mirror.  `Port`, `CheckHost`,
`Resolve`, `Dial` are `ssrf.Policy`, each look-up with new addresses;
`ThroughProxy` and `Bypass` are the ways with an upstream proxy.  `RunCore` to
`Begin` are `App.Run` from start to end, and **ProxyCore** is its child.

**LocalStore** is localfs under one key, file by file (`PutCopy`, `PutRename`,
`PutMetaOpen`, `PutMetaWrite`, with a crash between any two), and the `/files/`
handler that opens one file and reads the other.  Any number of Puts (`Putter`)
are under way at once, as the driver takes no lock; `alone` and `broken` are
history: whether a Put has met another between its rename and its metadata, and
whether the two files may disagree since.  **OpenListStore** is the OpenList
driver's session: one token, several callers, log-in on 401 in two steps
(`Login` draws a token, `KeepToken` puts it into the driver), one repetition.
**ArtifactTransfer** drives both by a processor of the engine: builtin executor
(`Request`, `Copy`, `Keep`) or aria2 (`AddUri`, `Poll`, `Deadline`; aria2
itself, `JobEnds`, is external), then `Put` by localfs, S3 or OpenList, with the
retries of executor and engine one inside the other.  Beside it somebody else
stores the same key, a mirror's flight or another task: one more `Putter` of
localfs, `RivalPut` with the other drivers.

### Client

**ChunkedDownload** has the goroutines of `runChunked`: the caller (`Select`,
and closing `abort` in the two steps `closeOnce` takes), the publisher, and
workers with their tries, URL refresh under `refreshMu`, marks and error
reports.  Runs follow each other on the same part and meta files, and between
two of them these go through what the rest of the downloader does to them:
`FinishPart` and `FinishMeta` are the halves of `finishFile`, `Stream` and
`Replace` what `downloadStream` does to the part file while the meta file stays.
`lost` records which marked chunks lost their bytes that way.

**ResumeFiles** has the files instead of the goroutines: one `dldw get` after
another, by presigned URL or directly, in ranges or as a stream, with
`finishFile` step by step.  It knows which version of the content each chunk of
the part file is of, so a mixture is told from a whole.  Ranges are fetched in
one step per chunk; that `runChunked` may lose an error, which ChunkedDownload
shows, is the constant `NilRace`.

**LocalProxy** has the accept loop, `handleConn` with its two pumps, and `Stop`.
The loop has a connection in hand between `Accept` and `activeWG.Add`, which is
where `Stop` may overtake it.  **WrappedRun** starts the proxy, runs a tool,
relays the first signal and starts a kill timer for every one; `dldw proxy`
(`ProxyNotify`, `ProxySignalled`) is the same proxy without a tool.

---------------------------------------------------------------------------

## 3. Runs

| Run | Question | Distinct states |
|---|---|---|
| `get_live` | Without faults, and with no Resolve overtaken, does every task end with exactly 1 + MaxRetries attempts, does a polling client wait only for what somebody works on, is what it gives up over for good, and does every `dldw get` come to an end? | 206 099 |
| `server_faults` | Do engine, mirrors and progress loop together keep the store's promises, with failing saves, restarts and overtaken Resolves? | 1 864 902 |
| `chunks_faults` | Is every mark backed by bytes but where finishFile or a streamed run took them away, is every chunk with one worker, is a quiet success complete, and does `runChunked` return but in the one way of section 5? | 726 799 |
| `resume` | Run after run on the same files: is a presigned success whole, does it leave nothing behind, do leftovers ever keep later downloads from succeeding? | 926 646 |
| `tokens` | Two requests of one address: do index, records and file agree, are revocation and rotation final, and do budgets hold although clock readings come late, secrets rotate and the limiters are collected? | 6 303 141 |
| `tunnel` | Slots, cap, nonces, and does every connection end? | 222 297 |
| `mirrors` | How old may an index page be, where does a redirect lead, is a blob fetched by one request at a time, and is every request answered? | 223 570 |
| `egress` | Is what is dialled allowed but on the named ways past the policy, is nothing mutable kept but the named kinds, do client and server agree on the route, is a rewritten whitelist taken over, and does the proxy core end with `Run`? | 878 871 |
| `wrapped` | Is what `Stop` calls drained drained, is the wrapper's status the child's, does any signal end the run, and does one end of a connection end it? | 40 078 |
| `transfer` | Does the artifact describe the object that is stored, through retries of two layers, a changing origin, another Put of the key and a crash; do data and metadata agree unless Puts met; is a 401 only for a session that went stale meanwhile? | 2 517 399 |
| `engine_restarted` | violation of `InProgressIsResumed` | section 5 |
| `resume_mixed` | violation of `DirectIsWhole` | section 5 |

Invariants that only make sense together are one property whose conjuncts have
names: `FlightInv` (`TypeOK`, `NoSecondFetch`, `NobodyWaitsAlone`), `EgressInv`
(`TypeOK`, `DialedIsAllowed`, `CoreIsOwned`, `MutableIsNotKept`), `WrappedInv`
(`WrapTypeOK`, `PumpsAreCounted`, `DrainedButOne`, `ReturnIsChilds`),
`TransferInv` (`TypeOK`, `FilesAgree`, `RequestsAreBounded`, `ReadyIsStored`),
`FilesInv` (`TypeOK`, `NothingIsLeft`, `SumIsOfPart`).

### Bounds, and why they are enough for what the runs show

- *Tasks and keys* (`MaxTasks` 2, one key; get_live, server_faults,
  engine_restarted).  Keys share nothing but the progress record and the file,
  so one key with several tasks is where the conflicts are.  Two tasks suffice
  for a processor, a mirror flight, GC or a polling client acting on one task
  while another of the same key exists.  When ids run out, Resolve and the
  mirrors can no longer create tasks and the rest goes on.
- *Retries.*  `MaxRetries` 2 in get_live and server_faults distinguishes first,
  middle and last attempt, and a task that has failed, is revived and becomes
  ready from one that never failed; 1 in transfer, together with one retry of the
  executor.  The mutants that are off by one are found.
- *Faults* (server_faults).  Restarts, overtaken Resolves ("stall") and failing
  saves of Resolve, GC and the mirrors ("save").
  Those of processors and of the progress loop ("procsave") are a fault of their
  own only to keep this run small (with both it has 33 million states); the
  theorems of section 4 about the server allow both.
- *The client's patience.*  `GiveUpAfter` 2 equals `MaxRetries`, as the code's 8
  must be at least the server's (see section 5).  Both fallback policies;
  one client, and resolves by others.
- *Chunks and workers.*  Two workers and three chunks with two attempts: both
  busy, one chunk waiting, a retry.
- *Contents* (resume).  Two of equal size, so that a stale meta file fits, and a
  smaller one that is streamed; two tries.
- *Secrets, time, budgets* (tokens).  One device with a registration and two
  rotations, which the two callers can overlap; other devices share only the
  index, and the theorems of AccessProofs are about any number of them.  Two
  ticks with a window of one: events leave the window, and a late reading falls
  into an earlier one.  A burst of two at four per tick: a bucket empties, fills
  and is collected.  A device's events are collected on any reading that finds the
  last of them out of the window, so the size of the map is not a bound of its own.
- *Tunnel.*  Two connections compete for one slot; a store of two nonces fills
  up and is emptied; a cap of one byte is passed by either pump and by both.
- *Mirrors.*  Two callers, as leader and follower, or as a slow and a quick
  miss.  Two origins, a TTL and a time-out of two ticks.  Two repositories share
  one digest.  Pages and registry share nothing, so `Loads` lets a behaviour ask
  for one of them (but not for both); ages stop growing where the code no longer
  tells them apart.
- *Egress.*  Two file contents (with a subdomains-only, a dotted and a plain
  entry) written up to twice or removed; a server's strict and a client's loose
  policy; URLs of every class of `classify`, `isImmutable` and `resolveRevision`;
  a name has one or two kinds of addresses at a time.
- *Wrapped.*  Two connections, one in the accept loop's hand while the other is
  handled; two signals, the second while the first one's timer runs.
- *Transfer.*  Two tasks under one key after each other and one more Put of the key
  that overlaps theirs, two contents, two callers of OpenList, two log-ins and two
  expiries: one log-in that crosses an expiry and another log-in.

The theorems of section 4 do away with these bounds for the safety properties
they state.

### Deadlock

Deadlock is checked wherever the system does not really stop.
`CHECK_DEADLOCK FALSE` is set for `get_live` (all clients are done),
`server_faults` and `engine_restarted` (all tasks ready, no request: the server
is idle), `tokens` (secrets and ticks run out), `wrapped` (the process has
ended) and `transfer` (the tasks are done).

### Fairness

- Engine (`get_live`): every processor takes its next statement (the Go
  scheduler, and fetches and uploads that return), a Resolve that has looked up
  a task goes on, and clients go on polling.  That a client's deadline comes is
  not assumed: it ends without.
- `engine_restarted`: in addition clients ask again, which makes the
  counterexample stronger.
- `runChunked`: every goroutine that can run does; requests end.  The transfer
  client sets no time-out (`client/downloader`), so a server that never answers
  is outside this assumption.
- ResumeFiles: a run proceeds and the user tries again.  `PresignedRecovers`
  speaks of the time after the last fault and the last change of the content.
- Tunnel: every blocking call has a deadline, so each step of `handle` and of
  the pumps happens: handshake, dial, the answer, and `IdleTimeout` on every
  Read and Write.
- Mirrors: an exchange with an upstream ends.  The index clients have a
  time-out; an exchange of the registry is bounded only by its requester's going
  away, which the assumption includes.
- Egress: the loop's ticker fires; a file that can be read at infinitely many
  ticks is read at one (strong fairness: a single read may fail); `Shutdown` has
  a time-out of ten seconds.  Nobody is assumed to write the file, to connect or
  to stop the server.
- Wrapped: goroutines run, timers fire (`Stop`'s five seconds, the kill's
  three), and `copyDir` ends once both connections are closed.  That a tool, a
  dial or a plain exchange ends by itself is not assumed.
- Transfer: the builtin executor's requests and aria2's RPCs have time-outs, the
  polling has a deadline, the disk answers.  Uploads to S3 and OpenList have no
  time-out, so `EveryFetchEnds` is about localfs.
- ControlAPI: safety only.

### Time

Nothing orders a Resolve between its look-up (`engine.go:147`) and its update
(155) and the processor of the same task: no lock is held there.  With the fault
"stall" a whole attempt may pass in between, and server_faults and the theorems
on the server allow it.  The window is not only that of a few instructions: the
update waits for the store's mutex, and saves write the file under it.  Two
properties are false with it and are checked without, in get_live, where
`MayTakeTime` lets no fetch or back-off pass a Resolve in between: `RetryBudget`
(one attempt more than the budget) and `EveryTaskSettles`.  Section 5 says what
happens.

`DayPasses` happens only when nothing short is under way.  In ControlAPI and the
mirrors time is a counter of ticks that any step may fall between; readings of
the clock are values that steps carry along.

---------------------------------------------------------------------------

## 4. Proofs

All theorems hold for every value of the constants under the named assumptions,
and, where the table says so, under a hypothesis about `Faults`.  Every safety
property of every passing run is stated by one of them.

The assumptions say

- that bounds, budgets and time-outs are naturals, those positive that the code
  gives a positive default (`TaskStoreAssumption`,
  `MaxRetriesAssumption`, `ClientAssumption`, `ChunkedAssumption`,
  `ResumeAssumption`, `LimitsAssumption`, `TokensAssumption`, `TunnelAssumption`,
  `CacheAssumption`, `RegistryAssumption`, `TransferAssumption`,
  `OpenListAssumption`, `EgressAssumption`, `SignalAssumption`);
- that the distinguished values are not members of the sets they are added to (in
  the same, and `LocalAssumption`, `WantAssumption`, `ConnAssumption`,
  `NoFileAssumption`: that `NoFile` is none of the contents a file can have);
- that workers and connections of the tunnel are finitely many, which counting
  them needs; and that list entries and URLs are records and pairs of the shape
  the model builds (`EgressAssumption`), and the processor is one of the callers of
  OpenList (`TransferAssumption`).

| Module | Theorems | Argument |
|---|---|---|
| `TaskEngineProofs` | `EngineInvariant`, `TypeCorrect`, `ReadyServable` | `ReadyIsServable` is not inductive: that `Register` may write "ready" depends on what the processor did before.  `EngineInv` adds that ids in use are drawn and have a key, that a processor past Fetch holds content, and that one past Upload has stored it (`ObjectFirst`); and the same of the file, which a restart makes the memory. |
| | `InStepTheorem` | For any faults.  A Resolve that is overtaken may still revive a task, but only one that says failed; so what it disturbs is the processor at its back-off or about to kill it, and at Kill the status may be "downloading" (`StatusesAt`).  Without "stall" the same induction gives `OnTime`, that no task is revived after its last attempt. |
| | `BudgetKept` (at most "restart") | `BudgetInv`: the file is the memory, and a task beyond its retries is dead, or failed and about to be killed.  With saves that fail the statement is false (section 5). |
| `CacheServerProofs` | `ServerInvariant`, `ServerTypeCorrect`, `ServerReadyServable`, `IndexAgrees`, `ServerKeepsLifecycle` | The engine's steps keep `EngineInv` by the lemmas before; mirrors by `MirrorFirst`.  `IndexAgrees` rests on every write making its task both the latest and the key's; where a key has no entry, a task of it has been deleted.  The refinement: every step of the server is a `Change`, a `Restart` or a stutter of TaskLifecycle. |
| | `ServerInStepTheorem`, `TerminalTheorem` | For any faults.  Mirrors and progress loop write tasks of their own or keep a status.  `FailuresCount`: a task says failed or dead only with a failure counted, so what GC has listed and finds ready has failed before.  With `ProcessorInStep` no processor meets a task that is over. |
| | `WaitsTheorem`, `GetBudgetTheorem` (at most "restart"), `GivenUpTheorem` (in addition `GiveUpAfter >= MaxRetries`) | `RunningInv` collects what holds of an engine whose saves succeed: the invariants above, somebody at work on every task that is in progress (`Attended`), what is old enough for GC is dead (`OldIsDead`), and keys lead to their own tasks (`KeysAgree`).  `ClientsFit` is what each client may rely on, for one client record at a time (`FitsIn`), so that an engine step is treated once and not once per client. |
| `ChunkedDownloadProofs` | `ChunkInvariant`, `ChunkTypeCorrect`, `ResumeIsSound`, `ChunksAreExclusive`, `QuietSuccess` | As long as the caller has no error to see (`Undisturbed`), every chunk is done, waiting or with a worker (`AllAccounted`).  What is marked and not written is in `lost`: a run of workers adds bytes and marks only, so it is what `finishFile` and `downloadStream` took away before. |
| `ResumeFilesProofs` | `ResumeInvariant`, `FilesTheorem`, `PresignedTheorem` | `RunInv` says of each step of a run what it has achieved: the part file is there while it is written, a presigned run renames only what it has compared, and the sidecar is gone before anything is renamed. |
| `AccessProofs` | `TokensInvariant`, `TokenIndexTheorem`, `RevocationTheorem`, `RetiredTheorem` | Secrets are drawn in order, each for one device; wherever a secret turns up - record, file, a refresh under way - it is its owner's (`OwnedSecrets`).  So no rotation can take away another device's index entry, and a retired secret cannot come back from the file. |
| | `APIImplementsTokens` | Every step of ControlAPI is one of AuthTokens or a stutter of it, so the theorems on tokens are about the API, too. |
| | `BudgetTheorem` | `GrantsKnown`: a grant that is not `astray` and is still in the window of the latest reading is among the events; a collection makes astray whatever it forgets within the window.  So the grants of any window were counted by the `Allow` that made the last of them. |
| | `RateTheorem` | `BucketPaid`: what was let in and what the bucket holds is paid for by the burst and by the time until the bucket's last reading, with what late readings rewound; collecting a bucket that is full by now owes nothing. |
| | `TunnelInvariant`, `SlotsTheorem`, `CapTheorem`, `AwaitedTheorem`, `NonceTheorem` | The cap: a pump passes it only with the buffer after which it ends (`CappedInv`), and a count starts from 0 because no pump outlives its handler.  Slots: by the cardinality of the holders, action by action.  Nonces: a nonce that may be dropped is not recent. |
| `RegistryMirrorProofs` | `MirrorCorrect`, `FlightCorrect`, `RedirectCorrect` | A flight and its leader know each other: whoever is at the steps of a flight's function leads the flight of its digest and no other (`RequestOK`), and a registered flight has a leader at work or a value to give (`FlightOK`).  Objects and values of flights are of their digest. |
| | `StalenessBounded` | `AgesOK` bounds what is on its way to the cache by the time-out of the exchange, and what is in it by its time there and one exchange. |
| `ArtifactTransferProofs` | `TransferCorrect`, `ServedCorrect`, `SessionCorrect` | One invariant for each part: `LocalInv` (a Put that is `alone` has put its data in place and finds it there; when no Put is half-way and nothing is broken the two files agree; a reader without `overlap` has read one generation), `OpenListInv` (unless its session went stale under it a caller holds or finds a valid token by its second answer, whoever else logs in), `WorkInv`: the processor's step says which of its body, file and sum are the same content and how many requests it may have spent (`Spent`, `Allowed`). |
| `ProxyProofs` | `EgressTheorem`, `RoutesTheorem` | `ConnInv` is what each step of a connection may rely on: its port was checked, at "dial" every address was, but where the executor goes past an upstream proxy (`Unguarded`) or a pass-through client dials (no port check).  What is kept and may change is `Overlooked`, by cases over the classes of URLs.  `Carried`: a connection is one of a server that serves, so whether there is an upstream proxy cannot change between choice and dial.  Routes: what a list matches is matched by the list as it is sent (`SentListMatches`). |
| | `WrappedTheorem` | `Counted`: a running handler is in the wait group, what the loop has in hand is not handled.  `OneIsLate`: after the drain only that one can start.  `CodeIsChilds`: the code is decided when the child is over. |

Only model-checked: the liveness properties `EveryTaskSettles`, `EveryGetEnds`,
`OnlyAbandonedHangs`, `PresignedRecovers`, `EveryConnectionEnds`,
`EveryRequestEnds`, `ListFollowsFile`, `SignalEndsRun`, `PumpsEnd` and
`EveryFetchEnds`.  They rest on weak and strong fairness of actions, which the
temporal prover knows only as propositions: it cannot see when an action is
ENABLED.  The safety of the steps on which they rely (that the processor is in
step, that somebody attends to a task, that a flight has a leader at work) is
proved.

---------------------------------------------------------------------------

## 5. Findings

Each of these two has a run in which TLC finds the counterexample.

1. **A task in progress is lost by a restart** (`engine_restarted`).  `processing`
   is empty afterwards; Resolve reports the task as in progress
   (`transfer/tasks/engine.go:151`) and starts nobody, GC spares it.  Its key
   cannot be cached until the task is removed by hand.
2. **A direct download may succeed with an incomplete file** (`resume_mixed`).
   The meta file outlives the part file it describes: downloadStream empties or
   removes the part file and leaves the meta file; finishFile renames the part
   file first.

Observed while modelling, without a run of their own.  The models contain this
behaviour; the properties state what holds in spite of it.

*Engine and store*

- Tasks of one key write one object key: after a second task, or a failed Put
  that replaced the object, a ready task's size and hash are those of content
  that is gone.  `ReadyIsServable` says only that there is an object.
- A Resolve that is overtaken between look-up and update revives a task whose last
  attempt has failed meanwhile.  The processor's Kill is then refused
  ("downloading" to "dead" is no transition) and it ends; if the goroutine that the
  Resolve started met it in `processing`, that one has returned as well: the task
  says downloading and nobody works on it, for ever.  If it came later, the task is
  attempted once more than the budget.
- The index names the task that was updated last, not "the newest task" of the
  comment at GetByCacheKey (`transfer/tasks/store.go:157`): an older one takes the
  entry back by an update.  After the deletion of the task it names, the key has no
  entry until a restart, which finds an older sibling if there is one.
- Resolve's fall-through after a failed revival, and the key's index being taken
  back by an older task's update, let two tasks of one key be worked on at once.
  A client that polls the replaced one goes on doing so.
- GC's comment (`engine.go:354`) speaks of long dead tasks; GC deletes what was
  over a day old when it was listed, also if it has been revived since, and even
  if it has become ready again.  `TerminalIsFinal` excepts exactly this.
- A failed save of a failed attempt leaves the count in the file behind: after a
  restart the task gets attempts beyond its budget, which is why the theorems on
  `RetryBudget` assume that saves succeed.
- A mirror fetches again although a ready task exists, if a later task of the key
  is in progress.
- A singleflight leader's context serves its followers; its panic leaves them
  waiting.
- `MaxRetries` unset is 0, not the 3 of the comment (`engine.go:44`).

*Client*

- `runChunked` may hang: after a fatal answer the publisher returns without
  closing `jobs`; a worker at the receive is not woken by `abort`, and the caller
  waits for all workers.  `OnlyAbandonedHangs` says that this is the only way.
- `runChunked` may return nil with a chunk missing: `select` may see the end of
  the workers before the error in `workerErr`.  `QuietSuccessIsComplete` is about
  runs in which no error was left.
- `closeOnce` (`client/downloader/chunk.go:348`) may close twice and panic.
- A direct ranged run killed between rename and the removal of the meta file
  makes every later one fail: all chunks are skipped, the part file is missing,
  and the meta file stays.
- One failed poll ends the wait for a task; "ask" of `download.direct_fallback`
  never asks.  A client gives a failed task up after 8 retries, so a server with
  more would make `GivenUpIsOver` false.
- The wrapper schedules the kill at the first signal, though the comment at
  `client/wrapper/wrapper.go:125` reserves it for repeated ones; it kills the
  leader of the group only.  A signal between `cmd.Start` and `signal.Notify`
  ends the wrapper and leaves the tool running.
- One connection may be handled after `Stop` has found all of them drained
  (`DrainedButOne`).  The TLS handshake with the tunnel and a plain exchange have
  no deadline.  Idle time-outs are per direction: a long one-way transfer is cut.

*Access*

- Of two concurrent refreshes with one secret both succeed, but the secret the
  first caller received is already replaced.
- A refresh whose save fails leaves the device without a valid secret until a
  restart brings back the old one.
- The limiters read the clock before they lock: a late reading sets a bucket back
  and refills it twice (`rewound`), or is granted past the window (`astray`, which
  `BudgetHolds` does not count).  Limits are forgotten by a restart.
- Count's collection looks only at the event that was appended last
  (`server/ratelimit/ratelimit.go:93-99`).  If that is a late one, events that are
  still in the window are forgotten with it (`astray` as well).

*Mirrors*

- A slow miss overwrites a newer entry of the index cache: the age of what is
  served is bounded by TTL plus the client's time-out, not by TTL.
- The registry's flights are by digest, tasks and objects by repository and
  digest: a follower of another repository is redirected to the leader's object
  (same content) and finds no task of its own next time.  The manifest cache
  ignores the Accept header; digest manifests are stored and never read from it.
- The pass-through client has no time-out (`server/app/app.go:269`).
- Metadata that is kept for good, against the comment at `classify`
  (`server/webmirror/mirror.go:101-103`) and `src/README.en.md:163` ("repo metadata is
  detected and passed through so indexes never go stale"): apt's
  `Contents-<arch>.gz` and the compressed files under `i18n` and `dep11`; what the
  generic mirror is asked for at the hosts of registries (index pages, package
  documents, manifests, archives of branches); gomod's `@v/<branch>.info`.
  `MutableIsNotKept` excepts these kinds by name (`Overlooked`).
- As `.AppImage` is compared with a path in lower case, `webmirror` does not keep
  `.AppImage` files; the Hub's pass-through client follows redirects
  (`hfmirror/mirror.go:6` says it does not).

*Egress*

- New reads the whitelist before it asks for the file's time
  (`server/app/app.go:108-114`): what is written in between is not loaded until
  the next write.  A file removed between Stat and ReadFile becomes the default
  list.
- `Entries` turns "*.x" into "x": the client sends x to the tunnel, which refuses
  it (`RoutesAgree` excepts exactly this).
- With an upstream proxy the executor dials a host it takes for a private one past
  the policy (`executor/executor.go:103-108`), and the mirrors' pass-through client
  checks no port (`server/app/app.go:264-282`), though `src/README.en.md:174-175` and
  `server/webmirror/mirror.go:18-19` speak of the whole chain.
  `DialedIsAllowed` excepts these two (`Unguarded`, `PassesOn`).  Nor is a redirect's
  port checked locally then, and the executor's `hostClassCache` never expires.
- sing-box that exits is not started again; the executor and the tunnel fail
  until the server is restarted.
- `upstreamproxy.Dial` writes bytes that came right behind the CONNECT answer
  back to the proxy; the tunnel and the client's proxy leave such bytes in their
  buffered readers.

*Storage*

- localfs: a crash or a failed write between rename and metadata leaves new data
  with the old (or no) ETag until the next Put; the `/files/` handler may open
  one generation and describe the other.  `.upload-*` and, after a broken copy,
  `.fetch-*` files stay.
- localfs: two Puts of one key may cross, since no lock is taken
  (`storage/localfs/localfs.go:102-141`).  Rename A, rename B, metadata B, metadata A
  leaves the data of B with the metadata of A until the next Put, though neither
  failed (`broken`).
- aria2: an RPC that fails gives the download up without removing it; the next
  attempt meets a download of the same file.
- OpenList: the upload itself is not repeated on 401, and a token is drawn in one
  step and kept in another (`openliststore/openlist.go:201-211`).  A draws a token,
  OpenList forgets it, B logs in and makes its directory, A keeps the forgotten
  token, B's upload reads it (231) and is refused, though nothing expired during B's
  call.  `RefusedMeansStale` counts this as the session going stale.

---------------------------------------------------------------------------

## 6. What is not modelled

- In modelled parts: the replace branch of `Store.Put` (callers pass fresh ids);
  memory-only stores (empty path); the temp directory and its GC, folded into
  fetches and opens that fail; percentages and error texts of tasks; `LastSeen`
  of tokens; `<out>.sha256`, which nothing reads; a change of the chunk size
  between runs; contents of tunnel streams and the handshake's wording.
- `Select` of ChunkedDownload may choose any ready case, as Go's `select` may.
- In ResumeFiles the artifact of a presigned answer is any version until all is
  calm: an over-approximation of finding 2 and of content changing in between.
- HMAC and SigV4 of presigned URLs: `Verify` is its expiry.
- Pages and manifests as documents: rewriting, JSON, headers.  `urlcanon`'s
  canonical spelling, which is a conversion without state.
- Bytes on proxied connections beyond their number; the wording of CONNECT and
  of the tunnel's handshake; header limits.
- aria2, OpenList, S3, origins, registries and the wrapped tool are known by
  their answers only; aria2 refuses a file it is downloading already, which is an
  assumption about it.
- A server that is killed leaves sing-box running; only the ways out of `Run`
  are modelled.  Configuration and certificates are read once and not modelled.
- The rest of the command line (other than `get` and `proxy`), adapters,
  doctor, bench, unit and YAML parsing, ids and audit lines: no state that lives,
  nothing concurrent; see "components" in `PROJECT.json`.

---------------------------------------------------------------------------

## 7. Plan

Done: TaskStatus, TaskStore, TaskEngine, TaskLifecycle, CacheServer;
ChunkedDownload; ResumeFiles; AuthTokens; Tunnel; IndexCache, RegistryMirror;
MirrorRoutes, Egress, ProxyCore; LocalProxy, WrappedRun; LocalStore,
OpenListStore, ArtifactTransfer; DownloadClient; RateLimit, ControlAPI; and
theorems for the safety properties of all of them.

Next, in the modules of theorems there are:

- ChunkedDownload implements the ranged run of ResumeFiles: its part and meta
  files, seen through which chunks are written, take the steps that `chunks` takes
  there, with `NilRace` for the error that is lost.
- DownloadClient over TaskLifecycle in place of the engine, for what a client
  needs to know of it.
- DownloadClient and the mirrors together: `WaitsForTheRight` with tasks that are
  born ready.
- Action properties: no retry count goes down between restarts; a chunk that is
  marked done stays so until the meta file is removed.

