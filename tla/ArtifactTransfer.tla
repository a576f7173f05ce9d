--------------------------- MODULE ArtifactTransfer ---------------------------
(***************************************************************************)
(* One processor of the task engine on its way from the origin to the      *)
(* storage: the executor (builtin, or aria2 behind its RPC), the task's    *)
(* own directory, and the driver the object is put with (localfs, S3 or    *)
(* OpenList), with the retries of every layer, an origin that changes and  *)
(* a process that dies.  The life of the task in its store is TaskEngine's *)
(* subject.                                                                *)
(***************************************************************************)
EXTENDS LocalStore, OpenListStore

CONSTANTS
  Retries,     \* the executor's, per Fetch
  MaxRetries,  \* the engine's, per task
  MaxTasks,    \* bound: tasks processed
  Worker       \* the processor, as a caller of OpenList and a Put of localfs

ASSUME TransferAssumption ==
  /\ Retries \in Nat /\ MaxRetries \in Nat /\ MaxTasks \in Nat
  /\ Worker \in Caller \cap Putter

VARIABLES
  executor, driver,  \* what is configured
  tasks,   \* tasks begun
  w,       \* the processor: its step, what it has counted, read and kept
  object,  \* what S3 or OpenList has under the key
  job      \* aria2's download into the task's file

workVars == <<tasks, w, object, job>>
config == <<executor, driver>>
vars == <<localVars, openListVars, config, workVars>>

\* attempt and tries count failures of the two loops; requests those made for
\* the task; body is what is being read, file what has been downloaded, sum
\* what the result's hash is of.  alone: no other Put of the key was answered by
\* S3 or OpenList since this one began.
Working == {"fetch", "request", "copy", "keep", "poll", "open", "put"}
Worked == {"idle", "ready", "dead"}
At(pc) == [pc |-> pc, attempt |-> 0, tries |-> 0, requests |-> 0,
           body |-> None, file |-> None, sum |-> None, alone |-> TRUE]

Init ==
  /\ LocalInit /\ OpenListInit
  /\ executor \in {"builtin", "aria2"}
  /\ driver \in {"localfs", "s3", "openlist"}
  /\ driver # "openlist" => static
  /\ driver # "localfs" => data = None
  /\ tasks = 0 /\ w = At("idle")
  /\ object = None /\ job = "none"

-----------------------------------------------------------------------------
(* The engine's loop *)

BeginTask ==
  /\ w.pc \in Worked /\ tasks < MaxTasks
  /\ tasks' = tasks + 1
  /\ w' = At("fetch") /\ job' = "none"
  /\ UNCHANGED <<localVars, openListVars, config, object>>

\* The attempt of the engine has failed; the directory goes with the task.  A
\* new attempt overwrites the file, but aria2 may still have the old one's
\* download.
Failed(x) ==
  IF x.tries < MaxRetries
    THEN [At("fetch") EXCEPT !.tries = x.tries + 1, !.requests = x.requests,
            !.body = IF executor = "aria2" THEN x.body ELSE None]
    ELSE At("dead")

Step(to) ==
  /\ w' = to
  /\ UNCHANGED <<localVars, openListVars, config, tasks, object, job>>

-----------------------------------------------------------------------------
(* Builtin.Fetch *)

StartFetch ==
  /\ executor = "builtin" /\ w.pc = "fetch"
  /\ Step([w EXCEPT !.pc = "request"])

\* The failure of fetchOnce was a transient one.
Again(x) ==
  IF x.attempt < Retries
    THEN [x EXCEPT !.pc = "request", !.attempt = @ + 1]
    ELSE Failed(x)

\* What the origin has may change between any two requests.  The answer can be
\* read, or says to try again (5xx, 429, or none within the time-out), or does
\* not.
Request ==
  /\ w.pc = "request"
  /\ LET asked == [w EXCEPT !.requests = @ + 1]
     IN (\E v \in Content : Step([asked EXCEPT !.pc = "copy", !.body = v]))
          \/ Step(Again(asked)) \/ Step(Failed(asked))

\* The body goes to a temporary file.  The copy may break off, or be longer
\* than MaxBytes; the temporary file then stays behind.
Copy ==
  /\ w.pc = "copy"
  /\ Step([w EXCEPT !.pc = "keep"]) \/ Step(Again(w)) \/ Step(Failed(w))

\* It is renamed to the task's file.
Keep ==
  /\ w.pc = "keep"
  /\ \/ Step([w EXCEPT !.pc = "open", !.file = w.body, !.sum = w.body,
                   !.body = None])
     \/ Step(Failed(w))

-----------------------------------------------------------------------------
(* aria2ctl's Fetch *)

Job(to, state) ==
  /\ w' = to /\ job' = state
  /\ UNCHANGED <<localVars, openListVars, config, tasks, object>>

\* addUri.  A call that fails may have been carried out.  aria2 refuses a file
\* that it is downloading, which it may still do for a call given up before;
\* the first poll then reports the error.
AddUri ==
  /\ executor = "aria2" /\ w.pc = "fetch"
  /\ LET asked == [w EXCEPT !.requests = @ + 1]
     IN \/ Job(Failed(asked), job)
        \/ /\ job # "active"
           /\ \E v \in Content :
                LET begun == [asked EXCEPT !.body = v]
                IN \/ Job([begun EXCEPT !.pc = "poll"], "active")
                   \/ Job(Failed(begun), "active")

\* aria2, on its own.
JobEnds ==
  /\ job = "active" /\ w.pc \notin Worked
  /\ \/ Job([w EXCEPT !.file = w.body], "complete")
     \/ Job(w, "error")

\* tellStatus; an RPC that fails gives the download up and leaves it to aria2.
Poll ==
  /\ w.pc = "poll"
  /\ \/ job = "complete" /\ Step([w EXCEPT !.pc = "open", !.sum = w.file])
     \/ job = "error" /\ Step(Failed(w))
     \/ Step(Failed(w))

\* MUTANT of Deadline: the download is removed and polled on.
DeadlineStays ==
  /\ w.pc = "poll"
  /\ Job(w, job) \/ Job(w, "none")

\* The deadline; whether forceRemove arrived is not looked at.
Deadline ==
  /\ w.pc = "poll"
  /\ Job(Failed(w), job) \/ Job(Failed(w), "none")

-----------------------------------------------------------------------------
(* Storage.Put *)

\* The file is opened; it may be gone.
Open ==
  /\ w.pc = "open"
  /\ \/ Step(Failed(w))
     \/ driver = "s3" /\ Step([w EXCEPT !.pc = "put"])
     \/ /\ driver = "localfs" /\ PutCopy(Worker, w.file)
        /\ w' = [w EXCEPT !.pc = "put"]
        /\ UNCHANGED <<openListVars, config, tasks, object, job>>
     \/ /\ driver = "openlist" /\ Begin(Worker, "put")
        /\ w' = [w EXCEPT !.pc = "put"]
        /\ UNCHANGED <<localVars, config, tasks, object, job>>

\* Registered, and the directory removed; of the file the sum is kept.
Stored == [At("ready") EXCEPT !.sum = w.sum, !.requests = w.requests,
             !.alone = w.alone]

LocalPutEnds ==
  /\ driver = "localfs" /\ w.pc = "put"
  /\ \/ put[Worker].pc = "done" /\ Step(Stored)
     \/ put[Worker].pc = "failed" /\ Step(Failed(w))

\* An error does not say that nothing was stored.
RemotePut(stored, failed) ==
  /\ \/ stored /\ w' = Stored /\ object' = w.file
     \/ failed /\ w' = Failed(w) /\ object' \in {object, w.file}
  /\ UNCHANGED <<localVars, config, tasks, job>>

S3PutEnds ==
  /\ driver = "s3" /\ w.pc = "put"
  /\ RemotePut(TRUE, TRUE)
  /\ UNCHANGED openListVars

OpenListPutEnds ==
  /\ driver = "openlist" /\ w.pc = "put"
  /\ End(Worker)
  /\ RemotePut(call[Worker].pc = "ok", call[Worker].pc # "ok")

-----------------------------------------------------------------------------

\* Another task with the key, or a mirror's flight, next to the processor.
RivalPut ==
  /\ driver # "localfs"
  /\ object' \in Content
  /\ w' = IF w.pc \in {"put", "ready"} THEN [w EXCEPT !.alone = FALSE] ELSE w
  /\ UNCHANGED <<localVars, openListVars, config, tasks, job>>

WorkerStep ==
  \/ StartFetch \/ Request \/ Copy \/ Keep \/ AddUri \/ Deadline
  \/ Open \/ LocalPutEnds

\* With localfs that Put, and requests for the object and its URL.
LocalStep ==
  /\ driver = "localfs"
  /\ \/ \E p \in Putter : PutStep(p)
     \/ \E p \in Putter \ {Worker}, v \in Content : PutCopy(p, v)
     \/ \E r \in Reader : ReadStep(r)
  /\ UNCHANGED <<openListVars, config, workVars>>

OpenListStep ==
  /\ driver = "openlist"
  /\ \/ \E c \in Caller : CallStep(c)
     \/ \E c \in Caller \ {Worker} : Begin(c, "api") \/ End(c)
     \/ Expire
  /\ UNCHANGED <<localVars, config, workVars>>

Crash ==
  /\ w.pc \in Working \/ \E p \in Putter : ~ PutIdle(p)
  /\ w' = At("idle") /\ job' = "none"
  /\ LocalCrash /\ OpenListCrash
  /\ UNCHANGED <<config, tasks, object>>

Next ==
  \/ BeginTask \/ WorkerStep \/ Poll \/ S3PutEnds \/ OpenListPutEnds
  \/ RivalPut \/ LocalStep \/ OpenListStep
  \/ JobEnds \/ Crash

Spec == Init /\ [][Next]_vars

\* The builtin executor's requests and the RPC's have time-outs, the polling
\* a deadline, and the disk answers.  That a poll finds an end, and that an
\* upload to S3 or OpenList, which has no time-out, ends, is not assumed.
FairSpec ==
  /\ Spec
  /\ WF_vars(WorkerStep)
  /\ WF_vars(driver = "localfs" /\ PutStep(Worker)
               /\ UNCHANGED <<openListVars, config, workVars>>)

-----------------------------------------------------------------------------
(* Properties *)

WorkRecord == [pc : Working \cup Worked, attempt : 0 .. Retries,
               tries : 0 .. MaxRetries, requests : Nat,
               body : Content \cup {None}, file : Content \cup {None},
               sum : Content \cup {None}, alone : BOOLEAN]

\* The type invariant.
TypeOK ==
  /\ LocalTypeOK /\ OpenListTypeOK
  /\ executor \in {"builtin", "aria2"}
  /\ driver \in {"localfs", "s3", "openlist"}
  /\ object \in Content \cup {None}
  /\ tasks \in 0 .. MaxTasks
  /\ w \in WorkRecord
  /\ w.pc \in {"open", "put"} => w.file \in Content
  /\ job \in {"none", "active", "complete", "error"}

\* What a task that became ready says of its artifact is true of the object
\* under its key, whatever failed, changed or died before: the hash is the
\* hash of one download, the download that was stored, data and metadata.  A
\* Put of the same key that came after, or that met this one, takes that away.
ReadyIsStored ==
  w.pc = "ready" =>
    IF driver = "localfs" THEN put[Worker].alone => data = w.sum /\ meta = w.sum
                          ELSE w.alone => object = w.sum

\* The retries of the two layers multiply, and no further.
RequestsAreBounded == w.requests <= (Retries + 1) * (MaxRetries + 1)

\* What fetching, storing and retrying rely on, with the types.
TransferInv ==
  /\ TypeOK
  /\ FilesAgree
  /\ RequestsAreBounded
  /\ ReadyIsStored

\* A task is ready or dead in the end, or the process has died.
EveryFetchEnds == driver = "localfs" /\ w.pc \in Working ~> w.pc \in Worked
=============================================================================
