------------------------------ MODULE TaskEngine ------------------------------
(***************************************************************************)
(* The resolve engine (internal/transfer/tasks/engine.go) over the task    *)
(* store.  Four kinds of actors interleave at the store's mutex:           *)
(*   - one Resolve leader per cache key (singleflight lets one in; the     *)
(*     followers share its answer and change nothing);                     *)
(*   - one `process' goroutine per task, with its private copy of it;      *)
(*   - GC, which lists first and deletes later;                            *)
(*   - the environment: origin, object storage, a restart, a day passing.  *)
(***************************************************************************)
EXTENDS TaskStore

CONSTANT MaxRetries   \* EngineConfig.MaxRetries, copied into every task

ASSUME MaxRetriesAssumption == MaxRetries \in Nat

VARIABLES resolving,  \* resolving[k]: where k's Resolve leader is
          spawned,    \* spawned[t]: `go process(t)' calls not yet begun
          pc,         \* pc[t]: where t's registered processor is
          got,        \* got[t]: the content its last fetch returned
          object,     \* object[k]: the content stored under k's object key
          progress,   \* the task BeginFetch announced, bytes seen since
          gcList      \* ids GC has decided to delete

engineVars == <<resolving, spawned, pc, got, object, progress, gcList>>
vars == <<storeVars, engineVars>>

\* "idle": not in Engine.processing.  The other values name the statement of
\* process the goroutine is about to run.
PC == {"idle", "activate", "fetch", "fetched", "downloaded", "upload",
       "stored", "register", "end", "fail", "kill", "backoff", "exit"}

NoLeader == [at |-> "idle", id |-> NoTask]
Creating == [at |-> "create", id |-> NoTask]
Retrying(t) == [at |-> "retry", id |-> t]
Leader == {NoLeader, Creating} \cup {Retrying(t) : t \in Task}

EngineTypeOK ==
  /\ resolving \in [Key -> Leader]
  /\ spawned \in [Task -> Nat]
  /\ pc \in [Task -> PC]
  /\ got \in [Task -> Version \cup {None}]
  /\ object \in [Key -> Version \cup {None}]
  /\ progress \in [id : Task \cup {NoTask}, bytes : BOOLEAN]
  /\ gcList \in SUBSET Task

\* The type invariant of the engine and the store.
TypeOK == StoreTypeOK /\ EngineTypeOK

\* What a fresh process starts with besides what is on disk.
Volatile ==
  [resolving |-> [k \in Key |-> NoLeader],
   spawned   |-> [t \in Task |-> 0],
   pc        |-> [t \in Task |-> "idle"],
   got       |-> [t \in Task |-> None],
   progress  |-> [id |-> NoTask, bytes |-> FALSE]]

Init ==
  /\ StoreInit
  /\ resolving = Volatile.resolving
  /\ spawned = Volatile.spawned
  /\ pc = Volatile.pc
  /\ got = Volatile.got
  /\ object = [k \in Key |-> None]
  /\ progress = Volatile.progress
  /\ gcList = {}

-----------------------------------------------------------------------------
(* Resolve *)

\* The look-up and the switch on its status.  A ready task (presigned) and
\* one in progress (its status) are answered without a change of state.
ResolveLookup(k) ==
  LET t == GetByCacheKey(k)
      spent == t.retries >= MaxRetries
  IN /\ resolving[k] = NoLeader
     /\ \/ /\ t.status = "failed" /\ ~ spent
           /\ resolving' = [resolving EXCEPT ![k] = Retrying(byKey[k])]
        \/ /\ t.status \in {"absent", "dead"} \/ (t.status = "failed" /\ spent)
           /\ resolving' = [resolving EXCEPT ![k] = Creating]
     /\ UNCHANGED <<storeVars, spawned, pc, got, object, progress, gcList>>

\* The failed task is moved back to downloading and given a processor.  When
\* the update is refused or not saved, the code falls through to a new task.
Revive(k, t) ==
  LET revived == [byID[t] EXCEPT !.status = "downloading"]
  IN \/ /\ Update(t, revived, TRUE)
        /\ spawned' = [spawned EXCEPT ![t] = @ + 1]
        /\ resolving' = [resolving EXCEPT ![k] = NoLeader]
     \/ /\ \/ FALSE \in SaveOutcome /\ Update(t, revived, FALSE)
           \/ ~ MayUpdate(t, "downloading") /\ UNCHANGED storeVars
        /\ resolving' = [resolving EXCEPT ![k] = Creating]
        /\ UNCHANGED spawned

ResolveRetry(k) ==
  /\ \E t \in Task : resolving[k] = Retrying(t) /\ Revive(k, t)
  /\ UNCHANGED <<pc, got, object, progress, gcList>>

\* NewTask and Put; without a save the caller gets an error and nobody is
\* started for the task the memory now holds.
ResolveCreate(k) ==
  /\ resolving[k] = Creating
  /\ \E ok \in SaveOutcome :
       /\ PutNew(k, Queued, ok)
       /\ spawned' = IF ok THEN [spawned EXCEPT ![made + 1] = @ + 1]
                     ELSE spawned
  /\ resolving' = [resolving EXCEPT ![k] = NoLeader]
  /\ UNCHANGED <<pc, got, object, progress, gcList>>

-----------------------------------------------------------------------------
(* process *)

Goto(t, next) == pc' = [pc EXCEPT ![t] = next]

\* A processor's call of Update: any error makes process return.
ProcUpdate(t, rec, next) ==
  \/ \E ok \in ProcSaveOutcome :
       /\ Update(t, rec, ok)
       /\ Goto(t, IF ok THEN next ELSE "exit")
  \/ /\ ~ MayUpdate(t, rec.status)
     /\ Goto(t, "exit")
     /\ UNCHANGED storeVars

SetStatus(t, from, status, next) ==
  /\ pc[t] = from
  /\ ProcUpdate(t, [byID[t] EXCEPT !.status = status], next)
  /\ UNCHANGED <<resolving, spawned, got, object, progress, gcList>>

\* The goroutine begins: a second one for the same id returns at once, the
\* first registers, copies the task and announces itself to BeginFetch.
Start(t) ==
  /\ spawned[t] > 0
  /\ spawned' = [spawned EXCEPT ![t] = @ - 1]
  /\ \/ pc[t] # "idle" /\ UNCHANGED <<pc, progress>>
     \/ /\ pc[t] = "idle" /\ ~ Stored(t)
        /\ Goto(t, "exit")
        /\ UNCHANGED progress
     \/ /\ pc[t] = "idle" /\ Stored(t)
        /\ Goto(t, CASE byID[t].status \in {"queued", "failed"} -> "activate"
                     [] byID[t].status = "downloading" -> "fetch"
                     [] OTHER -> "exit")
        /\ progress' = [id |-> t, bytes |-> FALSE]
  /\ UNCHANGED <<storeVars, resolving, got, object, gcList>>

Activate(t) == SetStatus(t, "activate", "downloading", "fetch")

\* Nothing in the code keeps the processor of t from going on between a Resolve's
\* look-up of t and its update; with "stall" it does.  Without that fault the model
\* assumes that a fetch or a back-off takes longer than Resolve needs from one to
\* the other - a few instructions, or the saves it waits for at Store.mu.
MayTakeTime(t) == "stall" \in Faults \/ \A k \in Key : resolving[k].id # t

\* exec.Fetch returns some content the origin serves, or fails.
Fetch(t) ==
  /\ pc[t] = "fetch" /\ MayTakeTime(t)
  /\ \/ /\ \E v \in Version : got' = [got EXCEPT ![t] = v]
        /\ Goto(t, "fetched")
     \/ Goto(t, "fail") /\ UNCHANGED got
  /\ UNCHANGED <<storeVars, resolving, spawned, object, progress, gcList>>

Downloaded(t) == SetStatus(t, "fetched", "downloaded", "downloaded")

Uploading(t) == SetStatus(t, "downloaded", "uploading", "upload")

\* os.Open and stor.Put.  A Put that reports an error may have replaced the
\* object already (the object file is renamed before its metadata); what was
\* fetched is forgotten then.
Upload(t) ==
  LET k == keyOf[t]
      replaced == [object EXCEPT ![k] = got[t]]
  IN /\ pc[t] = "upload"
     /\ \/ object' = replaced /\ Goto(t, "stored") /\ UNCHANGED got
        \/ /\ object' \in {object, replaced} /\ Goto(t, "fail")
           /\ got' = [got EXCEPT ![t] = None]
     /\ UNCHANGED <<storeVars, resolving, spawned, progress, gcList>>

Registering(t) == SetStatus(t, "stored", "registering", "register")

\* The artifact describes what was fetched (res.SHA256, obj.Size).
Register(t) ==
  /\ pc[t] = "register"
  /\ ProcUpdate(t, [byID[t] EXCEPT !.status = "ready", !.art = got[t]], "end")
  /\ UNCHANGED <<resolving, spawned, got, object, progress, gcList>>

\* EndFetch, whichever task is announced by now.
EndFetch(t) ==
  /\ pc[t] = "end"
  /\ progress' = [progress EXCEPT !.id = NoTask]
  /\ Goto(t, "exit")
  /\ UNCHANGED <<storeVars, resolving, spawned, got, object, gcList>>

\* ... dead comes one attempt too late ...
FailOneTooMany(t) ==
  /\ pc[t] = "fail"
  /\ ProcUpdate(t, [byID[t] EXCEPT !.status = "failed", !.retries = @ + 1],
                IF byID[t].retries > MaxRetries THEN "kill" ELSE "backoff")
  /\ UNCHANGED <<resolving, spawned, got, object, progress, gcList>>

\* ... failures are not counted.
FailUncounted(t) ==
  /\ pc[t] = "fail"
  /\ ProcUpdate(t, [byID[t] EXCEPT !.status = "failed"], "backoff")
  /\ UNCHANGED <<resolving, spawned, got, object, progress, gcList>>

\* fail: one more failure, and dead once there were more than MaxRetries.
\* Only the processor writes retries, so its copy and the store's agree.
Fail(t) ==
  LET retries == byID[t].retries + 1
  IN /\ pc[t] = "fail"
     /\ ProcUpdate(t, [byID[t] EXCEPT !.status = "failed",
                                      !.retries = retries],
                   IF retries > MaxRetries THEN "kill" ELSE "backoff")
     /\ UNCHANGED <<resolving, spawned, got, object, progress, gcList>>

Kill(t) == SetStatus(t, "kill", "dead", "exit")

\* time.Sleep is over; the loop head sees its own copy, which is failed.
Backoff(t) ==
  /\ pc[t] = "backoff" /\ MayTakeTime(t)
  /\ Goto(t, "activate")
  /\ UNCHANGED <<storeVars, resolving, spawned, got, object, progress, gcList>>

\* The deferred removal from processing.
Exit(t) ==
  /\ pc[t] = "exit"
  /\ Goto(t, "idle")
  /\ got' = [got EXCEPT ![t] = None]
  /\ UNCHANGED <<storeVars, resolving, spawned, object, progress, gcList>>

Process(t) ==
  \/ Start(t) \/ Activate(t) \/ Fetch(t) \/ Downloaded(t) \/ Uploading(t)
  \/ Upload(t) \/ Registering(t) \/ Register(t) \/ EndFetch(t)
  \/ Fail(t) \/ Kill(t) \/ Backoff(t) \/ Exit(t)

-----------------------------------------------------------------------------
(* GC, restart, time *)

\* MUTANT of GCList: everything that is over is collected, ready tasks too.
GCListOver ==
  /\ gcList = {}
  /\ gcList' = {t \in Task : Stored(t) /\ byID[t].status \notin InProgress}
  /\ UNCHANGED <<storeVars, resolving, spawned, pc, got, object, progress>>

\* GC's first half: List, and the tasks that are failed or dead and old.
GCList ==
  /\ gcList = {}
  /\ gcList' = {t \in Task : byID[t].status \in {"failed", "dead"}
                               /\ byID[t].old}
  /\ UNCHANGED <<storeVars, resolving, spawned, pc, got, object, progress>>

\* GC's second half, task by task, without a second look at the task.
GCDelete(t) ==
  /\ t \in gcList
  /\ gcList' = gcList \ {t}
  /\ \/ \E ok \in SaveOutcome : Delete(t, ok)
     \/ ~ Stored(t) /\ UNCHANGED storeVars
  /\ UNCHANGED <<resolving, spawned, pc, got, object, progress>>

\* The server stops at any point and starts again: NewStore reads the tasks
\* file and NewEngine begins with nothing in processing.
Restart ==
  /\ "restart" \in Faults
  /\ NewStore
  /\ resolving' = Volatile.resolving
  /\ spawned' = Volatile.spawned
  /\ pc' = Volatile.pc
  /\ got' = Volatile.got
  /\ progress' = Volatile.progress
  /\ gcList' = {}
  /\ UNCHANGED object

\* More than the 24 hours of GC go by.  Nothing short is under way then: the
\* back-off is seconds and only a transfer can last.
DayPasses ==
  /\ \A t \in Task : spawned[t] = 0 /\ pc[t] \in {"idle", "fetch", "upload"}
  /\ \A k \in Key : resolving[k] = NoLeader
  /\ gcList = {}
  /\ Age
  /\ UNCHANGED engineVars

-----------------------------------------------------------------------------

Resolve(k) == ResolveLookup(k) \/ ResolveRetry(k) \/ ResolveCreate(k)

\* A server that keeps running.
Serve ==
  \/ \E k \in Key : Resolve(k)
  \/ \E t \in Task : Process(t)
  \/ GCList
  \/ \E t \in Task : GCDelete(t)
  \/ DayPasses

Next == Serve \/ Restart

Spec == Init /\ [][Next]_vars

\* The Go scheduler runs every runnable goroutine, and every call a processor
\* makes returns: fetches and uploads end in success or in an error.  A
\* Resolve that has started is finished; that one starts is not assumed.
Fairness == /\ \A t \in Task : WF_vars(Process(t))
            /\ \A k \in Key : WF_vars(ResolveRetry(k))

FairSpec == Init /\ [][Serve]_vars /\ Fairness

\* The server may be restarted, and clients keep asking for every key.
AskingSpec == Spec /\ Fairness /\ \A k \in Key : WF_vars(Resolve(k))

-----------------------------------------------------------------------------
(* Properties *)

\* A task that says ready can be served: the artifact the presigned answer is
\* built from is recorded (Resolve and Refresh dereference it) and the object
\* was stored first.  This must hold of the tasks file too, since a restart
\* takes it at its word.
ServableIn(tasks) ==
  \A t \in Task : tasks[t].status = "ready" =>
    /\ tasks[t].art # None
    /\ keyOf[t] \in Key
    /\ object[keyOf[t]] # None

ReadyIsServable == ServableIn(byID) /\ ServableIn(disk.byID)

\* Why ReadyIsServable holds, as an inductive invariant.  Ids are drawn in
\* order and have a key from then on; whatever stores or works on a task
\* works on a drawn one; and a processor that is past Fetch holds the content,
\* past Upload has stored it.
Drawn(t) == keyOf[t] \in Key

StoreInv ==
  /\ StoreTypeOK
  /\ object \in [Key -> Version \cup {None}]
  /\ \A t \in Task : Drawn(t) <=> t <= made
  /\ \A t \in Task : Stored(t) \/ StoredIn(disk, t) => Drawn(t)
  /\ ReadyIsServable

ObjectFirst ==
  \A t \in Task :
    /\ pc[t] \in {"fetched", "downloaded", "upload", "stored", "register"}
         => got[t] # None
    /\ pc[t] \in {"stored", "register"} => object[keyOf[t]] # None
    /\ pc[t] # "idle" \/ spawned[t] > 0 => Drawn(t)

EngineInv == TypeOK /\ StoreInv /\ ObjectFirst

\* What the processor's private copy says is what the store says, as long as
\* the store has the task: neither Resolve's retry, GC nor a second goroutine
\* moves a task under a running processor, so no Update of process is refused
\* with ErrConflict - except the last: a Resolve that found the task failed may be
\* overtaken by the last attempt, and then sets a task to downloading that its
\* processor is about to declare dead.
StatusesAt ==
  [activate   |-> {"queued", "failed", "downloading"},
   fetch      |-> {"downloading"},
   fetched    |-> {"downloading"},
   downloaded |-> {"downloaded"},
   upload     |-> {"uploading"},
   stored     |-> {"uploading"},
   register   |-> {"registering"},
   end        |-> {"ready"},
   fail       |-> {"downloading", "uploading"},
   kill       |-> {"failed", "downloading"},
   backoff    |-> {"failed", "downloading"},
   idle       |-> Status,
   exit       |-> Status]

ProcessorInStep ==
  \A t \in Task : Stored(t) => byID[t].status \in StatusesAt[pc[t]]

\* Retries are counted across Resolve's revivals of a failed task, and the
\* budget is one attempt plus MaxRetries.
RetryBudget ==
  \A t \in Task :
    /\ byID[t].retries <= MaxRetries + 1
    /\ byID[t].status = "dead" => byID[t].retries = MaxRetries + 1

\* A task has a processor, or one is about to start.
Worked(t) == spawned[t] > 0 \/ pc[t] \notin {"idle", "exit"}

\* "process drives one task through the state machine, retrying internally
\* until ready or dead" (engine.go:227): every task ends, however often
\* Resolve revives it meanwhile.
Settled(t) == byID[t].status \in {"ready", "dead", "absent"}

EveryTaskSettles == \A t \in Task : []<>Settled(t)

\* A task in progress does not stay unattended for ever: process drives it
\* "until ready or dead" (engine.go:227), and a Task is "a cache job persisted
\* across restarts" (store.go:30).
InProgressIsResumed ==
  \A t \in Task : []<>(byID[t].status \in InProgress => Worked(t))
=============================================================================
