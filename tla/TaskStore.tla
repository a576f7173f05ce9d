------------------------------ MODULE TaskStore ------------------------------
(***************************************************************************)
(* The task store (internal/transfer/tasks/store.go): an index by id and   *)
(* one by cache key in memory, rewritten as a whole to one file after      *)
(* every change.  Every operation runs under Store.mu, so each is a single *)
(* step; the operators below are the effects the callers' actions use.     *)
(*                                                                         *)
(* A write changes the memory first and saves second: when the save fails  *)
(* the caller gets an error but the memory keeps the change.               *)
(*                                                                         *)
(* Wall-clock time is abstracted to the two things the code asks of        *)
(* UpdatedAt: which of two tasks was updated last (the relation `later')   *)
(* and whether a task was last updated more than a day ago (`old').        *)
(***************************************************************************)
EXTENDS Naturals, TaskStatus

CONSTANTS MaxTasks,  \* bound on the number of tasks ever created
          Key,       \* cache keys
          Version,   \* contents the origin may serve for one key
          None,      \* no content, no key
          Faults     \* the faults allowed to happen

ASSUME TaskStoreAssumption ==
  /\ MaxTasks \in Nat
  /\ None \notin Key \cup Version
  /\ Faults \subseteq {"save",      \* a save by Resolve, GC or a mirror fails
                       "procsave",  \* one by process or the progress loop does
                       "restart",   \* the server is restarted
                       "stall"}     \* a Resolve is overtaken, see MayTakeTime

\* Task ids in the order NewTask draws them; 0 stands for a nil *Task.
Task == 1 .. MaxTasks
NoTask == 0

VARIABLES byID,    \* byID[t]: the stored task
          byKey,   \* byKey[k]: the task GetByCacheKey returns
          later,   \* <<t, u>>: t.UpdatedAt is after u.UpdatedAt
          disk,    \* the content of the tasks file
          made,    \* how many ids were drawn
          keyOf    \* keyOf[t]: t.CacheKey, fixed when t is created

storeVars == <<byID, byKey, later, disk, made, keyOf>>

TaskRec == [status  : Status \cup {"absent"},
            retries : Nat,
            art     : Version \cup {None},
            old     : BOOLEAN]

Absent == [status |-> "absent", retries |-> 0, art |-> None, old |-> FALSE]

\* NewTask, before it is stored.
Queued == [Absent EXCEPT !.status = "queued"]

Image == [byID : [Task -> TaskRec], later : SUBSET (Task \X Task)]

StoredIn(img, t) == img.byID[t].status # "absent"

Memory == [byID |-> byID, later |-> later]

Stored(t) == byID[t].status # "absent"

StoreTypeOK ==
  /\ byID \in [Task -> TaskRec]
  /\ byKey \in [Key -> Task \cup {NoTask}]
  /\ later \in SUBSET (Task \X Task)
  /\ disk \in Image
  /\ made \in 0 .. MaxTasks
  /\ keyOf \in [Task -> Key \cup {None}]

StoreInit ==
  /\ byID = [t \in Task |-> Absent]
  /\ byKey = [k \in Key |-> NoTask]
  /\ later = {}
  /\ disk = Memory
  /\ made = 0
  /\ keyOf = [t \in Task |-> None]

\* Absent stands for ErrNotFound.
GetByCacheKey(k) == IF byKey[k] = NoTask THEN Absent ELSE byID[byKey[k]]

\* A save always succeeds unless the fault is allowed.  The two kinds of savers
\* are told apart only to keep TLC's runs small; the theorems allow both.
ProcSaveOutcome == IF "procsave" \in Faults THEN BOOLEAN ELSE {TRUE}
SaveOutcome == IF "save" \in Faults THEN BOOLEAN ELSE {TRUE}

\* MUTANT of Persist: the file is written in place, and a write that fails
\* leaves it empty.
PersistInPlace(ok) ==
  disk' = IF ok THEN [byID |-> byID', later |-> later']
          ELSE [byID |-> [t \in Task |-> Absent], later |-> {}]

\* persistLocked: temp file and rename, so the file is replaced or untouched.
Persist(ok) == disk' = IF ok THEN [byID |-> byID', later |-> later'] ELSE disk

\* UpdatedAt = now: t becomes the latest of all.
Touched(t) == {p \in later : p[1] # t /\ p[2] # t}
                \cup {p \in {t} \X Task : p[2] # t /\ Stored(p[2])}

\* The part Put and Update share: store the copy, point the key's index at
\* it whatever it pointed at before, save.
Write(t, k, rec, ok) ==
  /\ byID' = [byID EXCEPT ![t] = [rec EXCEPT !.old = FALSE]]
  /\ byKey' = [byKey EXCEPT ![k] = t]
  /\ later' = Touched(t)
  /\ Persist(ok)

\* Put of a task that NewTask has just made; the replace branch of Put is
\* never taken, because every caller passes a fresh id.
PutNew(k, rec, ok) ==
  /\ made < MaxTasks
  /\ made' = made + 1
  /\ keyOf' = [keyOf EXCEPT ![made + 1] = k]
  /\ Write(made + 1, k, rec, ok)

\* MUTANT of MayUpdate: the transition table is not asked.
MayUpdateStored(t, status) == Stored(t)

\* Update fails with ErrNotFound or ErrConflict when this is false.
MayUpdate(t, status) ==
  /\ Stored(t)
  /\ Can(byID[t].status, status) \/ byID[t].status = status

Update(t, rec, ok) ==
  /\ MayUpdate(t, rec.status)
  /\ Write(t, keyOf[t], rec, ok)
  /\ UNCHANGED <<made, keyOf>>

\* MUTANT of Delete: the key's index is forgotten.
DeleteKeepsIndex(t, ok) ==
  /\ Stored(t)
  /\ byID' = [byID EXCEPT ![t] = Absent]
  /\ later' = {p \in later : p[1] # t /\ p[2] # t}
  /\ Persist(ok)
  /\ UNCHANGED <<byKey, made, keyOf>>

\* Delete drops the id; the key's index is cleared only if it points at it,
\* and no older task of the key takes its place.
Delete(t, ok) ==
  /\ Stored(t)
  /\ byID' = [byID EXCEPT ![t] = Absent]
  /\ byKey' = IF byKey[keyOf[t]] = t
              THEN [byKey EXCEPT ![keyOf[t]] = NoTask] ELSE byKey
  /\ later' = {p \in later : p[1] # t /\ p[2] # t}
  /\ Persist(ok)
  /\ UNCHANGED <<made, keyOf>>

\* What NewStore builds for key k from a file: the task updated last.
IsIndexFor(img, k, t) ==
  LET ofKey == {u \in Task : StoredIn(img, u) /\ keyOf[u] = k}
  IN \/ ofKey = {} /\ t = NoTask
     \/ t \in ofKey /\ \A u \in ofKey \ {t} : <<t, u>> \in img.later

\* NewStore after a restart: memory is what the file says.
NewStore ==
  /\ byID' = disk.byID
  /\ later' = disk.later
  /\ \E index \in [Key -> Task \cup {NoTask}] :
       /\ \A k \in Key : IsIndexFor(disk, k, index[k])
       /\ byKey' = index
  /\ UNCHANGED <<disk, made, keyOf>>

\* A day goes by without an update: the tasks GC may collect grow old, in
\* memory and in the file.
Aged(tasks) ==
  [t \in Task |-> [tasks[t] EXCEPT
                     !.old = tasks[t].status \in {"failed", "dead"}]]
Age ==
  /\ byID' = Aged(byID)
  /\ disk' = [disk EXCEPT !.byID = Aged(disk.byID)]
  /\ UNCHANGED <<byKey, later, made, keyOf>>

-----------------------------------------------------------------------------

\* The in-memory index is the one a restart would build, whatever writers, failing
\* saves and deletions did: the task a key resolves to is stored, belongs to the
\* key and is the last updated of the key's tasks.  That is not the newest, as the
\* comment at GetByCacheKey says: the update of an older task takes the entry over.
\* In one case memory and restart differ: when the task the entry led to was
\* deleted, the key has none, though older tasks of it may be left, of which a
\* restart would choose one.
IndexIsLatest ==
  \A k \in Key :
    \/ IsIndexFor(Memory, k, byKey[k])
    \/ byKey[k] = NoTask /\ \E t \in Task : keyOf[t] = k /\ ~ Stored(t)
=============================================================================
