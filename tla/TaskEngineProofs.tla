-------------------------- MODULE TaskEngineProofs --------------------------
(***************************************************************************)
(* Proofs about TaskEngine: the store's operations keep the store's        *)
(* invariant, the engine's actions keep the engine's.                      *)
(***************************************************************************)
EXTENDS TaskEngine, TLAPS

-----------------------------------------------------------------------------
(* The store *)

\* A task record that may be written: if it says ready, the object is there.
Writable(rec, k) ==
  /\ rec \in TaskRec
  /\ rec.status = "ready" => rec.art # None /\ object[k] # None

\* Saving writes the memory or leaves the file alone, so a property of both
\* images is kept if the new memory has it.
LEMMA PersistType ==
  ASSUME disk \in Image, NEW ok \in BOOLEAN, Persist(ok),
         byID' \in [Task -> TaskRec], later' \in SUBSET (Task \X Task)
  PROVE  disk' \in Image /\ (disk'.byID = byID' \/ disk'.byID = disk.byID)
  BY DEF Persist, Image

\* The shared part of Put and Update is well typed.
LEMMA WriteType ==
  ASSUME StoreTypeOK, NEW t \in Task, NEW k \in Key, NEW rec \in TaskRec,
         NEW ok \in BOOLEAN, Write(t, k, rec, ok)
  PROVE  /\ byID' \in [Task -> TaskRec]
         /\ byKey' \in [Key -> Task \cup {NoTask}]
         /\ later' \in SUBSET (Task \X Task)
         /\ disk' \in Image
         /\ \A u \in Task : u # t => byID'[u] = byID[u]
         /\ byID'[t].status = rec.status
         /\ byID'[t].art = rec.art
         /\ disk'.byID = byID' \/ disk'.byID = disk.byID
<1>1. byID' \in [Task -> TaskRec]
  BY DEF Write, StoreTypeOK, TaskRec
<1>2. byKey' \in [Key -> Task \cup {NoTask}]
  BY DEF Write, StoreTypeOK
<1>3. later' \in SUBSET (Task \X Task)
  BY DEF Write, Touched, StoreTypeOK
<1>4. disk' \in Image /\ (disk'.byID = byID' \/ disk'.byID = disk.byID)
  BY <1>1, <1>3, PersistType DEF Write, StoreTypeOK
<1>5. /\ \A u \in Task : u # t => byID'[u] = byID[u]
      /\ byID'[t].status = rec.status
      /\ byID'[t].art = rec.art
  BY DEF Write, StoreTypeOK, TaskRec
<1>6. QED BY <1>1, <1>2, <1>3, <1>4, <1>5

\* Update keeps the store's invariant.
LEMMA UpdateKeeps ==
  ASSUME StoreInv, NEW t \in Task, NEW rec, Writable(rec, keyOf[t]),
         NEW ok \in BOOLEAN, Update(t, rec, ok), UNCHANGED object
  PROVE  StoreInv' /\ UNCHANGED <<made, keyOf>>
<1>1. keyOf[t] \in Key /\ rec \in TaskRec /\ StoreTypeOK
  BY DEF StoreInv, Update, MayUpdate, Drawn, Writable
<1>2. /\ Write(t, keyOf[t], rec, ok)
      /\ made' = made /\ keyOf' = keyOf /\ object' = object
  BY DEF Update
<1>3. /\ StoreTypeOK'
      /\ \A u \in Task : u # t => byID'[u] = byID[u]
      /\ byID'[t].status = rec.status /\ byID'[t].art = rec.art
      /\ disk'.byID = byID' \/ disk'.byID = disk.byID
  BY <1>1, <1>2, WriteType DEF StoreTypeOK
<1>4. /\ object' \in [Key -> Version \cup {None}]
      /\ (\A u \in Task : Drawn(u) <=> u <= made)'
  BY <1>2 DEF StoreInv, Drawn
<1>5. (\A u \in Task : Stored(u) \/ StoredIn(disk, u) => Drawn(u))'
  BY <1>1, <1>2, <1>3 DEF StoreInv, Stored, StoredIn, Drawn
<1>6. ServableIn(byID)'
  BY <1>1, <1>2, <1>3 DEF StoreInv, ReadyIsServable, ServableIn, Writable
<1>7. ServableIn(disk.byID)'
  BY <1>2, <1>3, <1>6 DEF StoreInv, ReadyIsServable, ServableIn
<1>8. QED
  BY <1>2, <1>3, <1>4, <1>5, <1>6, <1>7 DEF StoreInv, ReadyIsServable

\* Put of a new task keeps it, and draws exactly one id.
LEMMA PutNewKeeps ==
  ASSUME StoreInv, NEW k \in Key, NEW rec, Writable(rec, k),
         NEW ok \in BOOLEAN, PutNew(k, rec, ok), UNCHANGED object
  PROVE  /\ StoreInv'
         /\ made + 1 \in Task
         /\ ~ Drawn(made + 1)
         /\ keyOf'[made + 1] = k
         /\ \A t \in Task : t # made + 1 => keyOf'[t] = keyOf[t]
<1>. DEFINE n == made + 1
<1>1. /\ n \in Task /\ ~ Drawn(n) /\ ~ Stored(n) /\ ~ StoredIn(disk, n)
      /\ StoreTypeOK /\ rec \in TaskRec
  <2>1. made \in Nat /\ MaxTasks \in Nat /\ made < MaxTasks
    BY TaskStoreAssumption DEF StoreInv, StoreTypeOK, PutNew
  <2>2. n \in Task /\ ~ (n <= made)
    BY <2>1 DEF Task
  <2>3. QED
    BY <2>2 DEF StoreInv, Writable
<1>2. /\ Write(n, k, rec, ok)
      /\ made' = n /\ keyOf' = [keyOf EXCEPT ![n] = k] /\ object' = object
  BY DEF PutNew
<1>3. /\ keyOf' \in [Task -> Key \cup {None}]
      /\ keyOf'[n] = k
      /\ \A t \in Task : t # n => keyOf'[t] = keyOf[t]
  BY <1>1, <1>2 DEF StoreTypeOK
<1>4. /\ StoreTypeOK'
      /\ \A u \in Task : u # n => byID'[u] = byID[u]
      /\ byID'[n].status = rec.status /\ byID'[n].art = rec.art
      /\ disk'.byID = byID' \/ disk'.byID = disk.byID
  <2>1. made' \in 0 .. MaxTasks
    BY <1>1, <1>2 DEF Task
  <2>2. QED
    BY <1>1, <1>2, <1>3, <2>1, WriteType DEF StoreTypeOK
<1>5. (\A u \in Task : Drawn(u) <=> u <= made)'
  <2>1. SUFFICES ASSUME NEW u \in Task PROVE Drawn(u)' <=> u <= n
    BY <1>2
  <2>2. made \in Nat /\ u \in Nat
    BY <1>1 DEF StoreTypeOK, Task
  <2>3. CASE u = n
    BY <1>1, <1>3, <2>3, <2>2 DEF Drawn
  <2>4. CASE u # n
    <3>1. Drawn(u) <=> u <= made
      BY DEF StoreInv
    <3>2. QED BY <1>3, <2>2, <2>4, <3>1 DEF Drawn
  <2>5. QED BY <2>3, <2>4
<1>6. (\A u \in Task : Stored(u) \/ StoredIn(disk, u) => Drawn(u))'
  BY <1>1, <1>3, <1>4 DEF StoreInv, Stored, StoredIn, Drawn
<1>7. ServableIn(byID)'
  BY <1>1, <1>2, <1>3, <1>4 DEF StoreInv, ReadyIsServable, ServableIn, Writable
<1>8. ServableIn(disk.byID)'
  <2>1. CASE disk'.byID = byID'
    BY <1>2, <1>7, <2>1 DEF ServableIn
  <2>2. CASE disk'.byID = disk.byID
    BY <1>1, <1>2, <1>3, <2>2
       DEF StoreInv, ReadyIsServable, ServableIn, StoredIn
  <2>3. QED BY <1>4, <2>1, <2>2
<1>9. object' \in [Key -> Version \cup {None}]
  BY <1>2 DEF StoreInv
<1>10. QED
  BY <1>1, <1>2, <1>3, <1>4, <1>5, <1>6, <1>7, <1>8, <1>9
     DEF StoreInv, ReadyIsServable

\* Delete keeps it.
LEMMA DeleteKeeps ==
  ASSUME StoreInv, NEW t \in Task, NEW ok \in BOOLEAN, Delete(t, ok),
         UNCHANGED object
  PROVE  StoreInv' /\ UNCHANGED <<made, keyOf>>
<1>1. Absent \in TaskRec /\ Absent.status # "ready"
  BY DEF Absent, TaskRec
<1>2. /\ byID' = [byID EXCEPT ![t] = Absent]
      /\ later' = {p \in later : p[1] # t /\ p[2] # t}
      /\ Persist(ok)
      /\ made' = made /\ keyOf' = keyOf /\ object' = object
  BY DEF Delete
<1>3. byID' \in [Task -> TaskRec] /\ later' \in SUBSET (Task \X Task)
  BY <1>1, <1>2 DEF StoreInv, StoreTypeOK
<1>4. disk' \in Image /\ (disk'.byID = byID' \/ disk'.byID = disk.byID)
  BY <1>2, <1>3, PersistType DEF StoreInv, StoreTypeOK
<1>5. byKey' \in [Key -> Task \cup {NoTask}]
  BY DEF Delete, StoreInv, StoreTypeOK
<1>6. StoreTypeOK'
  BY <1>2, <1>3, <1>4, <1>5 DEF StoreInv, StoreTypeOK
<1>7. /\ \A u \in Task : u # t => byID'[u] = byID[u]
      /\ byID'[t].status = "absent"
  BY <1>1, <1>2 DEF StoreInv, StoreTypeOK, Absent
<1>8. (\A u \in Task : Stored(u) \/ StoredIn(disk, u) => Drawn(u))'
  BY <1>2, <1>4, <1>7 DEF StoreInv, Stored, StoredIn, Drawn
<1>9. ServableIn(byID)'
  BY <1>2, <1>7 DEF StoreInv, ReadyIsServable, ServableIn
<1>10. ServableIn(disk.byID)'
  BY <1>2, <1>4, <1>9 DEF StoreInv, ReadyIsServable, ServableIn
<1>11. QED
  BY <1>2, <1>6, <1>8, <1>9, <1>10 DEF StoreInv, ReadyIsServable, Drawn

\* Reading the file back keeps it: the file was servable all along.
LEMMA NewStoreKeeps ==
  ASSUME StoreInv, NewStore, UNCHANGED object
  PROVE  StoreInv' /\ UNCHANGED <<made, keyOf>>
<1>1. /\ byID' = disk.byID /\ later' = disk.later /\ disk' = disk
      /\ made' = made /\ keyOf' = keyOf /\ object' = object
      /\ byKey' \in [Key -> Task \cup {NoTask}]
  BY DEF NewStore
<1>2. disk.byID \in [Task -> TaskRec] /\ disk.later \in SUBSET (Task \X Task)
  BY DEF StoreInv, StoreTypeOK, Image
<1>3. StoreTypeOK'
  BY <1>1, <1>2 DEF StoreInv, StoreTypeOK
<1>4. (\A u \in Task : Stored(u) \/ StoredIn(disk, u) => Drawn(u))'
  BY <1>1 DEF StoreInv, Stored, StoredIn, Drawn
<1>5. QED
  BY <1>1, <1>3, <1>4 DEF StoreInv, ReadyIsServable, ServableIn, Drawn

\* Growing old changes no status, no count and no artifact.
LEMMA AgedKeeps ==
  ASSUME NEW tasks \in [Task -> TaskRec]
  PROVE  /\ Aged(tasks) \in [Task -> TaskRec]
         /\ \A t \in Task : /\ Aged(tasks)[t].status = tasks[t].status
                            /\ Aged(tasks)[t].retries = tasks[t].retries
                            /\ Aged(tasks)[t].art = tasks[t].art
<1>1. SUFFICES ASSUME NEW t \in Task
               PROVE  /\ Aged(tasks)[t] \in TaskRec
                      /\ Aged(tasks)[t].status = tasks[t].status
                      /\ Aged(tasks)[t].retries = tasks[t].retries
                      /\ Aged(tasks)[t].art = tasks[t].art
  BY DEF Aged
<1>2. tasks[t] \in TaskRec
  OBVIOUS
<1>3. Aged(tasks)[t] = [tasks[t] EXCEPT
                          !.old = tasks[t].status \in {"failed", "dead"}]
  BY DEF Aged
<1>4. (tasks[t].status \in {"failed", "dead"}) \in BOOLEAN
  OBVIOUS
<1>5. QED BY <1>2, <1>3, <1>4 DEF TaskRec

\* So the passing of a day keeps the store's invariant.
LEMMA AgeKeeps ==
  ASSUME StoreInv, Age, UNCHANGED object
  PROVE  StoreInv' /\ UNCHANGED <<made, keyOf>>
<1>1. /\ byID' = Aged(byID)
      /\ disk' = [disk EXCEPT !.byID = Aged(disk.byID)]
      /\ byKey' = byKey /\ later' = later
      /\ made' = made /\ keyOf' = keyOf /\ object' = object
  BY DEF Age
<1>2. byID \in [Task -> TaskRec] /\ disk.byID \in [Task -> TaskRec]
  BY DEF StoreInv, StoreTypeOK, Image
<1>3. /\ Aged(byID) \in [Task -> TaskRec]
      /\ Aged(disk.byID) \in [Task -> TaskRec]
      /\ \A t \in Task :
           /\ Aged(byID)[t].status = byID[t].status
           /\ Aged(byID)[t].art = byID[t].art
           /\ Aged(disk.byID)[t].status = disk.byID[t].status
           /\ Aged(disk.byID)[t].art = disk.byID[t].art
  BY <1>2, AgedKeeps
<1>4. disk' \in Image /\ disk'.byID = Aged(disk.byID)
  BY <1>1, <1>3 DEF StoreInv, StoreTypeOK, Image
<1>5. StoreTypeOK'
  BY <1>1, <1>3, <1>4 DEF StoreInv, StoreTypeOK
<1>6. (\A u \in Task : Stored(u) \/ StoredIn(disk, u) => Drawn(u))'
  BY <1>1, <1>3, <1>4 DEF StoreInv, Stored, StoredIn, Drawn
<1>7. QED
  BY <1>1, <1>3, <1>4, <1>5, <1>6
     DEF StoreInv, ReadyIsServable, ServableIn, Drawn

\* An object that is stored or replaced keeps it; none is ever removed.
LEMMA ObjectGrows ==
  ASSUME StoreInv, UNCHANGED storeVars,
         object' \in [Key -> Version \cup {None}],
         \A k \in Key : object[k] # None => object'[k] # None
  PROVE  StoreInv'
  BY DEF StoreInv, storeVars, StoreTypeOK, Stored, StoredIn, ReadyIsServable,
         ServableIn, Drawn

-----------------------------------------------------------------------------
(* The engine *)

\* The record a status change writes is well typed and claims nothing new.
LEMMA StatusWritable ==
  ASSUME NEW old \in TaskRec, NEW s \in Status \ {"ready"}, NEW k
  PROVE  Writable([old EXCEPT !.status = s], k)
  BY DEF Writable, TaskRec, Status

\* The invariant holds when nothing has been asked for yet.
LEMMA InitInv == Init => EngineInv
<1>. SUFFICES ASSUME Init PROVE EngineInv
  OBVIOUS
<1>. USE DEF Init, StoreInit, Volatile
<1>1. Absent \in TaskRec /\ Absent.status = "absent"
  BY DEF Absent, TaskRec
<1>2. /\ byID \in [Task -> TaskRec] /\ later = {}
      /\ disk = [byID |-> byID, later |-> later]
      /\ \A t \in Task : byID[t].status = "absent"
  BY <1>1 DEF Memory
<1>3. StoreTypeOK
  BY <1>2, TaskStoreAssumption DEF StoreTypeOK, Image, NoTask
<1>4. EngineTypeOK
  BY DEF EngineTypeOK, Leader, PC, NoTask
<1>5. \A t \in Task : Drawn(t) <=> t <= made
  BY TaskStoreAssumption DEF Drawn, Task
<1>6. /\ \A t \in Task : Stored(t) \/ StoredIn(disk, t) => Drawn(t)
      /\ ReadyIsServable
  BY <1>2 DEF Stored, StoredIn, ReadyIsServable, ServableIn
<1>7. ObjectFirst
  BY DEF ObjectFirst
<1>8. QED
  BY <1>3, <1>4, <1>5, <1>6, <1>7 DEF EngineInv, TypeOK, StoreInv

\* Outside process, ObjectFirst only needs keys and objects to last.
LEMMA ObjectFirstLasts ==
  ASSUME ObjectFirst, UNCHANGED <<pc, got>>,
         \A t \in Task : Drawn(t) => keyOf'[t] = keyOf[t],
         \A k \in Key : object[k] # None => object'[k] # None,
         \A t \in Task : spawned'[t] > 0 => spawned[t] > 0 \/ keyOf'[t] \in Key
  PROVE  ObjectFirst'
  BY DEF ObjectFirst, Drawn

\* Resolve's three steps: the look-up changes no task, a revival updates one,
\* a creation puts a new one.
LEMMA ResolveKeeps ==
  ASSUME EngineInv, NEW k \in Key, Resolve(k)
  PROVE  EngineInv'
<1>. USE DEF EngineInv, TypeOK
<1>1. CASE ResolveLookup(k)
  <2>1. resolving' \in [Key -> Leader]
    <3>1. CASE resolving' = [resolving EXCEPT ![k] = Creating]
      BY <3>1 DEF EngineTypeOK, Leader
    <3>2. CASE /\ GetByCacheKey(k).status = "failed"
               /\ resolving' = [resolving EXCEPT ![k] = Retrying(byKey[k])]
      <4>1. byKey[k] \in Task
        BY <3>2 DEF StoreTypeOK, GetByCacheKey, Absent
      <4>2. QED BY <3>2, <4>1 DEF EngineTypeOK, Leader
    <3>3. QED BY <1>1, <3>1, <3>2 DEF ResolveLookup
  <2>2. UNCHANGED <<storeVars, spawned, pc, got, object, progress, gcList>>
    BY <1>1 DEF ResolveLookup
  <2>3. EngineTypeOK'
    BY <2>1, <2>2 DEF EngineTypeOK
  <2>4. StoreInv'
    BY <2>2, ObjectGrows DEF StoreInv
  <2>5. ObjectFirst'
    BY <2>2 DEF ObjectFirst, Drawn, storeVars
  <2>6. QED BY <2>3, <2>4, <2>5 DEF StoreInv
<1>2. CASE ResolveRetry(k)
  <2>1. PICK t \in Task : Revive(k, t)
    BY <1>2 DEF ResolveRetry
  <2>. DEFINE rec == [byID[t] EXCEPT !.status = "downloading"]
  <2>2. byID[t] \in TaskRec /\ Writable(rec, keyOf[t])
    BY <2>1, StatusWritable DEF StoreTypeOK, Status
  <2>3. UNCHANGED <<pc, got, object, progress, gcList>>
    BY <1>2 DEF ResolveRetry
  <2>4. /\ resolving' \in [Key -> Leader]
        /\ spawned' \in [Task -> Nat]
    <3>1. NoLeader \in Leader /\ Creating \in Leader
      BY DEF Leader
    <3>2. /\ \/ resolving' = [resolving EXCEPT ![k] = NoLeader]
             \/ resolving' = [resolving EXCEPT ![k] = Creating]
          /\ \/ spawned' = [spawned EXCEPT ![t] = @ + 1]
             \/ spawned' = spawned
      BY <2>1 DEF Revive
    <3>3. QED BY <3>1, <3>2 DEF EngineTypeOK
  <2>5. EngineTypeOK'
    BY <2>3, <2>4 DEF EngineTypeOK
  <2>6. CASE \E ok \in BOOLEAN : Update(t, rec, ok)
    <3>1. StoreInv' /\ UNCHANGED <<made, keyOf>>
      BY <2>1, <2>2, <2>3, <2>6, UpdateKeeps
    <3>2. \A u \in Task : spawned'[u] > 0 => spawned[u] > 0 \/ keyOf'[u] \in Key
      <4>1. keyOf'[t] \in Key
        BY <2>6, <3>1 DEF Update, MayUpdate, StoreInv, Drawn
      <4>2. \A u \in Task : u # t => spawned'[u] = spawned[u]
        BY <2>1 DEF Revive, EngineTypeOK
      <4>3. QED BY <4>1, <4>2
    <3>3. ObjectFirst'
      BY <2>3, <3>1, <3>2, ObjectFirstLasts
    <3>4. QED BY <2>5, <3>1, <3>3 DEF StoreInv
  <2>7. CASE UNCHANGED storeVars /\ UNCHANGED spawned
    <3>1. StoreInv'
      BY <2>3, <2>7, ObjectGrows DEF StoreInv
    <3>2. ObjectFirst'
      BY <2>3, <2>7 DEF ObjectFirst, Drawn, storeVars
    <3>3. QED BY <2>5, <3>1, <3>2 DEF StoreInv
  <2>8. QED
    BY <2>1, <2>6, <2>7 DEF Revive
<1>3. CASE ResolveCreate(k)
  <2>1. PICK ok \in BOOLEAN :
          /\ PutNew(k, Queued, ok)
          /\ spawned' = IF ok THEN [spawned EXCEPT ![made + 1] = @ + 1]
                        ELSE spawned
    BY <1>3 DEF ResolveCreate, SaveOutcome
  <2>2. /\ UNCHANGED <<pc, got, object, progress, gcList>>
        /\ resolving' = [resolving EXCEPT ![k] = NoLeader]
    BY <1>3 DEF ResolveCreate
  <2>3. Writable(Queued, k)
    BY DEF Writable, Queued, Absent, TaskRec, Status
  <2>4. /\ StoreInv'
        /\ made + 1 \in Task
        /\ ~ Drawn(made + 1)
        /\ keyOf'[made + 1] = k
        /\ \A t \in Task : t # made + 1 => keyOf'[t] = keyOf[t]
    BY <2>1, <2>2, <2>3, PutNewKeeps
  <2>5. spawned' \in [Task -> Nat]
    BY <2>1, <2>4 DEF EngineTypeOK
  <2>6. EngineTypeOK'
    BY <2>2, <2>5 DEF EngineTypeOK, Leader
  <2>7. \A u \in Task : spawned'[u] > 0 => spawned[u] > 0 \/ keyOf'[u] \in Key
    <3>1. \A u \in Task : u # made + 1 => spawned'[u] = spawned[u]
      BY <2>1, <2>4 DEF EngineTypeOK
    <3>2. QED BY <3>1, <2>4
  <2>8. ObjectFirst'
    BY <2>2, <2>4, <2>7, ObjectFirstLasts
  <2>9. QED BY <2>4, <2>6, <2>8 DEF StoreInv
<1>4. QED BY <1>1, <1>2, <1>3 DEF Resolve

\* What the processor must hold before it may be at a statement.
MayBeAt(t, next) ==
  /\ next \in PC
  /\ next \in {"fetched", "downloaded", "upload", "stored", "register"}
       => got[t] # None
  /\ next \in {"stored", "register"} => object[keyOf[t]] # None

\* A processor that updates the store and moves on keeps the invariant.
LEMMA ProcUpdateKeeps ==
  ASSUME EngineInv, NEW t \in Task, NEW rec, NEW next,
         Writable(rec, keyOf[t]), MayBeAt(t, next), Drawn(t),
         ProcUpdate(t, rec, next),
         UNCHANGED <<resolving, spawned, got, object, progress, gcList>>
  PROVE  EngineInv'
<1>. USE DEF EngineInv, TypeOK
<1>1. StoreInv' /\ UNCHANGED <<made, keyOf>>
  <2>1. CASE \E ok \in ProcSaveOutcome : Update(t, rec, ok)
    BY <2>1, UpdateKeeps DEF ProcSaveOutcome
  <2>2. CASE UNCHANGED storeVars
    BY <2>2, ObjectGrows DEF StoreInv, storeVars
  <2>3. QED BY <2>1, <2>2 DEF ProcUpdate
<1>2. pc' = [pc EXCEPT ![t] = next] \/ pc' = [pc EXCEPT ![t] = "exit"]
  BY DEF ProcUpdate, Goto
<1>3. EngineTypeOK'
  BY <1>2 DEF EngineTypeOK, MayBeAt, PC
<1>4. ObjectFirst'
  BY <1>1, <1>2 DEF ObjectFirst, MayBeAt, Drawn, EngineTypeOK
<1>5. QED BY <1>1, <1>3, <1>4 DEF StoreInv

\* The same for a step that changes only a status, and not to ready.
LEMMA SetStatusKeeps ==
  ASSUME EngineInv, NEW t \in Task, NEW from \in PC \ {"idle"},
         NEW status \in Status \ {"ready"}, NEW next,
         SetStatus(t, from, status, next), MayBeAt(t, next)
  PROVE  EngineInv'
<1>1. byID[t] \in TaskRec /\ Drawn(t)
  BY DEF EngineInv, StoreInv, StoreTypeOK, ObjectFirst, SetStatus
<1>2. Writable([byID[t] EXCEPT !.status = status], keyOf[t])
  BY <1>1, StatusWritable
<1>3. QED
  BY <1>1, <1>2, ProcUpdateKeeps DEF SetStatus

\* A step of the processor that leaves the store alone.
LEMMA MoveKeeps ==
  ASSUME EngineInv, NEW t \in Task, NEW next, Goto(t, next), next \in PC,
         UNCHANGED storeVars, EngineTypeOK',
         \A k \in Key : object[k] # None => object'[k] # None,
         \A u \in Task : spawned'[u] > 0 => spawned[u] > 0,
         \A u \in Task \ {t} : got'[u] = got[u],
         next # "idle" => Drawn(t),
         next \in {"fetched", "downloaded", "upload", "stored", "register"}
           => got'[t] # None,
         next \in {"stored", "register"} => object'[keyOf[t]] # None
  PROVE  EngineInv'
<1>1. StoreInv'
  BY ObjectGrows DEF EngineInv, EngineTypeOK
<1>2. pc' = [pc EXCEPT ![t] = next] /\ keyOf' = keyOf
  BY DEF Goto, storeVars
<1>3. ObjectFirst'
  <2>1. SUFFICES ASSUME NEW u \in Task
                 PROVE  /\ pc'[u] \in {"fetched", "downloaded", "upload",
                                       "stored", "register"} => got'[u] # None
                        /\ pc'[u] \in {"stored", "register"}
                             => object'[keyOf[u]] # None
                        /\ pc'[u] # "idle" \/ spawned'[u] > 0 => Drawn(u)
    BY <1>2 DEF ObjectFirst, Drawn
  <2>2. CASE u = t
    BY <1>2, <2>2 DEF EngineInv, TypeOK, EngineTypeOK, ObjectFirst
  <2>3. CASE u # t
    BY <1>2, <2>3 DEF EngineInv, TypeOK, EngineTypeOK, ObjectFirst, Drawn
  <2>4. QED BY <2>2, <2>3
<1>4. QED BY <1>1, <1>3 DEF EngineInv, TypeOK, StoreInv

\* Every statement of process, with what it hands on to the next.
LEMMA ProcessKeeps ==
  ASSUME EngineInv, NEW t \in Task, Process(t)
  PROVE  EngineInv'
<1>. USE DEF EngineInv, TypeOK
<1>1. CASE Start(t)
  <2>1. /\ spawned[t] > 0
        /\ spawned' = [spawned EXCEPT ![t] = @ - 1]
        /\ UNCHANGED <<storeVars, resolving, got, object, gcList>>
    BY <1>1 DEF Start
  <2>2. /\ spawned' \in [Task -> Nat]
        /\ \A u \in Task : spawned'[u] > 0 => spawned[u] > 0
    BY <2>1 DEF EngineTypeOK
  <2>3. Drawn(t)
    BY <2>1 DEF ObjectFirst
  <2>4. CASE UNCHANGED <<pc, progress>>
    <3>1. EngineTypeOK'
      BY <2>1, <2>2, <2>4 DEF EngineTypeOK
    <3>2. StoreInv'
      BY <2>1, ObjectGrows DEF StoreInv
    <3>3. ObjectFirst'
      BY <2>1, <2>2, <2>4, ObjectFirstLasts DEF storeVars, ObjectFirst, Drawn
    <3>4. QED BY <3>1, <3>2, <3>3 DEF StoreInv
  <2>5. CASE \E next \in {"exit", "activate", "fetch"} :
               /\ Goto(t, next)
               /\ progress' \in {progress, [id |-> t, bytes |-> FALSE]}
    <3>1. PICK next \in {"exit", "activate", "fetch"} :
               /\ Goto(t, next)
               /\ progress' \in {progress, [id |-> t, bytes |-> FALSE]}
      BY <2>5
    <3>2. next \in PC
      BY DEF PC
    <3>3. EngineTypeOK'
      <4>1. progress' \in [id : Task \cup {NoTask}, bytes : BOOLEAN]
        <5>1. progress \in [id : Task \cup {NoTask}, bytes : BOOLEAN]
          BY DEF EngineTypeOK
        <5>2. [id |-> t, bytes |-> FALSE]
                \in [id : Task \cup {NoTask}, bytes : BOOLEAN]
          OBVIOUS
        <5>3. QED BY <3>1, <5>1, <5>2
      <4>2. pc' \in [Task -> PC]
        BY <3>1, <3>2 DEF EngineTypeOK, Goto
      <4>3. QED BY <2>1, <2>2, <4>1, <4>2 DEF EngineTypeOK
    <3>4. QED
      BY <2>1, <2>2, <2>3, <3>1, <3>2, <3>3, MoveKeeps
  <2>6. QED
    BY <1>1, <2>4, <2>5 DEF Start
<1>2. CASE Activate(t)
  BY <1>2, SetStatusKeeps DEF Activate, PC, Status, MayBeAt
<1>3. CASE Fetch(t)
  <2>1. pc[t] = "fetch" /\ Drawn(t)
    BY <1>3 DEF Fetch, ObjectFirst
  <2>2. UNCHANGED <<storeVars, resolving, spawned, object, progress, gcList>>
    BY <1>3 DEF Fetch
  <2>3. CASE /\ \E v \in Version : got' = [got EXCEPT ![t] = v]
             /\ Goto(t, "fetched")
    <3>1. EngineTypeOK'
      BY <2>2, <2>3 DEF EngineTypeOK, Goto, PC
    <3>2. got'[t] # None /\ \A u \in Task \ {t} : got'[u] = got[u]
      BY <2>3, TaskStoreAssumption DEF EngineTypeOK
    <3>3. QED
      BY <2>1, <2>2, <2>3, <3>1, <3>2, MoveKeeps DEF PC
  <2>4. CASE Goto(t, "fail") /\ UNCHANGED got
    <3>1. EngineTypeOK'
      BY <2>2, <2>4 DEF EngineTypeOK, Goto, PC
    <3>2. QED
      BY <2>1, <2>2, <2>4, <3>1, MoveKeeps DEF PC
  <2>5. QED BY <1>3, <2>3, <2>4 DEF Fetch
<1>4. CASE Downloaded(t)
  <2>1. pc[t] = "fetched" /\ got[t] # None
    BY <1>4 DEF Downloaded, SetStatus, ObjectFirst
  <2>2. QED
    BY <1>4, <2>1, SetStatusKeeps DEF Downloaded, PC, Status, MayBeAt
<1>5. CASE Uploading(t)
  <2>1. pc[t] = "downloaded" /\ got[t] # None
    BY <1>5 DEF Uploading, SetStatus, ObjectFirst
  <2>2. QED
    BY <1>5, <2>1, SetStatusKeeps DEF Uploading, PC, Status, MayBeAt
<1>6. CASE Upload(t)
  <2>1. pc[t] = "upload" /\ got[t] # None /\ keyOf[t] \in Key
    BY <1>6 DEF Upload, ObjectFirst, Drawn
  <2>. DEFINE replaced == [object EXCEPT ![keyOf[t]] = got[t]]
  <2>2. UNCHANGED <<storeVars, resolving, spawned, progress, gcList>>
    BY <1>6 DEF Upload
  <2>3. /\ object' \in {object, replaced}
        /\ got' \in {got, [got EXCEPT ![t] = None]}
        /\ (Goto(t, "stored") /\ object' = replaced) \/ Goto(t, "fail")
    BY <1>6 DEF Upload
  <2>4. /\ object' \in [Key -> Version \cup {None}]
        /\ \A k \in Key : object[k] # None => object'[k] # None
        /\ object' = replaced => object'[keyOf[t]] # None
        /\ got' \in [Task -> Version \cup {None}]
        /\ \A u \in Task \ {t} : got'[u] = got[u]
    BY <2>1, <2>3 DEF EngineTypeOK
  <2>5. EngineTypeOK'
    BY <2>2, <2>3, <2>4 DEF EngineTypeOK, Goto, PC
  <2>6. CASE Goto(t, "stored") /\ object' = replaced /\ UNCHANGED got
    <3>1. got'[t] # None /\ object'[keyOf[t]] # None
      BY <2>1, <2>4, <2>6
    <3>2. Drawn(t)
      BY <2>1 DEF Drawn
    <3>3. QED
      BY <2>2, <2>4, <2>5, <2>6, <3>1, <3>2, MoveKeeps DEF PC
  <2>7. CASE Goto(t, "fail")
    <3>1. Drawn(t)
      BY <2>1 DEF Drawn
    <3>2. QED
      BY <2>2, <2>4, <2>5, <2>7, <3>1, MoveKeeps DEF PC
  <2>8. QED
    BY <1>6, <2>6, <2>7 DEF Upload
<1>7. CASE Registering(t)
  <2>1. pc[t] = "stored" /\ got[t] # None /\ object[keyOf[t]] # None
    BY <1>7 DEF Registering, SetStatus, ObjectFirst
  <2>2. QED
    BY <1>7, <2>1, SetStatusKeeps DEF Registering, PC, Status, MayBeAt
<1>8. CASE Register(t)
  <2>. DEFINE rec == [byID[t] EXCEPT !.status = "ready", !.art = got[t]]
  <2>1. /\ pc[t] = "register" /\ got[t] # None
        /\ object[keyOf[t]] # None /\ Drawn(t)
    BY <1>8 DEF Register, ObjectFirst
  <2>2. Writable(rec, keyOf[t])
    <3>1. byID[t] \in TaskRec /\ got[t] \in Version \cup {None}
      BY DEF StoreTypeOK, EngineTypeOK
    <3>2. QED BY <2>1, <3>1 DEF Writable, TaskRec, Status
  <2>3. MayBeAt(t, "end")
    BY DEF MayBeAt, PC
  <2>4. QED
    BY <1>8, <2>1, <2>2, <2>3, ProcUpdateKeeps DEF Register
<1>9. CASE EndFetch(t)
  <2>1. Drawn(t) /\ progress' = [progress EXCEPT !.id = NoTask]
    BY <1>9 DEF EndFetch, ObjectFirst
  <2>2. /\ Goto(t, "exit")
        /\ UNCHANGED <<storeVars, resolving, spawned, got, object, gcList>>
    BY <1>9 DEF EndFetch
  <2>3. EngineTypeOK'
    BY <2>1, <2>2 DEF EngineTypeOK, Goto, PC
  <2>4. QED BY <2>1, <2>2, <2>3, MoveKeeps DEF PC
<1>10. CASE Fail(t)
  <2>. DEFINE rec == [byID[t] EXCEPT !.status = "failed",
                                     !.retries = byID[t].retries + 1]
  <2>1. Drawn(t)
    BY <1>10 DEF Fail, ObjectFirst
  <2>2. Writable(rec, keyOf[t])
    <3>1. byID[t] \in TaskRec
      BY DEF StoreTypeOK
    <3>2. byID[t].retries + 1 \in Nat
      BY <3>1 DEF TaskRec
    <3>3. rec \in TaskRec /\ rec.status = "failed"
      BY <3>1, <3>2 DEF TaskRec, Status
    <3>4. QED BY <3>3 DEF Writable
  <2>3. MayBeAt(t, "kill") /\ MayBeAt(t, "backoff")
    BY DEF MayBeAt, PC
  <2>4. PICK next \in {"kill", "backoff"} : ProcUpdate(t, rec, next)
    BY <1>10 DEF Fail
  <2>5. QED
    BY <1>10, <2>1, <2>2, <2>3, <2>4, ProcUpdateKeeps DEF Fail
<1>11. CASE Kill(t)
  BY <1>11, SetStatusKeeps DEF Kill, PC, Status, MayBeAt
<1>12. CASE Backoff(t)
  <2>1. /\ Goto(t, "activate") /\ Drawn(t)
        /\ UNCHANGED <<storeVars, resolving, spawned, got, object, progress,
                       gcList>>
    BY <1>12 DEF Backoff, ObjectFirst
  <2>2. EngineTypeOK'
    BY <2>1 DEF EngineTypeOK, Goto, PC
  <2>3. QED BY <2>1, <2>2, MoveKeeps DEF PC
<1>13. CASE Exit(t)
  <2>1. /\ Goto(t, "idle")
        /\ got' = [got EXCEPT ![t] = None]
        /\ UNCHANGED <<storeVars, resolving, spawned, object, progress, gcList>>
    BY <1>13 DEF Exit
  <2>2. EngineTypeOK'
    BY <2>1 DEF EngineTypeOK, Goto, PC
  <2>3. \A u \in Task \ {t} : got'[u] = got[u]
    BY <2>1 DEF EngineTypeOK
  <2>4. QED BY <2>1, <2>2, <2>3, MoveKeeps DEF PC
<1>14. QED
  BY <1>1, <1>2, <1>3, <1>4, <1>5, <1>6, <1>7, <1>8, <1>9, <1>10, <1>11,
     <1>12, <1>13 DEF Process

\* Steps in which no processor moves.
LEMMA QuietKeeps ==
  ASSUME EngineInv, UNCHANGED <<resolving, spawned, pc, got, object, progress>>,
         gcList' \in SUBSET Task, StoreInv', UNCHANGED <<made, keyOf>>
  PROVE  EngineInv'
<1>1. EngineTypeOK'
  BY DEF EngineInv, TypeOK, EngineTypeOK
<1>2. ObjectFirst'
  BY DEF EngineInv, ObjectFirst, Drawn
<1>3. QED BY <1>1, <1>2 DEF EngineInv, TypeOK, StoreInv

\* GC lists and deletes.
LEMMA GCKeeps ==
  ASSUME EngineInv, GCList \/ \E t \in Task : GCDelete(t)
  PROVE  EngineInv'
<1>1. CASE GCList
  <2>1. StoreInv'
    BY <1>1, ObjectGrows DEF GCList, EngineInv, StoreInv
  <2>2. QED
    BY <1>1, <2>1, QuietKeeps DEF GCList, storeVars
<1>2. ASSUME NEW t \in Task, GCDelete(t) PROVE EngineInv'
  <2>1. StoreInv' /\ UNCHANGED <<made, keyOf>>
    <3>1. CASE \E ok \in SaveOutcome : Delete(t, ok)
      BY <1>2, <3>1, DeleteKeeps DEF EngineInv, GCDelete, SaveOutcome
    <3>2. CASE UNCHANGED storeVars
      BY <1>2, <3>2, ObjectGrows DEF EngineInv, StoreInv, GCDelete, storeVars
    <3>3. QED BY <1>2, <3>1, <3>2 DEF GCDelete
  <2>2. gcList' \in SUBSET Task
    BY <1>2 DEF GCDelete, EngineInv, TypeOK, EngineTypeOK
  <2>3. QED
    BY <1>2, <2>1, <2>2, QuietKeeps DEF GCDelete
<1>3. QED BY <1>1, <1>2

\* After a restart nobody is at work, so only the store matters.
LEMMA RestartKeeps ==
  ASSUME EngineInv, Restart
  PROVE  EngineInv'
<1>1. StoreInv'
  BY NewStoreKeeps DEF EngineInv, Restart
<1>2. EngineTypeOK'
  <2>1. NoLeader \in Leader /\ "idle" \in PC
    BY DEF Leader, PC
  <2>2. QED
    BY <2>1 DEF Restart, Volatile, EngineTypeOK, EngineInv, TypeOK
<1>3. ObjectFirst'
  BY DEF Restart, Volatile, ObjectFirst
<1>4. QED BY <1>1, <1>2, <1>3 DEF EngineInv, TypeOK, StoreInv

\* A day passes.
LEMMA DayKeeps ==
  ASSUME EngineInv, DayPasses
  PROVE  EngineInv'
<1>1. StoreInv' /\ UNCHANGED <<made, keyOf>>
  BY AgeKeeps DEF EngineInv, DayPasses, engineVars
<1>2. QED
  BY <1>1, QuietKeeps DEF DayPasses, engineVars, EngineInv, TypeOK, EngineTypeOK

\* All steps together.
LEMMA NextKeeps ==
  ASSUME EngineInv, [Next]_vars
  PROVE  EngineInv'
<1>1. CASE UNCHANGED vars
  <2>1. StoreInv'
    BY <1>1, ObjectGrows DEF vars, engineVars, EngineInv, StoreInv
  <2>2. QED
    BY <1>1, <2>1, QuietKeeps
       DEF vars, engineVars, storeVars, EngineInv, TypeOK, EngineTypeOK
<1>2. QED
  BY <1>1, ResolveKeeps, ProcessKeeps, GCKeeps, RestartKeeps, DayKeeps DEF Next, Serve

\* The inductive invariant holds in every reachable state, for every number
\* of tasks, keys and retries and every combination of faults.
THEOREM EngineInvariant == Spec => []EngineInv
<1>1. Init => EngineInv
  BY InitInv
<1>2. EngineInv /\ [Next]_vars => EngineInv'
  BY NextKeeps
<1>3. QED BY <1>1, <1>2, PTL DEF Spec

\* The engine's state is well typed.
THEOREM TypeCorrect == Spec => []TypeOK
<1>1. EngineInv => TypeOK
  BY DEF EngineInv
<1>2. QED BY <1>1, EngineInvariant, PTL

\* A task that says ready has its artifact recorded and its object stored, in
\* memory and in the tasks file, whatever saves fail and restarts happen:
\* process uploads before it registers (engine.go:301-322).
THEOREM ReadyServable == Spec => []ReadyIsServable
<1>1. EngineInv => ReadyIsServable
  BY DEF EngineInv, StoreInv
<1>2. QED BY <1>1, EngineInvariant, PTL

-----------------------------------------------------------------------------
(* The processor and its task *)

\* Why ProcessorInStep holds, as an inductive invariant: the only others who
\* write a task of this engine are Resolves, and those revive drawn ones.
InStep ==
  /\ ProcessorInStep
  /\ \A k \in Key, t \in Task : resolving[k].id = t => Drawn(t)

\* What holds in addition as long as no Resolve is overtaken: one on its way to
\* revive a task has seen it fail with retries left, and until it arrives the
\* processor cannot fail once more; so what is going to be declared dead is failed.
OnTime ==
  /\ \A t \in Task : pc[t] = "kill" /\ Stored(t) =>
       byID[t].status = "failed" /\ byID[t].retries > MaxRetries
  /\ \A k \in Key, t \in Task : resolving[k].id = t /\ Stored(t) =>
       /\ byID[t].retries < MaxRetries
       /\ byID[t].status \in {"failed", "downloading"}
       /\ pc[t] \in {"idle", "exit", "activate", "backoff", "fetch"}

\* What Update writes.
LEMMA UpdateIs ==
  ASSUME StoreInv, NEW t \in Task, NEW rec \in TaskRec, NEW ok, Update(t, rec, ok)
  PROVE  /\ Stored(t) /\ keyOf' = keyOf
         /\ byID'[t].status = rec.status /\ byID'[t].retries = rec.retries
         /\ byID'[t].art = rec.art
         /\ \A u \in Task \ {t} : byID'[u] = byID[u]
         /\ ok = TRUE => disk'.byID = byID'
<1>1. /\ byID \in [Task -> TaskRec]
      /\ byID' = [byID EXCEPT ![t] = [rec EXCEPT !.old = FALSE]]
      /\ Stored(t) /\ keyOf' = keyOf /\ Persist(ok)
  BY DEF StoreInv, StoreTypeOK, Update, Write, MayUpdate
<1>2. /\ [rec EXCEPT !.old = FALSE].status = rec.status
      /\ [rec EXCEPT !.old = FALSE].retries = rec.retries
      /\ [rec EXCEPT !.old = FALSE].art = rec.art
  BY DEF TaskRec
<1> QED
  BY <1>1, <1>2 DEF Persist

\* What PutNew writes, for a task that nobody has had.
LEMMA PutNewIs ==
  ASSUME StoreInv, NEW k \in Key, NEW rec \in TaskRec, NEW ok, PutNew(k, rec, ok)
  PROVE  /\ made + 1 \in Task /\ ~ Drawn(made + 1)
         /\ byID'[made + 1].status = rec.status
         /\ byID'[made + 1].retries = rec.retries
         /\ \A u \in Task : Drawn(u) => byID'[u] = byID[u] /\ keyOf'[u] = keyOf[u]
         /\ \A u \in Task \ {made + 1} : byID'[u] = byID[u]
         /\ ok = TRUE => disk'.byID = byID'
<1> DEFINE n == made + 1
<1>1. n \in Task /\ ~ Drawn(n)
  <2>1. made \in Nat /\ MaxTasks \in Nat /\ made < MaxTasks
    BY TaskStoreAssumption DEF StoreInv, StoreTypeOK, PutNew
  <2>2. n \in Task /\ ~ (n <= made)
    BY <2>1 DEF Task
  <2> QED
    BY <2>2 DEF StoreInv
<1>2. /\ byID \in [Task -> TaskRec] /\ keyOf \in [Task -> Key \cup {None}]
      /\ byID' = [byID EXCEPT ![n] = [rec EXCEPT !.old = FALSE]]
      /\ keyOf' = [keyOf EXCEPT ![n] = k] /\ Persist(ok)
  BY DEF StoreInv, StoreTypeOK, PutNew, Write
<1>3. /\ [rec EXCEPT !.old = FALSE].status = rec.status
      /\ [rec EXCEPT !.old = FALSE].retries = rec.retries
  BY DEF TaskRec
<1>4. byID'[n].status = rec.status /\ byID'[n].retries = rec.retries
  BY <1>1, <1>2, <1>3
<1>5. \A u \in Task : u # n => byID'[u] = byID[u] /\ keyOf'[u] = keyOf[u]
  BY <1>1, <1>2
<1>6. ok = TRUE => disk'.byID = byID'
  BY <1>2 DEF Persist
<1> HIDE DEF n
<1>7. \A u \in Task : Drawn(u) => u # n
  BY <1>1
<1>8. /\ n \in Task /\ ~ Drawn(n)
      /\ byID'[n].status = rec.status /\ byID'[n].retries = rec.retries
      /\ \A u \in Task : Drawn(u) => byID'[u] = byID[u] /\ keyOf'[u] = keyOf[u]
      /\ \A u \in Task \ {n} : byID'[u] = byID[u]
  BY <1>1, <1>4, <1>5, <1>7
<1> QED
  BY <1>6, <1>8 DEF n

\* Steps in which no processor moves: a task stays as it was, goes, or is new.
LEMMA InStepLasts ==
  ASSUME EngineInv, InStep, pc' = pc,
         \A k \in Key : resolving'[k] = resolving[k] \/ resolving'[k].id = NoTask,
         \A t \in Task : Drawn(t) => keyOf'[t] \in Key,
         \A t \in Task : byID'[t].status # "absent" =>
           \/ byID'[t].status = byID[t].status /\ byID'[t].retries = byID[t].retries
           \/ ~ Drawn(t) /\ byID'[t].status \in Status
  PROVE  InStep' /\ (OnTime => OnTime')
<1>1. ASSUME NEW t \in Task, byID'[t].status # "absent"
      PROVE  /\ byID'[t].status \in StatusesAt[pc[t]]
             /\ OnTime /\ pc[t] = "kill" =>
                  byID'[t].status = "failed" /\ byID'[t].retries > MaxRetries
  <2>1. CASE byID'[t].status = byID[t].status /\ byID'[t].retries = byID[t].retries
    BY <1>1, <2>1 DEF InStep, OnTime, ProcessorInStep, Stored
  <2>2. CASE ~ Drawn(t) /\ byID'[t].status \in Status
    <3>1. pc[t] = "idle"
      BY <2>2 DEF EngineInv, ObjectFirst
    <3> QED
      BY <2>2, <3>1 DEF StatusesAt
  <2> QED
    BY <1>1, <2>1, <2>2
<1>2. ASSUME NEW k \in Key, NEW t \in Task, resolving'[k].id = t
      PROVE  /\ keyOf'[t] \in Key
             /\ OnTime /\ byID'[t].status # "absent" =>
                  /\ byID'[t].retries < MaxRetries
                  /\ byID'[t].status \in {"failed", "downloading"}
                  /\ pc[t] \in {"idle", "exit", "activate", "backoff", "fetch"}
  <2>1. resolving[k].id = t
    BY <1>2 DEF NoTask, Task
  <2>2. Drawn(t)
    BY <2>1 DEF InStep
  <2> QED
    BY <2>1, <2>2 DEF OnTime, Stored
<1>3. InStep'
  BY <1>1, <1>2 DEF InStep, ProcessorInStep, Stored, Drawn
<1>4. ASSUME OnTime PROVE OnTime'
  BY <1>1, <1>2, <1>4 DEF OnTime, Stored
<1> QED
  BY <1>3, <1>4

\* One processor moves, with its task.
LEMMA InStepMoves ==
  ASSUME EngineInv, InStep, NEW t \in Task, NEW next,
         pc' = [pc EXCEPT ![t] = next], resolving' = resolving, keyOf' = keyOf,
         \A u \in Task \ {t} : byID'[u] = byID[u],
         byID'[t].status # "absent" => byID'[t].status \in StatusesAt[next]
  PROVE  InStep'
<1>1. pc \in [Task -> PC]
  BY DEF EngineInv, TypeOK, EngineTypeOK
<1>2. pc'[t] = next /\ \A u \in Task \ {t} : pc'[u] = pc[u]
  BY <1>1
<1>3. ASSUME NEW u \in Task, byID'[u].status # "absent"
      PROVE  byID'[u].status \in StatusesAt[pc'[u]]
  <2>1. CASE u = t
    BY <1>2, <1>3, <2>1
  <2>2. CASE u # t
    BY <1>2, <1>3, <2>2 DEF InStep, ProcessorInStep, Stored
  <2> QED
    BY <2>1, <2>2
<1> QED
  BY <1>3 DEF InStep, ProcessorInStep, Stored, Drawn

\* The same on time.
LEMMA OnTimeMoves ==
  ASSUME EngineInv, OnTime, NEW t \in Task, NEW next,
         pc' = [pc EXCEPT ![t] = next], resolving' = resolving,
         \A u \in Task \ {t} : byID'[u] = byID[u],
         byID'[t].status # "absent" =>
           /\ next = "kill" =>
                byID'[t].status = "failed" /\ byID'[t].retries > MaxRetries
           /\ \A k \in Key : resolving[k].id = t =>
                /\ byID'[t].retries < MaxRetries
                /\ byID'[t].status \in {"failed", "downloading"}
                /\ next \in {"idle", "exit", "activate", "backoff", "fetch"}
  PROVE  OnTime'
<1>1. pc'[t] = next /\ \A u \in Task \ {t} : pc'[u] = pc[u]
  BY DEF EngineInv, TypeOK, EngineTypeOK
<1>2. ASSUME NEW u \in Task, byID'[u].status # "absent"
      PROVE  /\ pc'[u] = "kill" =>
                  byID'[u].status = "failed" /\ byID'[u].retries > MaxRetries
             /\ \A k \in Key : resolving[k].id = u =>
                  /\ byID'[u].retries < MaxRetries
                  /\ byID'[u].status \in {"failed", "downloading"}
                  /\ pc'[u] \in {"idle", "exit", "activate", "backoff", "fetch"}
  <2>1. CASE u = t
    BY <1>1, <1>2, <2>1
  <2>2. CASE u # t
    BY <1>1, <1>2, <2>2 DEF OnTime, Stored
  <2> QED
    BY <2>1, <2>2
<1> QED
  BY <1>2 DEF OnTime, Stored

\* A processor's update: it took place, or was refused.
LEMMA ProcUpdateIs ==
  ASSUME EngineInv, NEW t \in Task, NEW rec \in TaskRec, NEW next,
         ProcUpdate(t, rec, next)
  PROVE  /\ keyOf' = keyOf /\ \A u \in Task \ {t} : byID'[u] = byID[u]
         /\ \/ /\ Stored(t)
               /\ byID'[t].status = rec.status /\ byID'[t].retries = rec.retries
               /\ \/ pc' = [pc EXCEPT ![t] = next]
                  \/ "procsave" \in Faults /\ pc' = [pc EXCEPT ![t] = "exit"]
            \/ /\ byID' = byID /\ ~ MayUpdate(t, rec.status)
               /\ pc' = [pc EXCEPT ![t] = "exit"]
<1>1. CASE \E ok \in ProcSaveOutcome :
             Update(t, rec, ok) /\ Goto(t, IF ok THEN next ELSE "exit")
  <2>1. PICK ok \in ProcSaveOutcome :
          Update(t, rec, ok) /\ Goto(t, IF ok THEN next ELSE "exit")
    BY <1>1
  <2>2. StoreInv
    BY DEF EngineInv
  <2>3. ok = TRUE \/ (ok = FALSE /\ "procsave" \in Faults)
    BY DEF ProcSaveOutcome
  <2> QED
    BY <2>1, <2>2, <2>3, UpdateIs DEF Goto
<1>2. CASE ~ MayUpdate(t, rec.status) /\ Goto(t, "exit") /\ UNCHANGED storeVars
  BY <1>2 DEF Goto, storeVars
<1> QED
  BY <1>1, <1>2 DEF ProcUpdate

\* A processor's update keeps step if the status it writes fits the statement it
\* goes to.
LEMMA ProcUpdateInStep ==
  ASSUME EngineInv, InStep, NEW t \in Task, NEW rec \in TaskRec, NEW next,
         ProcUpdate(t, rec, next), resolving' = resolving,
         rec.status \in StatusesAt[next], rec.status \in Status
  PROVE  InStep'
<1>1. /\ keyOf' = keyOf /\ \A u \in Task \ {t} : byID'[u] = byID[u]
      /\ \/ /\ Stored(t)
            /\ byID'[t].status = rec.status /\ byID'[t].retries = rec.retries
            /\ \/ pc' = [pc EXCEPT ![t] = next]
               \/ "procsave" \in Faults /\ pc' = [pc EXCEPT ![t] = "exit"]
         \/ /\ byID' = byID /\ ~ MayUpdate(t, rec.status)
            /\ pc' = [pc EXCEPT ![t] = "exit"]
  BY ProcUpdateIs
<1>2. StatusesAt["exit"] = Status /\ byID[t].status \in Status \cup {"absent"}
  BY DEF StatusesAt, TaskRec, EngineInv, StoreInv, StoreTypeOK
<1>3. PICK to \in {next, "exit"} :
        /\ pc' = [pc EXCEPT ![t] = to]
        /\ byID'[t].status # "absent" => byID'[t].status \in StatusesAt[to]
  BY <1>1, <1>2
<1> QED
  BY <1>1, <1>3, InStepMoves

\* On time, if in addition no Resolve is on its way to the task, or the step is
\* the one from a failed task to the next attempt.
LEMMA ProcUpdateOnTime ==
  ASSUME EngineInv, OnTime, NEW t \in Task, NEW rec \in TaskRec, NEW next,
         ProcUpdate(t, rec, next), resolving' = resolving,
         next = "kill" => rec.status = "failed" /\ rec.retries > MaxRetries,
         \/ pc[t] \notin {"idle", "exit", "activate", "backoff", "fetch"}
         \/ /\ rec.status = "downloading" /\ next = "fetch"
            /\ rec.retries = byID[t].retries
  PROVE  OnTime'
<1>1. /\ \A u \in Task \ {t} : byID'[u] = byID[u]
      /\ \/ /\ Stored(t)
            /\ byID'[t].status = rec.status /\ byID'[t].retries = rec.retries
            /\ \/ pc' = [pc EXCEPT ![t] = next]
               \/ "procsave" \in Faults /\ pc' = [pc EXCEPT ![t] = "exit"]
         \/ /\ byID' = byID /\ ~ MayUpdate(t, rec.status)
            /\ pc' = [pc EXCEPT ![t] = "exit"]
  BY ProcUpdateIs
<1>2. CASE byID' = byID /\ pc' = [pc EXCEPT ![t] = "exit"]
  <2>1. \A k \in Key : resolving[k].id = t /\ byID'[t].status # "absent" =>
          /\ byID'[t].retries < MaxRetries
          /\ byID'[t].status \in {"failed", "downloading"}
    BY <1>2 DEF OnTime, Stored
  <2> QED
    BY <1>1, <1>2, <2>1, OnTimeMoves
<1>3. CASE /\ Stored(t)
           /\ byID'[t].status = rec.status /\ byID'[t].retries = rec.retries
           /\ \E to \in {next, "exit"} : pc' = [pc EXCEPT ![t] = to]
  <2>1. PICK to \in {next, "exit"} : pc' = [pc EXCEPT ![t] = to]
    BY <1>3
  <2>2. \A k \in Key : resolving[k].id = t =>
          /\ byID'[t].retries < MaxRetries
          /\ byID'[t].status \in {"failed", "downloading"}
          /\ to \in {"exit", "fetch"}
    BY <1>3, <2>1 DEF OnTime
  <2>3. to = "kill" => byID'[t].status = "failed" /\ byID'[t].retries > MaxRetries
    BY <1>3, <2>1
  <2> QED
    BY <1>1, <2>1, <2>2, <2>3, OnTimeMoves
<1> QED
  BY <1>1, <1>2, <1>3

\* Resolve: the task it revives is drawn, and downloading is a status its
\* processor can meet wherever the task may be revived.
LEMMA ResolveInStep ==
  ASSUME EngineInv, InStep, NEW k \in Key, Resolve(k)
  PROVE  InStep' /\ (OnTime => OnTime')
<1> USE DEF EngineInv
<1>1. resolving \in [Key -> Leader] /\ StoreInv /\ pc' = pc /\ pc \in [Task -> PC]
  BY DEF TypeOK, EngineTypeOK, Resolve, ResolveLookup, ResolveRetry, ResolveCreate
<1>2. CASE ResolveLookup(k)
  <2>1. UNCHANGED <<byID, keyOf>>
    BY <1>2 DEF ResolveLookup, storeVars
  <2>2. CASE resolving' = [resolving EXCEPT ![k] = Creating]
    <3>1. \A j \in Key : resolving'[j] = resolving[j] \/ resolving'[j].id = NoTask
      BY <1>1, <2>2 DEF Creating
    <3> QED
      BY <1>1, <2>1, <3>1, InStepLasts DEF Drawn
  <2>3. CASE /\ GetByCacheKey(k).status = "failed"
             /\ ~ (GetByCacheKey(k).retries >= MaxRetries)
             /\ resolving' = [resolving EXCEPT ![k] = Retrying(byKey[k])]
    <3>1. PICK t \in Task : /\ t = byKey[k] /\ byID[t].status = "failed"
                            /\ ~ (byID[t].retries >= MaxRetries)
      BY <2>3 DEF StoreInv, StoreTypeOK, GetByCacheKey, Absent
    <3>2. byID[t].retries < MaxRetries /\ ~ (byID[t].retries > MaxRetries)
      BY <3>1, MaxRetriesAssumption DEF StoreInv, StoreTypeOK, TaskRec
    <3>3. Drawn(t) /\ Stored(t)
      BY <3>1 DEF StoreInv, Stored
    <3>4. OnTime => pc[t] \in {"idle", "exit", "activate", "backoff"}
      <4>1. byID[t].status \in StatusesAt[pc[t]] /\ pc[t] \in PC
        BY <1>1, <3>3 DEF InStep, ProcessorInStep
      <4>2. OnTime => pc[t] # "kill"
        BY <3>2, <3>3 DEF OnTime
      <4> QED
        BY <3>1, <4>1, <4>2 DEF StatusesAt, PC
    <3>5. resolving'[k].id = t /\ \A j \in Key \ {k} : resolving'[j] = resolving[j]
      BY <1>1, <2>3, <3>1 DEF Retrying
    <3>6. InStep'
      BY <1>1, <2>1, <3>3, <3>5 DEF InStep, ProcessorInStep, Stored, Drawn
    <3>7. ASSUME OnTime PROVE OnTime'
      <4>1. ASSUME NEW j \in Key, NEW u \in Task, resolving'[j].id = u, Stored(u)
            PROVE  /\ byID[u].retries < MaxRetries
                   /\ byID[u].status \in {"failed", "downloading"}
                   /\ pc[u] \in {"idle", "exit", "activate", "backoff", "fetch"}
        <5>1. CASE j = k
          <6>1. u = t
            BY <3>5, <4>1, <5>1
          <6> QED
            BY <3>1, <3>2, <3>4, <3>7, <6>1
        <5>2. CASE j # k
          BY <3>5, <3>7, <4>1, <5>2 DEF OnTime
        <5> QED
          BY <5>1, <5>2
      <4> QED
        BY <1>1, <2>1, <3>7, <4>1 DEF OnTime, Stored
    <3> QED
      BY <3>6, <3>7
  <2> QED
    BY <1>2, <2>2, <2>3 DEF ResolveLookup
<1>3. CASE ResolveRetry(k)
  <2>1. PICK t \in Task : resolving[k] = Retrying(t) /\ Revive(k, t)
    BY <1>3 DEF ResolveRetry
  <2> DEFINE rec == [byID[t] EXCEPT !.status = "downloading"]
  <2>2. rec \in TaskRec /\ rec.status = "downloading" /\ rec.retries = byID[t].retries
    BY DEF StoreInv, StoreTypeOK, TaskRec, Status
  <2>3. \A j \in Key : resolving'[j] = resolving[j] \/ resolving'[j].id = NoTask
    <3>1. PICK x \in {NoLeader, Creating} : resolving' = [resolving EXCEPT ![k] = x]
      BY <2>1 DEF Revive
    <3>2. x.id = NoTask
      BY DEF NoLeader, Creating
    <3> QED
      BY <1>1, <3>1, <3>2
  <2>4. CASE UNCHANGED storeVars
    BY <1>1, <2>3, <2>4, InStepLasts DEF storeVars, Drawn
  <2>5. CASE \E ok \in BOOLEAN : Update(t, rec, ok)
    <3>0. Can(byID[t].status, "downloading") \/ byID[t].status = "downloading"
      BY <2>2, <2>5 DEF Update, MayUpdate
    <3> HIDE DEF rec
    <3>1. /\ Stored(t) /\ keyOf' = keyOf
          /\ byID'[t].status = "downloading" /\ byID'[t].retries = byID[t].retries
          /\ \A u \in Task \ {t} : byID'[u] = byID[u]
      BY <1>1, <2>2, <2>5, UpdateIs
    <3>2. byID'[t].status \in StatusesAt[pc[t]]
      <4>1. byID[t].status \in StatusesAt[pc[t]] /\ pc[t] \in PC
        BY <1>1, <3>1 DEF InStep, ProcessorInStep
      <4>2. byID[t].status \in {"queued", "failed", "downloading"}
        <5>1. byID[t].status \in Status
          BY <1>1, <3>1 DEF StoreInv, StoreTypeOK, TaskRec, Stored
        <5> QED
          BY <3>0, <5>1 DEF Can, transitions, Status
      <4> QED
        BY <3>1, <4>1, <4>2 DEF StatusesAt, PC, Status
    <3>3. ASSUME NEW j \in Key, NEW u \in Task, resolving'[j].id = u
          PROVE  resolving[j].id = u
      BY <2>3, <3>3 DEF NoTask, Task
    <3>4. InStep'
      <4>1. \A u \in Task : byID'[u].status # "absent" =>
              byID'[u].status \in StatusesAt[pc[u]]
        BY <3>1, <3>2 DEF InStep, ProcessorInStep, Stored
      <4> QED
        BY <1>1, <3>1, <3>3, <4>1 DEF InStep, ProcessorInStep, Stored, Drawn
    <3>5. ASSUME OnTime PROVE OnTime'
      <4>1. /\ byID[t].retries < MaxRetries
            /\ pc[t] \in {"idle", "exit", "activate", "backoff", "fetch"}
        <5>1. resolving[k].id = t
          BY <2>1 DEF Retrying
        <5> QED
          BY <3>1, <3>5, <5>1 DEF OnTime
      <4>2. ASSUME NEW j \in Key, NEW u \in Task, resolving'[j].id = u,
                   byID'[u].status # "absent"
            PROVE  /\ byID'[u].retries < MaxRetries
                   /\ byID'[u].status \in {"failed", "downloading"}
                   /\ pc[u] \in {"idle", "exit", "activate", "backoff", "fetch"}
        <5>1. resolving[j].id = u
          BY <3>3, <4>2
        <5>2. CASE u = t
          BY <3>1, <4>1, <5>2
        <5>3. CASE u # t
          BY <3>1, <3>5, <4>2, <5>1, <5>3 DEF OnTime, Stored
        <5> QED
          BY <5>2, <5>3
      <4>3. \A u \in Task : pc[u] = "kill" /\ byID'[u].status # "absent" =>
              byID'[u].status = "failed" /\ byID'[u].retries > MaxRetries
        BY <3>1, <3>5, <4>1 DEF OnTime, Stored
      <4> QED
        BY <1>1, <4>2, <4>3 DEF OnTime, Stored
    <3> QED
      BY <3>4, <3>5
  <2> QED
    BY <2>1, <2>4, <2>5 DEF Revive
<1>4. CASE ResolveCreate(k)
  <2>1. PICK ok \in BOOLEAN : PutNew(k, Queued, ok)
    BY <1>4 DEF ResolveCreate, SaveOutcome
  <2>2. Queued \in TaskRec /\ Queued.status = "queued" /\ "queued" \in Status
    BY DEF Queued, Absent, TaskRec, Status
  <2>3. \A j \in Key : resolving'[j] = resolving[j] \/ resolving'[j].id = NoTask
    BY <1>1, <1>4 DEF ResolveCreate, NoLeader
  <2>4. /\ made + 1 \in Task /\ ~ Drawn(made + 1)
        /\ byID'[made + 1].status \in Status
        /\ \A u \in Task : Drawn(u) => byID'[u] = byID[u] /\ keyOf'[u] = keyOf[u]
        /\ \A u \in Task \ {made + 1} : byID'[u] = byID[u]
    BY <1>1, <2>1, <2>2, PutNewIs
  <2>5. \A u \in Task : Drawn(u) => keyOf'[u] \in Key
    BY <2>4 DEF Drawn
  <2>6. \A u \in Task : byID'[u].status # "absent" =>
          \/ byID'[u].status = byID[u].status /\ byID'[u].retries = byID[u].retries
          \/ ~ Drawn(u) /\ byID'[u].status \in Status
    BY <2>4
  <2> QED
    BY <1>1, <2>3, <2>5, <2>6, InStepLasts
<1> QED
  BY <1>2, <1>3, <1>4 DEF Resolve

\* process, statement by statement: each writes the status that the statement it
\* goes to expects.  On time, what waits for a Resolve on its way is a fetch, a
\* back-off, or nobody.
LEMMA ProcessInStep ==
  ASSUME EngineInv, InStep, NEW t \in Task, Process(t)
  PROVE  InStep' /\ ("stall" \notin Faults /\ OnTime => OnTime')
<1> USE DEF EngineInv
<1>1. /\ byID[t] \in TaskRec /\ pc \in [Task -> PC] /\ resolving' = resolving
      /\ StoreInv /\ StatusesAt["exit"] = Status /\ StatusesAt["idle"] = Status
      /\ byID[t].status # "absent" => byID[t].status \in Status
      /\ byID[t].retries \in Nat /\ MaxRetries \in Nat
  BY MaxRetriesAssumption
  DEF StoreInv, StoreTypeOK, TypeOK, EngineTypeOK, TaskRec, StatusesAt, Process,
      Start, Activate, Fetch, Downloaded, Uploading, Upload, Registering, Register,
      EndFetch, Fail, Kill, Backoff, Exit, SetStatus
<1>2. byID[t].status # "absent" => byID[t].status \in StatusesAt[pc[t]]
  BY DEF InStep, ProcessorInStep, Stored
\* A step that leaves the store alone ...
<1>3. ASSUME NEW next, pc' = [pc EXCEPT ![t] = next], UNCHANGED <<byID, keyOf>>,
             next # "kill",
             byID[t].status # "absent" => byID[t].status \in StatusesAt[next],
             \/ next \in {"idle", "exit", "activate", "fetch"}
             \/ "stall" \in Faults \/ \A k \in Key : resolving[k].id # t
             \/ pc[t] \notin {"idle", "exit", "activate", "backoff", "fetch"}
      PROVE  InStep' /\ ("stall" \notin Faults /\ OnTime => OnTime')
  <2>1. InStep'
    BY <1>1, <1>3, InStepMoves
  <2>2. ASSUME "stall" \notin Faults, OnTime PROVE OnTime'
    <3>1. \A k \in Key : resolving[k].id = t /\ byID[t].status # "absent" =>
            /\ byID[t].retries < MaxRetries
            /\ byID[t].status \in {"failed", "downloading"}
            /\ next \in {"idle", "exit", "activate", "fetch"}
      BY <1>3, <2>2 DEF OnTime, Stored
    <3> QED
      BY <1>1, <1>3, <2>2, <3>1, OnTimeMoves
  <2> QED
    BY <2>1, <2>2
\* ... and one that updates it.
<1>4. ASSUME NEW rec \in TaskRec, NEW next, ProcUpdate(t, rec, next),
             rec.status \in Status, rec.status \in StatusesAt[next],
             next = "kill" => rec.status = "failed" /\ rec.retries > MaxRetries,
             \/ pc[t] \notin {"idle", "exit", "activate", "backoff", "fetch"}
             \/ /\ rec.status = "downloading" /\ next = "fetch"
                /\ rec.retries = byID[t].retries
      PROVE  InStep' /\ ("stall" \notin Faults /\ OnTime => OnTime')
  BY <1>1, <1>4, ProcUpdateInStep, ProcUpdateOnTime
<1>5. CASE Start(t)
  <2>1. UNCHANGED <<byID, keyOf>>
    BY <1>5 DEF Start, storeVars
  <2>2. CASE pc' = pc
    <3>1. \A k \in Key : resolving'[k] = resolving[k]
      BY <1>1
    <3> QED
      BY <2>1, <2>2, <3>1, InStepLasts DEF Drawn
  <2>3. CASE pc[t] = "idle" /\ pc' # pc
    <3>1. PICK next \in {"exit", "activate", "fetch"} :
            /\ pc' = [pc EXCEPT ![t] = next]
            /\ next = "activate" => byID[t].status \in {"queued", "failed"}
            /\ next = "fetch" => byID[t].status = "downloading"
      BY <1>5, <2>3 DEF Start, Goto
    <3>2. byID[t].status # "absent" => byID[t].status \in StatusesAt[next]
      BY <1>1, <3>1 DEF StatusesAt
    <3> QED
      BY <1>3, <2>1, <3>1, <3>2
  <2> QED
    BY <1>5, <2>2, <2>3 DEF Start
<1>6. ASSUME NEW from, NEW status \in Status, NEW next,
             SetStatus(t, from, status, next), status \in StatusesAt[next],
             next # "kill",
             \/ from \notin {"idle", "exit", "activate", "backoff", "fetch"}
             \/ status = "downloading" /\ next = "fetch"
      PROVE  InStep' /\ ("stall" \notin Faults /\ OnTime => OnTime')
  <2> DEFINE rec == [byID[t] EXCEPT !.status = status]
  <2>1. rec \in TaskRec /\ rec.status = status /\ rec.retries = byID[t].retries
    BY <1>1 DEF TaskRec
  <2>2. ProcUpdate(t, rec, next) /\ pc[t] = from
    BY <1>6 DEF SetStatus
  <2> HIDE DEF rec
  <2> QED
    BY <1>4, <1>6, <2>1, <2>2
<1>7. CASE Activate(t) \/ Downloaded(t) \/ Uploading(t) \/ Registering(t) \/ Kill(t)
  <2>1. PICK from \in {"activate", "fetched", "downloaded", "stored", "kill"},
             status \in {"downloading", "downloaded", "uploading", "registering",
                         "dead"},
             next \in {"fetch", "downloaded", "upload", "register", "exit"} :
          /\ SetStatus(t, from, status, next)
          /\ status \in StatusesAt[next]
          /\ from = "activate" => status = "downloading" /\ next = "fetch"
    BY <1>7 DEF Activate, Downloaded, Uploading, Registering, Kill, StatusesAt,
                Status
  <2>2. status \in Status /\ next # "kill"
    BY DEF Status
  <2>3. \/ from \notin {"idle", "exit", "activate", "backoff", "fetch"}
        \/ status = "downloading" /\ next = "fetch"
    BY <2>1
  <2> QED
    BY <1>6, <2>1, <2>2, <2>3
<1>8. CASE Fetch(t) \/ Upload(t)
  <2>1. UNCHANGED <<byID, keyOf>>
    BY <1>8 DEF Fetch, Upload, storeVars
  <2>2. PICK next \in {"fetched", "stored", "fail"} :
          /\ pc' = [pc EXCEPT ![t] = next]
          /\ \/ pc[t] = "fetch" /\ next \in {"fetched", "fail"}
             \/ pc[t] = "upload" /\ next \in {"stored", "fail"}
    <3>1. CASE Fetch(t)
      <4>1. \/ pc' = [pc EXCEPT ![t] = "fetched"]
            \/ pc' = [pc EXCEPT ![t] = "fail"]
        BY <3>1 DEF Fetch, Goto
      <4> QED
        BY <3>1, <4>1 DEF Fetch
    <3>2. CASE Upload(t)
      <4>1. \/ pc' = [pc EXCEPT ![t] = "stored"]
            \/ pc' = [pc EXCEPT ![t] = "fail"]
        BY <3>2 DEF Upload, Goto
      <4> QED
        BY <3>2, <4>1 DEF Upload
    <3> QED
      BY <1>8, <3>1, <3>2
  <2>3. \/ "stall" \in Faults \/ \A k \in Key : resolving[k].id # t
        \/ pc[t] = "upload"
    BY <1>8 DEF Fetch, Upload, MayTakeTime
  <2>4. byID[t].status # "absent" => byID[t].status \in StatusesAt[next]
    BY <1>2, <2>2 DEF StatusesAt
  <2> QED
    BY <1>3, <2>1, <2>2, <2>3, <2>4
<1>9. CASE Register(t)
  <2> DEFINE rec == [byID[t] EXCEPT !.status = "ready", !.art = got[t]]
  <2>1. got[t] \in Version \cup {None} /\ pc[t] = "register"
    BY <1>9 DEF TypeOK, EngineTypeOK, Register
  <2>2. rec \in TaskRec /\ rec.status = "ready"
    BY <1>1, <2>1 DEF TaskRec, Status
  <2>3. ProcUpdate(t, rec, "end")
    BY <1>9 DEF Register
  <2>4. "ready" \in Status /\ "ready" \in StatusesAt["end"]
    BY DEF StatusesAt, Status
  <2> HIDE DEF rec
  <2> QED
    BY <1>4, <2>1, <2>2, <2>3, <2>4
<1>10. CASE Fail(t)
  <2> DEFINE n == byID[t].retries + 1
             rec == [byID[t] EXCEPT !.status = "failed", !.retries = n]
             next == IF n > MaxRetries THEN "kill" ELSE "backoff"
  <2>1. n \in Nat /\ pc[t] = "fail"
    BY <1>1, <1>10 DEF Fail
  <2>2. ProcUpdate(t, rec, next)
    BY <1>10 DEF Fail
  <2> HIDE DEF n
  <2>3. rec \in TaskRec /\ rec.status = "failed" /\ rec.retries = n
    BY <1>1, <2>1 DEF TaskRec, Status
  <2> HIDE DEF rec
  <2>4. next \in {"kill", "backoff"} /\ (next = "kill" => n > MaxRetries)
    OBVIOUS
  <2> HIDE DEF next
  <2>5. "failed" \in Status /\ "failed" \in StatusesAt[next]
    BY <2>4 DEF StatusesAt, Status
  <2> QED
    BY <1>4, <2>1, <2>2, <2>3, <2>4, <2>5
<1>11. CASE Backoff(t)
  <2>1. /\ UNCHANGED <<byID, keyOf>> /\ pc' = [pc EXCEPT ![t] = "activate"]
        /\ pc[t] = "backoff"
    BY <1>11 DEF Backoff, Goto, storeVars
  <2>2. byID[t].status # "absent" => byID[t].status \in StatusesAt["activate"]
    BY <1>2, <2>1 DEF StatusesAt
  <2> QED
    BY <1>3, <2>1, <2>2
<1>12. CASE EndFetch(t) \/ Exit(t)
  <2>1. PICK next \in {"exit", "idle"} :
          UNCHANGED <<byID, keyOf>> /\ pc' = [pc EXCEPT ![t] = next]
    BY <1>12 DEF EndFetch, Exit, Goto, storeVars
  <2> QED
    BY <1>1, <1>3, <2>1
<1> QED
  BY <1>5, <1>7, <1>8, <1>9, <1>10, <1>11, <1>12 DEF Process

\* GC, and days that pass: no processor moves.
LEMMA QuietInStep ==
  ASSUME EngineInv, InStep,
         GCList \/ (\E t \in Task : GCDelete(t)) \/ DayPasses \/ UNCHANGED vars
  PROVE  InStep' /\ (OnTime => OnTime')
<1>1. UNCHANGED <<pc, resolving, keyOf>>
  BY DEF GCList, GCDelete, Delete, DayPasses, Age, vars, engineVars, storeVars
<1>2. byID \in [Task -> TaskRec]
  BY DEF EngineInv, StoreInv, StoreTypeOK
<1>3. \A u \in Task : byID'[u].status # "absent" =>
        byID'[u].status = byID[u].status /\ byID'[u].retries = byID[u].retries
  <2>1. CASE GCList \/ UNCHANGED vars
    BY <2>1 DEF GCList, vars, storeVars
  <2>2. CASE \E t \in Task : GCDelete(t)
    <3>1. PICK t \in Task : byID' = byID \/ byID' = [byID EXCEPT ![t] = Absent]
      BY <2>2 DEF GCDelete, Delete, storeVars
    <3>2. Absent.status = "absent"
      BY DEF Absent
    <3> QED
      BY <1>2, <3>1, <3>2
  <2>3. CASE DayPasses
    <3>1. byID' = Aged(byID)
      BY <2>3 DEF DayPasses, Age
    <3> QED
      BY <1>2, <3>1, AgedKeeps
  <2> QED
    BY <2>1, <2>2, <2>3
<1> QED
  BY <1>1, <1>3, InStepLasts DEF Drawn

\* A fresh process has no processor and no Resolve.
LEMMA RestartInStep ==
  ASSUME EngineInv, Restart
  PROVE  InStep' /\ OnTime'
<1>1. /\ byID' = disk.byID /\ pc' = [t \in Task |-> "idle"]
      /\ resolving' = [k \in Key |-> NoLeader]
  BY DEF Restart, NewStore, Volatile
<1>2. disk.byID \in [Task -> TaskRec]
  BY DEF EngineInv, StoreInv, StoreTypeOK, Image
<1>3. \A t \in Task : byID'[t].status # "absent" => byID'[t].status \in Status
  BY <1>1, <1>2 DEF TaskRec
<1>4. \A t \in Task : NoLeader.id # t
  BY DEF NoLeader, NoTask, Task
<1> QED
  BY <1>1, <1>3, <1>4 DEF InStep, OnTime, ProcessorInStep, Stored, StatusesAt

LEMMA InitInStep == Init => InStep /\ OnTime
<1>1. \A t \in Task : NoLeader.id # t
  BY DEF NoLeader, NoTask, Task
<1> QED
  BY <1>1 DEF Init, StoreInit, Volatile, InStep, OnTime, ProcessorInStep, Stored,
                 Absent

LEMMA NextInStep ==
  ASSUME EngineInv, InStep, [Next]_vars
  PROVE  InStep' /\ ("stall" \notin Faults /\ OnTime => OnTime')
<1>1. CASE \E k \in Key : Resolve(k)
  BY <1>1, ResolveInStep
<1>2. CASE \E t \in Task : Process(t)
  BY <1>2, ProcessInStep
<1>3. CASE GCList \/ (\E t \in Task : GCDelete(t)) \/ DayPasses \/ UNCHANGED vars
  BY <1>3, QuietInStep
<1>4. CASE Restart
  BY <1>4, RestartInStep
<1> QED
  BY <1>1, <1>2, <1>3, <1>4 DEF Next, Serve

\* The processor's copy of its task is the store's, so none of its updates is
\* refused but the one that declares it dead - whatever saves fail, restarts happen
\* and Resolves are overtaken (engine.go:147-163, 244-262).
THEOREM InStepTheorem == Spec => []ProcessorInStep
<1>1. Init => EngineInv /\ InStep
  BY InitInv, InitInStep
<1>2. (EngineInv /\ InStep) /\ [Next]_vars => (EngineInv /\ InStep)'
  BY NextKeeps, NextInStep
<1>3. EngineInv /\ InStep => ProcessorInStep
  BY DEF InStep
<1> QED
  BY <1>1, <1>2, <1>3, PTL DEF Spec
-----------------------------------------------------------------------------
(* The retry budget *)

\* Why RetryBudget holds while saves succeed, as an inductive invariant: a task
\* that has used up its retries is dead, or its processor is about to say so, or
\* a restart was faster and nobody works on it any more.
BudgetInv ==
  /\ disk.byID = byID
  /\ RetryBudget
  /\ \A t \in Task : byID[t].retries > MaxRetries =>
       \/ byID[t].status = "dead"
       \/ /\ byID[t].status = "failed"
          /\ pc[t] = "kill" \/ (pc[t] = "idle" /\ spawned[t] = 0)

SavesSucceed == "save" \notin Faults /\ "procsave" \notin Faults

\* At every other statement there are retries left, or the task is dead.
LEMMA RetriesLeft ==
  ASSUME EngineInv, InStep, OnTime, BudgetInv, NEW t \in Task
  PROVE  /\ byID[t].retries \in Nat /\ MaxRetries \in Nat
         /\ pc[t] \notin {"idle", "exit", "kill"} => byID[t].retries <= MaxRetries
         /\ pc[t] = "exit" \/ (pc[t] = "idle" /\ spawned[t] > 0) =>
              byID[t].retries <= MaxRetries \/ byID[t].status = "dead"
<1>1. /\ byID[t].retries \in Nat /\ MaxRetries \in Nat /\ pc[t] \in PC
      /\ spawned[t] \in Nat
  BY MaxRetriesAssumption
  DEF EngineInv, TypeOK, EngineTypeOK, StoreInv, StoreTypeOK, TaskRec
<1>2. pc[t] \notin {"idle", "exit", "kill"} => byID[t].status # "dead"
  BY <1>1 DEF InStep, OnTime, ProcessorInStep, Stored, StatusesAt, PC
<1>3. byID[t].retries <= MaxRetries \/ byID[t].retries > MaxRetries
  BY <1>1
<1> QED
  BY <1>1, <1>2, <1>3 DEF BudgetInv

\* What a step has to do for the one task it touches.
LEMMA BudgetMoves ==
  ASSUME EngineInv, BudgetInv, NEW t \in Task, disk'.byID = byID',
         \A u \in Task \ {t} :
           /\ byID'[u].status = byID[u].status /\ byID'[u].retries = byID[u].retries
           /\ pc'[u] = pc[u] /\ spawned'[u] = spawned[u],
         byID'[t].retries <= MaxRetries + 1,
         byID'[t].status = "dead" => byID'[t].retries = MaxRetries + 1,
         byID'[t].retries > MaxRetries =>
           \/ byID'[t].status = "dead"
           \/ /\ byID'[t].status = "failed"
              /\ pc'[t] = "kill" \/ (pc'[t] = "idle" /\ spawned'[t] = 0)
  PROVE  BudgetInv'
<1>1. ASSUME NEW u \in Task
      PROVE  /\ byID'[u].retries <= MaxRetries + 1
             /\ byID'[u].status = "dead" => byID'[u].retries = MaxRetries + 1
             /\ byID'[u].retries > MaxRetries =>
                  \/ byID'[u].status = "dead"
                  \/ /\ byID'[u].status = "failed"
                     /\ pc'[u] = "kill" \/ (pc'[u] = "idle" /\ spawned'[u] = 0)
  <2>1. CASE u = t
    BY <2>1
  <2>2. CASE u # t
    BY <2>2 DEF BudgetInv, RetryBudget
  <2> QED
    BY <2>1, <2>2
<1> QED
  BY <1>1 DEF BudgetInv, RetryBudget

\* A processor's update in a server whose saves succeed.
LEMMA ProcUpdateSaved ==
  ASSUME EngineInv, disk.byID = byID, SavesSucceed,
         NEW t \in Task, NEW rec \in TaskRec, NEW next, ProcUpdate(t, rec, next)
  PROVE  /\ disk'.byID = byID'
         /\ \/ /\ Stored(t) /\ pc' = [pc EXCEPT ![t] = next]
               /\ byID'[t].status = rec.status /\ byID'[t].retries = rec.retries
            \/ /\ byID' = byID /\ ~ MayUpdate(t, rec.status)
               /\ pc' = [pc EXCEPT ![t] = "exit"]
<1>1. CASE \E ok \in ProcSaveOutcome :
             Update(t, rec, ok) /\ Goto(t, IF ok THEN next ELSE "exit")
  <2>1. Update(t, rec, TRUE) /\ Goto(t, next)
    BY <1>1 DEF ProcSaveOutcome, SavesSucceed
  <2>2. StoreInv
    BY DEF EngineInv
  <2> QED
    BY <2>1, <2>2, UpdateIs DEF Goto
<1>2. CASE ~ MayUpdate(t, rec.status) /\ Goto(t, "exit") /\ UNCHANGED storeVars
  BY <1>2 DEF Goto, storeVars
<1> QED
  BY <1>1, <1>2 DEF ProcUpdate

\* The statements between two failures leave the count alone.
LEMMA SetStatusBudget ==
  ASSUME EngineInv, InStep, OnTime, BudgetInv, SavesSucceed,
         NEW t \in Task, NEW rec \in TaskRec, NEW next,
         pc[t] \notin {"idle", "exit", "kill"}, UNCHANGED spawned,
         rec.retries = byID[t].retries, rec.status # "dead",
         ProcUpdate(t, rec, next)
  PROVE  BudgetInv'
<1>1. pc \in [Task -> PC] /\ disk.byID = byID
  BY DEF EngineInv, TypeOK, EngineTypeOK, BudgetInv
<1>2. /\ byID[t].retries <= MaxRetries /\ byID[t].status # "dead"
      /\ byID[t].retries \in Nat /\ MaxRetries \in Nat
  <2>1. /\ byID[t].retries <= MaxRetries
        /\ byID[t].retries \in Nat /\ MaxRetries \in Nat
    BY RetriesLeft
  <2> QED
    BY <2>1 DEF BudgetInv, RetryBudget
<1>3. /\ disk'.byID = byID' /\ \A u \in Task \ {t} : byID'[u] = byID[u]
      /\ \A u \in Task \ {t} : pc'[u] = pc[u]
      /\ \/ byID'[t].status = rec.status /\ byID'[t].retries = rec.retries
         \/ byID' = byID
  <2>1. \A u \in Task \ {t} : byID'[u] = byID[u]
    BY ProcUpdateIs
  <2>2. /\ disk'.byID = byID'
        /\ \/ byID'[t].status = rec.status /\ byID'[t].retries = rec.retries
           \/ byID' = byID
        /\ \E to : pc' = [pc EXCEPT ![t] = to]
    BY <1>1, ProcUpdateSaved
  <2> QED
    BY <1>1, <2>1, <2>2
<1>4. byID'[t].status # "dead" /\ byID'[t].retries = byID[t].retries
  BY <1>2, <1>3
<1> QED
  BY <1>2, <1>3, <1>4, BudgetMoves

\* A processor moves on without an update.
LEMMA MovesOnBudget ==
  ASSUME EngineInv, InStep, OnTime, BudgetInv, NEW t \in Task, NEW next,
         UNCHANGED <<byID, disk, spawned>>, pc' = [pc EXCEPT ![t] = next],
         pc[t] # "kill", pc[t] = "idle" => spawned[t] > 0
  PROVE  BudgetInv'
<1>1. pc \in [Task -> PC] /\ disk'.byID = byID'
  BY DEF EngineInv, TypeOK, EngineTypeOK, BudgetInv
<1>2. /\ byID[t].retries <= MaxRetries \/ byID[t].status = "dead"
      /\ byID[t].retries \in Nat /\ MaxRetries \in Nat
  BY RetriesLeft
<1>3. /\ byID[t].retries <= MaxRetries + 1
      /\ byID[t].status = "dead" => byID[t].retries = MaxRetries + 1
  BY DEF BudgetInv, RetryBudget
<1> QED
  BY <1>1, <1>2, <1>3, BudgetMoves

\* process: only Fail counts, and Kill follows the failure that was one too many.
LEMMA ProcessBudget ==
  ASSUME EngineInv, InStep, OnTime, BudgetInv, SavesSucceed, NEW t \in Task,
         Process(t)
  PROVE  BudgetInv'
<1>1. /\ byID[t] \in TaskRec /\ pc \in [Task -> PC] /\ spawned \in [Task -> Nat]
      /\ disk.byID = byID /\ MaxRetries \in Nat
  BY MaxRetriesAssumption
  DEF EngineInv, TypeOK, EngineTypeOK, StoreInv, StoreTypeOK, BudgetInv
<1>2. /\ byID[t].retries \in Nat /\ byID[t].retries <= MaxRetries + 1
      /\ byID[t].status = "dead" => byID[t].retries = MaxRetries + 1
  BY <1>1 DEF BudgetInv, RetryBudget, TaskRec
<1>3. CASE Start(t)
  <2>1. /\ disk'.byID = byID' /\ byID' = byID /\ spawned[t] > 0
        /\ \A u \in Task \ {t} : pc'[u] = pc[u] /\ spawned'[u] = spawned[u]
    BY <1>1, <1>3 DEF Start, Goto, storeVars
  <2>2. byID[t].retries > MaxRetries => byID[t].status = "dead" \/ pc'[t] = "kill"
    BY <1>1, <1>3, <2>1 DEF Start, BudgetInv
  <2>3. byID[t].retries > MaxRetries => byID[t].status \in {"dead", "failed"}
    BY DEF BudgetInv
  <2> QED
    BY <1>2, <2>1, <2>2, <2>3, BudgetMoves
<1>4. ASSUME NEW from \in {"activate", "fetched", "downloaded", "stored"},
             NEW status \in {"downloading", "downloaded", "uploading", "registering"},
             NEW next, SetStatus(t, from, status, next)
      PROVE  BudgetInv'
  <2> DEFINE rec == [byID[t] EXCEPT !.status = status]
  <2>1. rec \in TaskRec /\ rec.status = status /\ rec.retries = byID[t].retries
    BY <1>1 DEF TaskRec, Status
  <2>2. ProcUpdate(t, rec, next) /\ pc[t] = from /\ UNCHANGED spawned
    BY <1>4 DEF SetStatus
  <2> HIDE DEF rec
  <2> QED
    BY <2>1, <2>2, SetStatusBudget
<1>5. CASE Activate(t) \/ Downloaded(t) \/ Uploading(t) \/ Registering(t)
  BY <1>4, <1>5 DEF Activate, Downloaded, Uploading, Registering
<1>6. CASE Register(t)
  <2> DEFINE rec == [byID[t] EXCEPT !.status = "ready", !.art = got[t]]
  <2>1. got[t] \in Version \cup {None} /\ pc[t] = "register" /\ UNCHANGED spawned
    BY <1>6 DEF EngineInv, TypeOK, EngineTypeOK, Register
  <2>2. rec \in TaskRec /\ rec.status = "ready" /\ rec.retries = byID[t].retries
    BY <1>1, <2>1 DEF TaskRec, Status
  <2>3. ProcUpdate(t, rec, "end")
    BY <1>6 DEF Register
  <2> HIDE DEF rec
  <2> QED
    BY <2>1, <2>2, <2>3, SetStatusBudget
<1>7. CASE Fetch(t) \/ Upload(t) \/ EndFetch(t) \/ Backoff(t) \/ Exit(t)
  <2>1. /\ UNCHANGED <<byID, disk, spawned>>
        /\ pc[t] \in {"fetch", "upload", "end", "backoff", "exit"}
    BY <1>7 DEF Fetch, Upload, EndFetch, Backoff, Exit, storeVars
  <2>2. \E next : pc' = [pc EXCEPT ![t] = next]
    BY <1>7 DEF Fetch, Upload, EndFetch, Backoff, Exit, Goto
  <2> QED
    BY <2>1, <2>2, MovesOnBudget
<1>8. CASE Fail(t)
  <2> DEFINE retries == byID[t].retries + 1
             rec == [byID[t] EXCEPT !.status = "failed", !.retries = retries]
             next == IF retries > MaxRetries THEN "kill" ELSE "backoff"
  <2>1. pc[t] = "fail" /\ UNCHANGED spawned /\ ProcUpdate(t, rec, next)
    BY <1>8 DEF Fail
  <2>2. rec \in TaskRec /\ rec.status = "failed" /\ rec.retries = retries
    <3>1. retries \in Nat /\ "failed" \in Status
      BY <1>2 DEF Status
    <3> QED
      BY <1>1, <3>1 DEF TaskRec
  <2>3. byID[t].retries <= MaxRetries
    BY <2>1, RetriesLeft
  <2> HIDE DEF rec, next
  <2>4. /\ disk'.byID = byID' /\ \A u \in Task \ {t} : byID'[u] = byID[u]
        /\ \/ /\ pc' = [pc EXCEPT ![t] = next]
              /\ byID'[t].status = "failed" /\ byID'[t].retries = retries
           \/ byID' = byID /\ pc' = [pc EXCEPT ![t] = "exit"]
    BY <1>1, <2>1, <2>2, ProcUpdateIs, ProcUpdateSaved
  <2>5. CASE byID' = byID /\ pc' = [pc EXCEPT ![t] = "exit"]
    BY <1>1, <1>2, <2>1, <2>3, <2>4, <2>5, BudgetMoves
  <2>6. CASE /\ pc' = [pc EXCEPT ![t] = next]
             /\ byID'[t].status = "failed" /\ byID'[t].retries = retries
    <3>1. retries <= MaxRetries + 1
      BY <1>1, <1>2, <2>3
    <3>2. retries > MaxRetries => pc'[t] = "kill"
      BY <1>1, <2>6 DEF next
    <3>3. \A u \in Task \ {t} : pc'[u] = pc[u] /\ spawned'[u] = spawned[u]
      BY <1>1, <2>1, <2>6
    <3> HIDE DEF retries
    <3> QED
      BY <2>4, <2>6, <3>1, <3>2, <3>3, BudgetMoves
  <2> QED
    BY <2>4, <2>5, <2>6
<1>9. CASE Kill(t)
  <2> DEFINE rec == [byID[t] EXCEPT !.status = "dead"]
  <2>1. pc[t] = "kill" /\ UNCHANGED spawned /\ ProcUpdate(t, rec, "exit")
    BY <1>9 DEF Kill, SetStatus
  <2>2. rec \in TaskRec /\ rec.status = "dead" /\ rec.retries = byID[t].retries
    BY <1>1 DEF TaskRec, Status
  <2> HIDE DEF rec
  <2>3. /\ disk'.byID = byID' /\ \A u \in Task \ {t} : byID'[u] = byID[u]
        /\ pc' = [pc EXCEPT ![t] = "exit"]
        /\ \/ /\ Stored(t) /\ byID'[t].status = "dead"
              /\ byID'[t].retries = byID[t].retries
           \/ byID' = byID /\ ~ MayUpdate(t, "dead")
    BY <1>1, <2>1, <2>2, ProcUpdateIs, ProcUpdateSaved
  <2>4. \A u \in Task \ {t} : pc'[u] = pc[u] /\ spawned'[u] = spawned[u]
    BY <1>1, <2>1, <2>3
  <2>5. CASE Stored(t) /\ byID'[t].status = "dead" /\ byID'[t].retries = byID[t].retries
    <3>1. byID[t].retries > MaxRetries
      BY <2>1, <2>5 DEF InStep, OnTime
    <3>2. byID[t].retries = MaxRetries + 1
      BY <1>1, <1>2, <3>1
    <3> QED
      BY <1>1, <2>3, <2>4, <2>5, <3>2, BudgetMoves
  <2>6. CASE byID' = byID /\ ~ MayUpdate(t, "dead")
    <3>1. ~ Stored(t)
      <4>1. Stored(t) => byID[t].status = "failed"
        BY <2>1 DEF InStep, OnTime, ProcessorInStep, StatusesAt
      <4>2. Can("failed", "dead")
        BY DEF Can, transitions
      <4> QED
        BY <2>6, <4>1, <4>2 DEF MayUpdate
    <3>2. ~ (byID[t].retries > MaxRetries) /\ byID[t].status # "dead"
      BY <3>1 DEF BudgetInv, Stored
    <3> QED
      BY <1>2, <2>3, <2>4, <2>6, <3>2, BudgetMoves
  <2> QED
    BY <2>3, <2>5, <2>6
<1> QED
  BY <1>3, <1>5, <1>6, <1>7, <1>8, <1>9 DEF Process

\* Resolve: what it revives has retries left, what it creates has them all.
LEMMA ResolveBudget ==
  ASSUME EngineInv, InStep, OnTime, BudgetInv, SavesSucceed, NEW k \in Key,
         Resolve(k)
  PROVE  BudgetInv'
<1>1. /\ byID \in [Task -> TaskRec] /\ spawned \in [Task -> Nat] /\ StoreInv
      /\ disk.byID = byID /\ pc' = pc /\ MaxRetries \in Nat
  BY MaxRetriesAssumption
  DEF EngineInv, TypeOK, EngineTypeOK, StoreInv, StoreTypeOK, BudgetInv, Resolve,
      ResolveLookup, ResolveRetry, ResolveCreate
<1>2. SaveOutcome = {TRUE}
  BY DEF SaveOutcome, SavesSucceed
<1>3. CASE ResolveLookup(k)
  BY <1>3 DEF ResolveLookup, storeVars, BudgetInv, RetryBudget
<1>4. CASE ResolveRetry(k)
  <2>1. PICK t \in Task : resolving[k] = Retrying(t) /\ Revive(k, t)
    BY <1>4 DEF ResolveRetry
  <2> DEFINE rec == [byID[t] EXCEPT !.status = "downloading"]
  <2>2. rec \in TaskRec /\ rec.status = "downloading" /\ rec.retries = byID[t].retries
    BY <1>1 DEF TaskRec, Status
  <2>3. CASE Update(t, rec, TRUE) /\ spawned' = [spawned EXCEPT ![t] = @ + 1]
    <3> HIDE DEF rec
    <3>1. /\ Stored(t) /\ disk'.byID = byID' /\ byID'[t].status = "downloading"
          /\ byID'[t].retries = byID[t].retries
          /\ \A u \in Task \ {t} : byID'[u] = byID[u]
      BY <1>1, <2>2, <2>3, UpdateIs
    <3>2. byID[t].retries < MaxRetries /\ byID[t].retries \in Nat
      BY <1>1, <2>1, <3>1 DEF Retrying, InStep, OnTime, TaskRec
    <3>3. \A u \in Task \ {t} : spawned'[u] = spawned[u]
      BY <1>1, <2>3
    <3> QED
      BY <1>1, <3>1, <3>2, <3>3, BudgetMoves
  <2>4. CASE UNCHANGED storeVars /\ UNCHANGED spawned
    BY <1>1, <2>4 DEF storeVars, BudgetInv, RetryBudget
  <2> QED
    BY <1>2, <2>1, <2>3, <2>4 DEF Revive
<1>5. CASE ResolveCreate(k)
  <2> DEFINE n == made + 1
  <2>1. PutNew(k, Queued, TRUE) /\ spawned' = [spawned EXCEPT ![n] = @ + 1]
    BY <1>2, <1>5 DEF ResolveCreate
  <2>2. Queued \in TaskRec /\ Queued.status = "queued" /\ Queued.retries = 0
    BY DEF Queued, Absent, TaskRec, Status
  <2>3. /\ n \in Task /\ disk'.byID = byID'
        /\ byID'[n].status = "queued" /\ byID'[n].retries = 0
        /\ \A u \in Task \ {n} : byID'[u] = byID[u]
    BY <1>1, <2>1, <2>2, PutNewIs
  <2>4. \A u \in Task \ {n} : spawned'[u] = spawned[u]
    BY <1>1, <2>1
  <2> HIDE DEF n
  <2> QED
    BY <1>1, <2>3, <2>4, BudgetMoves
<1> QED
  BY <1>3, <1>4, <1>5 DEF Resolve

\* GC drops records, a day changes none of the counts.
LEMMA QuietBudget ==
  ASSUME EngineInv, BudgetInv, SavesSucceed,
         GCList \/ (\E t \in Task : GCDelete(t)) \/ DayPasses \/ UNCHANGED vars
  PROVE  BudgetInv'
<1>1. /\ byID \in [Task -> TaskRec] /\ disk \in Image /\ disk.byID = byID
      /\ MaxRetries \in Nat
  BY MaxRetriesAssumption DEF EngineInv, StoreInv, StoreTypeOK, BudgetInv
<1>2. CASE GCList \/ UNCHANGED vars
  BY <1>2 DEF GCList, vars, storeVars, engineVars, BudgetInv, RetryBudget
<1>3. CASE \E t \in Task : GCDelete(t)
  <2>1. PICK t \in Task : GCDelete(t)
    BY <1>3
  <2>2. CASE UNCHANGED storeVars
    BY <2>1, <2>2 DEF GCDelete, storeVars, BudgetInv, RetryBudget
  <2>3. CASE Delete(t, TRUE)
    <3>1. /\ UNCHANGED <<pc, spawned>> /\ disk'.byID = byID'
          /\ byID' = [byID EXCEPT ![t] = Absent]
      BY <2>1, <2>3 DEF GCDelete, Delete, Persist
    <3>2. Absent.status = "absent" /\ Absent.retries = 0
      BY DEF Absent
    <3>3. /\ byID'[t].status = "absent" /\ byID'[t].retries = 0
          /\ \A u \in Task \ {t} : byID'[u] = byID[u]
      BY <1>1, <3>1, <3>2
    <3> QED
      BY <1>1, <3>1, <3>3, BudgetMoves
  <2> QED
    BY <2>1, <2>2, <2>3 DEF GCDelete, SaveOutcome, SavesSucceed
<1>4. CASE DayPasses
  <2>1. /\ UNCHANGED <<pc, spawned>> /\ byID' = Aged(byID)
        /\ disk' = [disk EXCEPT !.byID = Aged(disk.byID)]
    BY <1>4 DEF DayPasses, Age, engineVars
  <2>2. disk'.byID = byID'
    BY <1>1, <2>1 DEF Image
  <2>3. \A u \in Task : /\ byID'[u].status = byID[u].status
                        /\ byID'[u].retries = byID[u].retries
    BY <1>1, <2>1, AgedKeeps
  <2> QED
    BY <2>1, <2>2, <2>3 DEF BudgetInv, RetryBudget
<1> QED
  BY <1>2, <1>3, <1>4

\* The file says what the memory said, and nobody is at work.
LEMMA RestartBudget ==
  ASSUME BudgetInv, Restart
  PROVE  BudgetInv'
<1>1. /\ byID' = byID /\ disk' = disk /\ spawned' = [t \in Task |-> 0]
      /\ pc' = [t \in Task |-> "idle"]
  BY DEF BudgetInv, Restart, NewStore, Volatile
<1> QED
  BY <1>1 DEF BudgetInv, RetryBudget

LEMMA InitBudget == Init => BudgetInv
BY MaxRetriesAssumption
DEF Init, StoreInit, Memory, Absent, BudgetInv, RetryBudget

LEMMA NextBudget ==
  ASSUME SavesSucceed, EngineInv, InStep, OnTime, BudgetInv, [Next]_vars
  PROVE  BudgetInv'
<1>1. CASE \E k \in Key : Resolve(k)
  BY <1>1, ResolveBudget
<1>2. CASE \E t \in Task : Process(t)
  BY <1>2, ProcessBudget
<1>3. CASE GCList \/ (\E t \in Task : GCDelete(t)) \/ DayPasses \/ UNCHANGED vars
  BY <1>3, QuietBudget
<1>4. CASE Restart
  BY <1>4, RestartBudget
<1> QED
  BY <1>1, <1>2, <1>3, <1>4 DEF Next, Serve

\* No task is attempted more than once and MaxRetries times more, however often
\* Resolve revives it and the server restarts, and it is dead only when all of
\* its attempts have failed (engine.go:336-348).  A save that fails may lose
\* the count, so saves are assumed to succeed.
THEOREM BudgetKept ==
  ASSUME Faults \subseteq {"restart"}
  PROVE  Spec => []RetryBudget
<1>1. SavesSucceed /\ "stall" \notin Faults
  BY DEF SavesSucceed
<1>2. Init => EngineInv /\ InStep /\ OnTime /\ BudgetInv
  BY InitInv, InitInStep, InitBudget
<1>3. (EngineInv /\ InStep /\ OnTime /\ BudgetInv) /\ [Next]_vars
        => (EngineInv /\ InStep /\ OnTime /\ BudgetInv)'
  BY <1>1, NextKeeps, NextInStep, NextBudget
<1>4. EngineInv /\ InStep /\ OnTime /\ BudgetInv => RetryBudget
  BY DEF BudgetInv
<1> QED
  BY <1>2, <1>3, <1>4, PTL DEF Spec

-----------------------------------------------------------------------------
(* What a running engine does to its tasks *)

\* A task is stored for the first time.
Putting ==
  \E k \in Key, ok \in BOOLEAN :
    \E rec \in {r \in TaskRec : r.status \in {"queued", "ready"}} :
      PutNew(k, rec, ok)

\* An update that forgets no failure and alters no artifact once published.
Honest(t, rec) ==
  /\ rec \in TaskRec
  /\ rec.retries >= byID[t].retries
  /\ rec.status = "failed" => rec.retries > 0
  /\ rec.status = byID[t].status => rec.art = byID[t].art

Recording ==
  \E t \in Task, ok \in BOOLEAN : \E rec : Honest(t, rec) /\ Update(t, rec, ok)
Collecting == \E t \in gcList, ok \in BOOLEAN : Delete(t, ok)

Writing == Recording \/ Putting \/ Collecting \/ UNCHANGED storeVars
RecordStep == Writing \/ Age

\* A processor's update, if it is honest.
LEMMA ProcUpdateRecords ==
  ASSUME NEW t \in Task, NEW rec, NEW next, Honest(t, rec),
         ProcUpdate(t, rec, next)
  PROVE  Writing
BY DEF ProcUpdate, Writing, Recording, ProcSaveOutcome

\* A change of status that is no failure.
LEMMA SetStatusRecords ==
  ASSUME StoreTypeOK, NEW t \in Task, NEW from,
         NEW status \in Status \ {"failed", "ready"}, NEW next,
         SetStatus(t, from, status, next)
  PROVE  Writing
<1>. DEFINE rec == [byID[t] EXCEPT !.status = status]
<1>1. byID[t] \in TaskRec
  BY DEF StoreTypeOK
<1>2. /\ rec \in TaskRec /\ rec.status = status
      /\ rec.retries = byID[t].retries /\ rec.art = byID[t].art
  BY <1>1 DEF TaskRec
<1>3. byID[t].retries \in Nat
  BY <1>1 DEF TaskRec
<1>4. ProcUpdate(t, rec, next)
  BY DEF SetStatus
<1>. HIDE DEF rec
<1>5. Honest(t, rec)
  BY <1>2, <1>3 DEF Honest
<1>. QED
  BY <1>4, <1>5, ProcUpdateRecords

\* Every step of a running engine.
LEMMA ServeRecords ==
  ASSUME EngineInv, InStep, Serve \/ UNCHANGED vars
  PROVE  Writing \/ DayPasses
<1>. USE DEF EngineInv, TypeOK
<1>1. ASSUME NEW k \in Key, Resolve(k) PROVE Writing
  <2>1. CASE ResolveLookup(k)
    BY <2>1 DEF ResolveLookup, Writing
  <2>2. CASE ResolveRetry(k)
    <3>1. PICK t \in Task : Revive(k, t)
      BY <2>2 DEF ResolveRetry
    <3>. DEFINE rec == [byID[t] EXCEPT !.status = "downloading"]
    <3>2. byID[t] \in TaskRec
      BY DEF StoreTypeOK
    <3>3. /\ rec \in TaskRec /\ rec.status = "downloading"
          /\ rec.retries = byID[t].retries /\ byID[t].retries \in Nat
          /\ rec.art = byID[t].art
      BY <3>2 DEF TaskRec, Status
    <3>4. (\E ok \in BOOLEAN : Update(t, rec, ok)) \/ UNCHANGED storeVars
      <4>1. Update(t, rec, TRUE) \/ Update(t, rec, FALSE) \/ UNCHANGED storeVars
        BY <3>1 DEF Revive
      <4>. QED BY <4>1
    <3>. HIDE DEF rec
    <3>5. Honest(t, rec)
      BY <3>3 DEF Honest
    <3>. QED
      BY <3>4, <3>5 DEF Writing, Recording
  <2>3. CASE ResolveCreate(k)
    <3>1. Queued \in TaskRec /\ Queued.status = "queued"
      BY DEF Queued, Absent, TaskRec, Status
    <3>. QED
      BY <2>3, <3>1 DEF ResolveCreate, SaveOutcome, Writing, Putting
  <2>. QED BY <1>1, <2>1, <2>2, <2>3 DEF Resolve
<1>2. ASSUME NEW t \in Task, Process(t) PROVE Writing
  <2>1. CASE Start(t) \/ Fetch(t) \/ Upload(t) \/ EndFetch(t) \/ Backoff(t)
             \/ Exit(t)
    BY <2>1 DEF Start, Fetch, Upload, EndFetch, Backoff, Exit, Writing
  <2>2. CASE Activate(t) \/ Downloaded(t) \/ Uploading(t) \/ Registering(t)
             \/ Kill(t)
    BY <2>2, SetStatusRecords
       DEF Activate, Downloaded, Uploading, Registering, Kill, Status
  <2>3. CASE Register(t)
    <3>. DEFINE rec == [byID[t] EXCEPT !.status = "ready", !.art = got[t]]
    <3>1. byID[t] \in TaskRec /\ got[t] \in Version \cup {None}
      BY DEF StoreTypeOK, EngineTypeOK
    <3>2. /\ rec \in TaskRec /\ rec.status = "ready"
          /\ rec.retries = byID[t].retries /\ byID[t].retries \in Nat
      BY <3>1 DEF TaskRec, Status
    <3>3. byID[t].status # "ready"
      BY <2>3 DEF Register, InStep, ProcessorInStep, Stored, StatusesAt
    <3>4. ProcUpdate(t, rec, "end")
      BY <2>3 DEF Register
    <3>. HIDE DEF rec
    <3>5. Honest(t, rec)
      BY <3>2, <3>3 DEF Honest
    <3>. QED
      BY <3>4, <3>5, ProcUpdateRecords
  <2>4. CASE Fail(t)
    <3>. DEFINE retries == byID[t].retries + 1
                rec == [byID[t] EXCEPT !.status = "failed", !.retries = retries]
    <3>1. byID[t] \in TaskRec
      BY DEF StoreTypeOK
    <3>2. byID[t].retries \in Nat /\ retries \in Nat
      BY <3>1 DEF TaskRec
    <3>3. /\ rec \in TaskRec /\ rec.status = "failed" /\ rec.retries = retries
          /\ rec.art = byID[t].art
      BY <3>1, <3>2 DEF TaskRec, Status
    <3>4. \E next : ProcUpdate(t, rec, next)
      BY <2>4 DEF Fail
    <3>. HIDE DEF rec
    <3>5. Honest(t, rec)
      BY <3>2, <3>3 DEF Honest
    <3>. QED
      BY <3>4, <3>5, ProcUpdateRecords
  <2>. QED BY <1>2, <2>1, <2>2, <2>3, <2>4 DEF Process
<1>3. CASE GCList
  BY <1>3 DEF GCList, Writing
<1>4. ASSUME NEW t \in Task, GCDelete(t) PROVE Writing
  BY <1>4 DEF GCDelete, SaveOutcome, Writing, Collecting
<1>5. CASE DayPasses
  BY <1>5
<1>6. CASE UNCHANGED vars
  BY <1>6 DEF vars, Writing
<1>. QED BY <1>1, <1>2, <1>3, <1>4, <1>5, <1>6 DEF Serve

\* Nobody comes back from these, the artifact included.
TaskOver == {"ready", "dead", "absent"}

\* A task that is over stays so, and a count stays or grows, unless GC comes.
LEMMA RecordMoves ==
  ASSUME EngineInv, RecordStep, NEW t \in Task, Drawn(t)
  PROVE  /\ keyOf'[t] = keyOf[t]
         /\ \/ /\ byID'[t].retries >= byID[t].retries
               /\ byID[t].status \in TaskOver =>
                    byID'[t].status = byID[t].status /\ byID'[t].art = byID[t].art
            \/ byID'[t] = Absent /\ t \in gcList /\ Stored(t)
<1>1. /\ StoreInv /\ StoreTypeOK /\ gcList \in SUBSET Task
      /\ byID \in [Task -> TaskRec] /\ byID[t].retries \in Nat
  BY DEF EngineInv, StoreInv, TypeOK, EngineTypeOK, StoreTypeOK, TaskRec
<1>2. CASE Recording
  <2>1. PICK u \in Task, ok \in BOOLEAN :
          \E rec : Honest(u, rec) /\ Update(u, rec, ok)
    BY <1>2 DEF Recording
  <2>2. PICK rec : Honest(u, rec) /\ Update(u, rec, ok)
    BY <2>1
  <2>3. rec \in TaskRec
    BY <2>2 DEF Honest
  <2>4. /\ keyOf' = keyOf /\ Stored(u)
        /\ byID'[u].status = rec.status /\ byID'[u].art = rec.art
        /\ byID'[u].retries = rec.retries
        /\ \A v \in Task \ {u} : byID'[v] = byID[v]
    BY <1>1, <2>2, <2>3, UpdateIs
  <2>5. CASE u = t
    <3>1. byID[t].status \in TaskOver => rec.status = byID[t].status
      BY <2>2, <2>4, <2>5
      DEF Update, MayUpdate, Can, transitions, TaskOver, Stored
    <3>. QED
      BY <2>2, <2>4, <2>5, <3>1 DEF Honest
  <2>6. CASE u # t
    BY <1>1, <2>4, <2>6
  <2>. QED BY <2>5, <2>6
<1>3. CASE Putting
  <2>1. PICK k \in Key, ok \in BOOLEAN,
             rec \in {r \in TaskRec : r.status \in {"queued", "ready"}} :
          PutNew(k, rec, ok)
    BY <1>3 DEF Putting
  <2>2. \A u \in Task : Drawn(u) => byID'[u] = byID[u] /\ keyOf'[u] = keyOf[u]
    BY <1>1, <2>1, PutNewIs
  <2>. QED
    BY <1>1, <2>2
<1>4. CASE Collecting
  <2>1. PICK u \in gcList, ok \in BOOLEAN : Delete(u, ok)
    BY <1>4 DEF Collecting
  <2>2. byID' = [byID EXCEPT ![u] = Absent] /\ keyOf' = keyOf /\ Stored(u)
    BY <2>1 DEF Delete
  <2>. QED
    BY <1>1, <2>2
<1>5. CASE Age
  <2>1. byID' = Aged(byID) /\ keyOf' = keyOf
    BY <1>5 DEF Age
  <2>. QED
    BY <1>1, <2>1, AgedKeeps
<1>6. CASE UNCHANGED storeVars
  BY <1>1, <1>6 DEF storeVars
<1>. QED
  BY <1>2, <1>3, <1>4, <1>5, <1>6 DEF RecordStep, Writing

\* No step of the engine takes an object away.
LEMMA EngineObjectsLast ==
  ASSUME EngineInv, [Next]_vars
  PROVE  \A k \in Key : object[k] # None => object'[k] # None
<1>1. CASE \E t \in Task : Upload(t)
  <2>1. PICK t \in Task : Upload(t)
    BY <1>1
  <2>2. got[t] # None /\ object \in [Key -> Version \cup {None}]
    BY <2>1 DEF Upload, EngineInv, ObjectFirst, StoreInv
  <2>3. object' \in {object, [object EXCEPT ![keyOf[t]] = got[t]]}
    BY <2>1 DEF Upload
  <2>. QED BY <2>2, <2>3
<1>2. CASE UNCHANGED object
  BY <1>2
<1>3. CASE \E t \in Task : Process(t) /\ ~ Upload(t)
  BY <1>3 DEF Process, Start, Activate, Fetch, Downloaded, Uploading,
     Registering, Register, EndFetch, Fail, Kill, Backoff, Exit, SetStatus
<1>. QED
  BY <1>1, <1>2, <1>3 DEF Next, Serve, vars, engineVars, Resolve, ResolveLookup,
     ResolveRetry, ResolveCreate, GCList, GCDelete, Restart, DayPasses
=============================================================================
