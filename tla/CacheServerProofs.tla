------------------------- MODULE CacheServerProofs -------------------------
(***************************************************************************)
(* Proofs about what is built on TaskEngine.  First CacheServer, the       *)
(* engine together with the mirrors and the progress loop: what every      *)
(* writer does to the store is one of a few operations (StoreStep); the    *)
(* index's agreement and the refinement of TaskLifecycle are then shown    *)
(* operation by operation.  At the end DownloadClient: what a client may   *)
(* rely on while it polls an engine that runs and whose saves succeed.     *)
(***************************************************************************)
EXTENDS CacheServer, DownloadClient, TaskEngineProofs

-----------------------------------------------------------------------------
(* What a step does to the store *)

\* A change of one task, the creation of one, its removal, the re-reading of
\* the file and ageing: all the changes there are.
Updating ==
  \E t \in Task, rec \in TaskRec, ok \in BOOLEAN : Update(t, rec, ok)
Deleting == \E t \in Task, ok \in BOOLEAN : Delete(t, ok)

StoreStep ==
  Updating \/ Putting \/ Deleting \/ NewStore \/ Age \/ UNCHANGED storeVars

\* A processor's update is an update or nothing.
LEMMA ProcUpdateStore ==
  ASSUME NEW t \in Task, NEW rec \in TaskRec, NEW next,
         ProcUpdate(t, rec, next)
  PROVE  StoreStep
BY DEF ProcUpdate, StoreStep, Updating, ProcSaveOutcome

\* So is a change of status.
LEMMA SetStatusStore ==
  ASSUME StoreTypeOK, NEW t \in Task, NEW from, NEW status \in Status,
         NEW next, SetStatus(t, from, status, next)
  PROVE  StoreStep
<1>1. [byID[t] EXCEPT !.status = status] \in TaskRec
  BY DEF StoreTypeOK, TaskRec
<1>. QED BY <1>1, ProcUpdateStore DEF SetStatus

\* Every step of the engine.
LEMMA EngineStoreStep ==
  ASSUME EngineInv, [Next]_vars
  PROVE  StoreStep
<1>. USE DEF EngineInv, TypeOK
<1>1. ASSUME NEW k \in Key, Resolve(k) PROVE StoreStep
  <2>1. CASE ResolveLookup(k)
    BY <2>1 DEF ResolveLookup, StoreStep
  <2>2. CASE ResolveRetry(k)
    <3>1. PICK t \in Task : Revive(k, t)
      BY <2>2 DEF ResolveRetry
    <3>. DEFINE rec == [byID[t] EXCEPT !.status = "downloading"]
    <3>2. rec \in TaskRec
      <4>1. byID[t] \in TaskRec
        BY DEF StoreTypeOK
      <4>. QED BY <4>1 DEF TaskRec, Status
    <3>3. Update(t, rec, TRUE) \/ Update(t, rec, FALSE) \/ UNCHANGED storeVars
      BY <3>1 DEF Revive
    <3>4. (\E ok \in BOOLEAN : Update(t, rec, ok)) \/ UNCHANGED storeVars
      BY <3>3
    <3>. QED BY <3>2, <3>4 DEF StoreStep, Updating
  <2>3. CASE ResolveCreate(k)
    <3>1. Queued \in TaskRec /\ Queued.status = "queued"
      BY DEF Queued, Absent, TaskRec, Status
    <3>. QED
      BY <2>3, <3>1 DEF ResolveCreate, SaveOutcome, StoreStep, Putting
  <2>. QED BY <1>1, <2>1, <2>2, <2>3 DEF Resolve
<1>2. ASSUME NEW t \in Task, Process(t) PROVE StoreStep
  <2>1. CASE Start(t) \/ Fetch(t) \/ Upload(t) \/ EndFetch(t) \/ Backoff(t)
             \/ Exit(t)
    BY <2>1 DEF Start, Fetch, Upload, EndFetch, Backoff, Exit, StoreStep
  <2>2. CASE Activate(t) \/ Downloaded(t) \/ Uploading(t) \/ Registering(t)
             \/ Kill(t)
    BY <2>2, SetStatusStore
       DEF Activate, Downloaded, Uploading, Registering, Kill, Status
  <2>3. CASE Register(t)
    <3>1. [byID[t] EXCEPT !.status = "ready", !.art = got[t]] \in TaskRec
      <4>1. byID[t] \in TaskRec /\ got[t] \in Version \cup {None}
        BY DEF StoreTypeOK, EngineTypeOK
      <4>. QED BY <4>1 DEF TaskRec, Status
    <3>. QED BY <2>3, <3>1, ProcUpdateStore DEF Register
  <2>4. CASE Fail(t)
    <3>. DEFINE rec == [byID[t] EXCEPT !.status = "failed",
                                       !.retries = byID[t].retries + 1]
    <3>1. byID[t] \in TaskRec
      BY DEF StoreTypeOK
    <3>2. byID[t].retries + 1 \in Nat
      BY <3>1 DEF TaskRec
    <3>3. rec \in TaskRec
      BY <3>1, <3>2 DEF TaskRec, Status
    <3>. QED BY <2>4, <3>3, ProcUpdateStore DEF Fail
  <2>. QED BY <1>2, <2>1, <2>2, <2>3, <2>4 DEF Process
<1>3. CASE GCList
  BY <1>3 DEF GCList, StoreStep
<1>4. ASSUME NEW t \in Task, GCDelete(t) PROVE StoreStep
  BY <1>4 DEF GCDelete, SaveOutcome, StoreStep, Deleting
<1>5. CASE Restart
  BY <1>5 DEF Restart, StoreStep
<1>6. CASE DayPasses
  BY <1>6 DEF DayPasses, StoreStep
<1>7. CASE UNCHANGED vars
  BY <1>7 DEF vars, StoreStep
<1>. QED BY <1>1, <1>2, <1>3, <1>4, <1>5, <1>6, <1>7 DEF Next, Serve

-----------------------------------------------------------------------------
(* The mirrors and the progress loop *)

\* The server's invariant holds at the start.
LEMMA ServerInitInv == ServerInit => ServerInv
<1>. SUFFICES ASSUME ServerInit PROVE ServerInv
  OBVIOUS
<1>1. EngineInv
  BY InitInv DEF ServerInit
<1>2. MirrorFirst /\ ServerTypeOK
  BY <1>1 DEF ServerInit, MirrorFirst, ServerTypeOK, EngineInv, NoFlight,
     Flight, NoTask
<1>. QED BY <1>1, <1>2 DEF ServerInv

\* The engine's steps keep it while the flights wait.
LEMMA EngineKeeps ==
  ASSUME ServerInv, [Next]_vars, mirror' = mirror, reporter' = reporter
  PROVE  ServerInv'
<1>1. EngineInv' /\ \A k \in Key : object[k] # None => object'[k] # None
  BY NextKeeps, EngineObjectsLast DEF ServerInv
<1>2. ServerTypeOK'
  BY <1>1 DEF ServerInv, ServerTypeOK, EngineInv
<1>3. MirrorFirst'
  BY <1>1 DEF ServerInv, MirrorFirst
<1>. QED BY <1>1, <1>2, <1>3 DEF ServerInv

\* A flight's own steps.
LEMMA MirrorKeeps ==
  ASSUME ServerInv, NEW k \in Key, Mirror(k)
  PROVE  ServerInv'
<1>. USE DEF ServerInv
<1>1. /\ mirror \in [Key -> Flight]
      /\ reporter \in Task \cup {NoTask}
      /\ object \in [Key -> Version \cup {None}]
  BY DEF ServerTypeOK, EngineInv, StoreInv
<1>2. CASE MirrorLookup(k) \/ MirrorFetch(k)
  <2>1. UNCHANGED vars /\ reporter' = reporter
    BY <1>2 DEF MirrorLookup, MirrorFetch
  <2>2. PICK f \in Flight :
          /\ mirror' = [mirror EXCEPT ![k] = f]
          /\ f.at \in {"idle", "fetch"} \/ (f.at = "put" /\ f.got # None)
    BY <1>2, TaskStoreAssumption
       DEF MirrorLookup, MirrorFetch, Fly, NoFlight, Flight
  <2>3. EngineInv'
    BY <2>1, NextKeeps
  <2>4. ServerTypeOK'
    BY <1>1, <2>1, <2>2, <2>3 DEF ServerTypeOK, EngineInv
  <2>5. MirrorFirst'
    BY <1>1, <2>1, <2>2 DEF MirrorFirst, vars, engineVars
  <2>. QED BY <2>3, <2>4, <2>5
<1>3. CASE MirrorPut(k)
  <2>. DEFINE replaced == [object EXCEPT ![k] = mirror[k].got]
  <2>1. /\ mirror[k].at = "put" /\ mirror[k].got # None
        /\ mirror[k].got \in Version
    BY <1>1, <1>3 DEF MirrorPut, MirrorFirst, Flight
  <2>2. /\ UNCHANGED <<storeVars, resolving, spawned, pc, got, progress,
                       gcList, reporter>>
        /\ object' \in {object, replaced}
    BY <1>3 DEF MirrorPut
  <2>3. /\ object' \in [Key -> Version \cup {None}]
        /\ \A j \in Key : object[j] # None => object'[j] # None
    BY <1>1, <2>1, <2>2
  <2>4. StoreInv'
    BY <2>2, <2>3, ObjectGrows DEF EngineInv
  <2>5. EngineTypeOK'
    BY <2>2, <2>3 DEF EngineInv, TypeOK, EngineTypeOK
  <2>6. ObjectFirst'
    BY <2>2, <2>3, ObjectFirstLasts DEF EngineInv, storeVars, Drawn, ObjectFirst
  <2>7. EngineInv'
    BY <2>4, <2>5, <2>6 DEF EngineInv, TypeOK, StoreInv
  <2>8. PICK f \in Flight :
          /\ mirror' = [mirror EXCEPT ![k] = f]
          /\ f.at \in {"idle", "fetch"}
             \/ (f.at = "register" /\ f.got # None /\ object'[k] # None)
    BY <1>1, <1>3, <2>1 DEF MirrorPut, Fly, NoFlight, Flight
  <2>9. ServerTypeOK'
    BY <1>1, <2>2, <2>7, <2>8 DEF ServerTypeOK, EngineInv
  <2>10. MirrorFirst'
    BY <1>1, <2>3, <2>8 DEF MirrorFirst
  <2>. QED BY <2>7, <2>9, <2>10
<1>4. CASE MirrorRegister(k)
  <2>. DEFINE rec == [Absent EXCEPT !.status = "ready", !.art = mirror[k].got]
  <2>1. PICK ok \in BOOLEAN : PutNew(k, rec, ok)
    BY <1>4 DEF MirrorRegister, SaveOutcome
  <2>2. /\ UNCHANGED engineVars /\ reporter' = reporter
        /\ mirror' = [mirror EXCEPT ![k] = NoFlight]
        /\ mirror[k].got # None /\ object[k] # None
    BY <1>4 DEF MirrorRegister, MirrorFirst
  <2>3. Writable(rec, k)
    BY <1>1, <2>2 DEF Writable, TaskRec, Status, Absent, Flight
  <2>4. /\ StoreInv'
        /\ ~ Drawn(made + 1)
        /\ \A t \in Task : t # made + 1 => keyOf'[t] = keyOf[t]
    BY <2>1, <2>2, <2>3, PutNewKeeps DEF EngineInv, engineVars
  <2>5. ObjectFirst'
    BY <2>2, <2>4, ObjectFirstLasts DEF EngineInv, engineVars, ObjectFirst
  <2>6. EngineInv'
    BY <2>2, <2>4, <2>5
       DEF EngineInv, TypeOK, StoreInv, EngineTypeOK, engineVars
  <2>7. ServerTypeOK'
    BY <1>1, <2>2, <2>6 DEF ServerTypeOK, EngineInv, NoFlight, Flight
  <2>8. MirrorFirst'
    BY <1>1, <2>2 DEF MirrorFirst, NoFlight, engineVars
  <2>. QED BY <2>6, <2>7, <2>8
<1>. QED BY <1>2, <1>3, <1>4 DEF Mirror

\* The progress loop's steps.
LEMMA ReporterKeeps ==
  ASSUME ServerInv, ReportBytes \/ Tick \/ WriteProgress
  PROVE  ServerInv'
<1>. USE DEF ServerInv
<1>1. CASE ReportBytes
  <2>1. /\ UNCHANGED <<storeVars, resolving, spawned, pc, got, object, gcList,
                       mirror, reporter>>
        /\ progress' = [progress EXCEPT !.bytes = TRUE]
    BY <1>1 DEF ReportBytes
  <2>2. StoreInv'
    BY <2>1, ObjectGrows DEF EngineInv, StoreInv
  <2>3. progress' \in [id : Task \cup {NoTask}, bytes : BOOLEAN]
    <3>1. progress \in [id : Task \cup {NoTask}, bytes : BOOLEAN]
      BY DEF EngineInv, TypeOK, EngineTypeOK
    <3>. QED BY <2>1, <3>1
  <2>4. EngineTypeOK'
    BY <2>1, <2>3 DEF EngineInv, TypeOK, EngineTypeOK
  <2>5. ObjectFirst'
    BY <2>1 DEF EngineInv, ObjectFirst, Drawn, storeVars
  <2>6. EngineInv'
    BY <2>2, <2>4, <2>5 DEF EngineInv, TypeOK, StoreInv
  <2>. QED
    BY <2>1, <2>6 DEF ServerTypeOK, EngineInv, MirrorFirst
<1>2. CASE Tick
  <2>1. UNCHANGED <<vars, mirror>> /\ reporter' = progress.id
    BY <1>2 DEF Tick
  <2>2. EngineInv'
    BY <2>1, NextKeeps
  <2>3. reporter' \in Task \cup {NoTask}
    <3>1. progress \in [id : Task \cup {NoTask}, bytes : BOOLEAN]
      BY DEF EngineInv, TypeOK, EngineTypeOK
    <3>. QED BY <2>1, <3>1
  <2>. QED
    BY <2>1, <2>2, <2>3
       DEF ServerTypeOK, EngineInv, MirrorFirst, vars, engineVars
<1>3. CASE WriteProgress
  <2>1. UNCHANGED <<engineVars, mirror>> /\ reporter' = NoTask
    BY <1>3 DEF WriteProgress
  <2>2. StoreInv' /\ UNCHANGED <<made, keyOf>>
    <3>1. reporter \in Task
      BY <1>3 DEF WriteProgress, ServerTypeOK
    <3>2. CASE \E ok \in BOOLEAN : Update(reporter, byID[reporter], ok)
      <4>1. PICK ok \in BOOLEAN, t \in Task :
              t = reporter /\ Update(t, byID[t], ok)
        BY <3>1, <3>2
      <4>2. Writable(byID[t], keyOf[t])
        BY DEF EngineInv, StoreInv, StoreTypeOK, ReadyIsServable, ServableIn,
               Writable
      <4>. QED
        BY <2>1, <4>1, <4>2, UpdateKeeps DEF EngineInv, engineVars
    <3>3. CASE UNCHANGED storeVars
      BY <2>1, <3>3, ObjectGrows DEF EngineInv, StoreInv, engineVars, storeVars
    <3>. QED BY <1>3, <3>2, <3>3 DEF WriteProgress, ProcSaveOutcome
  <2>3. EngineInv'
    BY <2>1, <2>2, QuietKeeps
       DEF engineVars, EngineInv, TypeOK, EngineTypeOK
  <2>. QED
    BY <2>1, <2>3 DEF ServerTypeOK, EngineInv, MirrorFirst, engineVars, NoTask
<1>. QED BY <1>1, <1>2, <1>3

\* A restart drops the flights.
LEMMA ServerRestartKeeps ==
  ASSUME ServerInv, ServerRestart
  PROVE  ServerInv'
<1>1. EngineInv'
  BY RestartKeeps DEF ServerInv, ServerRestart
<1>2. MirrorFirst' /\ ServerTypeOK'
  BY <1>1 DEF ServerRestart, MirrorFirst, ServerTypeOK, EngineInv, NoFlight,
     Flight, NoTask
<1>. QED BY <1>1, <1>2 DEF ServerInv

\* All steps together.
LEMMA ServerNextKeeps ==
  ASSUME ServerInv, [ServerNext]_serverVars
  PROVE  ServerInv'
<1>1. CASE EngineStep \/ ServerDay \/ UNCHANGED serverVars
  BY <1>1, EngineKeeps DEF EngineStep, ServerDay, serverVars, Next, Serve
<1>. QED
  BY <1>1, MirrorKeeps, ReporterKeeps, ServerRestartKeeps DEF ServerNext

-----------------------------------------------------------------------------
(* The index agrees with the file's *)

\* t is stored, of key k, and updated after all others of the key.
LatestOf(k, t) ==
  /\ t \in Task /\ Stored(t) /\ keyOf[t] = k
  /\ \A u \in Task \ {t} : Stored(u) /\ keyOf[u] = k => <<t, u>> \in later

AllLatest == \A k \in Key : \A t \in Task : byKey[k] = t => LatestOf(k, t)

\* A key without an entry has no task left, or has lost one.
Vacant(k) ==
  (\E t \in Task : Stored(t) /\ keyOf[t] = k)
    => \E u \in Task : ~ Stored(u) /\ keyOf[u] = k

AllVacant == \A k \in Key : byKey[k] = NoTask => Vacant(k)

\* This is what the agreement of the index comes to.
LEMMA LatestIsIndex == StoreTypeOK /\ AllLatest /\ AllVacant => IndexIsLatest
<1>1. SUFFICES ASSUME StoreTypeOK, AllLatest, AllVacant, NEW k \in Key
               PROVE  \/ IsIndexFor(Memory, k, byKey[k])
                      \/ /\ byKey[k] = NoTask
                         /\ \E t \in Task : keyOf[t] = k /\ ~ Stored(t)
  BY DEF IndexIsLatest
<1>2. \A t \in Task : StoredIn(Memory, t) <=> Stored(t)
  BY DEF StoredIn, Memory, Stored
<1>3. CASE byKey[k] \in Task
  BY <1>1, <1>2, <1>3 DEF AllLatest, LatestOf, IsIndexFor, Memory
<1>4. CASE byKey[k] = NoTask
  <2>1. CASE \E t \in Task : Stored(t) /\ keyOf[t] = k
    BY <1>1, <1>4, <2>1 DEF AllVacant, Vacant
  <2>2. CASE ~ \E t \in Task : Stored(t) /\ keyOf[t] = k
    BY <1>2, <1>4, <2>2 DEF IsIndexFor
  <2>. QED BY <2>1, <2>2
<1>. QED BY <1>1, <1>3, <1>4 DEF StoreTypeOK

\* A write makes its task the latest of its key and leaves other keys alone.
LEMMA WriteLatest ==
  ASSUME StoreTypeOK, AllLatest, NEW t \in Task, NEW k \in Key,
         NEW rec \in TaskRec, rec.status # "absent", NEW ok \in BOOLEAN,
         Write(t, k, rec, ok), keyOf'[t] = k,
         ~ Stored(t) \/ keyOf[t] = k,
         \A u \in Task \ {t} : keyOf'[u] = keyOf[u]
  PROVE  AllLatest'
<1>1. SUFFICES ASSUME NEW j \in Key, NEW l \in Task, byKey'[j] = l
               PROVE  LatestOf(j, l)'
  BY DEF AllLatest
<1>2. /\ \A u \in Task : u # t => byID'[u] = byID[u]
      /\ byID'[t].status = rec.status
  BY WriteType
<1>3. /\ byKey' = [byKey EXCEPT ![k] = t]
      /\ later' = Touched(t)
  BY DEF Write
<1>4. CASE j = k
  <2>1. l = t
    BY <1>1, <1>3, <1>4 DEF StoreTypeOK
  <2>2. ASSUME NEW u \in Task \ {t}, byID'[u].status # "absent"
        PROVE  <<t, u>> \in later'
    BY <1>2, <1>3, <2>2 DEF Touched, Stored
  <2>. QED BY <1>2, <1>4, <2>1, <2>2 DEF LatestOf, Stored
<1>5. CASE j # k
  <2>1. byKey[j] = l /\ LatestOf(j, l)
    BY <1>1, <1>3, <1>5 DEF AllLatest, StoreTypeOK
  <2>2. l # t
    BY <1>5, <2>1 DEF LatestOf
  <2>3. ASSUME NEW u \in Task \ {l}, byID'[u].status # "absent", keyOf'[u] = j
        PROVE  <<l, u>> \in later'
    <3>1. u # t
      BY <1>5, <2>3
    <3>2. <<l, u>> \in later
      BY <1>2, <2>1, <2>3, <3>1 DEF LatestOf, Stored
    <3>. QED BY <1>3, <2>2, <3>1, <3>2 DEF Touched
  <2>. QED BY <1>2, <2>1, <2>2, <2>3 DEF LatestOf, Stored
<1>. QED BY <1>4, <1>5

\* No operation of the store breaks the agreement.
LEMMA IndexKeeps ==
  ASSUME StoreInv, AllLatest, StoreStep
  PROVE  AllLatest'
<1>. USE DEF StoreInv
<1>1. CASE Updating
  <2>1. PICK t \in Task, rec \in TaskRec, ok \in BOOLEAN : Update(t, rec, ok)
    BY <1>1 DEF Updating
  <2>2. /\ Stored(t) /\ keyOf[t] \in Key /\ UNCHANGED keyOf
        /\ Write(t, keyOf[t], rec, ok)
    BY <2>1 DEF Update, MayUpdate, Drawn
  <2>3. rec.status # "absent"
    <3>1. byID[t].status \in Status
      BY <2>2 DEF StoreTypeOK, TaskRec, Stored
    <3>. QED
      BY <2>1, <3>1 DEF Update, MayUpdate, Can, transitions, Status
  <2>. QED BY <2>2, <2>3, WriteLatest
<1>2. CASE Putting
  <2>1. PICK k \in Key, ok \in BOOLEAN,
             rec \in {r \in TaskRec : r.status \in {"queued", "ready"}} :
          PutNew(k, rec, ok)
    BY <1>2 DEF Putting
  <2>. DEFINE n == made + 1
  <2>2. n \in Task /\ ~ (n <= made)
    BY <2>1, TaskStoreAssumption DEF PutNew, StoreTypeOK, Task
  <2>3. ~ Stored(n)
    BY <2>2
  <2>4. keyOf'[n] = k /\ \A u \in Task \ {n} : keyOf'[u] = keyOf[u]
    BY <2>1, <2>2 DEF PutNew, StoreTypeOK
  <2>5. Write(n, k, rec, ok)
    BY <2>1 DEF PutNew
  <2>. QED BY <2>2, <2>3, <2>4, <2>5, WriteLatest
<1>3. CASE Deleting
  <2>1. PICK t \in Task, ok \in BOOLEAN : Delete(t, ok)
    BY <1>3 DEF Deleting
  <2>2. /\ byID' = [byID EXCEPT ![t] = Absent] /\ keyOf' = keyOf
        /\ later' = {p \in later : p[1] # t /\ p[2] # t}
        /\ keyOf[t] \in Key
    BY <2>1 DEF Delete, Drawn
  <2>3. /\ \A u \in Task \ {t} : byID'[u] = byID[u]
        /\ ~ Stored(t)'
    BY <2>2 DEF StoreTypeOK, Absent, Stored
  <2>4. SUFFICES ASSUME NEW j \in Key, NEW l \in Task, byKey'[j] = l
                 PROVE  LatestOf(j, l)'
    BY DEF AllLatest
  <2>5. byKey[j] = l
    BY <2>1, <2>2, <2>4 DEF Delete, StoreTypeOK, NoTask, Task
  <2>6. LatestOf(j, l)
    BY <2>5 DEF AllLatest
  <2>7. l # t
    <3>1. SUFFICES ASSUME l = t PROVE FALSE
      OBVIOUS
    <3>2. byKey[keyOf[t]] = t /\ j = keyOf[t]
      BY <2>5, <2>6, <3>1 DEF LatestOf
    <3>3. byKey'[j] = NoTask
      BY <2>1, <2>2, <3>2 DEF Delete, StoreTypeOK
    <3>. QED BY <2>4, <3>3 DEF NoTask, Task
  <2>8. \A u \in Task \ {l} : byID'[u].status # "absent" /\ keyOf[u] = j =>
          <<l, u>> \in later'
    BY <2>2, <2>3, <2>6, <2>7 DEF LatestOf, Stored
  <2>. QED BY <2>2, <2>3, <2>6, <2>7, <2>8 DEF LatestOf, Stored
<1>4. CASE NewStore
  <2>1. /\ byID' = disk.byID /\ later' = disk.later /\ keyOf' = keyOf
        /\ \A k \in Key : IsIndexFor(disk, k, byKey'[k])
    BY <1>4 DEF NewStore
  <2>. QED
    BY <2>1 DEF AllLatest, LatestOf, IsIndexFor, Stored, StoredIn, NoTask, Task
<1>5. CASE Age
  <2>1. byID \in [Task -> TaskRec] /\ byID' = Aged(byID)
    BY <1>5 DEF Age, StoreTypeOK
  <2>2. \A t \in Task : byID'[t].status = byID[t].status
    BY <2>1, AgedKeeps
  <2>3. byKey' = byKey /\ later' = later /\ keyOf' = keyOf
    BY <1>5 DEF Age
  <2>. QED
    BY <2>2, <2>3 DEF AllLatest, LatestOf, Stored
<1>6. CASE UNCHANGED storeVars
  BY <1>6 DEF storeVars, AllLatest, LatestOf, Stored
<1>. QED BY <1>1, <1>2, <1>3, <1>4, <1>5, <1>6 DEF StoreStep

\* Only a deletion leaves a key without an entry.
LEMMA VacantKeeps ==
  ASSUME StoreInv, AllVacant, StoreStep
  PROVE  AllVacant'
<1>. USE DEF StoreInv
<1>1. SUFFICES ASSUME NEW j \in Key, byKey'[j] = NoTask
               PROVE  Vacant(j)'
  BY DEF AllVacant
<1>2. ASSUME NEW t \in Task, NEW k \in Key, NEW rec \in TaskRec,
             rec.status # "absent", NEW ok \in BOOLEAN, Write(t, k, rec, ok),
             keyOf'[t] = k, \A u \in Task \ {t} : keyOf'[u] = keyOf[u],
             ~ Stored(t) => ~ Drawn(t), Stored(t) => keyOf[t] = k
      PROVE  Vacant(j)'
  <2>1. byKey' = [byKey EXCEPT ![k] = t] /\ t # NoTask
    BY <1>2 DEF Write, Task, NoTask
  <2>2. j # k /\ byKey[j] = NoTask
    BY <1>1, <2>1 DEF StoreTypeOK
  <2>3. \A u \in Task \ {t} : byID'[u] = byID[u] /\ keyOf'[u] = keyOf[u]
    BY <1>2, WriteType
  <2>4. keyOf[t] # j
    BY <1>2, <2>2 DEF Drawn
  <2>. QED
    BY <1>2, <2>2, <2>3, <2>4 DEF AllVacant, Vacant, Stored
<1>3. CASE Updating
  <2>1. PICK t \in Task, rec \in TaskRec, ok \in BOOLEAN : Update(t, rec, ok)
    BY <1>3 DEF Updating
  <2>2. /\ Stored(t) /\ keyOf[t] \in Key /\ UNCHANGED keyOf
        /\ Write(t, keyOf[t], rec, ok)
    BY <2>1 DEF Update, MayUpdate, Drawn
  <2>3. rec.status # "absent"
    <3>1. byID[t].status \in Status
      BY <2>2 DEF StoreTypeOK, TaskRec, Stored
    <3>. QED
      BY <2>1, <3>1 DEF Update, MayUpdate, Can, transitions, Status
  <2>. QED BY <1>2, <2>2, <2>3
<1>4. CASE Putting
  <2>1. PICK k \in Key, ok \in BOOLEAN,
             rec \in {r \in TaskRec : r.status \in {"queued", "ready"}} :
          PutNew(k, rec, ok)
    BY <1>4 DEF Putting
  <2>. DEFINE n == made + 1
  <2>2. n \in Task /\ ~ (n <= made)
    BY <2>1, TaskStoreAssumption DEF PutNew, StoreTypeOK, Task
  <2>3. ~ Stored(n) /\ ~ Drawn(n)
    BY <2>2 DEF Drawn
  <2>4. keyOf'[n] = k /\ \A u \in Task \ {n} : keyOf'[u] = keyOf[u]
    BY <2>1, <2>2 DEF PutNew, StoreTypeOK
  <2>5. Write(n, k, rec, ok)
    BY <2>1 DEF PutNew
  <2>. QED BY <1>2, <2>1, <2>2, <2>3, <2>4, <2>5
<1>5. CASE Deleting
  <2>1. PICK t \in Task, ok \in BOOLEAN : Delete(t, ok)
    BY <1>5 DEF Deleting
  <2>2. /\ byID' = [byID EXCEPT ![t] = Absent] /\ keyOf' = keyOf
        /\ keyOf[t] \in Key
    BY <2>1 DEF Delete, Drawn
  <2>3. /\ \A u \in Task \ {t} : byID'[u] = byID[u]
        /\ ~ Stored(t)'
    BY <2>2 DEF StoreTypeOK, Absent, Stored
  <2>4. CASE keyOf[t] = j
    BY <2>2, <2>3, <2>4 DEF Vacant
  <2>5. CASE keyOf[t] # j
    <3>1. byKey[j] = NoTask
      BY <1>1, <2>1, <2>2, <2>5 DEF Delete, StoreTypeOK
    <3>. QED
      BY <2>2, <2>3, <2>5, <3>1 DEF AllVacant, Vacant, Stored
  <2>. QED BY <2>4, <2>5
<1>6. CASE NewStore
  <2>1. /\ byID' = disk.byID /\ keyOf' = keyOf
        /\ IsIndexFor(disk, j, NoTask)
    BY <1>1, <1>6 DEF NewStore
  <2>2. NoTask \notin Task
    BY DEF NoTask, Task
  <2>. QED
    BY <2>1, <2>2 DEF Vacant, IsIndexFor, Stored, StoredIn
<1>7. CASE Age
  <2>1. byID \in [Task -> TaskRec] /\ byID' = Aged(byID)
    BY <1>7 DEF Age, StoreTypeOK
  <2>2. \A t \in Task : byID'[t].status = byID[t].status
    BY <2>1, AgedKeeps
  <2>3. byKey' = byKey /\ keyOf' = keyOf
    BY <1>7 DEF Age
  <2>. QED
    BY <1>1, <2>2, <2>3 DEF AllVacant, Vacant, Stored
<1>8. CASE UNCHANGED storeVars
  BY <1>1, <1>8 DEF storeVars, AllVacant, Vacant, Stored
<1>. QED BY <1>3, <1>4, <1>5, <1>6, <1>7, <1>8 DEF StoreStep

\* The server's steps are operations of the store, too.
LEMMA ServerStoreStep ==
  ASSUME ServerInv, [ServerNext]_serverVars
  PROVE  StoreStep
<1>. USE DEF ServerInv
<1>1. CASE EngineStep \/ ServerDay \/ ServerRestart \/ UNCHANGED serverVars
  BY <1>1, EngineStoreStep
     DEF EngineStep, ServerDay, ServerRestart, serverVars, Next, Serve
<1>2. CASE ReportBytes \/ Tick
  BY <1>2 DEF ReportBytes, Tick, vars, StoreStep
<1>3. CASE WriteProgress
  <2>1. reporter \in Task /\ byID[reporter] \in TaskRec
    BY <1>3 DEF WriteProgress, ServerTypeOK, TypeOK, StoreTypeOK
  <2>. QED
    BY <1>3, <2>1 DEF WriteProgress, ProcSaveOutcome, StoreStep, Updating
<1>4. ASSUME NEW k \in Key, Mirror(k) PROVE StoreStep
  <2>1. CASE MirrorLookup(k) \/ MirrorFetch(k) \/ MirrorPut(k)
    BY <2>1 DEF MirrorLookup, MirrorFetch, MirrorPut, vars, StoreStep
  <2>2. CASE MirrorRegister(k)
    <3>. DEFINE rec == [Absent EXCEPT !.status = "ready",
                                      !.art = mirror[k].got]
    <3>1. mirror[k].got \in Version \cup {None}
      BY DEF ServerTypeOK, Flight
    <3>2. rec \in TaskRec /\ rec.status = "ready"
      BY <3>1 DEF Absent, TaskRec, Status
    <3>3. \E ok \in BOOLEAN : PutNew(k, rec, ok)
      BY <2>2 DEF MirrorRegister, SaveOutcome
    <3>. QED BY <3>2, <3>3 DEF StoreStep, Putting
  <2>. QED BY <1>4, <2>1, <2>2 DEF Mirror
<1>. QED BY <1>1, <1>2, <1>3, <1>4 DEF ServerNext

-----------------------------------------------------------------------------
(* The life cycle *)

\* The refinement mapping.
Statuses(tasks) == [t \in Task |-> tasks[t].status]

\* A save, successful or not, is a save of the abstract specification.
LEMMA PersistIsSave ==
  ASSUME NEW ok \in BOOLEAN, Persist(ok)
  PROVE  \/ Statuses(disk.byID)' = Statuses(disk.byID)
         \/ Statuses(disk.byID)' = Statuses(byID)'
<1>1. CASE ok
  BY <1>1 DEF Persist, Statuses
<1>2. CASE ~ ok
  BY <1>2 DEF Persist, Statuses
<1>. QED BY <1>1, <1>2

\* A change of task t alone becomes its new status in the mapping.
LEMMA StatusesBecome ==
  ASSUME NEW t \in Task, NEW s,
         \A u \in Task : u # t => byID'[u].status = byID[u].status,
         byID'[t].status = s
  PROVE  Statuses(byID)' = [Statuses(byID) EXCEPT ![t] = s]
BY DEF Statuses

\* Every operation of the store is a step of the life cycle, or none.
LEMMA StoreStepRefines ==
  ASSUME StoreInv, StoreStep
  PROVE  [Lifecycle!Next]_(Lifecycle!lifecycleVars)
<1>. DEFINE status == Statuses(byID)
            saved == Statuses(disk.byID)
<1>. USE DEF StoreInv, Lifecycle!lifecycleVars, Lifecycle!Next, Lifecycle!Change
<1>1. CASE Updating
  <2>1. PICK t \in Task, rec \in TaskRec, ok \in BOOLEAN : Update(t, rec, ok)
    BY <1>1 DEF Updating
  <2>2. /\ Stored(t) /\ keyOf[t] \in Key /\ Persist(ok)
        /\ Write(t, keyOf[t], rec, ok)
        /\ rec.status \in transitions[byID[t].status]
           \/ rec.status = byID[t].status
    BY <2>1 DEF Update, MayUpdate, Drawn, Can, Write
  <2>3. status' = [status EXCEPT ![t] = rec.status]
    <3>1. /\ \A u \in Task : u # t => byID'[u] = byID[u]
          /\ byID'[t].status = rec.status
      BY <2>2, WriteType
    <3>. QED BY <3>1, StatusesBecome
  <2>4. saved' = saved \/ saved' = status'
    BY <2>2, PersistIsSave
  <2>5. status[t] = byID[t].status /\ status[t] # "absent"
    BY <2>2 DEF Statuses, Stored
  <2>6. CASE rec.status = byID[t].status
    <3>1. status' = status
      BY <2>3, <2>5, <2>6 DEF Statuses
    <3>. QED BY <2>4, <3>1 DEF Statuses
  <2>7. CASE rec.status \in transitions[byID[t].status]
    <3>1. Lifecycle!transitions = transitions
      BY DEF Lifecycle!transitions, transitions
    <3>2. rec.status \in Lifecycle!transitions[status[t]]
      BY <2>5, <2>7, <3>1
    <3>3. Lifecycle!Follow(t)
      BY <2>3, <2>5, <3>2 DEF Lifecycle!Follow, Lifecycle!Become, Statuses
    <3>. QED BY <2>4, <3>3 DEF Statuses
  <2>. QED BY <2>2, <2>6, <2>7
<1>2. CASE Putting
  <2>1. PICK k \in Key, ok \in BOOLEAN,
             rec \in {r \in TaskRec : r.status \in {"queued", "ready"}} :
          PutNew(k, rec, ok)
    BY <1>2 DEF Putting
  <2>. DEFINE n == made + 1
  <2>2. n \in Task /\ ~ (n <= made)
    BY <2>1, TaskStoreAssumption DEF PutNew, StoreTypeOK, Task
  <2>3. status[n] = "absent"
    BY <2>2 DEF Stored, Statuses
  <2>4. Write(n, k, rec, ok) /\ Persist(ok)
    BY <2>1 DEF PutNew, Write
  <2>5. status' = [status EXCEPT ![n] = rec.status]
    <3>1. /\ \A u \in Task : u # n => byID'[u] = byID[u]
          /\ byID'[n].status = rec.status
      BY <2>2, <2>4, WriteType
    <3>. QED BY <2>2, <3>1, StatusesBecome
  <2>6. saved' = saved \/ saved' = status'
    BY <2>4, PersistIsSave
  <2>. QED
    BY <2>1, <2>2, <2>3, <2>5, <2>6
       DEF Lifecycle!Create, Lifecycle!Become, Statuses
<1>3. CASE Deleting
  <2>1. PICK t \in Task, ok \in BOOLEAN : Delete(t, ok)
    BY <1>3 DEF Deleting
  <2>2. /\ Stored(t) /\ Persist(ok)
        /\ byID' = [byID EXCEPT ![t] = Absent]
    BY <2>1 DEF Delete
  <2>3. status' = [status EXCEPT ![t] = "absent"]
    <3>1. /\ \A u \in Task : u # t => byID'[u] = byID[u]
          /\ byID'[t].status = "absent"
      BY <2>2 DEF StoreTypeOK, Absent
    <3>. QED BY <3>1, StatusesBecome
  <2>4. saved' = saved \/ saved' = status'
    BY <2>2, PersistIsSave
  <2>5. status[t] # "absent"
    BY <2>2 DEF Statuses, Stored
  <2>. QED
    BY <2>3, <2>4, <2>5 DEF Lifecycle!Forget, Lifecycle!Become, Statuses
<1>4. CASE NewStore
  BY <1>4 DEF NewStore, Lifecycle!Restart
<1>5. CASE Age
  <2>1. /\ byID \in [Task -> TaskRec] /\ disk.byID \in [Task -> TaskRec]
        /\ byID' = Aged(byID) /\ disk'.byID = Aged(disk.byID)
    BY <1>5 DEF Age, StoreTypeOK, Image
  <2>2. /\ \A t \in Task : byID'[t].status = byID[t].status
        /\ \A t \in Task : disk'.byID[t].status = disk.byID[t].status
    BY <2>1, AgedKeeps
  <2>. QED BY <2>2
<1>6. CASE UNCHANGED storeVars
  BY <1>6 DEF storeVars
<1>. QED BY <1>1, <1>2, <1>3, <1>4, <1>5, <1>6 DEF StoreStep

-----------------------------------------------------------------------------

\* The server's invariant holds for every number of tasks, keys and contents
\* and every combination of faults.
THEOREM ServerInvariant == ServerSpec => []ServerInv
BY ServerInitInv, ServerNextKeeps, PTL DEF ServerSpec

\* The server's state is well typed.
THEOREM ServerTypeCorrect == ServerSpec => []ServerTypeOK
<1>1. ServerInv => ServerTypeOK
  BY DEF ServerInv
<1>. QED BY <1>1, ServerInvariant, PTL

\* A ready task is servable although the mirrors register tasks that are born
\* ready: they, too, store first (mirrorcore.go:65-81).
THEOREM ServerReadyServable == ServerSpec => []ReadyIsServable
<1>1. ServerInv => ReadyIsServable
  BY DEF ServerInv, EngineInv, StoreInv
<1>. QED BY <1>1, ServerInvariant, PTL

\* The key's index is the one a restart would build, whoever wrote last and
\* whatever was deleted (store.go:69-96 against 112-141 and 181-193), but for a key
\* whose entry a deletion has cleared.
THEOREM IndexAgrees == ServerSpec => []IndexIsLatest
<1>1. ServerInit => AllLatest /\ AllVacant
  BY DEF ServerInit, Init, StoreInit, AllLatest, AllVacant, Vacant, NoTask, Task,
     Stored, Absent
<1>2. ServerInv /\ (AllLatest /\ AllVacant) /\ [ServerNext]_serverVars
        => (AllLatest /\ AllVacant)'
  BY ServerStoreStep, IndexKeeps, VacantKeeps DEF ServerInv, EngineInv
<1>3. ServerInv /\ (AllLatest /\ AllVacant) => IndexIsLatest
  BY LatestIsIndex DEF ServerInv, EngineInv, StoreInv
<1>. QED BY <1>1, <1>2, <1>3, ServerInvariant, PTL DEF ServerSpec

\* The server implements the life cycle: every step of every writer is a step
\* of TaskLifecycle, and the file lags behind by whole saves.
THEOREM ServerKeepsLifecycle == ServerSpec => KeepsLifecycle
<1>1. ServerInit => Lifecycle!Init
  BY DEF ServerInit, Init, StoreInit, Memory, Lifecycle!Init,
     Lifecycle!Unborn, Absent
<1>2. ServerInv /\ [ServerNext]_serverVars
        => [Lifecycle!Next]_(Lifecycle!lifecycleVars)
  BY ServerStoreStep, StoreStepRefines DEF ServerInv, EngineInv
<1>. QED
  BY <1>1, <1>2, ServerInvariant, PTL
     DEF ServerSpec, KeepsLifecycle, Lifecycle!Spec

-----------------------------------------------------------------------------
(* The processors among the other writers *)

\* The mirrors and the progress loop move no task under its processor: the ones
\* register tasks of their own, the other writes back what it has read.
LEMMA OthersInStep ==
  ASSUME ServerInv, InStep,
         (\E k \in Key : Mirror(k)) \/ ReportBytes \/ Tick \/ WriteProgress
  PROVE  InStep'
<1>. USE DEF ServerInv
<1>1. UNCHANGED <<pc, resolving>>
  BY DEF Mirror, MirrorLookup, MirrorFetch, MirrorPut, MirrorRegister, ReportBytes,
     Tick, WriteProgress, vars, engineVars
<1>2. StoreInv
  BY DEF EngineInv
<1>3. CASE UNCHANGED <<byID, keyOf>>
  BY <1>1, <1>3, InStepLasts DEF Drawn
<1>4. CASE \E k \in Key : MirrorRegister(k)
  <2>1. PICK k \in Key : MirrorRegister(k)
    BY <1>4
  <2>. DEFINE rec == [Absent EXCEPT !.status = "ready", !.art = mirror[k].got]
  <2>2. rec \in TaskRec /\ rec.status = "ready"
    BY DEF ServerTypeOK, Flight, Absent, TaskRec, Status
  <2>3. PICK ok \in BOOLEAN : PutNew(k, rec, ok)
    BY <2>1 DEF MirrorRegister, SaveOutcome
  <2>. HIDE DEF rec
  <2>4. /\ made + 1 \in Task /\ ~ Drawn(made + 1)
        /\ byID'[made + 1].status = "ready"
        /\ \A u \in Task : Drawn(u) => byID'[u] = byID[u] /\ keyOf'[u] = keyOf[u]
        /\ \A u \in Task \ {made + 1} : byID'[u] = byID[u]
    BY <1>2, <2>2, <2>3, PutNewIs
  <2>5. \A u \in Task : Drawn(u) => keyOf'[u] \in Key
    BY <2>4 DEF Drawn
  <2>6. \A u \in Task : byID'[u].status # "absent" =>
          \/ byID'[u].status = byID[u].status /\ byID'[u].retries = byID[u].retries
          \/ ~ Drawn(u) /\ byID'[u].status \in Status
    BY <2>4 DEF Status
  <2>. QED
    BY <1>1, <2>5, <2>6, InStepLasts
<1>5. CASE WriteProgress
  <2>1. PICK t \in Task : t = reporter
    BY <1>5 DEF WriteProgress, ServerTypeOK
  <2>2. CASE UNCHANGED storeVars
    BY <1>3, <2>2 DEF storeVars
  <2>3. CASE \E ok \in BOOLEAN : Update(t, byID[t], ok)
    <3>1. byID[t] \in TaskRec
      BY <1>2 DEF StoreInv, StoreTypeOK
    <3>2. /\ keyOf' = keyOf
          /\ byID'[t].status = byID[t].status /\ byID'[t].retries = byID[t].retries
          /\ \A u \in Task \ {t} : byID'[u] = byID[u]
      BY <1>2, <2>3, <3>1, UpdateIs
    <3>3. \A u \in Task :
            byID'[u].status = byID[u].status /\ byID'[u].retries = byID[u].retries
      BY <3>2
    <3>. QED
      BY <1>1, <3>2, <3>3, InStepLasts DEF Drawn
  <2>. QED
    BY <1>5, <2>1, <2>2, <2>3 DEF WriteProgress, ProcSaveOutcome
<1>6. CASE (\E k \in Key : MirrorLookup(k) \/ MirrorFetch(k) \/ MirrorPut(k))
             \/ ReportBytes \/ Tick
  BY <1>3, <1>6 DEF MirrorLookup, MirrorFetch, MirrorPut, ReportBytes, Tick, vars,
     storeVars
<1>. QED
  BY <1>4, <1>5, <1>6 DEF Mirror

LEMMA ServerNextInStep ==
  ASSUME ServerInv, InStep, [ServerNext]_serverVars
  PROVE  InStep'
<1>1. CASE EngineStep \/ ServerDay \/ ServerRestart \/ UNCHANGED serverVars
  BY <1>1, NextInStep
     DEF ServerInv, EngineStep, ServerDay, ServerRestart, serverVars, Next, Serve
<1>. QED
  BY <1>1, OthersInStep DEF ServerNext

-----------------------------------------------------------------------------
(* Terminal tasks *)

\* Why GC takes no ready task but one that has failed before: a task says
\* failed or dead only with a failure counted, and no count ever goes down.
FailuresCount ==
  /\ \A t \in Task : byID[t].status \in {"failed", "dead"} => byID[t].retries > 0
  /\ \A t \in Task :
       disk.byID[t].status \in {"failed", "dead"} => disk.byID[t].retries > 0
  /\ \A t \in gcList : Drawn(t) /\ (Stored(t) => byID[t].retries > 0)

\* Every step of the server but its restart.
LEMMA ServerRecords ==
  ASSUME ServerInv, InStep, FailuresCount, [ServerNext]_serverVars, ~ ServerRestart
  PROVE  RecordStep
<1>. USE DEF ServerInv
<1>1. CASE EngineStep \/ ServerDay \/ UNCHANGED serverVars
  BY <1>1, ServeRecords DEF EngineStep, ServerDay, serverVars, Serve, RecordStep, DayPasses
<1>2. CASE ReportBytes \/ Tick
  BY <1>2 DEF ReportBytes, Tick, vars, RecordStep, Writing
<1>3. CASE WriteProgress
  <2>1. PICK t \in Task : t = reporter
    BY <1>3 DEF WriteProgress, ServerTypeOK
  <2>2. byID[t] \in TaskRec
    BY DEF EngineInv, StoreInv, StoreTypeOK
  <2>3. byID[t].retries \in Nat
    BY <2>2 DEF TaskRec
  <2>4. Honest(t, byID[t])
    BY <2>2, <2>3 DEF Honest, FailuresCount
  <2>. QED
    BY <1>3, <2>1, <2>4 DEF WriteProgress, ProcSaveOutcome, RecordStep, Writing, Recording
<1>4. ASSUME NEW k \in Key, Mirror(k) PROVE RecordStep
  <2>1. CASE MirrorLookup(k) \/ MirrorFetch(k) \/ MirrorPut(k)
    BY <2>1 DEF MirrorLookup, MirrorFetch, MirrorPut, vars, RecordStep, Writing
  <2>2. CASE MirrorRegister(k)
    <3>. DEFINE rec == [Absent EXCEPT !.status = "ready",
                                      !.art = mirror[k].got]
    <3>1. mirror[k].got \in Version \cup {None}
      BY DEF ServerTypeOK, Flight
    <3>2. rec \in TaskRec /\ rec.status = "ready"
      BY <3>1 DEF Absent, TaskRec, Status
    <3>3. \E ok \in BOOLEAN : PutNew(k, rec, ok)
      BY <2>2 DEF MirrorRegister, SaveOutcome
    <3>. QED BY <3>2, <3>3 DEF RecordStep, Writing, Putting
  <2>. QED BY <1>4, <2>1, <2>2 DEF Mirror
<1>. QED BY <1>1, <1>2, <1>3, <1>4 DEF ServerNext

\* A step that changes one task keeps the counts if the task keeps its own.
LEMMA CountsKept ==
  ASSUME FailuresCount, gcList \in SUBSET Task, gcList' \in SUBSET gcList,
         NEW t \in Task,
         disk' = disk \/ disk'.byID = byID',
         \A u \in Task \ {t} : byID'[u] = byID[u],
         \A u \in Task : Drawn(u) => keyOf'[u] \in Key,
         byID'[t].status \in {"failed", "dead"} => byID'[t].retries > 0,
         t \in gcList /\ byID'[t].status # "absent" => byID'[t].retries > 0
  PROVE  FailuresCount'
<1>1. \A u \in Task :
        byID'[u].status \in {"failed", "dead"} => byID'[u].retries > 0
  BY DEF FailuresCount
<1>2. \A u \in Task :
        disk'.byID[u].status \in {"failed", "dead"} => disk'.byID[u].retries > 0
  <2>1. CASE disk' = disk
    BY <2>1 DEF FailuresCount
  <2>2. CASE disk'.byID = byID'
    BY <1>1, <2>2
  <2>. QED BY <2>1, <2>2
<1>3. \A u \in gcList' :
        keyOf'[u] \in Key /\ (byID'[u].status # "absent" => byID'[u].retries > 0)
  <2>1. SUFFICES ASSUME NEW u \in gcList
                 PROVE  /\ keyOf'[u] \in Key
                        /\ byID'[u].status # "absent" => byID'[u].retries > 0
    OBVIOUS
  <2>2. u \in Task /\ Drawn(u) /\ (Stored(u) => byID[u].retries > 0)
    BY DEF FailuresCount
  <2>3. CASE u = t
    BY <2>2, <2>3
  <2>4. CASE u # t
    BY <2>2, <2>4 DEF Stored
  <2>. QED BY <2>3, <2>4
<1>. QED
  BY <1>1, <1>2, <1>3 DEF FailuresCount, Drawn, Stored

\* No operation of a running server forgets a failure.
LEMMA RecordKeepsCounts ==
  ASSUME ServerInv, FailuresCount, RecordStep, gcList' \in SUBSET gcList
  PROVE  FailuresCount'
<1>1. StoreInv /\ StoreTypeOK /\ gcList \in SUBSET Task
  BY DEF ServerInv, EngineInv, StoreInv, TypeOK, EngineTypeOK
<1>2. CASE Recording
  <2>1. PICK t \in Task, ok \in BOOLEAN :
          \E rec : Honest(t, rec) /\ Update(t, rec, ok)
    BY <1>2 DEF Recording
  <2>2. PICK rec : Honest(t, rec) /\ Update(t, rec, ok)
    BY <2>1
  <2>3. rec \in TaskRec /\ byID[t] \in TaskRec
    BY <1>1, <2>2 DEF Honest, StoreTypeOK
  <2>4. /\ Stored(t) /\ keyOf' = keyOf
        /\ byID'[t].status = rec.status /\ byID'[t].retries = rec.retries
        /\ \A u \in Task \ {t} : byID'[u] = byID[u]
    BY <1>1, <2>2, <2>3, UpdateIs
  <2>5. disk' = disk \/ disk'.byID = byID'
    BY <2>2 DEF Update, Write, Persist
  <2>6. /\ byID[t].retries \in Nat /\ rec.retries \in Nat
        /\ rec.retries >= byID[t].retries
    BY <2>2, <2>3 DEF Honest, TaskRec
  <2>7. rec.status = "dead" => byID[t].status \in {"failed", "dead"}
    <3>1. byID[t].status \in Status
      BY <2>3, <2>4 DEF TaskRec, Stored
    <3>. QED
      BY <2>2, <3>1 DEF Update, MayUpdate, Can, transitions, Status
  <2>8. byID[t].status \in {"failed", "dead"} => rec.retries > 0
    BY <2>6 DEF FailuresCount
  <2>9. rec.status \in {"failed", "dead"} => rec.retries > 0
    BY <2>2, <2>7, <2>8 DEF Honest
  <2>10. t \in gcList => rec.retries > 0
    BY <2>4, <2>6 DEF FailuresCount
  <2>. QED
    BY <1>1, <2>4, <2>5, <2>9, <2>10, CountsKept DEF Drawn
<1>3. CASE Putting
  <2>1. PICK k \in Key, ok \in BOOLEAN,
             rec \in {r \in TaskRec : r.status \in {"queued", "ready"}} :
          PutNew(k, rec, ok)
    BY <1>3 DEF Putting
  <2>. DEFINE n == made + 1
  <2>2. /\ n \in Task /\ ~ Drawn(n)
        /\ byID'[n].status = rec.status
        /\ \A u \in Task : Drawn(u) => byID'[u] = byID[u] /\ keyOf'[u] = keyOf[u]
        /\ \A u \in Task \ {n} : byID'[u] = byID[u]
    BY <1>1, <2>1, PutNewIs
  <2>3. disk' = disk \/ disk'.byID = byID'
    BY <2>1 DEF PutNew, Write, Persist
  <2>4. n \notin gcList
    BY <2>2 DEF FailuresCount
  <2>. HIDE DEF n
  <2>5. \A u \in Task : Drawn(u) => keyOf'[u] \in Key
    BY <2>2 DEF Drawn
  <2>6. byID'[n].status \notin {"failed", "dead"}
    BY <2>1, <2>2
  <2>. QED
    BY <1>1, <2>2, <2>3, <2>4, <2>5, <2>6, CountsKept
<1>4. CASE Collecting
  <2>1. PICK t \in gcList, ok \in BOOLEAN : Delete(t, ok)
    BY <1>4 DEF Collecting
  <2>2. /\ t \in Task /\ byID' = [byID EXCEPT ![t] = Absent] /\ keyOf' = keyOf
        /\ disk' = disk \/ disk'.byID = byID'
    BY <1>1, <2>1 DEF Delete, Persist
  <2>3. byID'[t].status = "absent" /\ \A u \in Task \ {t} : byID'[u] = byID[u]
    BY <1>1, <2>2 DEF StoreTypeOK, Absent
  <2>. QED
    BY <1>1, <2>2, <2>3, CountsKept DEF Drawn
<1>5. CASE Age
  <2>1. /\ byID \in [Task -> TaskRec] /\ disk.byID \in [Task -> TaskRec]
        /\ byID' = Aged(byID) /\ disk'.byID = Aged(disk.byID) /\ keyOf' = keyOf
    BY <1>1, <1>5 DEF Age, StoreTypeOK, Image
  <2>2. /\ \A t \in Task : /\ byID'[t].status = byID[t].status
                           /\ byID'[t].retries = byID[t].retries
        /\ \A t \in Task : /\ disk'.byID[t].status = disk.byID[t].status
                           /\ disk'.byID[t].retries = disk.byID[t].retries
    BY <2>1, AgedKeeps
  <2>. QED
    BY <1>1, <2>1, <2>2 DEF FailuresCount, Drawn, Stored
<1>6. CASE UNCHANGED storeVars
  BY <1>6 DEF storeVars, FailuresCount, Drawn, Stored
<1>. QED
  BY <1>2, <1>3, <1>4, <1>5, <1>6 DEF RecordStep, Writing

\* What GC lists has failed.
LEMMA CountsLast ==
  ASSUME ServerInv, InStep, FailuresCount, [ServerNext]_serverVars
  PROVE  FailuresCount'
<1>1. CASE ServerRestart
  <2>1. byID' = disk.byID /\ disk' = disk /\ gcList' = {}
    BY <1>1 DEF ServerRestart, Restart, NewStore
  <2>. QED
    BY <2>1 DEF FailuresCount
<1>2. CASE GCList
  <2>1. /\ UNCHANGED storeVars
        /\ \A t \in gcList' : t \in Task /\ byID[t].status \in {"failed", "dead"}
    BY <1>2 DEF GCList
  <2>2. \A t \in gcList' : Drawn(t) /\ byID[t].retries > 0
    BY <2>1 DEF ServerInv, EngineInv, StoreInv, Stored, FailuresCount
  <2>. QED
    BY <2>1, <2>2 DEF FailuresCount, storeVars, Drawn, Stored
<1>3. CASE ~ ServerRestart /\ ~ GCList
  <2>1. gcList' \in SUBSET gcList
    <3>1. CASE \E t \in Task : GCDelete(t)
      BY <3>1 DEF GCDelete
    <3>2. CASE UNCHANGED gcList
      BY <3>2
    <3>3. CASE \E t \in Task : Process(t)
      BY <3>3 DEF Process, Start, Activate, Fetch, Downloaded, Uploading, Upload,
         Registering, Register, EndFetch, Fail, Kill, Backoff, Exit, SetStatus
    <3>4. CASE (\E k \in Key : Resolve(k) \/ Mirror(k)) \/ ReportBytes \/ Tick
                 \/ WriteProgress \/ ServerDay \/ UNCHANGED serverVars
      BY <3>4 DEF Resolve, ResolveLookup, ResolveRetry, ResolveCreate, Mirror,
         MirrorLookup, MirrorFetch, MirrorPut, MirrorRegister, ReportBytes, Tick,
         WriteProgress, ServerDay, DayPasses, vars, engineVars, serverVars
    <3>. QED
      BY <1>3, <3>1, <3>3, <3>4 DEF ServerNext, EngineStep
  <2>. QED
    BY <1>3, <2>1, ServerRecords, RecordKeepsCounts
<1>. QED
  BY <1>1, <1>2, <1>3

\* No operation but GC's and a restart's touches a task that is over.
LEMMA TerminalKept ==
  ASSUME ServerInv, FailuresCount, RecordStep, NEW t \in Task,
         Terminal(byID[t].status)
  PROVE  \/ byID'[t].status = byID[t].status /\ byID'[t].art = byID[t].art
         \/ /\ byID'[t] = Absent /\ t \in gcList
            /\ byID[t].status = "dead" \/ byID[t].retries > 0
<1>1. EngineInv /\ byID[t].status \in TaskOver /\ Stored(t) /\ Drawn(t)
  BY DEF Terminal, TaskOver, ServerInv, EngineInv, StoreInv, Stored
<1>2. t \in gcList => byID[t].retries > 0
  BY <1>1 DEF FailuresCount
<1>. QED
  BY <1>1, <1>2, RecordMoves

-----------------------------------------------------------------------------

\* Neither the mirrors nor the progress loop comes between a processor and its
\* task, whatever saves fail, restarts happen and Resolves stall.
THEOREM ServerInStepTheorem == ServerSpec => []ProcessorInStep
<1>1. ServerInit => ServerInv /\ InStep
  BY ServerInitInv, InitInStep DEF ServerInit
<1>2. (ServerInv /\ InStep) /\ [ServerNext]_serverVars => (ServerInv /\ InStep)'
  BY ServerNextKeeps, ServerNextInStep
<1>3. ServerInv /\ InStep => ProcessorInStep
  BY DEF InStep
<1>. QED
  BY <1>1, <1>2, <1>3, PTL DEF ServerSpec

\* A task that is over stays what it is until a restart: no late processor,
\* retry or progress write changes it; GC alone takes it away, a ready one only
\* if it had failed before (engine.go:367-373).
THEOREM TerminalTheorem == ServerSpec => TerminalIsFinal
<1>. DEFINE Inv == ServerInv /\ InStep /\ FailuresCount
            Final == ServerRestart \/ \A t \in Task :
              Terminal(byID[t].status) =>
                \/ byID'[t].status = byID[t].status /\ byID'[t].art = byID[t].art
                \/ /\ byID'[t] = Absent /\ t \in gcList
                   /\ byID[t].status = "dead" \/ byID[t].retries > 0
<1>1. ServerInit => Inv
  <2>1. ServerInit => FailuresCount
    BY DEF ServerInit, Init, StoreInit, Memory, Absent, FailuresCount
  <2>. QED
    BY <2>1, ServerInitInv, InitInStep DEF ServerInit
<1>2. Inv /\ [ServerNext]_serverVars => Inv'
  BY ServerNextKeeps, ServerNextInStep, CountsLast
<1>3. Inv /\ [ServerNext]_serverVars => [Final]_serverVars
  BY ServerRecords, TerminalKept
<1>. QED
  BY <1>1, <1>2, <1>3, PTL DEF ServerSpec, TerminalIsFinal

-----------------------------------------------------------------------------
(* The engine as a client sees it: it runs, and its saves succeed *)

\* A task that is not over and has no processor has just been made, and its
\* processor is about to start.
Attended ==
  \A t \in Task :
    byID[t].status \notin TaskOver /\ pc[t] \in {"idle", "exit"} =>
      pc[t] = "idle" /\ spawned[t] > 0 /\ byID[t].status = "queued"

\* So what GC finds failed or dead for more than a day is dead.
OldIsDead ==
  /\ \A t \in Task : byID[t].old => byID[t].status = "dead"
  /\ \A t \in gcList : Drawn(t) /\ byID[t].status \in {"dead", "absent"}

\* A key leads to its own tasks.
KeysAgree ==
  \A k \in Key, t \in Task : byKey[k] = t \/ resolving[k].id = t => keyOf[t] = k

RunningInv ==
  /\ EngineInv /\ InStep /\ OnTime /\ BudgetInv
  /\ Attended /\ OldIsDead /\ KeysAgree

\* What a processor asks of its task is allowed as long as there is the task.
LEMMA NoneIsRefused ==
  ASSUME InStep, OnTime, NEW t \in Task, Stored(t)
  PROVE  /\ pc[t] = "activate" => MayUpdate(t, "downloading")
         /\ pc[t] = "fetched" => MayUpdate(t, "downloaded")
         /\ pc[t] = "downloaded" => MayUpdate(t, "uploading")
         /\ pc[t] = "stored" => MayUpdate(t, "registering")
         /\ pc[t] = "register" => MayUpdate(t, "ready")
         /\ pc[t] = "fail" => MayUpdate(t, "failed")
         /\ pc[t] = "kill" => MayUpdate(t, "dead")
<1>1. byID[t].status \in StatusesAt[pc[t]]
  BY DEF InStep, ProcessorInStep
<1>2. pc[t] = "kill" => byID[t].status = "failed"
  BY DEF OnTime
<1> QED
  BY <1>1, <1>2 DEF StatusesAt, MayUpdate, Can, transitions

\* A step that touches one task.
LEMMA AttendedMoves ==
  ASSUME Attended, NEW t \in Task,
         \A u \in Task \ {t} :
           /\ byID'[u].status = byID[u].status
           /\ pc'[u] = pc[u] /\ spawned'[u] = spawned[u],
         \/ byID'[t].status \in TaskOver
         \/ pc'[t] \notin {"idle", "exit"}
         \/ pc'[t] = "idle" /\ spawned'[t] > 0 /\ byID'[t].status = "queued"
  PROVE  Attended'
BY DEF Attended

\* A processor's update leaves the task attended to, unless it is the last.
LEMMA ProcUpdateAttended ==
  ASSUME RunningInv, SavesSucceed, NEW t \in Task, NEW rec \in TaskRec,
         NEW next, ProcUpdate(t, rec, next), UNCHANGED spawned,
         Stored(t) => MayUpdate(t, rec.status),
         rec.status \in TaskOver \/ next \notin {"idle", "exit"}
  PROVE  Attended'
<1>1. /\ EngineInv /\ disk.byID = byID /\ Attended /\ pc \in [Task -> PC]
  BY DEF RunningInv, BudgetInv, EngineInv, TypeOK, EngineTypeOK
<1>2. \A u \in Task \ {t} : byID'[u] = byID[u]
  BY <1>1, ProcUpdateIs
<1>3. \/ /\ pc' = [pc EXCEPT ![t] = next] /\ byID'[t].status = rec.status
      \/ /\ byID' = byID /\ ~ MayUpdate(t, rec.status)
         /\ pc' = [pc EXCEPT ![t] = "exit"]
  BY <1>1, ProcUpdateSaved
<1>4. \A u \in Task \ {t} : pc'[u] = pc[u] /\ spawned'[u] = spawned[u]
  BY <1>1, <1>3
<1>5. byID'[t].status \in TaskOver \/ pc'[t] \notin {"idle", "exit"}
  BY <1>1, <1>3 DEF Stored, TaskOver
<1> QED
  BY <1>1, <1>2, <1>4, <1>5, AttendedMoves

\* process, statement by statement.
LEMMA ProcessAttended ==
  ASSUME RunningInv, SavesSucceed, NEW t \in Task, Process(t)
  PROVE  Attended'
<1>1. /\ EngineInv /\ InStep /\ OnTime /\ Attended /\ byID[t] \in TaskRec
      /\ pc \in [Task -> PC] /\ spawned \in [Task -> Nat]
  BY DEF RunningInv, EngineInv, TypeOK, EngineTypeOK, StoreInv, StoreTypeOK
<1>2. CASE Start(t)
  <2>1. /\ UNCHANGED byID
        /\ \A u \in Task \ {t} : pc'[u] = pc[u] /\ spawned'[u] = spawned[u]
    BY <1>1, <1>2 DEF Start, Goto, storeVars
  <2>2. byID'[t].status \in TaskOver \/ pc'[t] \notin {"idle", "exit"}
    <3>1. CASE pc[t] # "idle" /\ pc' = pc
      BY <1>1, <2>1, <3>1 DEF Attended
    <3>2. CASE pc[t] = "idle" /\ byID[t].status \in TaskOver
      BY <2>1, <3>2
    <3>3. CASE pc[t] = "idle" /\ byID[t].status \notin TaskOver
      <4>1. byID[t].status = "queued"
        BY <1>1, <3>3 DEF Attended
      <4>2. pc' = [pc EXCEPT ![t] = "activate"]
        BY <1>2, <3>3, <4>1 DEF Start, Goto, Stored
      <4> QED
        BY <1>1, <4>2
    <3> QED
      BY <1>2, <3>1, <3>2, <3>3 DEF Start
  <2> QED
    BY <1>1, <2>1, <2>2, AttendedMoves
<1>3. ASSUME NEW from, NEW status \in Status, NEW next,
             SetStatus(t, from, status, next),
             Stored(t) => MayUpdate(t, status),
             status \in TaskOver \/ next \notin {"idle", "exit"}
      PROVE  Attended'
  <2> DEFINE rec == [byID[t] EXCEPT !.status = status]
  <2>1. rec \in TaskRec /\ rec.status = status
    BY <1>1 DEF TaskRec
  <2>2. ProcUpdate(t, rec, next) /\ UNCHANGED spawned
    BY <1>3 DEF SetStatus
  <2> HIDE DEF rec
  <2> QED
    BY <1>3, <2>1, <2>2, ProcUpdateAttended
<1>4. CASE Activate(t) \/ Downloaded(t) \/ Uploading(t) \/ Registering(t) \/ Kill(t)
  <2>1. CASE Activate(t)
    BY <1>1, <1>3, <2>1, NoneIsRefused DEF Activate, SetStatus, Status
  <2>2. CASE Downloaded(t)
    BY <1>1, <1>3, <2>2, NoneIsRefused DEF Downloaded, SetStatus, Status
  <2>3. CASE Uploading(t)
    BY <1>1, <1>3, <2>3, NoneIsRefused DEF Uploading, SetStatus, Status
  <2>4. CASE Registering(t)
    BY <1>1, <1>3, <2>4, NoneIsRefused DEF Registering, SetStatus, Status
  <2>5. CASE Kill(t)
    BY <1>1, <1>3, <2>5, NoneIsRefused DEF Kill, SetStatus, Status, TaskOver
  <2> QED
    BY <1>4, <2>1, <2>2, <2>3, <2>4, <2>5
<1>5. CASE Register(t)
  <2> DEFINE rec == [byID[t] EXCEPT !.status = "ready", !.art = got[t]]
  <2>1. rec \in TaskRec /\ rec.status = "ready"
    <3>1. got[t] \in Version \cup {None}
      BY <1>1 DEF EngineInv, TypeOK, EngineTypeOK
    <3> QED
      BY <1>1, <3>1 DEF TaskRec, Status
  <2>2. ProcUpdate(t, rec, "end") /\ UNCHANGED spawned /\ pc[t] = "register"
    BY <1>5 DEF Register
  <2> HIDE DEF rec
  <2> QED
    BY <1>1, <2>1, <2>2, NoneIsRefused, ProcUpdateAttended DEF TaskOver
<1>6. CASE Fail(t)
  <2> DEFINE retries == byID[t].retries + 1
             rec == [byID[t] EXCEPT !.status = "failed", !.retries = retries]
  <2>1. rec \in TaskRec /\ rec.status = "failed"
    <3>1. retries \in Nat
      BY <1>1 DEF TaskRec
    <3> QED
      BY <1>1, <3>1 DEF TaskRec, Status
  <2>2. /\ \E next \in {"kill", "backoff"} : ProcUpdate(t, rec, next)
        /\ UNCHANGED spawned /\ pc[t] = "fail"
    BY <1>6 DEF Fail
  <2> HIDE DEF rec
  <2> QED
    BY <1>1, <2>1, <2>2, NoneIsRefused, ProcUpdateAttended
<1>7. CASE Fetch(t) \/ Upload(t) \/ Backoff(t) \/ EndFetch(t) \/ Exit(t)
  <2>1. /\ UNCHANGED <<byID, spawned>>
        /\ \E next \in PC :
             /\ pc' = [pc EXCEPT ![t] = next]
             /\ next \in {"idle", "exit"} => pc[t] \in {"end", "exit"}
    BY <1>7 DEF Fetch, Upload, Backoff, EndFetch, Exit, Goto, storeVars, PC
  <2>2. pc[t] \in {"end", "exit"} => byID[t].status \in TaskOver
    <3>1. pc[t] = "exit" => byID[t].status \in TaskOver
      BY <1>1 DEF Attended
    <3>2. pc[t] = "end" => byID[t].status \in TaskOver
      BY <1>1 DEF InStep, ProcessorInStep, Stored, StatusesAt, TaskOver
    <3> QED
      BY <3>1, <3>2
  <2>3. \A u \in Task \ {t} : pc'[u] = pc[u] /\ spawned'[u] = spawned[u]
    BY <1>1, <2>1
  <2> QED
    BY <1>1, <2>1, <2>2, <2>3, AttendedMoves
<1> QED
  BY <1>2, <1>4, <1>5, <1>6, <1>7 DEF Process

\* Resolve: what it revives has a processor, what it creates gets one.
LEMMA ResolveAttended ==
  ASSUME RunningInv, SavesSucceed, NEW k \in Key, Resolve(k)
  PROVE  Attended'
<1>1. /\ EngineInv /\ InStep /\ OnTime /\ Attended /\ StoreInv /\ pc' = pc
      /\ byID \in [Task -> TaskRec] /\ spawned \in [Task -> Nat]
  BY DEF RunningInv, EngineInv, TypeOK, EngineTypeOK, StoreInv, StoreTypeOK, Resolve,
     ResolveLookup, ResolveRetry, ResolveCreate
<1>2. SaveOutcome = {TRUE}
  BY DEF SaveOutcome, SavesSucceed
<1>3. CASE ResolveLookup(k)
  BY <1>1, <1>3 DEF ResolveLookup, storeVars, Attended
<1>4. CASE ResolveRetry(k)
  <2>1. PICK t \in Task : resolving[k] = Retrying(t) /\ Revive(k, t)
    BY <1>4 DEF ResolveRetry
  <2> DEFINE rec == [byID[t] EXCEPT !.status = "downloading"]
  <2>2. rec \in TaskRec
    BY <1>1 DEF TaskRec, Status
  <2>3. CASE Update(t, rec, TRUE) /\ spawned' = [spawned EXCEPT ![t] = @ + 1]
    <3> HIDE DEF rec
    <3>1. Stored(t) /\ \A u \in Task \ {t} : byID'[u] = byID[u]
      BY <1>1, <2>2, <2>3, UpdateIs
    <3>2. pc[t] \notin {"idle", "exit"}
      <4>1. /\ byID[t].status \in {"failed", "downloading"}
        BY <2>1, <3>1 DEF RunningInv, OnTime, Retrying
      <4> QED
        BY <1>1, <4>1 DEF Attended, TaskOver
    <3>3. \A u \in Task \ {t} : spawned'[u] = spawned[u]
      BY <1>1, <2>3
    <3> QED
      BY <1>1, <3>1, <3>2, <3>3, AttendedMoves
  <2>4. CASE UNCHANGED storeVars /\ UNCHANGED spawned
    BY <1>1, <2>4 DEF storeVars, Attended
  <2> QED
    BY <1>2, <2>1, <2>3, <2>4 DEF Revive
<1>5. CASE ResolveCreate(k)
  <2> DEFINE n == made + 1
  <2>1. PutNew(k, Queued, TRUE) /\ spawned' = [spawned EXCEPT ![n] = @ + 1]
    BY <1>2, <1>5 DEF ResolveCreate
  <2>2. Queued \in TaskRec /\ Queued.status = "queued"
    BY DEF Queued, Absent, TaskRec, Status
  <2>3. /\ n \in Task /\ ~ Drawn(n) /\ byID'[n].status = "queued"
        /\ \A u \in Task \ {n} : byID'[u] = byID[u]
    BY <1>1, <2>1, <2>2, PutNewIs
  <2>4. /\ \A u \in Task \ {n} : spawned'[u] = spawned[u]
        /\ spawned'[n] > 0
    BY <1>1, <2>1, <2>3
  <2>5. pc[n] = "idle"
    BY <1>1, <2>3 DEF EngineInv, ObjectFirst
  <2> HIDE DEF n
  <2> QED
    BY <1>1, <2>3, <2>4, <2>5, AttendedMoves
<1> QED
  BY <1>3, <1>4, <1>5 DEF Resolve

\* GC and days.
LEMMA QuietAttended ==
  ASSUME RunningInv,
         GCList \/ (\E t \in Task : GCDelete(t)) \/ DayPasses \/ UNCHANGED vars
  PROVE  Attended'
<1>1. /\ Attended /\ byID \in [Task -> TaskRec]
      /\ UNCHANGED <<pc, spawned>>
  BY DEF RunningInv, EngineInv, StoreInv, StoreTypeOK, GCList, GCDelete, DayPasses,
     vars, engineVars
<1>2. CASE GCList \/ UNCHANGED vars
  BY <1>1, <1>2 DEF GCList, vars, storeVars, Attended
<1>3. CASE \E t \in Task : GCDelete(t)
  <2>1. PICK t \in Task : byID' = byID \/ byID' = [byID EXCEPT ![t] = Absent]
    BY <1>3 DEF GCDelete, Delete, storeVars
  <2>2. Absent.status \in TaskOver
    BY DEF Absent, TaskOver
  <2> QED
    BY <1>1, <2>1, <2>2 DEF Attended
<1>4. CASE DayPasses
  <2>1. byID' = Aged(byID)
    BY <1>4 DEF DayPasses, Age
  <2> QED
    BY <1>1, <2>1, AgedKeeps DEF Attended
<1> QED
  BY <1>2, <1>3, <1>4

\* What a step writes is not old, and the key of what it writes leads to it.
LEMMA WritingIs ==
  ASSUME StoreInv, KeysAgree, Writing
  PROVE  /\ \A t \in Task : byID'[t].old => byID'[t] = byID[t]
         /\ \A k \in Key, t \in Task : byKey'[k] = t => keyOf'[t] = k
<1>1. /\ byID \in [Task -> TaskRec] /\ byKey \in [Key -> Task \cup {NoTask}]
      /\ keyOf \in [Task -> Key \cup {None}]
  BY DEF StoreInv, StoreTypeOK
<1>2. CASE Recording
  <2>1. PICK t \in Task, ok \in BOOLEAN, rec \in TaskRec : Update(t, rec, ok)
    BY <1>2 DEF Recording, Honest
  <2>2. /\ byID' = [byID EXCEPT ![t] = [rec EXCEPT !.old = FALSE]]
        /\ byKey' = [byKey EXCEPT ![keyOf[t]] = t] /\ keyOf' = keyOf
    BY <2>1 DEF Update, Write
  <2>3. [rec EXCEPT !.old = FALSE].old = FALSE
    BY DEF TaskRec
  <2> QED
    BY <1>1, <2>2, <2>3 DEF KeysAgree
<1>3. CASE Putting
  <2>1. PICK k \in Key, ok \in BOOLEAN, rec \in TaskRec : PutNew(k, rec, ok)
    BY <1>3 DEF Putting
  <2> DEFINE n == made + 1
  <2>2. n \in Task /\ ~ Drawn(n)
    BY <2>1, PutNewIs
  <2>3. /\ byID' = [byID EXCEPT ![n] = [rec EXCEPT !.old = FALSE]]
        /\ byKey' = [byKey EXCEPT ![k] = n] /\ keyOf' = [keyOf EXCEPT ![n] = k]
    BY <2>1 DEF PutNew, Write
  <2>4. [rec EXCEPT !.old = FALSE].old = FALSE
    BY DEF TaskRec
  <2> HIDE DEF n
  <2>5. \A j \in Key : byKey[j] # n
    BY <2>2 DEF KeysAgree, Drawn
  <2> QED
    BY <1>1, <2>2, <2>3, <2>4, <2>5 DEF KeysAgree
<1>4. CASE Collecting
  <2>1. PICK t : /\ byID' = [byID EXCEPT ![t] = Absent] /\ keyOf' = keyOf
                 /\ \/ byKey' = byKey
                    \/ byKey' = [byKey EXCEPT ![keyOf[t]] = NoTask]
    BY <1>4 DEF Collecting, Delete
  <2>2. Absent.old = FALSE
    BY DEF Absent
  <2>3. \A u \in Task : byID'[u].old => byID'[u] = byID[u]
    BY <1>1, <2>1, <2>2
  <2>4. \A k \in Key : byKey'[k] \in {byKey[k], NoTask}
    BY <1>1, <2>1
  <2> QED
    BY <2>1, <2>3, <2>4 DEF KeysAgree, NoTask, Task
<1>5. CASE UNCHANGED storeVars
  BY <1>5 DEF storeVars, KeysAgree
<1> QED
  BY <1>2, <1>3, <1>4, <1>5 DEF Writing

\* Whom a Resolve is on its way to it has found under its key.
LEMMA ResolvingIs ==
  ASSUME EngineTypeOK, Serve \/ UNCHANGED vars, NEW k \in Key
  PROVE  \/ resolving'[k] = resolving[k]
         \/ resolving'[k].id \in {NoTask, byKey[k]}
<1>1. NoLeader.id = NoTask /\ Creating.id = NoTask /\ Retrying(byKey[k]).id = byKey[k]
  BY DEF NoLeader, Creating, Retrying
<1>2. ASSUME NEW j \in Key, Resolve(j)
      PROVE  \/ resolving'[k] = resolving[k]
             \/ resolving'[k].id \in {NoTask, byKey[k]}
  <2>1. PICK leader \in {NoLeader, Creating, Retrying(byKey[j])} :
          resolving' = [resolving EXCEPT ![j] = leader]
    BY <1>2 DEF Resolve, ResolveLookup, ResolveRetry, ResolveCreate, Revive
  <2>2. CASE j = k
    BY <1>1, <2>1, <2>2 DEF EngineTypeOK
  <2>3. CASE j # k
    BY <2>1, <2>3 DEF EngineTypeOK
  <2> QED
    BY <2>2, <2>3
<1>3. ASSUME NEW t \in Task, Process(t)
      PROVE  resolving' = resolving
  BY <1>3 DEF Process, Start, Activate, Fetch, Downloaded, Uploading, Upload,
     Registering, Register, EndFetch, Fail, Kill, Backoff, Exit, SetStatus
<1>4. CASE GCList \/ (\E t \in Task : GCDelete(t)) \/ DayPasses \/ UNCHANGED vars
  BY <1>4 DEF GCList, GCDelete, DayPasses, vars, engineVars
<1> QED
  BY <1>2, <1>3, <1>4 DEF Serve

\* GC's list only shrinks, until GC makes the next.
LEMMA ListShrinks ==
  ASSUME Serve \/ UNCHANGED vars
  PROVE  gcList' \subseteq gcList \/ GCList
<1>1. ASSUME NEW k \in Key, Resolve(k)
      PROVE  gcList' = gcList
  BY <1>1 DEF Resolve, ResolveLookup, ResolveRetry, ResolveCreate
<1>2. ASSUME NEW t \in Task, Process(t)
      PROVE  gcList' = gcList
  BY <1>2 DEF Process, Start, Activate, Fetch, Downloaded, Uploading, Upload,
     Registering, Register, EndFetch, Fail, Kill, Backoff, Exit, SetStatus
<1>3. CASE (\E t \in Task : GCDelete(t)) \/ DayPasses \/ UNCHANGED vars
  BY <1>3 DEF GCDelete, DayPasses, vars, engineVars
<1> QED
  BY <1>1, <1>2, <1>3 DEF Serve

LEMMA KeysKept ==
  ASSUME RunningInv, Serve \/ UNCHANGED vars
  PROVE  KeysAgree'
<1>1. /\ EngineInv /\ InStep /\ OnTime /\ KeysAgree /\ StoreInv /\ EngineTypeOK
      /\ byKey \in [Key -> Task \cup {NoTask}]
  BY DEF RunningInv, EngineInv, TypeOK, StoreInv, StoreTypeOK
<1>2. Writing \/ DayPasses
  BY <1>1, ServeRecords
<1>3. \A k \in Key, t \in Task : byKey'[k] = t => keyOf'[t] = k
  <2>1. CASE Writing
    BY <1>1, <2>1, WritingIs
  <2>2. CASE DayPasses
    BY <1>1, <2>2 DEF DayPasses, Age, KeysAgree
  <2> QED
    BY <1>2, <2>1, <2>2
<1>4. \A t \in Task : Drawn(t) => keyOf'[t] = keyOf[t]
  BY <1>1, <1>2, RecordMoves DEF RecordStep, DayPasses
<1>5. ASSUME NEW k \in Key, NEW t \in Task, resolving'[k].id = t
      PROVE  keyOf'[t] = k
  <2>1. keyOf[t] = k
    BY <1>1, <1>5, ResolvingIs DEF KeysAgree, NoTask, Task
  <2> QED
    BY <1>4, <2>1 DEF Drawn
<1> QED
  BY <1>3, <1>5 DEF KeysAgree

LEMMA OldKept ==
  ASSUME RunningInv, Serve \/ UNCHANGED vars
  PROVE  OldIsDead'
<1>1. /\ EngineInv /\ InStep /\ OnTime /\ KeysAgree /\ StoreInv /\ Attended /\ OldIsDead
      /\ byID \in [Task -> TaskRec] /\ gcList \in SUBSET Task
  BY DEF RunningInv, EngineInv, TypeOK, EngineTypeOK, StoreInv, StoreTypeOK
<1>2. Writing \/ DayPasses
  BY <1>1, ServeRecords
<1>3. ASSUME NEW t \in Task, byID'[t].old PROVE byID'[t].status = "dead"
  <2>1. CASE Writing
    BY <1>1, <1>3, <2>1, WritingIs DEF OldIsDead
  <2>2. CASE DayPasses
    <3>1. /\ byID' = Aged(byID) /\ spawned[t] = 0
          /\ pc[t] \in {"idle", "fetch", "upload"}
      BY <2>2 DEF DayPasses, Age
    <3>2. byID'[t].status = byID[t].status
      BY <1>1, <3>1, AgedKeeps
    <3>3. byID[t].status \in {"failed", "dead"}
      BY <1>1, <1>3, <3>1 DEF Aged, TaskRec
    <3>4. byID[t].status # "failed"
      <4>1. ASSUME byID[t].status = "failed" PROVE FALSE
        <5>1. pc[t] # "idle"
          BY <1>1, <3>1, <4>1 DEF Attended, TaskOver
        <5>2. byID[t].status \in StatusesAt[pc[t]]
          BY <1>1, <4>1 DEF InStep, ProcessorInStep, Stored
        <5> QED
          BY <3>1, <4>1, <5>1, <5>2 DEF StatusesAt
      <4> QED
        BY <4>1
    <3> QED
      BY <3>2, <3>3, <3>4
  <2> QED
    BY <1>2, <2>1, <2>2
<1>4. ASSUME NEW t \in Task, t \in gcList'
      PROVE  keyOf'[t] \in Key /\ byID'[t].status \in {"dead", "absent"}
  <2>1. CASE GCList
    <3>1. /\ byID' = byID /\ keyOf' = keyOf
          /\ byID[t].status \in {"failed", "dead"} /\ byID[t].old
      BY <1>4, <2>1 DEF GCList, storeVars
    <3> QED
      BY <1>1, <3>1 DEF OldIsDead, StoreInv, Stored, Drawn
  <2>2. CASE gcList' \subseteq gcList
    <3>1. Drawn(t) /\ byID[t].status \in {"dead", "absent"}
      BY <1>1, <1>4, <2>2 DEF OldIsDead
    <3>2. RecordStep
      BY <1>2 DEF RecordStep, DayPasses
    <3>3. Absent.status = "absent"
      BY DEF Absent
    <3> QED
      BY <1>1, <3>1, <3>2, <3>3, RecordMoves DEF TaskOver, Drawn
  <2> QED
    BY <2>1, <2>2, ListShrinks
<1>5. gcList' \subseteq Task
  BY <1>1, ListShrinks DEF GCList
<1> QED
  BY <1>3, <1>4, <1>5 DEF OldIsDead, Drawn

\* All of it.
LEMMA RunningKeeps ==
  ASSUME SavesSucceed, "stall" \notin Faults, RunningInv, Serve \/ UNCHANGED vars
  PROVE  RunningInv'
<1>1. EngineInv /\ InStep /\ OnTime /\ BudgetInv /\ [Next]_vars
  BY DEF RunningInv, Next
<1>2. EngineInv'
  BY <1>1, NextKeeps
<1>3. InStep' /\ OnTime'
  BY <1>1, NextInStep
<1>4. BudgetInv'
  BY <1>1, NextBudget
<1>5. Attended'
  <2>1. CASE \E k \in Key : Resolve(k)
    BY <2>1, ResolveAttended
  <2>2. CASE \E t \in Task : Process(t)
    BY <2>2, ProcessAttended
  <2>3. CASE GCList \/ (\E t \in Task : GCDelete(t)) \/ DayPasses \/ UNCHANGED vars
    BY <2>3, QuietAttended
  <2> QED
    BY <2>1, <2>2, <2>3 DEF Serve
<1> QED
  BY <1>2, <1>3, <1>4, <1>5, OldKept, KeysKept DEF RunningInv

LEMMA InitRunning == Init => RunningInv
<1>1. Init => EngineInv /\ InStep /\ OnTime /\ BudgetInv
  BY InitInv, InitInStep, InitBudget
<1>2. Init => Attended /\ OldIsDead /\ KeysAgree
  BY DEF Init, StoreInit, Volatile, Absent, NoLeader, Attended, OldIsDead, KeysAgree,
     TaskOver, NoTask, Task
<1> QED
  BY <1>1, <1>2 DEF RunningInv

-----------------------------------------------------------------------------
(* The clients *)

\* What a client's record says of the tasks, and of their keys.  A task that was
\* given up for being over is gone or has no attempt left, if the client is not
\* less patient than the engine.
FitsIn(r, tasks, keys) ==
  /\ r.at = "asked" => r.key \in Key
  /\ r.at = "direct" => r.policy = "always"
  /\ r.at \in {"poll", "refresh", "urls"} =>
       r.task \in Task /\ r.key \in Key /\ keys[r.task] = r.key
  /\ r.at \in {"refresh", "urls"} => tasks[r.task].status = "ready"
  /\ r.why = "over" => r.at \in {"direct", "error"}
  /\ r.why = "over" /\ GiveUpAfter >= MaxRetries =>
       /\ r.task \in Task /\ keys[r.task] \in Key
       /\ \/ tasks[r.task].status = "absent"
          \/ tasks[r.task].retries > MaxRetries

ClientsFit ==
  /\ client \in [Client -> ClientRec]
  /\ \A c \in Client : FitsIn(client[c], byID, keyOf)

GetInv == RunningInv /\ ClientsFit

\* It goes on saying so: a ready task stays, and so does one that is over.
LEMMA FitsLasts ==
  ASSUME RunningInv, Serve \/ UNCHANGED vars, NEW r \in ClientRec,
         FitsIn(r, byID, keyOf)
  PROVE  FitsIn(r, byID', keyOf')
<1>1. /\ EngineInv /\ InStep /\ OnTime /\ OldIsDead /\ MaxRetries \in Nat
      /\ byID \in [Task -> TaskRec]
  BY MaxRetriesAssumption DEF RunningInv, EngineInv, StoreInv, StoreTypeOK
<1>2. RecordStep
  BY <1>1, ServeRecords DEF RecordStep, DayPasses
<1>3. ASSUME r.task \in Task, keyOf[r.task] \in Key
      PROVE  /\ keyOf'[r.task] = keyOf[r.task]
             /\ byID[r.task].status = "ready" => byID'[r.task].status = "ready"
             /\ byID[r.task].status = "absent" => byID'[r.task].status = "absent"
             /\ byID[r.task].retries > MaxRetries =>
                  \/ byID'[r.task].status = "absent"
                  \/ byID'[r.task].retries > MaxRetries
  <2> DEFINE t == r.task
  <2>1. t \in Task /\ Drawn(t)
    BY <1>3 DEF Drawn
  <2> HIDE DEF t
  <2>2. /\ keyOf'[t] = keyOf[t]
        /\ \/ /\ byID'[t].retries >= byID[t].retries
              /\ byID[t].status \in TaskOver => byID'[t].status = byID[t].status
           \/ byID'[t] = Absent /\ t \in gcList
    BY <1>1, <1>2, <2>1, RecordMoves
  <2>3. CASE /\ byID'[t].retries >= byID[t].retries
             /\ byID[t].status \in TaskOver => byID'[t].status = byID[t].status
    <3>1. byID[t].retries \in Nat
      BY <1>1, <2>1 DEF TaskRec
    <3>2. byID'[t].retries \in Nat
      <4>1. StoreInv'
        <5>1. EngineInv'
          BY <1>1, NextKeeps DEF Next
        <5> QED
          BY <5>1 DEF EngineInv
      <4> QED
        BY <2>1, <4>1 DEF StoreInv, StoreTypeOK, TaskRec
    <3> QED
      BY <1>1, <2>2, <2>3, <3>1, <3>2 DEF TaskOver, t
  <2>4. CASE byID'[t] = Absent /\ t \in gcList
    <3>1. byID[t].status # "ready"
      BY <1>1, <2>4 DEF OldIsDead
    <3> QED
      BY <2>2, <2>4, <3>1 DEF Absent, t
  <2> QED
    BY <2>2, <2>3, <2>4
<1>4. r.key \in Key => (keyOf[r.task] = r.key => keyOf[r.task] \in Key)
  OBVIOUS
<1> QED
  BY <1>3, <1>4 DEF FitsIn

\* A step of the engine, after which some clients have a new record that fits.
LEMMA ClientsMove ==
  ASSUME GetInv, Serve \/ UNCHANGED vars,
         client' \in [Client -> ClientRec],
         \A c \in Client : \/ client'[c] = client[c]
                           \/ FitsIn(client'[c], byID', keyOf')
  PROVE  ClientsFit'
<1>1. ASSUME NEW c \in Client PROVE FitsIn(client'[c], byID', keyOf')
  <2>1. PICK r : r = client[c]
    OBVIOUS
  <2>2. r \in ClientRec /\ FitsIn(r, byID, keyOf)
    BY <2>1 DEF GetInv, ClientsFit
  <2>3. FitsIn(r, byID', keyOf')
    BY <2>2, FitsLasts DEF GetInv
  <2> QED
    BY <2>1, <2>3
<1> QED
  BY <1>1 DEF ClientsFit

\* One client's.
LEMMA ClientMoves ==
  ASSUME GetInv, Serve \/ UNCHANGED vars, NEW c \in Client, NEW r \in ClientRec,
         client' = [client EXCEPT ![c] = r], FitsIn(r, byID', keyOf')
  PROVE  ClientsFit'
<1>1. client \in [Client -> ClientRec]
  BY DEF GetInv, ClientsFit
<1>2. client' \in [Client -> ClientRec]
  BY <1>1
<1>3. \A d \in Client : \/ client'[d] = client[d]
                        \/ FitsIn(client'[d], byID', keyOf')
  BY <1>1
<1> QED
  BY <1>2, <1>3, ClientsMove

\* What becomes of a client that gives up.
LEMMA GivenUpIs ==
  ASSUME NEW r \in ClientRec, NEW why \in {"over", "request"}
  PROVE  /\ GivenUp(r, why) \in ClientRec
         /\ GivenUp(r, why).why = why /\ GivenUp(r, why).task = r.task
         /\ GivenUp(r, why).at \in {"direct", "error"}
         /\ GivenUp(r, why).at = "direct" => GivenUp(r, why).policy = "always"
BY DEF GivenUp, ClientRec, Over

\* It gives up before its task is over.
LEMMA RequestFails ==
  ASSUME GetInv, UNCHANGED vars, NEW c \in Client, NEW r \in ClientRec,
         client' = [client EXCEPT ![c] = GivenUp(r, "request")]
  PROVE  ClientsFit'
<1>1. PICK g : g = GivenUp(r, "request")
  OBVIOUS
<1>2. /\ g \in ClientRec /\ g.why = "request" /\ g.at \in {"direct", "error"}
      /\ g.at = "direct" => g.policy = "always"
  BY <1>1, GivenUpIs
<1>3. FitsIn(g, byID', keyOf')
  BY <1>2 DEF FitsIn
<1> QED
  BY <1>1, <1>2, <1>3, ClientMoves

LEMMA AskFits ==
  ASSUME GetInv, NEW c \in Client, NEW k \in Key, NEW policy \in Fallback,
         Ask(c, k, policy)
  PROVE  ClientsFit'
<1> DEFINE t == GetByCacheKey(k)
           asking == [NotAsked EXCEPT !.at = "asked", !.key = k, !.policy = policy]
           meek == [asking EXCEPT !.policy = "never"]
           given(step) == [asking EXCEPT !.at = step, !.task = byKey[k]]
<1>1. /\ asking \in ClientRec /\ asking.at = "asked" /\ asking.key = k
      /\ asking.why = "none" /\ meek \in ClientRec
  BY DEF NotAsked, ClientRec, Waiting
<1>2. \/ /\ \/ client' = [client EXCEPT ![c] = GivenUp(asking, "request")]
            \/ client' = [client EXCEPT ![c] = GivenUp(meek, "request")]
         /\ UNCHANGED vars
      \/ /\ client' = [client EXCEPT ![c] = asking]
         /\ ResolveLookup(k) \/ UNCHANGED vars
      \/ /\ UNCHANGED vars
         /\ \/ client' = [client EXCEPT ![c] = given("urls")] /\ t.status = "ready"
            \/ /\ client' = [client EXCEPT ![c] = given("poll")]
               /\ t.status \in InProgress
  BY DEF Ask
<1>3. CASE /\ \/ client' = [client EXCEPT ![c] = GivenUp(asking, "request")]
              \/ client' = [client EXCEPT ![c] = GivenUp(meek, "request")]
           /\ UNCHANGED vars
  <2> HIDE DEF asking, meek
  <2> QED
    BY <1>1, <1>3, RequestFails
<1>4. CASE /\ client' = [client EXCEPT ![c] = asking]
           /\ ResolveLookup(k) \/ UNCHANGED vars
  <2> HIDE DEF asking
  <2>1. FitsIn(asking, byID', keyOf')
    BY <1>1 DEF FitsIn
  <2>2. Serve \/ UNCHANGED vars
    BY <1>4 DEF Serve, Resolve
  <2> QED
    BY <1>1, <1>4, <2>1, <2>2, ClientMoves
<1>5. ASSUME NEW step \in {"urls", "poll"}, UNCHANGED vars,
             client' = [client EXCEPT ![c] = given(step)],
             step = "urls" => t.status = "ready",
             step = "poll" => t.status \in InProgress
      PROVE  ClientsFit'
  <2>1. byKey[k] \in Task /\ t = byID[byKey[k]]
    <3>1. byKey[k] \in Task \cup {NoTask}
      BY DEF GetInv, RunningInv, EngineInv, StoreInv, StoreTypeOK
    <3>2. byKey[k] # NoTask
      <4>1. t.status # "absent"
        BY <1>5 DEF InProgress
      <4> QED
        BY <4>1 DEF GetByCacheKey, Absent
    <3> QED
      BY <3>1, <3>2 DEF GetByCacheKey
  <2>2. keyOf[byKey[k]] = k
    BY <2>1 DEF GetInv, RunningInv, KeysAgree
  <2>3. PICK r : r = given(step)
    OBVIOUS
  <2>4. /\ r \in ClientRec /\ r.at = step /\ r.task = byKey[k] /\ r.key = k
        /\ r.why = "none"
    BY <2>1, <2>3 DEF NotAsked, ClientRec, Waiting, Over
  <2>5. FitsIn(r, byID, keyOf)
    BY <1>5, <2>1, <2>2, <2>4 DEF FitsIn
  <2>6. FitsIn(r, byID', keyOf')
    BY <1>5, <2>5 DEF vars, storeVars
  <2> QED
    BY <1>5, <2>3, <2>4, <2>6, ClientMoves
<1> QED
  BY <1>2, <1>3, <1>4, <1>5

\* Those who waited for a task are told the key's.
LEMMA ToldFits ==
  ASSUME GetInv, NEW k \in Key, NEW t \in Task, Serve, client' = Told(k, t),
         keyOf'[t] = k
  PROVE  ClientsFit'
<1>1. client \in [Client -> ClientRec] /\ \A c \in Client : FitsIn(client[c], byID, keyOf)
  BY DEF GetInv, ClientsFit
<1>2. ASSUME NEW c \in Client
      PROVE  /\ client'[c] \in ClientRec
             /\ \/ client'[c] = client[c]
                \/ FitsIn(client'[c], byID', keyOf')
  <2>1. CASE client[c].at = "asked" /\ client[c].key = k
    <3>1. PICK r : r = client[c]
      OBVIOUS
    <3>2. r \in ClientRec /\ r.key = k /\ r.why # "over"
      BY <1>1, <2>1, <3>1 DEF FitsIn
    <3>3. PICK s : s = [r EXCEPT !.at = "poll", !.task = t]
      OBVIOUS
    <3>4. /\ s \in ClientRec /\ s.at = "poll" /\ s.task = t /\ s.key = k
          /\ s.why # "over"
      BY <3>2, <3>3 DEF ClientRec, Waiting
    <3>5. client'[c] = s
      BY <2>1, <3>1, <3>3 DEF Told
    <3> QED
      BY <3>4, <3>5 DEF FitsIn
  <2>2. CASE ~ (client[c].at = "asked" /\ client[c].key = k)
    <3>1. client'[c] = client[c]
      BY <2>2 DEF Told
    <3> QED
      BY <1>1, <3>1
  <2> QED
    BY <2>1, <2>2
<1>3. client' \in [Client -> ClientRec]
  BY <1>2 DEF Told
<1> QED
  BY <1>2, <1>3, ClientsMove

LEMMA AnswersFit ==
  ASSUME GetInv, NEW k \in Key, AnswerRevived(k) \/ AnswerCreated(k)
  PROVE  ClientsFit'
<1>1. /\ EngineInv /\ InStep /\ OnTime /\ KeysAgree /\ StoreInv
      /\ client \in [Client -> ClientRec]
  BY DEF GetInv, RunningInv, EngineInv, ClientsFit
<1>2. Serve
  BY DEF AnswerRevived, AnswerCreated, Serve, Resolve
<1>3. CASE AnswerRevived(k)
  <2>1. CASE client' = client
    <3>1. client' \in [Client -> ClientRec]
      BY <1>1, <2>1
    <3> QED
      BY <1>2, <2>1, <3>1, ClientsMove
  <2>2. CASE client' = Told(k, resolving[k].id)
    <3>1. PICK t \in Task : resolving[k] = Retrying(t)
      BY <1>3 DEF AnswerRevived, ResolveRetry
    <3>2. resolving[k].id = t
      BY <3>1 DEF Retrying
    <3>3. keyOf[t] = k /\ Drawn(t)
      BY <1>1, <3>2 DEF KeysAgree, InStep
    <3>4. keyOf'[t] = k
      <4>1. RecordStep
        BY <1>1, <1>2, ServeRecords DEF RecordStep, DayPasses
      <4> QED
        BY <1>1, <3>3, <4>1, RecordMoves
    <3> QED
      BY <1>2, <2>2, <3>2, <3>4, ToldFits
  <2> QED
    BY <1>3, <2>1, <2>2 DEF AnswerRevived
<1>4. CASE AnswerCreated(k)
  <2>1. PICK ok : PutNew(k, Queued, ok)
    BY <1>4 DEF AnswerCreated, ResolveCreate
  <2>2. Queued \in TaskRec
    BY DEF Queued, Absent, TaskRec, Status
  <2>3. made + 1 \in Task
    BY <1>1, <2>1, <2>2, PutNewIs
  <2>4. keyOf'[made + 1] = k
    BY <1>1, <2>1, <2>3 DEF PutNew, StoreInv, StoreTypeOK
  <2>5. PICK n \in Task : n = made + 1
    BY <2>3
  <2>6. client' = Told(k, n)
    BY <1>4, <2>5 DEF AnswerCreated
  <2> QED
    BY <1>2, <2>4, <2>5, <2>6, ToldFits
<1> QED
  BY <1>3, <1>4

LEMMA PollFits ==
  ASSUME GetInv, NEW c \in Client, Poll(c) \/ PollFails(c)
  PROVE  ClientsFit'
<1>1. /\ EngineInv /\ BudgetInv /\ client \in [Client -> ClientRec]
      /\ byID \in [Task -> TaskRec] /\ MaxRetries \in Nat /\ GiveUpAfter \in Nat
  BY MaxRetriesAssumption, ClientAssumption
  DEF GetInv, RunningInv, ClientsFit, EngineInv, StoreInv, StoreTypeOK
<1>2. UNCHANGED vars /\ byID' = byID /\ keyOf' = keyOf
  BY DEF Poll, PollFails, PollReady, PollOver, GetURLs, GivesUp, Goes, vars, storeVars
<1>3. PICK r \in ClientRec : r = client[c]
  BY <1>1
<1>4. FitsIn(r, byID, keyOf)
  BY <1>3 DEF GetInv, ClientsFit
<1>5. ASSUME NEW step \in {"refresh", "urls"}, Goes(c, step),
             r.at \in {"poll", "refresh"}, byID[r.task].status = "ready"
      PROVE  ClientsFit'
  <2>1. PICK s : s = [r EXCEPT !.at = step]
    OBVIOUS
  <2>2. /\ s \in ClientRec /\ s.at = step /\ s.task = r.task /\ s.key = r.key
        /\ s.why = r.why
    BY <2>1 DEF ClientRec, Waiting, Over
  <2>3. FitsIn(s, byID', keyOf')
    BY <1>2, <1>4, <1>5, <2>2 DEF FitsIn
  <2>4. client' = [client EXCEPT ![c] = s]
    BY <1>1, <1>3, <1>5, <2>1 DEF Goes
  <2> QED
    BY <1>2, <2>2, <2>3, <2>4, ClientMoves
<1>6. CASE PollReady(c)
  BY <1>3, <1>5, <1>6 DEF PollReady
<1>7. CASE PollFails(c)
  BY <1>2, <1>3, <1>7, RequestFails DEF PollFails, GivesUp
<1>8. CASE GetURLs(c)
  <2>1. r.at = "refresh"
    BY <1>3, <1>8 DEF GetURLs
  <2>2. byID[r.task].status = "ready" /\ r.task \in Task
    BY <1>4, <2>1 DEF FitsIn
  <2>3. byID[r.task].art # None
    BY <1>1, <2>2 DEF EngineInv, StoreInv, ReadyIsServable, ServableIn
  <2>4. Goes(c, "urls")
    BY <1>3, <1>8, <2>2, <2>3 DEF GetURLs
  <2> QED
    BY <1>5, <2>1, <2>2, <2>4
<1>9. CASE PollOver(c)
  <2>1. /\ r.at = "poll" /\ client' = [client EXCEPT ![c] = GivenUp(r, "over")]
        /\ \/ byID[r.task].status \in {"dead", "absent"}
           \/ byID[r.task].status = "failed" /\ byID[r.task].retries > GiveUpAfter
    BY <1>3, <1>9 DEF PollOver, GivesUp
  <2>2. r.task \in Task /\ keyOf[r.task] \in Key
    BY <1>4, <2>1 DEF FitsIn
  <2>3. GiveUpAfter >= MaxRetries =>
          byID[r.task].status = "absent" \/ byID[r.task].retries > MaxRetries
    <3>1. byID[r.task].retries \in Nat
      BY <1>1, <2>2 DEF TaskRec
    <3>2. byID[r.task].status = "dead" => byID[r.task].retries = MaxRetries + 1
      BY <1>1, <2>2 DEF BudgetInv, RetryBudget
    <3> QED
      BY <1>1, <2>1, <3>1, <3>2
  <2>4. PICK g : g = GivenUp(r, "over")
    OBVIOUS
  <2>5. /\ g \in ClientRec /\ g.task = r.task /\ g.at \in {"direct", "error"}
        /\ g.at = "direct" => g.policy = "always"
    BY <2>4, GivenUpIs
  <2>6. FitsIn(g, byID', keyOf')
    BY <1>2, <2>2, <2>3, <2>5 DEF FitsIn
  <2> QED
    BY <1>2, <2>1, <2>4, <2>5, <2>6, ClientMoves
<1> QED
  BY <1>6, <1>7, <1>8, <1>9 DEF Poll

-----------------------------------------------------------------------------
(* What follows *)

\* Engine and clients together.
LEMMA GetKeeps ==
  ASSUME SavesSucceed, "stall" \notin Faults, GetInv, [GetNext]_allVars
  PROVE  GetInv'
<1>1. RunningInv /\ client \in [Client -> ClientRec]
  BY DEF GetInv, ClientsFit
<1>2. Serve \/ UNCHANGED vars
  <2>1. CASE EngineMoves
    BY <2>1 DEF EngineMoves, AnswerRevived, AnswerCreated, Serve, Resolve
  <2>2. CASE \E c \in Client : ClientStep(c)
    BY <2>2 DEF ClientStep, Ask, Poll, PollReady, PollOver, PollFails, GetURLs,
       GivesUp, Goes, Serve, Resolve
  <2>3. CASE UNCHANGED allVars
    BY <2>3 DEF allVars
  <2> QED
    BY <2>1, <2>2, <2>3 DEF GetNext
<1>3. RunningInv'
  BY <1>1, <1>2, RunningKeeps
<1>4. ClientsFit'
  <2>1. CASE client' = client
    <3>1. client' \in [Client -> ClientRec]
      BY <1>1, <2>1
    <3> QED
      BY <1>2, <2>1, <3>1, ClientsMove
  <2>2. CASE \E k \in Key : AnswerRevived(k) \/ AnswerCreated(k)
    BY <2>2, AnswersFit
  <2>3. CASE \E c \in Client : ClientStep(c)
    <3>1. PICK c \in Client : ClientStep(c)
      BY <2>3
    <3> QED
      BY <3>1, AskFits, PollFits DEF ClientStep
  <2> QED
    BY <2>1, <2>2, <2>3 DEF GetNext, EngineMoves, allVars
<1> QED
  BY <1>3, <1>4 DEF GetInv

LEMMA InitGet == ClientInit => GetInv
<1> SUFFICES ASSUME ClientInit PROVE GetInv
  OBVIOUS
<1>1. RunningInv
  BY InitRunning DEF ClientInit
<1>2. NotAsked \in ClientRec /\ FitsIn(NotAsked, byID, keyOf)
  BY DEF NotAsked, ClientRec, FitsIn
<1> QED
  BY <1>1, <1>2 DEF GetInv, ClientsFit, ClientInit

\* A client is not sent anywhere in vain (downloader.go, Download and pollTask,
\* against engine.go): the task that it polls is ready, over, or worked on, and
\* the one whose URLs it asks for is ready and stored; and that for any number
\* of clients, keys and retries, with Resolve, GC and the processors going on
\* between any two polls.  The saves succeed: without one, a task in progress
\* loses its processor.
THEOREM WaitsTheorem ==
  ASSUME Faults \subseteq {"restart"}
  PROVE  GetSpec => []WaitsForTheRight
<1>1. SavesSucceed /\ "stall" \notin Faults
  BY DEF SavesSucceed
<1>2. GetInv /\ [GetNext]_allVars => GetInv'
  BY <1>1, GetKeeps
<1>3. GetInv => WaitsForTheRight
  <2> SUFFICES ASSUME GetInv PROVE WaitsForTheRight
    OBVIOUS
  <2>1. /\ Attended /\ InStep /\ ReadyIsServable /\ client \in [Client -> ClientRec]
    BY DEF GetInv, RunningInv, EngineInv, StoreInv, ClientsFit
  <2>2. ASSUME NEW c \in Client
        PROVE  /\ client[c].at = "direct" => client[c].policy = "always"
               /\ client[c].at \in {"poll", "refresh", "urls"} =>
                    /\ client[c].task \in Task /\ client[c].key \in Key
                    /\ keyOf[client[c].task] = client[c].key
               /\ client[c].at \in {"refresh", "urls"} =>
                    byID[client[c].task].status = "ready"
    BY <2>2 DEF GetInv, ClientsFit, FitsIn
  <2>3. \A t \in Task : Settled(t) \/ Worked(t)
    BY <2>1 DEF Attended, Settled, Worked, TaskOver
  <2>4. \A t \in Task : byID[t].status = "ready" =>
          byID[t].art # None /\ object[keyOf[t]] # None
    BY <2>1 DEF ReadyIsServable, ServableIn
  <2> QED
    BY <2>1, <2>2, <2>3, <2>4 DEF WaitsForTheRight, ClientTypeOK
<1> QED
  BY <1>2, <1>3, InitGet, PTL DEF GetSpec

\* What a client gives up for being over, because it is dead or gone or has failed
\* more often than the client puts up with, is never ready later on, provided that
\* the client is as patient as the engine (pollTask gives up at 8 failures,
\* EngineConfig.MaxRetries is the engine's).
THEOREM GivenUpTheorem ==
  ASSUME Faults \subseteq {"restart"}, GiveUpAfter >= MaxRetries
  PROVE  GetSpec => []GivenUpIsOver
<1>1. SavesSucceed /\ "stall" \notin Faults
  BY DEF SavesSucceed
<1>2. GetInv /\ [GetNext]_allVars => GetInv'
  BY <1>1, GetKeeps
<1>3. GetInv => GivenUpIsOver
  <2> SUFFICES ASSUME GetInv, NEW c \in Client, client[c].why = "over"
               PROVE  byID[client[c].task].status \in {"failed", "dead", "absent"}
    BY DEF GivenUpIsOver
  <2>1. PICK t \in Task : t = client[c].task
    BY DEF GetInv, ClientsFit, FitsIn
  <2>2. byID[t].status = "absent" \/ byID[t].retries > MaxRetries
    BY <2>1 DEF GetInv, ClientsFit, FitsIn
  <2> QED
    BY <2>1, <2>2 DEF GetInv, RunningInv, BudgetInv
<1> QED
  BY <1>2, <1>3, InitGet, PTL DEF GetSpec

\* The budget of attempts holds with clients that poll and give up.
THEOREM GetBudgetTheorem ==
  ASSUME Faults \subseteq {"restart"}
  PROVE  GetSpec => []RetryBudget
<1>1. SavesSucceed /\ "stall" \notin Faults
  BY DEF SavesSucceed
<1>2. GetInv /\ [GetNext]_allVars => GetInv'
  BY <1>1, GetKeeps
<1>3. GetInv => RetryBudget
  BY DEF GetInv, RunningInv, BudgetInv
<1> QED
  BY <1>2, <1>3, InitGet, PTL DEF GetSpec
=============================================================================
