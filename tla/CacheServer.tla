----------------------------- MODULE CacheServer -----------------------------
(***************************************************************************)
(* The server's cache as a whole: the resolve engine together with the two *)
(* other writers of the task store.                                        *)
(*   - The pull-through mirrors (internal/server/mirrorcore) fetch on the  *)
(*     request's own goroutine, write the same object key and register a   *)
(*     task that is born ready.                                            *)
(*   - The progress loop (internal/server/app/progress_exec.go) writes the *)
(*     progress of the task BeginFetch announced every two seconds.        *)
(* None of them takes part in the engine's singleflight.                   *)
(***************************************************************************)
EXTENDS TaskEngine

VARIABLES mirror,   \* mirror[k]: the mirror's flight for k (one per key)
          reporter  \* the task id the progress loop has read, or NoTask

serverVars == <<vars, mirror, reporter>>

Flight == [at : {"idle", "fetch", "put", "register"}, got : Version \cup {None}]
NoFlight == [at |-> "idle", got |-> None]

\* The type invariant of the server.
ServerTypeOK ==
  /\ TypeOK
  /\ mirror \in [Key -> Flight]
  /\ reporter \in Task \cup {NoTask}

ServerInit ==
  /\ Init
  /\ mirror = [k \in Key |-> NoFlight]
  /\ reporter = NoTask

-----------------------------------------------------------------------------
(* PresignOrFetchMulti *)

Fly(k, at, v) == mirror' = [mirror EXCEPT ![k] = [at |-> at, got |-> v]]

\* A ready task is presigned without a change of state; anything else,
\* including a task in progress, is fetched again.
MirrorLookup(k) ==
  /\ mirror[k] = NoFlight
  /\ ~ (GetByCacheKey(k).status = "ready" /\ GetByCacheKey(k).art # None)
  /\ Fly(k, "fetch", None)
  /\ UNCHANGED <<vars, reporter>>

\* MUTANT of MirrorFetch: the error of the last candidate goes unnoticed.
MirrorFetchUnchecked(k) ==
  /\ mirror[k].at = "fetch"
  /\ \E v \in Version \cup {None} : Fly(k, "put", v)
  /\ UNCHANGED <<vars, reporter>>

\* One candidate after the other, each at its own version of the content,
\* until one delivers or none is left.
MirrorFetch(k) ==
  /\ mirror[k].at = "fetch"
  /\ \/ \E v \in Version : Fly(k, "put", v)
     \/ mirror' = [mirror EXCEPT ![k] = NoFlight]
  /\ UNCHANGED <<vars, reporter>>

\* stor.Put; after an error the next candidate is tried, if there is one.
MirrorPut(k) ==
  LET replaced == [object EXCEPT ![k] = mirror[k].got]
  IN /\ mirror[k].at = "put"
     /\ \/ object' = replaced /\ Fly(k, "register", mirror[k].got)
        \/ /\ object' \in {object, replaced}
           /\ Fly(k, "fetch", None) \/ mirror' = [mirror EXCEPT ![k] = NoFlight]
     /\ UNCHANGED <<storeVars, resolving, spawned, pc, got, progress, gcList,
                    reporter>>

\* The task is registered as ready, its artifact describing what was fetched.
MirrorRegister(k) ==
  /\ mirror[k].at = "register"
  /\ \E ok \in SaveOutcome :
       PutNew(k, [Absent EXCEPT !.status = "ready", !.art = mirror[k].got], ok)
  /\ mirror' = [mirror EXCEPT ![k] = NoFlight]
  /\ UNCHANGED <<engineVars, reporter>>

Mirror(k) ==
  MirrorLookup(k) \/ MirrorFetch(k) \/ MirrorPut(k) \/ MirrorRegister(k)

-----------------------------------------------------------------------------
(* The progress loop *)

\* Any running fetch, the mirrors' too, reports its bytes to the one record.
ReportBytes ==
  /\ \/ \E t \in Task : pc[t] = "fetch"
     \/ \E k \in Key : mirror[k].at = "fetch"
  /\ progress' = [progress EXCEPT !.bytes = TRUE]
  /\ UNCHANGED <<storeVars, resolving, spawned, pc, got, object, gcList,
                 mirror, reporter>>

\* A tick reads the announced task ...
Tick ==
  /\ reporter = NoTask
  /\ progress.id # NoTask /\ progress.bytes
  /\ reporter' = progress.id
  /\ UNCHANGED <<vars, mirror>>

\* ... and updates it, even when there is nothing to change: the update still
\* stamps UpdatedAt and takes over the key's index.
WriteProgress ==
  /\ reporter # NoTask
  /\ reporter' = NoTask
  /\ \/ \E ok \in ProcSaveOutcome : Update(reporter, byID[reporter], ok)
     \/ ~ Stored(reporter) /\ UNCHANGED storeVars
  /\ UNCHANGED <<engineVars, mirror>>

-----------------------------------------------------------------------------

ServerRestart ==
  /\ Restart
  /\ mirror' = [k \in Key |-> NoFlight]
  /\ reporter' = NoTask

\* Between two days nothing short is under way, see DayPasses.
ServerDay ==
  /\ \A k \in Key : mirror[k].at # "register"
  /\ reporter = NoTask
  /\ DayPasses
  /\ UNCHANGED <<mirror, reporter>>

EngineStep ==
  /\ \/ \E k \in Key : Resolve(k)
     \/ \E t \in Task : Process(t)
     \/ GCList
     \/ \E t \in Task : GCDelete(t)
  /\ UNCHANGED <<mirror, reporter>>

ServerNext ==
  \/ EngineStep
  \/ \E k \in Key : Mirror(k)
  \/ ReportBytes
  \/ Tick
  \/ WriteProgress
  \/ ServerRestart
  \/ ServerDay

ServerSpec == ServerInit /\ [][ServerNext]_serverVars

-----------------------------------------------------------------------------
(* Properties *)

\* Why ReadyIsServable holds with the mirrors, as an inductive invariant: a
\* flight that is about to register holds the content and has stored it.
MirrorFirst ==
  \A k \in Key :
    /\ mirror[k].at \in {"put", "register"} => mirror[k].got # None
    /\ mirror[k].at = "register" => object[k] # None

ServerInv ==
  /\ EngineInv
  /\ ServerTypeOK
  /\ MirrorFirst

\* The store keeps the life cycle the clients poll, whatever the writers and
\* the faults: refinement of the abstract specification.
Lifecycle ==
  INSTANCE TaskLifecycle WITH
    status <- [t \in Task |-> byID[t].status],
    saved <- [t \in Task |-> disk.byID[t].status]

KeepsLifecycle == Lifecycle!Spec

\* Between restarts a terminal task is final: no late processor, retry or
\* progress write changes it, and its artifact stays what clients were told.
\* Only GC takes it away, and a ready one only if it had failed when GC listed
\* it: then somebody has revived and finished it before GC came to delete it.
TerminalIsFinal ==
  [][ServerRestart \/ \A t \in Task :
       Terminal(byID[t].status) =>
         \/ byID'[t].status = byID[t].status /\ byID'[t].art = byID[t].art
         \/ /\ byID'[t] = Absent /\ t \in gcList
            /\ byID[t].status = "dead" \/ byID[t].retries > 0]_serverVars
=============================================================================
