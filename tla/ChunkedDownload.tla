--------------------------- MODULE ChunkedDownload ---------------------------
(***************************************************************************)
(* runChunked (internal/client/downloader/chunk.go): a ranged parallel     *)
(* download into a part file, with a meta file that remembers the finished *)
(* chunks for the next run.  The goroutines of one run are the workers,    *)
(* the publisher that feeds them chunk numbers over the unbuffered channel *)
(* `jobs', and the caller, which waits for an error, a cancelled context   *)
(* or the end of all workers.  They share the buffered channel workerErr,  *)
(* the channel `abort' that is closed to stop them, and refreshMu.         *)
(*                                                                         *)
(* The model runs the function again and again on the same two files; a    *)
(* run may be killed at any step.  In between are the two that touch these *)
(* files as well: finishFile, which moves or removes the part file first   *)
(* and removes the meta file afterwards, and downloadStream, which starts  *)
(* the part file anew and knows of no meta file (both in downloader.go).   *)
(***************************************************************************)
EXTENDS Naturals, FiniteSets

CONSTANTS Worker,    \* the goroutines, `concurrency' many
          Chunks,    \* plan.chunks
          Attempts,  \* tries per chunk (4 in the code)
          Faults     \* what may go wrong

ASSUME ChunkedAssumption ==
  /\ Chunks \in Nat \ {0}
  /\ Attempts \in Nat \ {0}
  /\ IsFiniteSet(Worker) /\ Worker # {} /\ "nobody" \notin Worker
  /\ Faults \subseteq {"retry",    \* network error, 5xx, 429 or short body
                       "expired",  \* 401, 403 or 410
                       "fatal",    \* any other status
                       "save",     \* the meta file cannot be written
                       "cancel",   \* Ctrl-C cancels the context
                       "kill"}     \* the process dies

Chunk == 0 .. Chunks - 1

VARIABLES written,   \* chunks whose bytes are in the part file
          saved,     \* chunks the meta file says are done
          lost,      \* history: those of them whose bytes finishFile or
                     \* downloadStream took away, leaving the meta file
          done,      \* meta.Done in memory
          todo,      \* chunks the publisher has not handed out
          publisher, \* "publish", "closed" (jobs is closed) or "quit"
          pc,        \* pc[w]: where worker w is
          chunk,     \* chunk[w]: the chunk it took last
          attempt,   \* attempt[w]: the failed tries of that chunk
          refreshMu, \* the worker that refreshes the URL, or "nobody"
          workerErr, \* number of errors waiting in the channel
          abort,     \* the channel abort is closed
          cancelled, \* ctx is done
          main       \* where the caller's goroutine is

files == <<written, saved, lost>>
jobs == <<todo, publisher>>
work == <<pc, chunk, attempt>>
signals == <<workerErr, abort>>
vars == <<files, done, jobs, work, refreshMu, signals, cancelled, main>>

PC == {"take", "check", "try", "request", "refresh", "refreshing", "save",
       "send", "giveup", "close", "closing", "returned"}

\* "none": no run; "nil", "error", "panic": how the last run ended.
Running == main \in {"select", "close", "closing", "wait"}
\* "finishing": finishFile is between the part file and the meta file.
Main == {"none", "select", "close", "closing", "wait", "nil", "error", "panic",
         "finishing"}

\* The type invariant.
TypeOK ==
  /\ written \subseteq Chunk
  /\ saved \subseteq Chunk
  /\ lost \subseteq Chunk
  /\ done \subseteq Chunk
  /\ todo \subseteq Chunk
  /\ publisher \in {"publish", "closed", "quit"}
  /\ pc \in [Worker -> PC]
  /\ chunk \in [Worker -> Chunk]
  /\ attempt \in [Worker -> 0 .. Attempts]
  /\ refreshMu \in Worker \cup {"nobody"}
  /\ workerErr \in Nat
  /\ abort \in BOOLEAN
  /\ cancelled \in BOOLEAN
  /\ main \in Main

\* Nothing of a run is left when there is none.
AtRest ==
  [todo |-> {}, pc |-> [w \in Worker |-> "returned"],
   chunk |-> [w \in Worker |-> 0], attempt |-> [w \in Worker |-> 0]]

Init ==
  /\ written = {} /\ saved = {} /\ lost = {} /\ done = {}
  /\ todo = AtRest.todo /\ publisher = "closed"
  /\ pc = AtRest.pc /\ chunk = AtRest.chunk /\ attempt = AtRest.attempt
  /\ refreshMu = "nobody"
  /\ workerErr = 0
  /\ abort = FALSE /\ cancelled = FALSE
  /\ main = "none"

-----------------------------------------------------------------------------
(* The caller *)

\* The meta file is believed as it is; when it says that everything is done
\* the part file is not even opened.
Begin ==
  /\ main = "none"
  /\ done' = saved
  /\ IF saved = Chunk
     THEN main' = "nil" /\ UNCHANGED <<jobs, work>>
     ELSE /\ main' = "select"
          /\ todo' = Chunk \ saved
          /\ publisher' = "publish"
          /\ pc' = [w \in Worker |-> "take"]
          /\ UNCHANGED <<chunk, attempt>>
  /\ UNCHANGED <<files, refreshMu, signals, cancelled>>

AllReturned == \A w \in Worker : pc[w] = "returned"

\* select of the main loop: whatever is ready, in no particular order.  When
\* all workers have returned without an error being picked up, the meta file
\* is saved once more and that is the result.
Select ==
  /\ main = "select"
  /\ \/ workerErr > 0 /\ workerErr' = workerErr - 1
        /\ main' = "close" /\ UNCHANGED saved
     \/ cancelled /\ main' = "close" /\ UNCHANGED <<workerErr, saved>>
     \/ AllReturned /\ saved' = done /\ main' = "nil" /\ UNCHANGED workerErr
     \/ /\ AllReturned /\ "save" \in Faults
        /\ main' = "error" /\ UNCHANGED <<workerErr, saved>>
  /\ UNCHANGED <<written, lost, done, jobs, work, refreshMu, abort, cancelled>>

\* closeOnce looks whether abort is closed ...
MainLooks ==
  /\ main = "close"
  /\ main' = IF abort THEN "wait" ELSE "closing"
  /\ UNCHANGED <<files, done, jobs, work, refreshMu, signals, cancelled>>

\* ... and then closes it, which panics when it is closed by now.
MainCloses ==
  /\ main = "closing"
  /\ abort' = TRUE
  /\ main' = IF abort THEN "panic" ELSE "wait"
  /\ UNCHANGED <<files, done, jobs, work, refreshMu, workerErr, cancelled>>

\* <-finished, then return runErr.
MainReturns ==
  /\ main = "wait" /\ AllReturned
  /\ main' = "error"
  /\ UNCHANGED <<files, done, jobs, work, refreshMu, signals, cancelled>>

-----------------------------------------------------------------------------
(* The publisher *)

\* MUTANT of Publish: the chunk stays in the list.
PublishAgain(w) ==
  /\ publisher = "publish" /\ todo # {}
  /\ pc[w] = "take" /\ Running
  /\ \E c \in todo : (\A d \in todo : c <= d)
       /\ chunk' = [chunk EXCEPT ![w] = c]
       /\ todo' \in {todo, todo \ {c}}
  /\ attempt' = [attempt EXCEPT ![w] = 0]
  /\ pc' = [pc EXCEPT ![w] = "check"]
  /\ UNCHANGED <<files, done, publisher, refreshMu, signals, cancelled, main>>

\* jobs <- idx, received by worker w; the chunks go out in ascending order.
Publish(w) ==
  /\ publisher = "publish" /\ todo # {}
  /\ pc[w] = "take" /\ Running
  /\ \E c \in todo : (\A d \in todo : c <= d)
       /\ chunk' = [chunk EXCEPT ![w] = c]
       /\ todo' = todo \ {c}
  /\ attempt' = [attempt EXCEPT ![w] = 0]
  /\ pc' = [pc EXCEPT ![w] = "check"]
  /\ UNCHANGED <<files, done, publisher, refreshMu, signals, cancelled, main>>

\* MUTANT of PublisherEnds: jobs is never closed.
PublisherStays ==
  /\ publisher = "publish" /\ Running
  /\ todo # {} /\ abort /\ publisher' = "quit"
  /\ UNCHANGED <<files, done, todo, work, refreshMu, signals, cancelled, main>>

\* Out of chunks, the publisher closes jobs; on abort it returns without.
PublisherEnds ==
  /\ publisher = "publish" /\ Running
  /\ \/ todo = {} /\ publisher' = "closed"
     \/ todo # {} /\ abort /\ publisher' = "quit"
  /\ UNCHANGED <<files, done, todo, work, refreshMu, signals, cancelled, main>>

-----------------------------------------------------------------------------
(* A worker *)

At(w, from, to) ==
  /\ Running
  /\ pc[w] = from
  /\ pc' = [pc EXCEPT ![w] = to]

\* range jobs ends when jobs is closed and only then.
Leave(w) ==
  /\ At(w, "take", "returned")
  /\ publisher = "closed"
  /\ UNCHANGED <<files, done, jobs, chunk, attempt, refreshMu, signals,
                 cancelled, main>>

\* A chunk that arrives after the abort is dropped.
Check(w) ==
  /\ At(w, "check", IF abort THEN "returned" ELSE "try")
  /\ UNCHANGED <<files, done, jobs, chunk, attempt, refreshMu, signals,
                 cancelled, main>>

\* The head of the attempts' loop; getURL waits for a refresh under way.
Try(w) ==
  /\ IF cancelled THEN At(w, "try", "send")
     ELSE refreshMu = "nobody" /\ At(w, "try", "request")
  /\ UNCHANGED <<files, done, jobs, chunk, attempt, refreshMu, signals,
                 cancelled, main>>

\* One attempt was in vain.
Again(w) ==
  /\ attempt' = [attempt EXCEPT ![w] = @ + 1]
  /\ pc' = [pc EXCEPT ![w] = IF attempt[w] + 1 < Attempts THEN "try"
                             ELSE "giveup"]

\* MUTANT of Request: a body that breaks off early passes for the chunk.
RequestShort(w) ==
  /\ Running /\ pc[w] = "request"
  /\ \E whole \in BOOLEAN :
       written' = IF whole THEN written \cup {chunk[w]} ELSE written
  /\ pc' = [pc EXCEPT ![w] = "save"]
  /\ UNCHANGED <<saved, lost, done, jobs, chunk, attempt, refreshMu, signals,
                 cancelled, main>>

\* The range request and the copy of its body.
Request(w) ==
  /\ Running /\ pc[w] = "request"
  /\ \/ /\ written' = written \cup {chunk[w]}
        /\ pc' = [pc EXCEPT ![w] = "save"] /\ UNCHANGED attempt
     \/ /\ "retry" \in Faults \/ cancelled
        /\ Again(w) /\ UNCHANGED written
     \/ /\ "expired" \in Faults
        /\ pc' = [pc EXCEPT ![w] = "refresh"] /\ UNCHANGED <<written, attempt>>
     \/ /\ "fatal" \in Faults
        /\ pc' = [pc EXCEPT ![w] = "send"] /\ UNCHANGED <<written, attempt>>
  /\ UNCHANGED <<saved, lost, done, jobs, chunk, refreshMu, signals, cancelled,
                 main>>

\* doRefresh: the new URL is asked for under refreshMu.
Refresh(w) ==
  /\ refreshMu = "nobody"
  /\ At(w, "refresh", "refreshing")
  /\ refreshMu' = w
  /\ UNCHANGED <<files, done, jobs, chunk, attempt, signals, cancelled, main>>

\* With or without a new URL the attempt counts.
Refreshed(w) ==
  /\ Running /\ pc[w] = "refreshing"
  /\ refreshMu' = "nobody"
  /\ Again(w)
  /\ UNCHANGED <<files, done, jobs, chunk, signals, cancelled, main>>

\* Under mu: the chunk is marked and the meta file is replaced.
Save(w) ==
  /\ Running /\ pc[w] = "save"
  /\ done' = done \cup {chunk[w]}
  /\ \/ saved' = done' /\ pc' = [pc EXCEPT ![w] = "take"]
     \/ "save" \in Faults /\ UNCHANGED saved /\ pc' = [pc EXCEPT ![w] = "send"]
  /\ UNCHANGED <<written, lost, jobs, chunk, attempt, refreshMu, signals,
                 cancelled, main>>

\* workerErr <- err; the channel has room for one error per worker and more.
Send(w) ==
  /\ At(w, "send", "close")
  /\ workerErr <= Cardinality(Worker)
  /\ workerErr' = workerErr + 1
  /\ UNCHANGED <<files, done, jobs, chunk, attempt, refreshMu, abort,
                 cancelled, main>>

\* MUTANT of GiveUp: the error is dropped.
GiveUpSilently(w) ==
  /\ At(w, "giveup", "close")
  /\ UNCHANGED <<files, done, jobs, chunk, attempt, refreshMu, signals,
                 cancelled, main>>

\* The same after the last attempt, unless abort is closed already.
GiveUp(w) ==
  /\ At(w, "giveup", "close")
  /\ \/ /\ workerErr <= Cardinality(Worker)
        /\ workerErr' = workerErr + 1
     \/ abort /\ UNCHANGED workerErr
  /\ UNCHANGED <<files, done, jobs, chunk, attempt, refreshMu, abort,
                 cancelled, main>>

\* closeOnce, as in MainLooks and MainCloses.
Looks(w) ==
  /\ At(w, "close", IF abort THEN "returned" ELSE "closing")
  /\ UNCHANGED <<files, done, jobs, chunk, attempt, refreshMu, signals,
                 cancelled, main>>

Closes(w) ==
  /\ At(w, "closing", "returned")
  /\ abort' = TRUE
  /\ main' = IF abort THEN "panic" ELSE main
  /\ UNCHANGED <<files, done, jobs, chunk, attempt, refreshMu, workerErr,
                 cancelled>>

Work(w) ==
  \/ Publish(w) \/ Leave(w) \/ Check(w) \/ Try(w) \/ Request(w) \/ Refresh(w)
  \/ Refreshed(w) \/ Save(w) \/ Send(w) \/ GiveUp(w) \/ Looks(w) \/ Closes(w)

-----------------------------------------------------------------------------
(* The environment *)

Cancel ==
  /\ "cancel" \in Faults
  /\ Running /\ ~ cancelled
  /\ cancelled' = TRUE
  /\ UNCHANGED <<files, done, jobs, work, refreshMu, signals, main>>

\* The memory of a run is gone.
Forget ==
  /\ todo' = AtRest.todo /\ publisher' = "closed"
  /\ pc' = AtRest.pc /\ chunk' = AtRest.chunk /\ attempt' = AtRest.attempt
  /\ done' = {}
  /\ refreshMu' = "nobody"
  /\ workerErr' = 0
  /\ abort' = FALSE /\ cancelled' = FALSE

Kill == "kill" \in Faults /\ Running /\ Forget /\ main' = "none" /\ UNCHANGED files

\* The run is over without finishFile having touched the files: it was not
\* called, was killed, or could not move the part file.
RunAgain ==
  /\ main \in {"nil", "error", "panic"}
  /\ Forget
  /\ main' = "none"
  /\ UNCHANGED files

\* The bytes of the part file become those of `bytes', and the meta file stays:
\* what it says beyond them is lost.
Replace(bytes) ==
  /\ written' = bytes
  /\ lost' = saved \ bytes
  /\ UNCHANGED saved

\* finishFile after a success: the part file becomes the output, or is removed
\* because of its hash or of an output that exists ...
FinishPart ==
  /\ main = "nil"
  /\ Forget
  /\ Replace({})
  /\ main' = "finishing"

\* ... and then the meta file is removed, unless that fails (nobody looks) or the
\* process is killed before.
FinishMeta ==
  /\ main = "finishing"
  /\ main' = "none"
  /\ \/ saved' = {} /\ lost' = {}
     \/ UNCHANGED <<saved, lost>>
  /\ UNCHANGED <<written, done, jobs, work, refreshMu, signals, cancelled>>

\* A run that does not download in ranges: downloadStream truncates the part
\* file, writes it from the beginning, and removes it when it fails.  It is over
\* at a failure, killed with the first chunks written, or goes on to finishFile.
Stream ==
  /\ main = "none"
  /\ \/ Replace({}) /\ main' \in {"none", "finishing"}
     \/ /\ "kill" \in Faults
        /\ \E c \in Chunk : Replace(0 .. c)
        /\ UNCHANGED main
  /\ UNCHANGED <<done, jobs, work, refreshMu, signals, cancelled>>

Caller == Select \/ MainLooks \/ MainCloses \/ MainReturns

Next ==
  \/ Begin
  \/ Caller
  \/ PublisherEnds
  \/ \E w \in Worker : Work(w)
  \/ Cancel
  \/ Kill
  \/ RunAgain
  \/ FinishPart
  \/ FinishMeta
  \/ Stream

Spec == Init /\ [][Next]_vars

\* Every goroutine that can run does, and every request and refresh ends, in
\* success or not.  (The transfer client sets no timeout of its own.)
Fairness ==
  /\ WF_vars(Caller)
  /\ WF_vars(PublisherEnds)
  /\ \A w \in Worker : WF_vars(Work(w))

FairSpec == Spec /\ Fairness

-----------------------------------------------------------------------------
(* Properties *)

\* What the meta file or the memory says is done has its bytes in the part
\* file, wherever runChunked was killed, but for what finishFile or
\* downloadStream took away while they left the meta file: a mark is set after
\* the bytes, whatever several workers, failing saves, aborts and kills do.  (The
\* exception is finding 2 of the README: a later run believes the marks that are
\* lost.)
MarkedIsWritten == saved \cup done \subseteq written \cup lost

\* A chunk is in the hands of at most one worker, and then neither waiting to
\* be handed out nor already done: no two workers write the same range, and
\* the progress counter counts no chunk twice.
Holds(w) == pc[w] \in {"check", "try", "request", "refresh", "refreshing",
                       "save"}

OneWorkerPerChunk ==
  \A w \in Worker : Holds(w) =>
    /\ chunk[w] \notin todo \cup done
    /\ \A v \in Worker \ {w} : Holds(v) => chunk[v] # chunk[w]

\* A run that returns nil while no error is left in workerErr has fetched
\* everything that was not marked with its bytes lost: a chunk is dropped only by
\* somebody who reported why, or after somebody did.
QuietSuccessIsComplete ==
  main = "nil" /\ workerErr = 0 => written \cup lost = Chunk

\* Why these three hold, as an inductive invariant.  A worker on a chunk has
\* tries left; what it is about to mark, it has written; without a run nobody
\* holds a chunk; and as long as the caller has neither picked up an error nor
\* has one to pick up, every chunk is done, waiting or with a worker, and a
\* worker has left only because jobs is closed.
Reporting(w) == pc[w] \in {"send", "giveup"}

WorkersInv ==
  /\ \A w \in Worker : Holds(w) => attempt[w] < Attempts
  /\ \A w \in Worker : pc[w] = "save" => chunk[w] \in written
  /\ main \in {"none", "finishing"} =>
       todo = {} /\ done = {} /\ AllReturned /\ ~ abort
  /\ todo \cap done = {}

Undisturbed == main = "select" /\ workerErr = 0

AllAccounted ==
  Undisturbed =>
    /\ ~ abort
    /\ publisher \in {"publish", "closed"}
    /\ publisher = "closed" => todo = {}
    /\ \A w \in Worker : pc[w] \notin {"close", "closing"}
    /\ \A w \in Worker : pc[w] = "returned" => publisher = "closed"
    /\ \A c \in Chunk \ (done \cup todo) :
          \E w \in Worker : chunk[w] = c /\ (Holds(w) \/ Reporting(w))

ChunkInv ==
  /\ TypeOK
  /\ MarkedIsWritten
  /\ OneWorkerPerChunk
  /\ QuietSuccessIsComplete
  /\ WorkersInv
  /\ AllAccounted

\* Only the publisher keeps runChunked from returning: as long as it does not
\* leave without closing jobs, the run ends, whatever fails or is cancelled.
OnlyAbandonedHangs == Running ~> ~ Running \/ publisher = "quit"
=============================================================================
