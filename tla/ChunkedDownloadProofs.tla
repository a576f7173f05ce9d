------------------------ MODULE ChunkedDownloadProofs ------------------------
(***************************************************************************)
(* Proofs about ChunkedDownload: ChunkInv is inductive, for every number   *)
(* of workers, chunks and attempts and with every fault.  There is one     *)
(* lemma per action, with one step per conjunct of the invariant; each     *)
(* step names the conjuncts of the old state it needs.                     *)
(***************************************************************************)
EXTENDS ChunkedDownload, TLAPS

\* Without a run, memory is typed too.
LEMMA ForgetTypes ==
  ASSUME TypeOK, Forget
  PROVE  /\ done' = {} /\ todo' = {} /\ publisher' = "closed"
         /\ pc' \in [Worker -> PC]
         /\ chunk' \in [Worker -> Chunk]
         /\ attempt' \in [Worker -> 0 .. Attempts]
         /\ refreshMu' = "nobody" /\ workerErr' \in Nat
         /\ abort' = FALSE /\ cancelled' = FALSE
<1>1. 0 \in Chunk /\ 0 \in 0 .. Attempts
  BY ChunkedAssumption DEF Chunk
<1>. QED BY <1>1 DEF Forget, AtRest, PC

\* A run starts with what the meta file says, hands every chunk to the publisher.
LEMMA BeginKeeps ==
  ASSUME ChunkInv, Begin
  PROVE  ChunkInv'
<1>. USE ChunkedAssumption DEF ChunkInv, Begin, files, jobs, work, signals
<1>1. TypeOK'
  BY DEF TypeOK, PC, Main, Chunk
<1>2. MarkedIsWritten'
  BY DEF TypeOK, MarkedIsWritten, WorkersInv
<1>3. OneWorkerPerChunk'
  BY DEF TypeOK, OneWorkerPerChunk, WorkersInv, Holds, AllReturned
<1>4. QuietSuccessIsComplete'
  BY DEF TypeOK, MarkedIsWritten, QuietSuccessIsComplete, AllAccounted,
         Undisturbed, AllReturned, Holds, Reporting
<1>5. WorkersInv'
  BY DEF TypeOK, WorkersInv, OneWorkerPerChunk, Holds, AllReturned
<1>6. AllAccounted'
  <2>1. CASE main' = "nil"
    BY <2>1 DEF AllAccounted, Undisturbed
  <2>2. CASE saved # Chunk
    <3>1. \A w \in Worker : pc'[w] = "take"
      BY <2>2
    <3>2. ~ abort'
      BY <2>2 DEF WorkersInv
    <3>3. Chunk \ (done' \cup todo') = {} /\ publisher' = "publish"
      BY <2>2
    <3>. QED
      BY <2>2, <3>1, <3>2, <3>3 DEF AllAccounted, Undisturbed
  <2>. QED BY <2>1, <2>2
<1>. QED BY <1>1, <1>2, <1>3, <1>4, <1>5, <1>6

\* An error is picked up, or all workers have left and everything is accounted for.
LEMMA SelectKeeps ==
  ASSUME ChunkInv, Select
  PROVE  ChunkInv'
<1>. USE ChunkedAssumption DEF ChunkInv, Select, files, jobs, work, signals
<1>1. TypeOK'
  <2>1. workerErr' \in Nat
    BY DEF TypeOK
  <2>2. main' \in Main
    BY DEF Main
  <2>3. saved' \subseteq Chunk
    BY DEF TypeOK
  <2>. QED BY <2>1, <2>2, <2>3 DEF TypeOK
<1>2. MarkedIsWritten'
  BY DEF TypeOK, MarkedIsWritten, WorkersInv
<1>3. OneWorkerPerChunk'
  BY DEF TypeOK, OneWorkerPerChunk, WorkersInv, Holds, AllReturned
<1>4. QuietSuccessIsComplete'
  BY DEF TypeOK, MarkedIsWritten, QuietSuccessIsComplete, AllAccounted,
         Undisturbed, AllReturned, Holds, Reporting
<1>5. WorkersInv'
  BY DEF TypeOK, WorkersInv, OneWorkerPerChunk, Holds, AllReturned
<1>6. AllAccounted'
  BY DEF TypeOK, AllAccounted, Undisturbed, OneWorkerPerChunk, WorkersInv,
         Holds, Reporting
<1>. QED BY <1>1, <1>2, <1>3, <1>4, <1>5, <1>6

\* The caller looks at abort; it has an error, so it is not undisturbed.
LEMMA MainLooksKeeps ==
  ASSUME ChunkInv, MainLooks
  PROVE  ChunkInv'
<1>. USE ChunkedAssumption DEF ChunkInv, MainLooks, files, jobs, work, signals
<1>1. TypeOK'
  BY DEF TypeOK, PC, Main, Chunk
<1>2. MarkedIsWritten'
  BY DEF TypeOK, MarkedIsWritten, WorkersInv
<1>3. OneWorkerPerChunk'
  BY DEF TypeOK, OneWorkerPerChunk, WorkersInv, Holds, AllReturned
<1>4. QuietSuccessIsComplete'
  BY DEF TypeOK, MarkedIsWritten, QuietSuccessIsComplete, AllAccounted,
         Undisturbed, AllReturned, Holds, Reporting
<1>5. WorkersInv'
  BY DEF TypeOK, WorkersInv, OneWorkerPerChunk, Holds, AllReturned
<1>6. AllAccounted'
  BY DEF TypeOK, AllAccounted, Undisturbed, OneWorkerPerChunk, WorkersInv,
         Holds, Reporting
<1>. QED BY <1>1, <1>2, <1>3, <1>4, <1>5, <1>6

\* The caller closes abort.
LEMMA MainClosesKeeps ==
  ASSUME ChunkInv, MainCloses
  PROVE  ChunkInv'
<1>. USE ChunkedAssumption DEF ChunkInv, MainCloses, files, jobs, work, signals
<1>1. TypeOK'
  BY DEF TypeOK, PC, Main, Chunk
<1>2. MarkedIsWritten'
  BY DEF TypeOK, MarkedIsWritten, WorkersInv
<1>3. OneWorkerPerChunk'
  BY DEF TypeOK, OneWorkerPerChunk, WorkersInv, Holds, AllReturned
<1>4. QuietSuccessIsComplete'
  BY DEF TypeOK, MarkedIsWritten, QuietSuccessIsComplete, AllAccounted,
         Undisturbed, AllReturned, Holds, Reporting
<1>5. WorkersInv'
  BY DEF TypeOK, WorkersInv, OneWorkerPerChunk, Holds, AllReturned
<1>6. AllAccounted'
  BY DEF TypeOK, AllAccounted, Undisturbed, OneWorkerPerChunk, WorkersInv,
         Holds, Reporting
<1>. QED BY <1>1, <1>2, <1>3, <1>4, <1>5, <1>6

\* The caller returns the error.
LEMMA MainReturnsKeeps ==
  ASSUME ChunkInv, MainReturns
  PROVE  ChunkInv'
<1>. USE ChunkedAssumption DEF ChunkInv, MainReturns, files, jobs, work, signals
<1>1. TypeOK'
  BY DEF TypeOK, PC, Main, Chunk
<1>2. MarkedIsWritten'
  BY DEF TypeOK, MarkedIsWritten, WorkersInv
<1>3. OneWorkerPerChunk'
  BY DEF TypeOK, OneWorkerPerChunk, WorkersInv, Holds, AllReturned
<1>4. QuietSuccessIsComplete'
  BY DEF TypeOK, MarkedIsWritten, QuietSuccessIsComplete, AllAccounted,
         Undisturbed, AllReturned, Holds, Reporting
<1>5. WorkersInv'
  BY DEF TypeOK, WorkersInv, OneWorkerPerChunk, Holds, AllReturned
<1>6. AllAccounted'
  BY DEF TypeOK, AllAccounted, Undisturbed, OneWorkerPerChunk, WorkersInv,
         Holds, Reporting
<1>. QED BY <1>1, <1>2, <1>3, <1>4, <1>5, <1>6

\* The publisher quits on abort only, which an undisturbed caller excludes.
LEMMA PublisherEndsKeeps ==
  ASSUME ChunkInv, PublisherEnds
  PROVE  ChunkInv'
<1>. USE ChunkedAssumption DEF ChunkInv, PublisherEnds, Running, files, jobs, work, signals
<1>1. TypeOK'
  BY DEF TypeOK, PC, Main, Chunk
<1>2. MarkedIsWritten'
  BY DEF TypeOK, MarkedIsWritten, WorkersInv
<1>3. OneWorkerPerChunk'
  BY DEF TypeOK, OneWorkerPerChunk, WorkersInv, Holds, AllReturned
<1>4. QuietSuccessIsComplete'
  BY DEF TypeOK, MarkedIsWritten, QuietSuccessIsComplete, AllAccounted,
         Undisturbed, AllReturned, Holds, Reporting
<1>5. WorkersInv'
  BY DEF TypeOK, WorkersInv, OneWorkerPerChunk, Holds, AllReturned
<1>6. AllAccounted'
  BY DEF TypeOK, AllAccounted, Undisturbed, OneWorkerPerChunk, WorkersInv,
         Holds, Reporting
<1>. QED BY <1>1, <1>2, <1>3, <1>4, <1>5, <1>6

\* A chunk moves from the list to one worker.
LEMMA PublishKeeps ==
  ASSUME ChunkInv, NEW w \in Worker, Publish(w)
  PROVE  ChunkInv'
<1>. USE ChunkedAssumption DEF ChunkInv, Publish, Running, files, jobs, work, signals
<1>1. TypeOK'
  BY DEF TypeOK, PC, Main, Chunk
<1>2. MarkedIsWritten'
  BY DEF TypeOK, MarkedIsWritten, WorkersInv
<1>3. OneWorkerPerChunk'
  BY DEF TypeOK, OneWorkerPerChunk, WorkersInv, Holds, AllReturned
<1>4. QuietSuccessIsComplete'
  BY DEF TypeOK, MarkedIsWritten, QuietSuccessIsComplete, AllAccounted,
         Undisturbed, AllReturned, Holds, Reporting
<1>5. WorkersInv'
  BY DEF TypeOK, WorkersInv, OneWorkerPerChunk, Holds, AllReturned
<1>6. AllAccounted'
  BY DEF TypeOK, AllAccounted, Undisturbed, OneWorkerPerChunk, WorkersInv,
         Holds, Reporting
<1>. QED BY <1>1, <1>2, <1>3, <1>4, <1>5, <1>6

\* A worker leaves when jobs is closed, hence empty.
LEMMA LeaveKeeps ==
  ASSUME ChunkInv, NEW w \in Worker, Leave(w)
  PROVE  ChunkInv'
<1>. USE ChunkedAssumption DEF ChunkInv, Leave, At, Running, files, jobs, work, signals
<1>1. TypeOK'
  BY DEF TypeOK, PC, Main, Chunk
<1>2. MarkedIsWritten'
  BY DEF TypeOK, MarkedIsWritten, WorkersInv
<1>3. OneWorkerPerChunk'
  BY DEF TypeOK, OneWorkerPerChunk, WorkersInv, Holds, AllReturned
<1>4. QuietSuccessIsComplete'
  BY DEF TypeOK, MarkedIsWritten, QuietSuccessIsComplete, AllAccounted,
         Undisturbed, AllReturned, Holds, Reporting
<1>5. WorkersInv'
  BY DEF TypeOK, WorkersInv, OneWorkerPerChunk, Holds, AllReturned
<1>6. AllAccounted'
  BY DEF TypeOK, AllAccounted, Undisturbed, OneWorkerPerChunk, WorkersInv,
         Holds, Reporting
<1>. QED BY <1>1, <1>2, <1>3, <1>4, <1>5, <1>6

\* A chunk is dropped on abort only.
LEMMA CheckKeeps ==
  ASSUME ChunkInv, NEW w \in Worker, Check(w)
  PROVE  ChunkInv'
<1>. USE ChunkedAssumption DEF ChunkInv, Check, At, Running, files, jobs, work, signals
<1>1. TypeOK'
  BY DEF TypeOK, PC, Main, Chunk
<1>2. MarkedIsWritten'
  BY DEF TypeOK, MarkedIsWritten, WorkersInv
<1>3. OneWorkerPerChunk'
  BY DEF TypeOK, OneWorkerPerChunk, WorkersInv, Holds, AllReturned
<1>4. QuietSuccessIsComplete'
  BY DEF TypeOK, MarkedIsWritten, QuietSuccessIsComplete, AllAccounted,
         Undisturbed, AllReturned, Holds, Reporting
<1>5. WorkersInv'
  BY DEF TypeOK, WorkersInv, OneWorkerPerChunk, Holds, AllReturned
<1>6. AllAccounted'
  BY DEF TypeOK, AllAccounted, Undisturbed, OneWorkerPerChunk, WorkersInv,
         Holds, Reporting
<1>. QED BY <1>1, <1>2, <1>3, <1>4, <1>5, <1>6

\* The worker still holds its chunk, or reports.
LEMMA TryKeeps ==
  ASSUME ChunkInv, NEW w \in Worker, Try(w)
  PROVE  ChunkInv'
<1>. USE ChunkedAssumption DEF ChunkInv, Try, At, Running, files, jobs, work, signals
<1>1. TypeOK'
  BY DEF TypeOK, PC, Main, Chunk
<1>2. MarkedIsWritten'
  BY DEF TypeOK, MarkedIsWritten, WorkersInv
<1>3. OneWorkerPerChunk'
  BY DEF TypeOK, OneWorkerPerChunk, WorkersInv, Holds, AllReturned
<1>4. QuietSuccessIsComplete'
  BY DEF TypeOK, MarkedIsWritten, QuietSuccessIsComplete, AllAccounted,
         Undisturbed, AllReturned, Holds, Reporting
<1>5. WorkersInv'
  BY DEF TypeOK, WorkersInv, OneWorkerPerChunk, Holds, AllReturned
<1>6. AllAccounted'
  BY DEF TypeOK, AllAccounted, Undisturbed, OneWorkerPerChunk, WorkersInv,
         Holds, Reporting
<1>. QED BY <1>1, <1>2, <1>3, <1>4, <1>5, <1>6

\* What is going to be marked has been written.
LEMMA RequestKeeps ==
  ASSUME ChunkInv, NEW w \in Worker, Request(w)
  PROVE  ChunkInv'
<1>. USE ChunkedAssumption DEF ChunkInv, Request, Again, Running, files, jobs, work, signals
<1>1. TypeOK'
  <2>1. attempt[w] + 1 \in 0 .. Attempts
    BY DEF TypeOK, WorkersInv, Holds
  <2>2. attempt' \in [Worker -> 0 .. Attempts]
    BY <2>1 DEF TypeOK
  <2>3. pc' \in [Worker -> PC]
    BY DEF TypeOK, PC
  <2>4. written' \subseteq Chunk
    BY DEF TypeOK
  <2>. QED BY <2>2, <2>3, <2>4 DEF TypeOK
<1>2. MarkedIsWritten'
  BY DEF TypeOK, MarkedIsWritten, WorkersInv
<1>3. OneWorkerPerChunk'
  BY DEF TypeOK, OneWorkerPerChunk, WorkersInv, Holds, AllReturned
<1>4. QuietSuccessIsComplete'
  BY DEF TypeOK, MarkedIsWritten, QuietSuccessIsComplete, AllAccounted,
         Undisturbed, AllReturned, Holds, Reporting
<1>5. WorkersInv'
  BY DEF TypeOK, WorkersInv, OneWorkerPerChunk, Holds, AllReturned
<1>6. AllAccounted'
  BY DEF TypeOK, AllAccounted, Undisturbed, OneWorkerPerChunk, WorkersInv,
         Holds, Reporting
<1>. QED BY <1>1, <1>2, <1>3, <1>4, <1>5, <1>6

\* The worker takes refreshMu.
LEMMA RefreshKeeps ==
  ASSUME ChunkInv, NEW w \in Worker, Refresh(w)
  PROVE  ChunkInv'
<1>. USE ChunkedAssumption DEF ChunkInv, Refresh, At, Running, files, jobs, work, signals
<1>1. TypeOK'
  BY DEF TypeOK, PC, Main, Chunk
<1>2. MarkedIsWritten'
  BY DEF TypeOK, MarkedIsWritten, WorkersInv
<1>3. OneWorkerPerChunk'
  BY DEF TypeOK, OneWorkerPerChunk, WorkersInv, Holds, AllReturned
<1>4. QuietSuccessIsComplete'
  BY DEF TypeOK, MarkedIsWritten, QuietSuccessIsComplete, AllAccounted,
         Undisturbed, AllReturned, Holds, Reporting
<1>5. WorkersInv'
  BY DEF TypeOK, WorkersInv, OneWorkerPerChunk, Holds, AllReturned
<1>6. AllAccounted'
  BY DEF TypeOK, AllAccounted, Undisturbed, OneWorkerPerChunk, WorkersInv,
         Holds, Reporting
<1>. QED BY <1>1, <1>2, <1>3, <1>4, <1>5, <1>6

\* The worker releases refreshMu and has one try less.
LEMMA RefreshedKeeps ==
  ASSUME ChunkInv, NEW w \in Worker, Refreshed(w)
  PROVE  ChunkInv'
<1>. USE ChunkedAssumption DEF ChunkInv, Refreshed, Again, Running, files, jobs, work, signals
<1>1. TypeOK'
  <2>1. attempt[w] + 1 \in 0 .. Attempts
    BY DEF TypeOK, WorkersInv, Holds
  <2>2. attempt' \in [Worker -> 0 .. Attempts]
    BY <2>1 DEF TypeOK
  <2>3. pc' \in [Worker -> PC]
    BY DEF TypeOK, PC
  <2>. QED BY <2>2, <2>3 DEF TypeOK
<1>2. MarkedIsWritten'
  BY DEF TypeOK, MarkedIsWritten, WorkersInv
<1>3. OneWorkerPerChunk'
  BY DEF TypeOK, OneWorkerPerChunk, WorkersInv, Holds, AllReturned
<1>4. QuietSuccessIsComplete'
  BY DEF TypeOK, MarkedIsWritten, QuietSuccessIsComplete, AllAccounted,
         Undisturbed, AllReturned, Holds, Reporting
<1>5. WorkersInv'
  BY DEF TypeOK, WorkersInv, OneWorkerPerChunk, Holds, AllReturned
<1>6. AllAccounted'
  BY DEF TypeOK, AllAccounted, Undisturbed, OneWorkerPerChunk, WorkersInv,
         Holds, Reporting
<1>. QED BY <1>1, <1>2, <1>3, <1>4, <1>5, <1>6

\* The chunk moves from the worker to done.
LEMMA SaveKeeps ==
  ASSUME ChunkInv, NEW w \in Worker, Save(w)
  PROVE  ChunkInv'
<1>. USE ChunkedAssumption DEF ChunkInv, Save, Running, files, jobs, work, signals
<1>1. TypeOK'
  BY DEF TypeOK, PC
<1>2. MarkedIsWritten'
  BY DEF TypeOK, MarkedIsWritten, WorkersInv
<1>3. OneWorkerPerChunk'
  BY DEF TypeOK, OneWorkerPerChunk, WorkersInv, Holds, AllReturned
<1>4. QuietSuccessIsComplete'
  BY DEF TypeOK, MarkedIsWritten, QuietSuccessIsComplete, AllAccounted,
         Undisturbed, AllReturned, Holds, Reporting
<1>5. WorkersInv'
  BY DEF TypeOK, WorkersInv, OneWorkerPerChunk, Holds, AllReturned
<1>6. AllAccounted'
  BY DEF TypeOK, AllAccounted, Undisturbed, OneWorkerPerChunk, WorkersInv,
         Holds, Reporting
<1>. QED BY <1>1, <1>2, <1>3, <1>4, <1>5, <1>6

\* An error is in the channel now, so the caller is not undisturbed.
LEMMA SendKeeps ==
  ASSUME ChunkInv, NEW w \in Worker, Send(w)
  PROVE  ChunkInv'
<1>. USE ChunkedAssumption DEF ChunkInv, Send, At, Running, files, jobs, work, signals
<1>1. TypeOK'
  BY DEF TypeOK, PC, Main, Chunk
<1>2. MarkedIsWritten'
  BY DEF TypeOK, MarkedIsWritten, WorkersInv
<1>3. OneWorkerPerChunk'
  BY DEF TypeOK, OneWorkerPerChunk, WorkersInv, Holds, AllReturned
<1>4. QuietSuccessIsComplete'
  BY DEF TypeOK, MarkedIsWritten, QuietSuccessIsComplete, AllAccounted,
         Undisturbed, AllReturned, Holds, Reporting
<1>5. WorkersInv'
  BY DEF TypeOK, WorkersInv, OneWorkerPerChunk, Holds, AllReturned
<1>6. AllAccounted'
  BY DEF TypeOK, AllAccounted, Undisturbed, OneWorkerPerChunk, WorkersInv,
         Holds, Reporting
<1>. QED BY <1>1, <1>2, <1>3, <1>4, <1>5, <1>6

\* The same, or abort was closed and the caller was disturbed before.
LEMMA GiveUpKeeps ==
  ASSUME ChunkInv, NEW w \in Worker, GiveUp(w)
  PROVE  ChunkInv'
<1>. USE ChunkedAssumption DEF ChunkInv, GiveUp, At, Running, files, jobs, work, signals
<1>1. TypeOK'
  BY DEF TypeOK, PC, Main, Chunk
<1>2. MarkedIsWritten'
  BY DEF TypeOK, MarkedIsWritten, WorkersInv
<1>3. OneWorkerPerChunk'
  BY DEF TypeOK, OneWorkerPerChunk, WorkersInv, Holds, AllReturned
<1>4. QuietSuccessIsComplete'
  BY DEF TypeOK, MarkedIsWritten, QuietSuccessIsComplete, AllAccounted,
         Undisturbed, AllReturned, Holds, Reporting
<1>5. WorkersInv'
  BY DEF TypeOK, WorkersInv, OneWorkerPerChunk, Holds, AllReturned
<1>6. AllAccounted'
  BY DEF TypeOK, AllAccounted, Undisturbed, OneWorkerPerChunk, WorkersInv,
         Holds, Reporting
<1>. QED BY <1>1, <1>2, <1>3, <1>4, <1>5, <1>6

\* Whoever looks has reported.
LEMMA LooksKeeps ==
  ASSUME ChunkInv, NEW w \in Worker, Looks(w)
  PROVE  ChunkInv'
<1>. USE ChunkedAssumption DEF ChunkInv, Looks, At, Running, files, jobs, work, signals
<1>1. TypeOK'
  BY DEF TypeOK, PC, Main, Chunk
<1>2. MarkedIsWritten'
  BY DEF TypeOK, MarkedIsWritten, WorkersInv
<1>3. OneWorkerPerChunk'
  BY DEF TypeOK, OneWorkerPerChunk, WorkersInv, Holds, AllReturned
<1>4. QuietSuccessIsComplete'
  BY DEF TypeOK, MarkedIsWritten, QuietSuccessIsComplete, AllAccounted,
         Undisturbed, AllReturned, Holds, Reporting
<1>5. WorkersInv'
  BY DEF TypeOK, WorkersInv, OneWorkerPerChunk, Holds, AllReturned
<1>6. AllAccounted'
  BY DEF TypeOK, AllAccounted, Undisturbed, OneWorkerPerChunk, WorkersInv,
         Holds, Reporting
<1>. QED BY <1>1, <1>2, <1>3, <1>4, <1>5, <1>6

\* Whoever closes has reported.
LEMMA ClosesKeeps ==
  ASSUME ChunkInv, NEW w \in Worker, Closes(w)
  PROVE  ChunkInv'
<1>. USE ChunkedAssumption DEF ChunkInv, Closes, At, Running, files, jobs, work, signals
<1>1. TypeOK'
  BY DEF TypeOK, PC, Main, Chunk
<1>2. MarkedIsWritten'
  BY DEF TypeOK, MarkedIsWritten, WorkersInv
<1>3. OneWorkerPerChunk'
  BY DEF TypeOK, OneWorkerPerChunk, WorkersInv, Holds, AllReturned
<1>4. QuietSuccessIsComplete'
  BY DEF TypeOK, MarkedIsWritten, QuietSuccessIsComplete, AllAccounted,
         Undisturbed, AllReturned, Holds, Reporting
<1>5. WorkersInv'
  BY DEF TypeOK, WorkersInv, OneWorkerPerChunk, Holds, AllReturned
<1>6. AllAccounted'
  BY DEF TypeOK, AllAccounted, Undisturbed, OneWorkerPerChunk, WorkersInv,
         Holds, Reporting
<1>. QED BY <1>1, <1>2, <1>3, <1>4, <1>5, <1>6

\* Ctrl-C changes nothing by itself.
LEMMA CancelKeeps ==
  ASSUME ChunkInv, Cancel
  PROVE  ChunkInv'
<1>. USE ChunkedAssumption DEF ChunkInv, Cancel, Running, files, jobs, work, signals
<1>1. TypeOK'
  BY DEF TypeOK, PC, Main, Chunk
<1>2. MarkedIsWritten'
  BY DEF TypeOK, MarkedIsWritten, WorkersInv
<1>3. OneWorkerPerChunk'
  BY DEF TypeOK, OneWorkerPerChunk, WorkersInv, Holds, AllReturned
<1>4. QuietSuccessIsComplete'
  BY DEF TypeOK, MarkedIsWritten, QuietSuccessIsComplete, AllAccounted,
         Undisturbed, AllReturned, Holds, Reporting
<1>5. WorkersInv'
  BY DEF TypeOK, WorkersInv, OneWorkerPerChunk, Holds, AllReturned
<1>6. AllAccounted'
  BY DEF TypeOK, AllAccounted, Undisturbed, OneWorkerPerChunk, WorkersInv,
         Holds, Reporting
<1>. QED BY <1>1, <1>2, <1>3, <1>4, <1>5, <1>6

\* A killed run leaves the files.
LEMMA KillKeeps ==
  ASSUME ChunkInv, Kill
  PROVE  ChunkInv'
<1>. USE ChunkedAssumption DEF ChunkInv, Kill, Running, Forget, AtRest, files, jobs, work, signals
<1>1. TypeOK'
  BY ForgetTypes DEF TypeOK, Main
<1>2. MarkedIsWritten'
  BY DEF TypeOK, MarkedIsWritten, WorkersInv
<1>3. OneWorkerPerChunk'
  BY DEF TypeOK, OneWorkerPerChunk, WorkersInv, Holds, AllReturned
<1>4. QuietSuccessIsComplete'
  BY DEF TypeOK, MarkedIsWritten, QuietSuccessIsComplete, AllAccounted,
         Undisturbed, AllReturned, Holds, Reporting
<1>5. WorkersInv'
  BY DEF TypeOK, WorkersInv, OneWorkerPerChunk, Holds, AllReturned
<1>6. AllAccounted'
  BY DEF TypeOK, AllAccounted, Undisturbed, OneWorkerPerChunk, WorkersInv,
         Holds, Reporting
<1>. QED BY <1>1, <1>2, <1>3, <1>4, <1>5, <1>6

\* The next run finds the files.
LEMMA RunAgainKeeps ==
  ASSUME ChunkInv, RunAgain
  PROVE  ChunkInv'
<1>. USE ChunkedAssumption DEF ChunkInv, RunAgain, Running, Forget, AtRest, files, jobs, work, signals
<1>1. TypeOK'
  BY ForgetTypes DEF TypeOK, Main
<1>2. MarkedIsWritten'
  BY DEF TypeOK, MarkedIsWritten, WorkersInv
<1>3. OneWorkerPerChunk'
  BY DEF TypeOK, OneWorkerPerChunk, WorkersInv, Holds, AllReturned
<1>4. QuietSuccessIsComplete'
  BY DEF TypeOK, MarkedIsWritten, QuietSuccessIsComplete, AllAccounted,
         Undisturbed, AllReturned, Holds, Reporting
<1>5. WorkersInv'
  BY DEF TypeOK, WorkersInv, OneWorkerPerChunk, Holds, AllReturned
<1>6. AllAccounted'
  BY DEF TypeOK, AllAccounted, Undisturbed, OneWorkerPerChunk, WorkersInv,
         Holds, Reporting
<1>. QED BY <1>1, <1>2, <1>3, <1>4, <1>5, <1>6

\* finishFile takes the bytes away, and what the meta file still says is lost.
LEMMA FinishPartKeeps ==
  ASSUME ChunkInv, FinishPart
  PROVE  ChunkInv'
<1>. USE ChunkedAssumption DEF ChunkInv, FinishPart, Replace, Forget, AtRest, files, jobs, work, signals
<1>1. TypeOK'
  BY ForgetTypes DEF TypeOK, Main
<1>2. MarkedIsWritten'
  BY DEF TypeOK, MarkedIsWritten, WorkersInv
<1>3. OneWorkerPerChunk'
  BY DEF TypeOK, OneWorkerPerChunk, WorkersInv, Holds, AllReturned
<1>4. QuietSuccessIsComplete'
  BY DEF TypeOK, MarkedIsWritten, QuietSuccessIsComplete, AllAccounted,
         Undisturbed, AllReturned, Holds, Reporting
<1>5. WorkersInv'
  BY DEF TypeOK, WorkersInv, OneWorkerPerChunk, Holds, AllReturned
<1>6. AllAccounted'
  BY DEF TypeOK, AllAccounted, Undisturbed, OneWorkerPerChunk, WorkersInv,
         Holds, Reporting
<1>. QED BY <1>1, <1>2, <1>3, <1>4, <1>5, <1>6

\* No meta file, no marks; or nothing changes.
LEMMA FinishMetaKeeps ==
  ASSUME ChunkInv, FinishMeta
  PROVE  ChunkInv'
<1>. USE ChunkedAssumption DEF ChunkInv, FinishMeta, files, jobs, work, signals
<1>1. TypeOK'
  BY DEF TypeOK, Main
<1>2. MarkedIsWritten'
  BY DEF TypeOK, MarkedIsWritten, WorkersInv
<1>3. OneWorkerPerChunk'
  BY DEF TypeOK, OneWorkerPerChunk, WorkersInv, Holds, AllReturned
<1>4. QuietSuccessIsComplete'
  BY DEF TypeOK, MarkedIsWritten, QuietSuccessIsComplete, AllAccounted,
         Undisturbed, AllReturned, Holds, Reporting
<1>5. WorkersInv'
  BY DEF TypeOK, WorkersInv, OneWorkerPerChunk, Holds, AllReturned
<1>6. AllAccounted'
  BY DEF TypeOK, AllAccounted, Undisturbed, OneWorkerPerChunk, WorkersInv,
         Holds, Reporting
<1>. QED BY <1>1, <1>2, <1>3, <1>4, <1>5, <1>6

\* A stream replaces the bytes, and what the meta file says of others is lost.
LEMMA StreamKeeps ==
  ASSUME ChunkInv, Stream
  PROVE  ChunkInv'
<1>. USE ChunkedAssumption DEF ChunkInv, Stream, Replace, files, jobs, work, signals
<1>1. TypeOK'
  <2>1. \A c \in Chunk : 0 .. c \subseteq Chunk
    BY DEF Chunk
  <2>2. written' \subseteq Chunk /\ lost' \subseteq Chunk
    BY <2>1 DEF TypeOK
  <2>3. main' \in Main
    BY DEF TypeOK, Main
  <2>. QED BY <2>2, <2>3 DEF TypeOK
<1>2. MarkedIsWritten'
  BY DEF TypeOK, MarkedIsWritten, WorkersInv
<1>3. OneWorkerPerChunk'
  BY DEF TypeOK, OneWorkerPerChunk, WorkersInv, Holds, AllReturned
<1>4. QuietSuccessIsComplete'
  BY DEF TypeOK, MarkedIsWritten, QuietSuccessIsComplete, AllAccounted,
         Undisturbed, AllReturned, Holds, Reporting
<1>5. WorkersInv'
  BY DEF TypeOK, WorkersInv, OneWorkerPerChunk, Holds, AllReturned
<1>6. AllAccounted'
  BY DEF TypeOK, AllAccounted, Undisturbed, OneWorkerPerChunk, WorkersInv,
         Holds, Reporting
<1>. QED BY <1>1, <1>2, <1>3, <1>4, <1>5, <1>6
-----------------------------------------------------------------------------

\* No run, no files.
LEMMA InitChunkInv == Init => ChunkInv
<1>. SUFFICES ASSUME Init PROVE ChunkInv
  OBVIOUS
<1>. USE ChunkedAssumption DEF Init
<1>1. 0 \in Chunk /\ 0 \in 0 .. Attempts
  BY DEF Chunk
<1>2. TypeOK
  BY <1>1 DEF TypeOK, AtRest, PC, Main
<1>3. MarkedIsWritten /\ QuietSuccessIsComplete
  BY DEF MarkedIsWritten, QuietSuccessIsComplete
<1>4. OneWorkerPerChunk /\ WorkersInv
  BY DEF OneWorkerPerChunk, WorkersInv, Holds, AllReturned, AtRest
<1>5. AllAccounted
  BY DEF AllAccounted, Undisturbed
<1>. QED BY <1>2, <1>3, <1>4, <1>5 DEF ChunkInv

\* All steps together.
LEMMA NextKeeps == ChunkInv /\ [Next]_vars => ChunkInv'
<1>. SUFFICES ASSUME ChunkInv, [Next]_vars PROVE ChunkInv'
  OBVIOUS
<1>1. CASE Begin
  BY <1>1, BeginKeeps
<1>2. CASE Caller
  BY <1>2, SelectKeeps, MainLooksKeeps, MainClosesKeeps, MainReturnsKeeps
  DEF Caller
<1>3. CASE PublisherEnds
  BY <1>3, PublisherEndsKeeps
<1>4. CASE \E w \in Worker : Work(w)
  <2>1. PICK w \in Worker : Work(w)
    BY <1>4
  <2>. QED
    BY <2>1, PublishKeeps, LeaveKeeps, CheckKeeps, TryKeeps, RequestKeeps,
       RefreshKeeps, RefreshedKeeps, SaveKeeps, SendKeeps, GiveUpKeeps,
       LooksKeeps, ClosesKeeps DEF Work
<1>5. CASE Cancel
  BY <1>5, CancelKeeps
<1>6. CASE Kill
  BY <1>6, KillKeeps
<1>7. CASE RunAgain
  BY <1>7, RunAgainKeeps
<1>8. CASE FinishPart
  BY <1>8, FinishPartKeeps
<1>9. CASE FinishMeta
  BY <1>9, FinishMetaKeeps
<1>10. CASE Stream
  BY <1>10, StreamKeeps
<1>11. CASE UNCHANGED vars
  <2>1. UNCHANGED <<written, saved, lost, done, todo, publisher, pc, chunk, attempt,
                    refreshMu, workerErr, abort, cancelled, main>>
    BY <1>11 DEF vars, files, jobs, work, signals
  <2>. QED
    BY <2>1 DEF ChunkInv, TypeOK, MarkedIsWritten, OneWorkerPerChunk, Holds,
                QuietSuccessIsComplete, WorkersInv, AllReturned, AllAccounted,
                Undisturbed, Reporting
<1>. QED
  BY <1>1, <1>2, <1>3, <1>4, <1>5, <1>6, <1>7, <1>8, <1>9, <1>10, <1>11
  DEF Next

-----------------------------------------------------------------------------

\* The inductive invariant holds for every number of workers and chunks.
THEOREM ChunkInvariant == Spec => []ChunkInv
BY InitChunkInv, NextKeeps, PTL DEF Spec

\* The type invariant of runChunked's model.
THEOREM ChunkTypeCorrect == Spec => []TypeOK
<1>1. ChunkInv => TypeOK
  BY DEF ChunkInv
<1>. QED BY <1>1, ChunkInvariant, PTL

\* runChunked marks a chunk only when it is in the part file: what the meta file
\* says is done is there, wherever runChunked was killed, but for the marks whose
\* bytes finishFile or downloadStream took away while they left the meta file
\* (chunk.go:256-260, downloader.go:348, 387, 426-429).
THEOREM ResumeIsSound == Spec => []MarkedIsWritten
<1>1. ChunkInv => MarkedIsWritten
  BY DEF ChunkInv
<1>. QED BY <1>1, ChunkInvariant, PTL

\* No two workers of a run write the same range (chunk.go:284-302).
THEOREM ChunksAreExclusive == Spec => []OneWorkerPerChunk
<1>1. ChunkInv => OneWorkerPerChunk
  BY DEF ChunkInv
<1>. QED BY <1>1, ChunkInvariant, PTL

\* A nil result with no error left behind is a complete file, but for marks that
\* had lost their bytes before the run (chunk.go:310-337).
THEOREM QuietSuccess == Spec => []QuietSuccessIsComplete
<1>1. ChunkInv => QuietSuccessIsComplete
  BY DEF ChunkInv
<1>. QED BY <1>1, ChunkInvariant, PTL
=============================================================================
