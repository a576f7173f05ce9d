-------------------------- MODULE ResumeFilesProofs --------------------------
(***************************************************************************)
(* Proofs about ResumeFiles: what a run after a run, killed anywhere,      *)
(* leaves in the files, for any versions of any size and any number of     *)
(* tries.                                                                  *)
(***************************************************************************)
EXTENDS ResumeFiles, TLAPS

\* What a run has achieved at its steps: the part file is there while it is
\* written, a presigned run renames only what it has compared, and the sidecar
\* is gone before anything is renamed.
RunInv ==
  /\ run.at = "chunks" => part \in Content(Size[run.want])
  /\ run.at = "body" => part # NoFile
  /\ run.at \in {"exists", "rename"} /\ run.presigned => part = Whole(run.want)
  /\ run.at = "clean" => part = NoFile /\ (run.presigned => out = run.want)
  /\ run.at \in {"exists", "rename", "clean"} => partSum = NoFile

ResumeInv == FilesInv /\ PresignedIsWhole /\ RunInv

-----------------------------------------------------------------------------
(* Contents *)

\* A whole file is one of its version, and of no other.
LEMMA WholeIs ==
  ASSUME NEW v \in Version
  PROVE  /\ Whole(v) \in Content(Size[v]) /\ Size[v] \in Nat \ {0}
         /\ Identity(Whole(v)) = v
<1>1. Size[v] \in Nat \ {0} /\ 0 \in Chunk(Size[v])
  BY ResumeAssumption DEF Chunk
<1>2. \A w \in Version : Whole(v) = Whole(w) => w = v
  <2> SUFFICES ASSUME NEW w \in Version, Whole(v) = Whole(w) PROVE w = v
    OBVIOUS
  <2>1. Whole(v)[0] = v
    BY <1>1 DEF Whole
  <2>2. 0 \in Chunk(Size[w])
    BY ResumeAssumption DEF Chunk
  <2>3. Whole(w)[0] = w
    BY <2>2 DEF Whole
  <2> QED
    BY <2>1, <2>3
<1> QED
  BY <1>1, <1>2 DEF Whole, Content, Identity

LEMMA IdentityType ==
  ASSUME NEW content
  PROVE  Identity(content) \in Version \cup {Hole}
BY DEF Identity

\* A part file is none, or of the size of a version, or a part of one.
PartTypeOK ==
  \/ part = NoFile
  \/ \E n \in Sizes : \E m \in 0 .. n : part \in Content(m)

MetaTypeOK ==
  \/ meta = NoFile
  \/ meta.size \in Sizes /\ meta.done \subseteq Chunk(meta.size)

\* Content of at most the size of a version is a part file.
LEMMA ContentIsFile ==
  ASSUME NEW v \in Version, NEW n \in 0 .. Size[v], NEW content \in Content(n)
  PROVE  /\ content # NoFile
         /\ \E s \in Sizes : \E m \in 0 .. s : content \in Content(m)
BY NoFileAssumption DEF Sizes

LEMMA ResizedType ==
  ASSUME PartTypeOK, NEW n \in Nat
  PROVE  Resized(n) \in Content(n)
BY DEF PartTypeOK, Resized, Content

\* What the meta file says is done are chunks of a file of its size.
LEMMA ResumedType ==
  ASSUME MetaTypeOK, NEW n \in Nat
  PROVE  Resumed(n) \subseteq Chunk(n)
BY DEF MetaTypeOK, Resumed

-----------------------------------------------------------------------------

LEMMA InitResume == Init => ResumeInv
<1> SUFFICES ASSUME Init PROVE ResumeInv
  OBVIOUS
<1> USE DEF Init
<1>1. TypeOK
  <2>1. 0 \in 0 .. Tries - 1
    BY ResumeAssumption
  <2>2. RunTypeOK
    BY <2>1 DEF RunTypeOK, Over
  <2> QED
    BY <2>2 DEF TypeOK, Hashed
<1>2. NothingIsLeft /\ SumIsOfPart /\ PresignedIsWhole /\ RunInv
  BY DEF NothingIsLeft, SumIsOfPart, PresignedIsWhole, RunInv
<1> QED
  BY <1>1, <1>2 DEF ResumeInv, FilesInv

\* A run's end, or its way into the next phase.
LEMMA LeaveIs ==
  ASSUME RunTypeOK, NEW step \in Step \cup Over, Leave(step)
  PROVE  /\ RunTypeOK' /\ run'.at = step /\ run'.want = run.want
         /\ run'.presigned = run.presigned
<1>1. 0 \in 0 .. Tries - 1
  BY ResumeAssumption
<1> QED
  BY <1>1 DEF RunTypeOK, Leave

LEMMA GotoIs ==
  ASSUME RunTypeOK, NEW step \in Step \cup Over, Goto(step)
  PROVE  /\ RunTypeOK' /\ run'.at = step /\ run'.want = run.want
         /\ run'.presigned = run.presigned
BY DEF RunTypeOK, Goto

LEMMA AgainIs ==
  ASSUME RunTypeOK, Again
  PROVE  /\ RunTypeOK' /\ run'.at \in {"request", "error"}
<1>1. CASE run.tries + 1 < Tries /\ run' = [run EXCEPT !.at = "request", !.tries = @ + 1]
  <2>1. run.tries + 1 \in 0 .. Tries - 1
    BY <1>1, ResumeAssumption DEF RunTypeOK
  <2> QED
    BY <1>1, <2>1 DEF RunTypeOK, Step
<1>2. CASE Leave("error")
  BY <1>2, LeaveIs DEF Over
<1> QED
  BY <1>1, <1>2 DEF Again

\* A run begins, on whatever files there are.
LEMMA StartKeeps ==
  ASSUME ResumeInv, Start
  PROVE  ResumeInv'
<1> USE DEF ResumeInv, FilesInv, TypeOK
<1>1. PICK presigned \in BOOLEAN, ranged \in BOOLEAN, overwrite \in BOOLEAN :
        Begin(presigned, ranged, overwrite)
  BY DEF Start
<1>2. PICK v \in Version :
        /\ run'.done \in {{}, Resumed(Size[v])}
        /\ run'.at \in {"verify", "sum", "chunks", "request"}
        /\ run'.at = "verify" => presigned
        /\ run' = [at |-> run'.at, presigned |-> presigned,
                   overwrite |-> overwrite, want |-> v, body |-> v,
                   done |-> run'.done, tries |-> 0]
        /\ part' = IF run'.at = "chunks" THEN Resized(Size[v]) ELSE part
  <2> DEFINE chunked(v) == ranged /\ Size[v] > Split
             done(v) == IF chunked(v) THEN Resumed(Size[v]) ELSE {}
             at(v) == CASE done(v) = Chunk(Size[v]) /\ presigned -> "verify"
                        [] done(v) = Chunk(Size[v]) /\ ~ presigned -> "sum"
                        [] done(v) # Chunk(Size[v]) /\ chunked(v) -> "chunks"
                        [] OTHER -> "request"
  <2>1. PICK v \in Version :
          /\ run' = [at |-> at(v), presigned |-> presigned, overwrite |-> overwrite,
                     want |-> v, body |-> v, done |-> done(v), tries |-> 0]
          /\ part' = IF run'.at = "chunks" THEN Resized(Size[v]) ELSE part
    BY <1>1 DEF Begin
  <2>2. done(v) \in {{}, Resumed(Size[v])}
    OBVIOUS
  <2>3. /\ at(v) \in {"verify", "sum", "chunks", "request"}
        /\ at(v) = "verify" => presigned
    OBVIOUS
  <2>4. run'.at = at(v) /\ run'.done = done(v)
    BY <2>1
  <2> HIDE DEF at, done
  <2>5. run' = [at |-> run'.at, presigned |-> presigned,
                overwrite |-> overwrite, want |-> v, body |-> v,
                done |-> run'.done, tries |-> 0]
    BY <2>1, <2>4
  <2> QED
    BY <2>1, <2>2, <2>3, <2>4, <2>5
<1>3. UNCHANGED <<remote, meta, partSum, out, calm>>
  BY <1>1 DEF Begin
<1>4. Size[v] \in Nat \ {0} /\ 0 \in 0 .. Tries - 1
  BY ResumeAssumption
<1>5. run'.done \subseteq Chunk(Size[v]) /\ run'.done \in SUBSET Nat
  BY <1>2, <1>4, ResumedType DEF MetaTypeOK, Chunk
<1>6. RunTypeOK'
  BY <1>2, <1>4, <1>5 DEF RunTypeOK, Step
<1>7. /\ run'.at = "chunks" => part' \in Content(Size[v])
      /\ run'.at # "chunks" => part' = part
  BY <1>2, <1>4, ResizedType DEF PartTypeOK
<1>8. PartTypeOK'
  BY <1>4, <1>7, ContentIsFile DEF PartTypeOK
<1>9. TypeOK'
  BY <1>3, <1>6, <1>8 DEF PartTypeOK
<1> QED
  BY <1>2, <1>7, <1>9 DEF NothingIsLeft, SumIsOfPart, PresignedIsWhole, RunInv

\* What a step of a run needs to keep: the files' types, and what the run's
\* step says.
LEMMA ChunkKeeps ==
  ASSUME ResumeInv, ChunkStep
  PROVE  ResumeInv'
<1> USE DEF ResumeInv, FilesInv, TypeOK
<1>1. ASSUME NEW c \in Missing, FetchChunk(c) PROVE ResumeInv'
  <2>1. part \in Content(Size[run.want]) /\ Size[run.want] \in Nat \ {0} /\ remote \in Version
    BY <1>1, ResumeAssumption DEF FetchChunk, RunInv, RunTypeOK
  <2>2. c \in Chunk(Size[run.want])
    BY DEF Missing
  <2>3. part' \in Content(Size[run.want])
    BY <1>1, <2>1, <2>2 DEF FetchChunk, Content
  <2>4. RunTypeOK' /\ run'.at = "chunks" /\ run'.want = run.want
    BY <1>1, <2>1, <2>2 DEF FetchChunk, RunTypeOK, Chunk
  <2>5. PartTypeOK'
    BY <2>1, <2>3, ContentIsFile DEF PartTypeOK, RunTypeOK
  <2>6. MetaTypeOK'
    <3>1. MetaOf(run'.done).size = Size[run.want] /\ MetaOf(run'.done).done = run'.done
      BY DEF MetaOf
    <3>2. run'.done \subseteq Chunk(Size[run.want])
      BY <2>4 DEF RunTypeOK
    <3>3. meta' = MetaOf(run'.done) \/ meta' = meta
      BY <1>1 DEF FetchChunk
    <3> QED
      BY <3>1, <3>2, <3>3 DEF MetaTypeOK, Sizes, RunTypeOK
  <2> QED
    BY <1>1, <2>3, <2>4, <2>5, <2>6
    DEF FetchChunk, PartTypeOK, MetaTypeOK, NothingIsLeft, SumIsOfPart,
        PresignedIsWhole, RunInv
<1>2. ASSUME NEW c \in Missing, TornChunk(c) PROVE ResumeInv'
  <2>1. /\ part \in Content(Size[run.want]) /\ Size[run.want] \in Nat \ {0}
        /\ remote \in Version /\ run.want \in Version
    BY <1>2, ResumeAssumption DEF TornChunk, RunInv, RunTypeOK
  <2>2. c \in Chunk(Size[run.want])
    BY DEF Missing
  <2>3. part' \in Content(Size[run.want])
    BY <1>2, <2>1, <2>2 DEF TornChunk, Content
  <2>4. PartTypeOK'
    BY <2>1, <2>3, ContentIsFile DEF PartTypeOK
  <2> QED
    BY <1>2, <2>3, <2>4
    DEF TornChunk, PartTypeOK, NothingIsLeft, SumIsOfPart, PresignedIsWhole, RunInv,
        RunTypeOK
<1>3. CASE ChunksEnd
  <2>1. PICK step \in {"verify", "sum", "error"} :
          /\ Leave(step) /\ (step = "verify" => run.presigned)
          /\ meta' = MetaOf(run.done) \/ meta' = meta
    BY <1>3 DEF ChunksEnd
  <2>2. /\ RunTypeOK' /\ run'.at = step /\ run'.want = run.want
        /\ run'.presigned = run.presigned
    BY <2>1, LeaveIs DEF Step, Over
  <2>3. MetaTypeOK'
    BY <2>1 DEF MetaTypeOK, MetaOf, Sizes, RunTypeOK
  <2> QED
    BY <1>3, <2>1, <2>2, <2>3
    DEF ChunksEnd, MetaTypeOK, NothingIsLeft, SumIsOfPart, PresignedIsWhole, RunInv
<1>4. CASE Sum
  <2>1. CASE part # NoFile /\ partSum' = Identity(part) /\ Goto("verify")
    <3>1. RunTypeOK' /\ run'.at = "verify"
      BY <2>1, GotoIs DEF Step
    <3>2. partSum' \in Hashed
      BY <2>1, IdentityType DEF Hashed
    <3> QED
      BY <1>4, <2>1, <3>1, <3>2
      DEF Sum, NothingIsLeft, SumIsOfPart, PresignedIsWhole, RunInv
  <2>2. CASE Leave("error") /\ UNCHANGED partSum
    <3>1. RunTypeOK' /\ run'.at = "error"
      BY <2>2, LeaveIs DEF Over
    <3> QED
      BY <1>4, <2>2, <3>1
      DEF Sum, NothingIsLeft, SumIsOfPart, PresignedIsWhole, RunInv
  <2> QED
    BY <1>4, <2>1, <2>2 DEF Sum
<1> QED
  BY <1>1, <1>2, <1>3, <1>4 DEF ChunkStep

LEMMA StreamKeeps ==
  ASSUME ResumeInv, StreamStep
  PROVE  ResumeInv'
<1> USE DEF ResumeInv, FilesInv, TypeOK
<1>1. run.body \in Version /\ Size[run.body] \in Nat \ {0}
  BY ResumeAssumption DEF RunTypeOK
<1>2. CASE StreamRequest
  <2>1. CASE /\ part' = [c \in {} |-> Hole]
             /\ run' = [run EXCEPT !.at = "body", !.body = remote]
    <3>1. RunTypeOK' /\ run'.at = "body"
      BY <2>1 DEF RunTypeOK, Step
    <3>2. part' \in Content(0)
      BY <2>1 DEF Content, Chunk
    <3>3. part' # NoFile /\ PartTypeOK'
      BY <1>1, <3>2, ContentIsFile DEF PartTypeOK
    <3> QED
      BY <1>2, <3>1, <3>3
      DEF StreamRequest, PartTypeOK, NothingIsLeft, SumIsOfPart, PresignedIsWhole,
          RunInv
  <2>2. CASE (Again \/ Leave("error")) /\ UNCHANGED part
    <3>1. RunTypeOK' /\ run'.at \in {"request", "error"}
      BY <2>2, AgainIs, LeaveIs DEF Over
    <3> QED
      BY <1>2, <2>2, <3>1
      DEF StreamRequest, NothingIsLeft, SumIsOfPart, PresignedIsWhole, RunInv
  <2> QED
    BY <1>2, <2>1, <2>2 DEF StreamRequest
<1>3. CASE StreamRead
  <2>1. PICK n \in Chunk(Size[run.body]) : part' = [c \in Chunk(n + 1) |-> run.body]
    BY <1>3 DEF StreamRead
  <2>2. n + 1 \in 0 .. Size[run.body]
    BY <1>1 DEF Chunk
  <2>3. part' \in Content(n + 1)
    BY <1>1, <2>1 DEF Content
  <2>4. part' # NoFile /\ PartTypeOK'
    BY <1>1, <2>2, <2>3, ContentIsFile DEF PartTypeOK
  <2> QED
    BY <1>3, <2>4
    DEF StreamRead, PartTypeOK, NothingIsLeft, SumIsOfPart, PresignedIsWhole, RunInv,
        RunTypeOK
<1>4. CASE StreamCut
  <2>1. RunTypeOK' /\ run'.at \in {"request", "error"}
    BY <1>4, AgainIs DEF StreamCut
  <2> QED
    BY <1>4, <2>1
    DEF StreamCut, NothingIsLeft, SumIsOfPart, PresignedIsWhole, RunInv
<1>5. CASE StreamEnd
  <2>1. part # NoFile
    BY <1>5 DEF StreamEnd, RunInv
  <2>2. CASE partSum' = Identity(part) /\ Leave("verify")
    <3>1. RunTypeOK' /\ run'.at = "verify"
      BY <2>2, LeaveIs DEF Step
    <3>2. partSum' \in Hashed
      BY <2>2, IdentityType DEF Hashed
    <3> QED
      BY <1>5, <2>1, <2>2, <3>1, <3>2
      DEF StreamEnd, NothingIsLeft, SumIsOfPart, PresignedIsWhole, RunInv
  <2>3. CASE Leave("error") /\ UNCHANGED partSum
    <3>1. RunTypeOK' /\ run'.at = "error"
      BY <2>3, LeaveIs DEF Over
    <3> QED
      BY <1>5, <2>3, <3>1
      DEF StreamEnd, NothingIsLeft, SumIsOfPart, PresignedIsWhole, RunInv
  <2> QED
    BY <1>5, <2>2, <2>3 DEF StreamEnd
<1> QED
  BY <1>2, <1>3, <1>4, <1>5 DEF StreamStep

LEMMA FinishKeeps ==
  ASSUME ResumeInv, Finish
  PROVE  ResumeInv'
<1> USE DEF ResumeInv, FilesInv, TypeOK
<1>1. CASE Verify
  <2>1. PICK step \in {"exists", "discard"} :
          /\ Goto(step) /\ part' \in {part, NoFile}
          /\ step = "exists" /\ run.presigned => part' = Whole(run.want)
    BY <1>1 DEF Verify
  <2>2. /\ RunTypeOK' /\ run'.at = step /\ run'.want = run.want
        /\ run'.presigned = run.presigned
    BY <2>1, GotoIs DEF Step
  <2>3. PartTypeOK'
    BY <2>1 DEF PartTypeOK
  <2> QED
    BY <1>1, <2>1, <2>2, <2>3
    DEF Verify, PartTypeOK, Hashed, NothingIsLeft, SumIsOfPart, PresignedIsWhole, RunInv
<1>2. CASE Exists
  <2>1. PICK step \in {"rename", "discard"} :
          /\ Goto(step) /\ part' \in {part, NoFile}
          /\ step = "rename" => part' = part
    BY <1>2 DEF Exists
  <2>2. /\ RunTypeOK' /\ run'.at = step /\ run'.want = run.want
        /\ run'.presigned = run.presigned
    BY <2>1, GotoIs DEF Step
  <2>3. PartTypeOK'
    BY <2>1 DEF PartTypeOK
  <2> QED
    BY <1>2, <2>1, <2>2, <2>3
    DEF Exists, PartTypeOK, NothingIsLeft, SumIsOfPart, PresignedIsWhole, RunInv
<1>3. CASE Discard
  <2>1. RunTypeOK' /\ run'.at = "error"
    BY <1>3, LeaveIs DEF Discard, Over
  <2> QED
    BY <1>3, <2>1
    DEF Discard, NothingIsLeft, SumIsOfPart, PresignedIsWhole, RunInv
<1>4. CASE Rename
  <2>1. CASE part # NoFile /\ out' = Identity(part) /\ part' = NoFile /\ Goto("clean")
    <3>1. /\ RunTypeOK' /\ run'.at = "clean" /\ run'.want = run.want
          /\ run'.presigned = run.presigned
      BY <2>1, GotoIs DEF Step
    <3>2. out' \in Hashed
      BY <2>1, IdentityType DEF Hashed
    <3>3. run.presigned => out' = run.want
      BY <1>4, <2>1, WholeIs DEF Rename, RunInv, RunTypeOK
    <3> QED
      BY <1>4, <2>1, <3>1, <3>2, <3>3
      DEF Rename, NothingIsLeft, SumIsOfPart, PresignedIsWhole, RunInv
  <2>2. CASE Leave("error") /\ UNCHANGED <<part, out>>
    <3>1. RunTypeOK' /\ run'.at = "error"
      BY <2>2, LeaveIs DEF Over
    <3> QED
      BY <1>4, <2>2, <3>1
      DEF Rename, NothingIsLeft, SumIsOfPart, PresignedIsWhole, RunInv
  <2> QED
    BY <1>4, <2>1, <2>2 DEF Rename
<1>5. CASE Clean
  <2>1. /\ RunTypeOK' /\ run'.at = "ok" /\ run'.want = run.want
        /\ run'.presigned = run.presigned
    BY <1>5, LeaveIs DEF Clean, Over
  <2> QED
    BY <1>5, <2>1
    DEF Clean, NothingIsLeft, SumIsOfPart, PresignedIsWhole, RunInv
<1> QED
  BY <1>1, <1>2, <1>3, <1>4, <1>5 DEF Finish

\* A kill at any step, another content behind the URL.
LEMMA EnvironmentKeeps ==
  ASSUME ResumeInv, Kill \/ Change \/ CalmDown \/ UNCHANGED vars
  PROVE  ResumeInv'
<1> USE DEF ResumeInv, FilesInv, TypeOK
<1>1. CASE Kill
  <2>1. RunTypeOK' /\ run'.at = "error"
    BY <1>1, LeaveIs DEF Kill, Over
  <2> QED
    BY <1>1, <2>1
    DEF Kill, partFiles, NothingIsLeft, SumIsOfPart, PresignedIsWhole, RunInv
<1>2. CASE Change \/ CalmDown \/ UNCHANGED vars
  BY <1>2
  DEF Change, CalmDown, vars, partFiles, NothingIsLeft, SumIsOfPart, PresignedIsWhole,
      RunInv, RunTypeOK
<1> QED
  BY <1>1, <1>2

LEMMA NextResume == ResumeInv /\ [Next]_vars => ResumeInv'
BY StartKeeps, ChunkKeeps, StreamKeeps, FinishKeeps, EnvironmentKeeps
DEF Next, Proceed

THEOREM ResumeInvariant == Spec => []ResumeInv
BY InitResume, NextResume, PTL DEF Spec

\* The files between and during runs (downloader.go, finishFile): they are of
\* some version's size, nothing is left after a success, and the hash that a
\* direct run publishes is of what it renames.
THEOREM FilesTheorem == Spec => []FilesInv
<1>1. ResumeInv => FilesInv
  BY DEF ResumeInv
<1> QED
  BY <1>1, ResumeInvariant, PTL

\* A presigned download that succeeds is the content the server has promised,
\* after any sequence of runs of either kind that were killed, failed or found
\* another content behind the URL: finishFile compares the part file it is
\* about to rename, and nothing comes between the two.
THEOREM PresignedTheorem == Spec => []PresignedIsWhole
<1>1. ResumeInv => PresignedIsWhole
  BY DEF ResumeInv
<1> QED
  BY <1>1, ResumeInvariant, PTL
=============================================================================
