------------------------------ MODULE ResumeFiles ------------------------------
(***************************************************************************)
(* One `dldw get' after another for the same output file (internal/client/ *)
(* downloader: fetchPresigned, downloadDirect, downloadStream, finishFile  *)
(* and the file side of runChunked).  The runs share the output, the part  *)
(* file, the meta file that remembers finished chunks, and a sidecar with  *)
(* the part file's hash.  A run may go by a presigned URL, whose content   *)
(* has a known hash, or directly to the origin; in ranges or as a stream;  *)
(* it may fail or be killed anywhere, and the content behind the URL may   *)
(* change.                                                                 *)
(*                                                                         *)
(* The goroutines inside runChunked are the subject of ChunkedDownload;    *)
(* here a chunk is fetched in one step, and what matters is which version  *)
(* of the content its bytes are of.  Sizes are counted in chunks.          *)
(***************************************************************************)
EXTENDS Naturals

CONSTANTS Version,  \* the contents the URL may serve
          Size,     \* Size[v]: the size of v, in chunks
          Split,    \* larger files are fetched in ranges (2 in the code)
          Tries,    \* attempts of downloadStream (3 in the code)
          NilRace,  \* may runChunked lose the error of its last worker?
          NoFile,   \* the file does not exist
          Hole      \* bytes of no version: a gap, a torn write, a mixture

ASSUME ResumeAssumption ==
  /\ Version # {}
  /\ Size \in [Version -> Nat \ {0}]
  /\ Split \in Nat
  /\ Tries \in Nat \ {0}
  /\ NilRace \in BOOLEAN
  /\ NoFile \notin Version /\ Hole \notin Version /\ NoFile # Hole

Chunk(n) == 0 .. n - 1

\* The contents a part file of n chunks may have.
Content(n) == [Chunk(n) -> Version \cup {Hole}]

ASSUME NoFileAssumption ==
  \A v \in Version : \A n \in 0 .. Size[v] : NoFile \notin Content(n)

Whole(v) == [c \in Chunk(Size[v]) |-> v]

\* What a hash tells of a content: the version it is, or that it is none.
Identity(content) ==
  IF \E v \in Version : content = Whole(v)
  THEN CHOOSE v \in Version : content = Whole(v) ELSE Hole

VARIABLES remote,   \* the version behind the URL now
          part,     \* the content of <out>.part
          meta,     \* <out>.part.meta.json: planned size, finished chunks
          partSum,  \* what <out>.part.sha256 is the hash of
          out,      \* what the output file holds
          run,      \* the run under way, or the last one
          calm      \* from now on nothing goes wrong

partFiles == <<part, meta, partSum>>
vars == <<remote, partFiles, out, run, calm>>

\* "chunks" is runChunked, "request" and "body" are downloadStream, "sum" is
\* computeAndStoreSHA, and "verify" to "discard" are finishFile.
Step == {"chunks", "request", "body", "sum", "verify", "exists", "rename",
         "clean", "discard"}
Over == {"none", "ok", "error"}

Sizes == {Size[v] : v \in Version}
Hashed == Version \cup {Hole, NoFile}

\* A run: the choices it was started with, the version it expects (that of
\* the presigned answer's artifact, or of the HEAD), the version of the body
\* it reads, the chunks it takes for done, and its tries so far.
RunTypeOK ==
  /\ run \in [at : Step \cup Over, presigned : BOOLEAN, overwrite : BOOLEAN,
              want : Version, body : Version, done : SUBSET Nat,
              tries : 0 .. Tries - 1]
  /\ run.done \subseteq Chunk(Size[run.want])

\* The type invariant.
TypeOK ==
  /\ remote \in Version
  /\ \/ part = NoFile
     \/ \E n \in Sizes : \E m \in 0 .. n : part \in Content(m)
  /\ \/ meta = NoFile
     \/ meta.size \in Sizes /\ meta.done \subseteq Chunk(meta.size)
  /\ partSum \in Hashed /\ out \in Hashed
  /\ RunTypeOK
  /\ calm \in BOOLEAN

Init ==
  /\ remote \in Version
  /\ part = NoFile /\ meta = NoFile /\ partSum = NoFile
  /\ out = NoFile
  /\ run = [at |-> "none", presigned |-> FALSE, overwrite |-> FALSE,
            want |-> remote, body |-> remote, done |-> {}, tries |-> 0]
  /\ calm = FALSE

-----------------------------------------------------------------------------
(* Beginning and ending a run *)

Goto(step) == run' = [run EXCEPT !.at = step]

\* What one phase leaves behind is of no use to the next: a run that goes on
\* or ends keeps its choices and what it wants.
Leave(step) ==
  run' = [run EXCEPT !.at = step, !.body = run.want, !.done = {}, !.tries = 0]

\* loadPartMeta: the meta file counts if it is for the same size (and chunk
\* size); the ETag and the hash in it are overwritten, not compared.
Resumed(n) == IF meta # NoFile /\ meta.size = n THEN meta.done ELSE {}

\* OpenFile and Truncate: what is there stays, what is missing reads as zero.
Resized(n) ==
  [c \in Chunk(n) |-> IF part # NoFile /\ c \in DOMAIN part THEN part[c]
                      ELSE Hole]

\* MUTANT of Begin: when everything is marked done, the hash is taken for
\* verified, too.
BeginTrusting(presigned, ranged, overwrite) ==
  /\ run.at \in Over
  /\ \E v \in Version :
       LET n == Size[v]
           done == IF ranged /\ n > Split THEN Resumed(n) ELSE {}
       IN /\ (presigned /\ ~ calm) \/ v = remote
          /\ run' = [at |-> IF done = Chunk(n) THEN "exists"
                            ELSE IF ranged /\ n > Split THEN "chunks"
                            ELSE "request",
                     presigned |-> presigned, overwrite |-> overwrite,
                     want |-> v, body |-> v, done |-> done, tries |-> 0]
          /\ part' = IF run'.at = "chunks" THEN Resized(n) ELSE part
  /\ UNCHANGED <<remote, meta, partSum, out, calm>>

\* fetchPresigned expects the artifact's size and hash, and unless all is calm
\* the artifact may describe another version than the object now has (a second
\* task of the key has stored it); downloadDirect takes the size HEAD
\* reports.  Ranges are used for large files if they are supported; when all
\* chunks are marked done the part file is not opened.
Begin(presigned, ranged, overwrite) ==
  /\ run.at \in Over
  /\ \E v \in Version :
       LET n == Size[v]
           chunked == ranged /\ n > Split
           done == IF chunked THEN Resumed(n) ELSE {}
       IN /\ (presigned /\ ~ calm) \/ v = remote
          /\ run' = [at |-> CASE done = Chunk(n) /\ presigned -> "verify"
                              [] done = Chunk(n) /\ ~ presigned -> "sum"
                              [] done # Chunk(n) /\ chunked -> "chunks"
                              [] OTHER -> "request",
                     presigned |-> presigned, overwrite |-> overwrite,
                     want |-> v, body |-> v, done |-> done, tries |-> 0]
          /\ part' = IF run'.at = "chunks" THEN Resized(n) ELSE part
  /\ UNCHANGED <<remote, meta, partSum, out, calm>>

-----------------------------------------------------------------------------
(* runChunked *)

Missing == Chunk(Size[run.want]) \ run.done

MetaOf(done) == [size |-> Size[run.want], done |-> done]

\* The range of chunk c is fetched from whatever the URL serves by now, its
\* mark is set, and the meta file saved - or not, if that fails.
FetchChunk(c) ==
  /\ run.at = "chunks" /\ c \in Missing /\ c < Size[remote]
  /\ part' = [part EXCEPT ![c] = remote]
  /\ run' = [run EXCEPT !.done = @ \cup {c}]
  /\ meta' = MetaOf(run'.done) \/ (~ calm /\ UNCHANGED meta)
  /\ UNCHANGED <<remote, partSum, out, calm>>

\* A try that failed on the way, or was never marked, has written some of it.
TornChunk(c) ==
  /\ run.at = "chunks" /\ c \in Missing /\ ~ calm
  /\ \E b \in {Hole} \cup {remote} : part' = [part EXCEPT ![c] = b]
  /\ UNCHANGED <<remote, meta, partSum, out, run, calm>>

\* runChunked returns: with everything done; with an error; or (NilRace) with
\* nil although a worker failed, see QuietSuccessIsComplete of ChunkedDownload.
ChunksEnd ==
  /\ run.at = "chunks"
  /\ \/ /\ Missing = {} \/ (NilRace /\ ~ calm)
        /\ meta' = MetaOf(run.done)
        /\ Leave(IF run.presigned THEN "verify" ELSE "sum")
     \/ /\ ~ calm \/ \E c \in Missing : c >= Size[remote]
        /\ Leave("error") /\ UNCHANGED meta
  /\ UNCHANGED <<remote, part, partSum, out, calm>>

\* MUTANT of Sum: a hash that is there already is kept.
SumOnce ==
  /\ run.at = "sum"
  /\ \/ /\ part # NoFile
        /\ partSum' = IF partSum = NoFile THEN Identity(part) ELSE partSum
        /\ Goto("verify")
     \/ (part = NoFile /\ Leave("error") /\ UNCHANGED partSum)
  /\ UNCHANGED <<remote, part, meta, out, calm>>

\* computeAndStoreSHA, of direct runs in ranges only.
Sum ==
  /\ run.at = "sum"
  /\ \/ part # NoFile /\ partSum' = Identity(part) /\ Goto("verify")
     \/ /\ part = NoFile \/ ~ calm
        /\ Leave("error") /\ UNCHANGED partSum
  /\ UNCHANGED <<remote, part, meta, out, calm>>

-----------------------------------------------------------------------------
(* downloadStream *)

Again == IF run.tries + 1 < Tries
         THEN run' = [run EXCEPT !.at = "request", !.tries = @ + 1]
         ELSE Leave("error")

\* The response begins, and os.Create empties the part file; or the try, or
\* the whole download, has failed before.
StreamRequest ==
  /\ run.at = "request"
  /\ \/ /\ part' = [c \in {} |-> Hole]
        /\ run' = [run EXCEPT !.at = "body", !.body = remote]
     \/ ~ calm /\ (Again \/ Leave("error")) /\ UNCHANGED part
  /\ UNCHANGED <<remote, meta, partSum, out, calm>>

Received == part = Whole(run.body)

StreamRead ==
  /\ run.at = "body"
  /\ \E n \in Chunk(Size[run.body]) :
       DOMAIN part = Chunk(n) /\ part' = [c \in Chunk(n + 1) |-> run.body]
  /\ UNCHANGED <<remote, meta, partSum, out, run, calm>>

\* A body that breaks off: the part file is removed and the next try begins.
StreamCut ==
  /\ run.at = "body" /\ ~ calm
  /\ part' = NoFile
  /\ Again
  /\ UNCHANGED <<remote, meta, partSum, out, calm>>

\* The hash of what was read is recorded for finishFile.
StreamEnd ==
  /\ run.at = "body" /\ Received
  /\ \/ partSum' = Identity(part) /\ Leave("verify")
     \/ ~ calm /\ Leave("error") /\ UNCHANGED partSum
  /\ UNCHANGED <<remote, part, meta, out, calm>>

-----------------------------------------------------------------------------
(* finishFile *)

\* The sidecar is read and removed; a known hash is compared, otherwise the
\* one of the sidecar is published as <out>.sha256, which nobody reads again.
Verify ==
  /\ run.at = "verify"
  /\ partSum' = NoFile
  /\ \/ /\ run.presigned /\ part = Whole(run.want)
        /\ Goto("exists") /\ UNCHANGED part
     \/ /\ run.presigned /\ part # Whole(run.want)
        /\ part' = NoFile
        /\ Goto("discard")
     \/ ~ run.presigned /\ Goto("exists") /\ UNCHANGED part
  /\ UNCHANGED <<remote, meta, out, calm>>

\* Without --force an output that exists ends the run.
Exists ==
  /\ run.at = "exists"
  /\ IF ~ run.overwrite /\ out # NoFile
     THEN part' = NoFile /\ Goto("discard")
     ELSE Goto("rename") /\ UNCHANGED part
  /\ UNCHANGED <<remote, meta, partSum, out, calm>>

\* MUTANT of Discard: the meta file stays.
DiscardKeepsMeta ==
  /\ run.at = "discard"
  /\ Leave("error")
  /\ UNCHANGED <<remote, partFiles, out, calm>>

\* After the part file the meta file is removed.
Discard ==
  /\ run.at = "discard"
  /\ meta' = NoFile
  /\ Leave("error")
  /\ UNCHANGED <<remote, part, partSum, out, calm>>

Rename ==
  /\ run.at = "rename"
  /\ \/ /\ part # NoFile
        /\ out' = Identity(part) /\ part' = NoFile
        /\ Goto("clean")
     \/ /\ part = NoFile \/ ~ calm
        /\ Leave("error") /\ UNCHANGED <<part, out>>
  /\ UNCHANGED <<remote, meta, partSum, calm>>

Clean ==
  /\ run.at = "clean"
  /\ meta' = NoFile
  /\ Leave("ok")
  /\ UNCHANGED <<remote, part, partSum, out, calm>>

-----------------------------------------------------------------------------
(* The environment *)

\* Ctrl-C, a crash, a power failure: the files stay as they are.
Kill ==
  /\ run.at \in Step /\ ~ calm
  /\ Leave("error")
  /\ UNCHANGED <<remote, partFiles, out, calm>>

\* The origin, or the object in the cache, is replaced.
Change ==
  /\ ~ calm
  /\ remote' \in Version \ {remote}
  /\ UNCHANGED <<partFiles, out, run, calm>>

CalmDown ==
  /\ ~ calm
  /\ calm' = TRUE
  /\ UNCHANGED <<remote, partFiles, out, run>>

-----------------------------------------------------------------------------

Start == \E presigned, ranged, overwrite \in BOOLEAN :
           Begin(presigned, ranged, overwrite)

ChunkStep ==
  \/ \E c \in Missing : FetchChunk(c) \/ TornChunk(c)
  \/ ChunksEnd
  \/ Sum

StreamStep == StreamRequest \/ StreamRead \/ StreamCut \/ StreamEnd

Finish == Verify \/ Exists \/ Discard \/ Rename \/ Clean

Proceed == ChunkStep \/ StreamStep \/ Finish

Next == Start \/ Proceed \/ Kill \/ Change \/ CalmDown

Spec == Init /\ [][Next]_vars

\* A run proceeds, its requests end, and the user tries again after each run.
FairSpec == Spec /\ WF_vars(Proceed) /\ WF_vars(Start)

-----------------------------------------------------------------------------
(* Properties *)

\* A presigned run that succeeds leaves exactly the content the server has
\* the hash of, whatever earlier runs of either kind left in the files.
PresignedIsWhole == run.at = "ok" /\ run.presigned => out = run.want

\* After a success nothing is left that could spoil the next run.
NothingIsLeft ==
  run.at = "ok" => part = NoFile /\ meta = NoFile /\ partSum = NoFile

\* The hash a direct run publishes is of the bytes it is about to rename, not
\* one that an earlier run has left in the sidecar.
SumIsOfPart ==
  run.at = "verify" /\ ~ run.presigned =>
    part # NoFile /\ partSum = Identity(part)

\* What the files hold between and during runs: the types, and both of these.
FilesInv == TypeOK /\ NothingIsLeft /\ SumIsOfPart

\* Once nothing goes wrong any more, presigned downloads succeed after a
\* failure or two: leftovers of any kind do not keep them from it.
PresignedRecovers ==
  <>[](calm /\ run.presigned /\ run.overwrite) => []<>(run.at = "ok")

\* A direct run that succeeds leaves one whole version ("resumed content
\* mismatch" is what TestResumeAcrossRuns guards against).
DirectIsWhole == run.at = "ok" /\ ~ run.presigned => out # Hole
=============================================================================
