----------------------------- MODULE LocalStore -----------------------------
(***************************************************************************)
(* internal/transfer/storage/localfs for one key, and the handler that     *)
(* serves it under /files/.  An object is a data file and a metadata file  *)
(* beside it; Put replaces the first by a rename and rewrites the second   *)
(* in place, and the handler opens the first and then reads the second.    *)
(* What a file holds is told apart by the version it was made from.        *)
(***************************************************************************)
EXTENDS Naturals

CONSTANTS
  Content,  \* what an object may hold
  Putter,   \* goroutines that store it: tasks of the engine, flights of mirrors
  Reader,   \* requests for /files/
  None,     \* no file
  Torn      \* a metadata file that does not parse

ASSUME LocalAssumption == None \notin Content /\ Torn \notin Content

VARIABLES
  data,    \* the data file
  meta,    \* the content the metadata file was written for
  put,     \* put[p]: the step of Put and what it stores
  broken,  \* since the last Put that had the two files to itself, one gave up
           \* between them or two met there
  reader   \* reader[r]: the step of handleFile, what it has opened and read

localVars == <<data, meta, put, broken, reader>>

\* alone: no other Put's rename or metadata came after this one's rename, or
\* was on its way then.
NoPut == [pc |-> "none", body |-> None, alone |-> TRUE]
NoRead == [pc |-> "url", body |-> None, etag |-> None, overlap |-> FALSE]

LocalInit ==
  /\ \E v \in Content \cup {None} : data = v /\ meta = v
  /\ put = [p \in Putter |-> NoPut]
  /\ broken = FALSE
  /\ reader = [r \in Reader |-> NoRead]

-----------------------------------------------------------------------------
(* Put.  No lock is taken: those of one key overlap as they like. *)

\* Its data is in place and its metadata is not.
Between(p) == put[p].pc \in {"renamed", "truncated"}

\* The data and the metadata may be of different Puts.
HalfWay == broken \/ \E p \in Putter : Between(p)

PutIdle(p) == put[p].pc \in {"none", "done", "failed"}

Fails(p) == put' = [put EXCEPT ![p] = [NoPut EXCEPT !.pc = "failed"]]

\* The body is copied to a temporary file; its length must be the announced
\* one.
PutCopy(p, v) ==
  /\ PutIdle(p)
  /\ \/ put' = [put EXCEPT ![p] = [NoPut EXCEPT !.pc = "copied", !.body = v]]
     \/ Fails(p)
  /\ UNCHANGED <<data, meta, broken, reader>>

\* A request that has opened the data and not read the metadata may see
\* either generation of the two.
Disturbed == [r \in Reader |->
                IF reader[r].pc = "head" THEN [reader[r] EXCEPT !.overlap = TRUE]
                                         ELSE reader[r]]

\* p's data is in place: whoever has put its own is no longer alone.
Renamed(p) ==
  [q \in Putter |->
     IF q = p THEN [put[p] EXCEPT !.pc = "renamed",
                      !.alone = \A o \in Putter : ~ Between(o)]
     ELSE IF Between(q) \/ put[q].pc = "done" THEN [put[q] EXCEPT !.alone = FALSE]
     ELSE put[q]]

\* MUTANT of PutRename: an error of the rename is not looked at.
PutRenameUnchecked(p) ==
  /\ put[p].pc = "copied"
  /\ put' = Renamed(p)
  /\ UNCHANGED <<data, meta, broken>>
  /\ reader' = Disturbed

PutRename(p) ==
  /\ put[p].pc = "copied"
  /\ \/ data' = put[p].body /\ put' = Renamed(p)
     \/ Fails(p) /\ UNCHANGED data
  /\ UNCHANGED <<meta, broken>>
  /\ reader' = Disturbed

\* writeMeta, os.WriteFile: the file is truncated ...
PutMetaOpen(p) ==
  /\ put[p].pc = "renamed"
  /\ \/ /\ meta' = Torn
        /\ put' = [put EXCEPT ![p].pc = "truncated"]
        /\ UNCHANGED broken
     \/ Fails(p) /\ broken' = TRUE /\ UNCHANGED meta
  /\ UNCHANGED data
  /\ reader' = Disturbed

\* MUTANT of PutMetaWrite: an error of the write is not reported.
PutMetaWriteAnyway(p) ==
  /\ put[p].pc = "truncated"
  /\ put' = [put EXCEPT ![p].pc = "done"]
  /\ \/ meta' = put[p].body /\ broken' = ~ put[p].alone
     \/ broken' = TRUE /\ UNCHANGED meta
  /\ UNCHANGED data
  /\ reader' = Disturbed

\* ... and written, from its beginning: over what another Put has written in
\* the meantime, whose end may show behind a shorter text.
PutMetaWrite(p) ==
  /\ put[p].pc = "truncated"
  /\ \/ /\ meta' = put[p].body \/ (~ put[p].alone /\ meta' = Torn)
        /\ put' = [put EXCEPT ![p].pc = "done"]
        /\ broken' = ~ put[p].alone
     \/ Fails(p) /\ broken' = TRUE /\ meta' \in {meta, Torn}
  /\ UNCHANGED data
  /\ reader' = Disturbed

PutStep(p) == PutRename(p) \/ PutMetaOpen(p) \/ PutMetaWrite(p)

-----------------------------------------------------------------------------
(* handleFile *)

\* VerifyRequest: a signature ends with its time.
Verify(r) ==
  /\ reader[r].pc = "url"
  /\ \E pc \in {"open", "expired"} : reader' = [reader EXCEPT ![r].pc = pc]
  /\ UNCHANGED <<data, meta, put, broken>>

\* Local.Get: an open file, which a rename does not change.
ReadOpen(r) ==
  /\ reader[r].pc = "open"
  /\ reader' = [reader EXCEPT ![r].body = data, ![r].overlap = HalfWay,
                  ![r].pc = IF data = None THEN "notfound" ELSE "head"]
  /\ UNCHANGED <<data, meta, put, broken>>

\* Local.Head: metadata that is missing or does not parse is an error of the
\* server.
ReadHead(r) ==
  /\ reader[r].pc = "head"
  /\ reader' = [reader EXCEPT ![r].etag = meta,
                  ![r].pc = IF meta \in Content THEN "served" ELSE "error"]
  /\ UNCHANGED <<data, meta, put, broken>>

\* A client whose URL has expired refreshes it and asks again.
Ask(r) ==
  /\ reader[r].pc \in {"expired", "notfound", "error", "served"}
  /\ reader' = [reader EXCEPT ![r] = NoRead]
  /\ UNCHANGED <<data, meta, put, broken>>

ReadStep(r) == Verify(r) \/ ReadOpen(r) \/ ReadHead(r) \/ Ask(r)

\* The process dies: the files stay.
LocalCrash ==
  /\ put' = [p \in Putter |-> NoPut]
  /\ broken' = HalfWay
  /\ reader' = [r \in Reader |-> NoRead]
  /\ UNCHANGED <<data, meta>>

-----------------------------------------------------------------------------
(* Properties *)

PutRecord == [pc : {"none", "copied", "renamed", "truncated", "done", "failed"},
              body : Content \cup {None}, alone : BOOLEAN]
ReadRecord == [pc : {"url", "open", "head", "served", "expired", "notfound",
                     "error"},
               body : Content \cup {None}, etag : Content \cup {None, Torn},
               overlap : BOOLEAN]

LocalTypeOK ==
  /\ data \in Content \cup {None}
  /\ meta \in Content \cup {None, Torn}
  /\ put \in [Putter -> PutRecord]
  /\ broken \in BOOLEAN
  /\ reader \in [Reader -> ReadRecord]
  /\ \A r \in Reader :
       reader[r].pc \in {"head", "served"} => reader[r].body \in Content

\* The two files of an object agree unless a Put is between its rename and its
\* metadata, or one gave up there or met another there and none has had the
\* object to itself since.
FilesAgree ==
  data = meta \/ HalfWay

\* A response's ETag is the one of its body unless a Put came between the
\* handler's two reads, was half-way then, or had left the two files to
\* disagree by giving up or by meeting another.
ServedEtagIsBodys ==
  \A r \in Reader :
    reader[r].pc = "served" /\ reader[r].etag # reader[r].body =>
      reader[r].overlap
=============================================================================
