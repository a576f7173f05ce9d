------------------------ MODULE ArtifactTransferProofs ------------------------
(***************************************************************************)
(* TransferInv, ServedEtagIsBodys and RefusedMeansStale are invariants   *)
(* of ArtifactTransfer, for any number of contents, readers, callers and   *)
(* retries.  Each of the three parts, the local store, the OpenList        *)
(* session and the processor, has an inductive invariant of its own; the   *)
(* processor's says how far the other two have got with what it asked for. *)
(***************************************************************************)
EXTENDS ArtifactTransfer, TLAPS

\* Whose data is in place, and what is in place while it is alone.
InPlace(p) == Between(p) \/ put[p].pc = "done"
PutOK(p) ==
  put[p].alone =>
    /\ InPlace(p) => data = put[p].body
    /\ put[p].pc = "done" => meta = put[p].body
    /\ InPlace(p) => \A q \in Putter \ {p} : ~ Between(q)

\* A Put that is alone has its data in place, and in the end its metadata; who
\* reads next to it and is not disturbed has read one generation.
LocalInv ==
  /\ LocalTypeOK
  /\ FilesAgree
  /\ \A p \in Putter : PutOK(p)
  /\ \A r \in Reader : ~ reader[r].overlap =>
       /\ reader[r].pc = "head" => reader[r].body = data /\ data = meta
       /\ reader[r].pc = "served" => reader[r].etag = reader[r].body

\* A call has not been repeated before it was sent.  Without a configured
\* token, one whose session has not gone stale in the meantime has a token that
\* is valid by the time it matters: after a log-in, and from the first answer
\* on.
CallOK(c) ==
  /\ call[c].tok <= drawn
  /\ call[c].pc = "auth" => ~ call[c].again
  /\ ~ static /\ ~ call[c].stale =>
       /\ call[c].pc = "keep" => call[c].tok \in valid
       /\ call[c].pc \in {"relogged", "answered", "putauth"} => token \in valid
       /\ call[c].pc = "send" /\ call[c].again => call[c].tok \in valid
       /\ call[c].pc = "send" /\ call[c].tok \in valid => token \in valid
       /\ call[c].pc = "upload" => call[c].tok \in valid
       /\ call[c].pc # "unauthorized"

OpenListInv ==
  /\ OpenListTypeOK
  /\ token <= drawn /\ (static => 1 <= drawn)
  /\ \A c \in Caller : CallOK(c)

\* What the executor has spent of an attempt by the time a step begins, and what
\* so many attempts allow.
Spent(x) ==
  IF x.pc = "fetch" THEN 0
  ELSE IF x.pc = "request" THEN x.attempt ELSE x.attempt + 1
Allowed(n) == (Retries + 1) * n

\* A processor that has counted and kept x, next to a download of aria2 in
\* state j: each executor has steps of its own, aria2 writes only what the
\* processor waits for, and what is put is what was hashed.
Jobs == {"none", "active", "complete", "error"}
WorkOK(x, j) ==
  /\ x.pc \in {"request", "copy", "keep"} => executor = "builtin"
  /\ x.pc = "poll" => executor = "aria2"
  /\ executor = "builtin" => j = "none"
  /\ executor = "aria2" \/ x.pc = "fetch" => x.attempt = 0
  /\ x.pc \in {"copy", "keep"} => x.body \in Content
  /\ x.pc \in Working /\ j = "active" => x.body \in Content
  /\ x.pc = "poll" /\ j = "complete" => x.file \in Content
  /\ x.pc \in {"open", "put"} => x.file \in Content /\ x.sum = x.file /\ j # "active"
  /\ IF x.pc \in Working THEN x.requests <= Allowed(x.tries) + Spent(x)
                          ELSE x.requests <= Allowed(MaxRetries + 1)

WorkTypeOK ==
  /\ executor \in {"builtin", "aria2"} /\ driver \in {"localfs", "s3", "openlist"}
  /\ object \in Content \cup {None} /\ tasks \in 0 .. MaxTasks
  /\ w \in WorkRecord /\ job \in Jobs

\* The processor's Put of localfs is the one it waits for, and of the task that
\* is ready.
WorkInv ==
  /\ WorkTypeOK
  /\ WorkOK(w, job)
  /\ ~ PutIdle(Worker) => driver = "localfs" /\ w.pc = "put"
  /\ driver = "localfs" /\ w.pc = "put" =>
       put[Worker].pc = "failed" \/ put[Worker].body = w.file
  /\ driver = "localfs" /\ w.pc = "ready" =>
       put[Worker].pc = "done" /\ put[Worker].body = w.sum
  /\ driver # "localfs" => ReadyIsStored

Inv == LocalInv /\ OpenListInv /\ WorkInv

-----------------------------------------------------------------------------
(* The local store *)

\* p goes on and the others do not.
LEMMA PutGoes ==
  ASSUME put \in [Putter -> PutRecord], NEW p \in Putter,
         NEW at \in {"truncated", "done"},
         put' = [put EXCEPT ![p].pc = at]
  PROVE  /\ put' \in [Putter -> PutRecord]
         /\ put'[p].pc = at /\ put'[p].body = put[p].body
         /\ put'[p].alone = put[p].alone
         /\ \A q \in Putter \ {p} : put'[q] = put[q]
<1> DEFINE x == [put[p] EXCEPT !.pc = at]
<1>1. /\ x \in PutRecord /\ x.pc = at /\ x.body = put[p].body
      /\ x.alone = put[p].alone
  BY DEF PutRecord
<1>2. put' = [put EXCEPT ![p] = x]
  OBVIOUS
<1> HIDE DEF x
<1> QED
  BY <1>1, <1>2

LEMMA PutFailsIs ==
  ASSUME put \in [Putter -> PutRecord], NEW p \in Putter, Fails(p)
  PROVE  /\ put' \in [Putter -> PutRecord] /\ put'[p].pc = "failed"
         /\ \A q \in Putter \ {p} : put'[q] = put[q]
<1> DEFINE x == [NoPut EXCEPT !.pc = "failed"]
<1>1. x \in PutRecord /\ x.pc = "failed"
  BY DEF PutRecord, NoPut
<1>2. put' = [put EXCEPT ![p] = x]
  BY DEF Fails
<1> HIDE DEF x
<1> QED
  BY <1>1, <1>2

LEMMA RenamedIs ==
  ASSUME put \in [Putter -> PutRecord], NEW p \in Putter, put' = Renamed(p)
  PROVE  /\ put' \in [Putter -> PutRecord]
         /\ put'[p].pc = "renamed" /\ put'[p].body = put[p].body
         /\ put'[p].alone = (\A o \in Putter : ~ Between(o))
         /\ \A q \in Putter \ {p} :
              /\ put'[q].pc = put[q].pc /\ put'[q].body = put[q].body
              /\ InPlace(q) => ~ put'[q].alone
              /\ ~ InPlace(q) => put'[q] = put[q]
<1> DEFINE b == \A o \in Putter : ~ Between(o)
           x == [put[p] EXCEPT !.pc = "renamed", !.alone = b]
<1>1. b \in BOOLEAN
  OBVIOUS
<1> HIDE DEF b
<1>2. x \in PutRecord /\ x.pc = "renamed" /\ x.body = put[p].body /\ x.alone = b
  BY <1>1 DEF PutRecord
<1>3. put'[p] = x
  BY DEF Renamed, b
<1> HIDE DEF x
<1>4. ASSUME NEW q \in Putter, q # p
      PROVE  /\ put'[q] \in PutRecord
             /\ put'[q].pc = put[q].pc /\ put'[q].body = put[q].body
             /\ InPlace(q) => ~ put'[q].alone
             /\ ~ InPlace(q) => put'[q] = put[q]
  <2> DEFINE y == [put[q] EXCEPT !.alone = FALSE]
  <2>1. /\ y \in PutRecord /\ y.pc = put[q].pc /\ y.body = put[q].body
        /\ y.alone = FALSE
    BY DEF PutRecord
  <2>2. put'[q] = IF InPlace(q) THEN y ELSE put[q]
    BY <1>4 DEF Renamed, InPlace
  <2> HIDE DEF y
  <2> QED
    BY <2>1, <2>2
<1>5. put' = [q \in Putter |-> put'[q]]
  BY DEF Renamed
<1>6. \A q \in Putter : put'[q] \in PutRecord
  BY <1>2, <1>3, <1>4
<1>7. put' \in [Putter -> PutRecord]
  BY <1>5, <1>6
<1> QED
  BY <1>2, <1>3, <1>4, <1>7 DEF b

\* Whoever has opened the data is told that a Put was at work.
LEMMA DisturbedIs ==
  ASSUME reader \in [Reader -> ReadRecord], reader' = Disturbed
  PROVE  /\ reader' \in [Reader -> ReadRecord]
         /\ \A r \in Reader :
              /\ reader'[r].pc = reader[r].pc /\ reader'[r].body = reader[r].body
              /\ reader'[r].etag = reader[r].etag
              /\ reader[r].pc = "head" => reader'[r].overlap
              /\ reader[r].pc # "head" => reader'[r] = reader[r]
<1>1. ASSUME NEW r \in Reader
      PROVE  /\ reader'[r] \in ReadRecord
             /\ reader'[r].pc = reader[r].pc /\ reader'[r].body = reader[r].body
             /\ reader'[r].etag = reader[r].etag
             /\ reader[r].pc = "head" => reader'[r].overlap
             /\ reader[r].pc # "head" => reader'[r] = reader[r]
  <2> DEFINE x == [reader[r] EXCEPT !.overlap = TRUE]
  <2>1. reader[r] \in ReadRecord
    OBVIOUS
  <2>2. /\ x \in ReadRecord /\ x.pc = reader[r].pc /\ x.body = reader[r].body
        /\ x.etag = reader[r].etag /\ x.overlap
    BY <2>1 DEF ReadRecord
  <2>3. reader'[r] = IF reader[r].pc = "head" THEN x ELSE reader[r]
    BY DEF Disturbed
  <2> HIDE DEF x
  <2> QED
    BY <2>1, <2>2, <2>3
<1>2. reader' = [r \in Reader |-> reader'[r]]
  BY DEF Disturbed
<1> QED
  BY <1>1, <1>2

\* What a step of Put leaves to be shown: the readers are told, and a change of
\* one file is of a Put between the two.
LEMMA PutMoves ==
  ASSUME LocalInv, reader' = Disturbed, put' \in [Putter -> PutRecord],
         data' \in Content \cup {None}, meta' \in Content \cup {None, Torn},
         broken' \in BOOLEAN, FilesAgree', \A p \in Putter : PutOK(p)'
  PROVE  LocalInv'
<1>1. reader \in [Reader -> ReadRecord]
  BY DEF LocalInv, LocalTypeOK
<1>2. /\ reader' \in [Reader -> ReadRecord]
      /\ \A r \in Reader :
           /\ reader'[r].pc = reader[r].pc /\ reader'[r].body = reader[r].body
           /\ reader'[r].etag = reader[r].etag
           /\ reader[r].pc = "head" => reader'[r].overlap
           /\ reader[r].pc # "head" => reader'[r] = reader[r]
  BY <1>1, DisturbedIs
<1>3. \A r \in Reader : ~ reader'[r].overlap =>
        /\ reader'[r].pc = "head" => reader'[r].body = data' /\ data' = meta'
        /\ reader'[r].pc = "served" => reader'[r].etag = reader'[r].body
  BY <1>2 DEF LocalInv
<1>4. \A r \in Reader :
        reader'[r].pc \in {"head", "served"} => reader'[r].body \in Content
  BY <1>2 DEF LocalInv, LocalTypeOK
<1>5. LocalTypeOK'
  BY <1>2, <1>4 DEF LocalTypeOK
<1> QED
  BY <1>3, <1>5 DEF LocalInv

\* One that fails, where it stands, before or between the two files.
LEMMA PutFailureKeeps ==
  ASSUME LocalInv, NEW p \in Putter, Fails(p), data' = data,
         meta' \in Content \cup {None, Torn}, broken' \in BOOLEAN,
         ~ InPlace(p) => meta' = meta /\ broken' = broken,
         Between(p) \/ broken' = broken, Between(p) => broken',
         ~ Between(p) => meta' = meta
  PROVE  /\ put' \in [Putter -> PutRecord] /\ FilesAgree'
         /\ \A q \in Putter : PutOK(q)'
<1>1. /\ put \in [Putter -> PutRecord] /\ FilesAgree
      /\ \A q \in Putter : PutOK(q)
  BY DEF LocalInv, LocalTypeOK
<1>2. /\ put' \in [Putter -> PutRecord] /\ put'[p].pc = "failed"
      /\ \A q \in Putter \ {p} : put'[q] = put[q]
  BY <1>1, PutFailsIs
<1>3. FilesAgree'
  <2>1. CASE Between(p)
    BY <2>1 DEF FilesAgree, HalfWay
  <2>2. CASE ~ Between(p)
    BY <1>1, <1>2, <2>2 DEF FilesAgree, HalfWay, Between
  <2> QED
    BY <2>1, <2>2
<1>4. ASSUME NEW q \in Putter PROVE PutOK(q)'
  <2>1. CASE q = p
    BY <1>2, <2>1 DEF PutOK, InPlace, Between
  <2>2. CASE q # p
    <3>1. PutOK(q) /\ put'[q] = put[q]
      BY <1>1, <1>2, <2>2
    <3>2. \A o \in Putter : Between(o)' => Between(o)
      BY <1>2 DEF Between
    <3>3. CASE Between(p)
      BY <2>2, <3>1, <3>2, <3>3 DEF PutOK, InPlace, Between
    <3>4. CASE ~ Between(p)
      BY <3>1, <3>2, <3>4 DEF PutOK, InPlace, Between
    <3> QED
      BY <3>3, <3>4
  <2> QED
    BY <2>1, <2>2
<1> QED
  BY <1>2, <1>3, <1>4

LEMMA PutRenameKeeps ==
  ASSUME LocalInv, NEW p \in Putter, PutRename(p)
  PROVE  LocalInv'
<1>0. /\ put \in [Putter -> PutRecord] /\ \A q \in Putter : PutOK(q)
      /\ put[p].pc = "copied" /\ ~ Between(p) /\ ~ InPlace(p)
      /\ put[p].body \in Content \cup {None} /\ data \in Content \cup {None}
      /\ meta \in Content \cup {None, Torn} /\ broken \in BOOLEAN
  BY DEF LocalInv, LocalTypeOK, PutRename, PutRecord, Between, InPlace
<1>1. meta' = meta /\ broken' = broken /\ reader' = Disturbed
  BY DEF PutRename
<1>2. CASE data' = put[p].body /\ put' = Renamed(p)
  <2>1. /\ put' \in [Putter -> PutRecord]
        /\ put'[p].pc = "renamed" /\ put'[p].body = put[p].body
        /\ put'[p].alone = (\A o \in Putter : ~ Between(o))
        /\ \A q \in Putter \ {p} :
             /\ put'[q].pc = put[q].pc /\ put'[q].body = put[q].body
             /\ InPlace(q) => ~ put'[q].alone
             /\ ~ InPlace(q) => put'[q] = put[q]
    BY <1>0, <1>2, RenamedIs
  <2>2. FilesAgree'
    BY <2>1 DEF FilesAgree, HalfWay, Between
  <2>3. ASSUME NEW q \in Putter PROVE PutOK(q)'
    <3>1. CASE q = p
      <4>1. put'[p].alone => \A o \in Putter \ {p} : ~ Between(o)'
        BY <2>1 DEF Between
      <4> QED
        BY <1>2, <2>1, <3>1, <4>1 DEF PutOK, InPlace, Between
    <3>2. CASE q # p /\ InPlace(q)
      BY <2>1, <3>2 DEF PutOK
    <3>3. CASE q # p /\ ~ InPlace(q)
      BY <2>1, <3>3 DEF PutOK, InPlace, Between
    <3> QED
      BY <3>1, <3>2, <3>3
  <2> QED
    BY <1>0, <1>1, <1>2, <2>1, <2>2, <2>3, PutMoves
<1>3. CASE Fails(p) /\ data' = data
  BY <1>0, <1>1, <1>3, PutFailureKeeps, PutMoves
<1> QED
  BY <1>2, <1>3 DEF PutRename

LEMMA PutMetaOpenKeeps ==
  ASSUME LocalInv, NEW p \in Putter, PutMetaOpen(p)
  PROVE  LocalInv'
<1>0. /\ put \in [Putter -> PutRecord] /\ \A q \in Putter : PutOK(q)
      /\ put[p].pc = "renamed" /\ Between(p) /\ InPlace(p)
      /\ data \in Content \cup {None}
      /\ meta \in Content \cup {None, Torn} /\ broken \in BOOLEAN
  BY DEF LocalInv, LocalTypeOK, PutMetaOpen, Between, InPlace
<1>1. data' = data /\ reader' = Disturbed
  BY DEF PutMetaOpen
<1>2. CASE /\ meta' = Torn /\ broken' = broken
           /\ put' = [put EXCEPT ![p].pc = "truncated"]
  <2>1. /\ put' \in [Putter -> PutRecord]
        /\ put'[p].pc = "truncated" /\ put'[p].body = put[p].body
        /\ put'[p].alone = put[p].alone
        /\ \A q \in Putter \ {p} : put'[q] = put[q]
    BY <1>0, <1>2, PutGoes
  <2>2. FilesAgree'
    BY <2>1 DEF FilesAgree, HalfWay, Between
  <2>3. \A q \in Putter : Between(q)' = Between(q)
    BY <1>0, <2>1 DEF Between
  <2>4. ASSUME NEW q \in Putter PROVE PutOK(q)'
    <3>1. CASE q = p
      BY <1>0, <1>1, <2>1, <2>3, <3>1 DEF PutOK, InPlace
    <3>2. CASE q # p
      \* A Put that is done is no longer alone.
      <4>1. put[q].alone => ~ InPlace(q)
        BY <1>0, <3>2 DEF PutOK
      <4>2. put'[q] = put[q]
        BY <2>1, <3>2
      <4> QED
        BY <4>1, <4>2 DEF PutOK, InPlace, Between
    <3> QED
      BY <3>1, <3>2
  <2> QED
    BY <1>0, <1>1, <1>2, <2>1, <2>2, <2>4, PutMoves
<1>3. CASE Fails(p) /\ broken' = TRUE /\ meta' = meta
  BY <1>0, <1>1, <1>3, PutFailureKeeps, PutMoves
<1> QED
  BY <1>2, <1>3 DEF PutMetaOpen

LEMMA PutMetaWriteKeeps ==
  ASSUME LocalInv, NEW p \in Putter, PutMetaWrite(p)
  PROVE  LocalInv'
<1>0. /\ put \in [Putter -> PutRecord] /\ \A q \in Putter : PutOK(q)
      /\ put[p].pc = "truncated" /\ Between(p) /\ InPlace(p)
      /\ put[p].body \in Content \cup {None} /\ put[p].alone \in BOOLEAN
      /\ data \in Content \cup {None} /\ meta \in Content \cup {None, Torn}
  BY DEF LocalInv, LocalTypeOK, PutMetaWrite, PutRecord, Between, InPlace
<1>1. data' = data /\ reader' = Disturbed
  BY DEF PutMetaWrite
<1>2. CASE /\ meta' = put[p].body \/ (~ put[p].alone /\ meta' = Torn)
           /\ broken' = ~ put[p].alone
           /\ put' = [put EXCEPT ![p].pc = "done"]
  <2>1. /\ put' \in [Putter -> PutRecord]
        /\ put'[p].pc = "done" /\ put'[p].body = put[p].body
        /\ put'[p].alone = put[p].alone
        /\ \A q \in Putter \ {p} : put'[q] = put[q]
    BY <1>0, <1>2, PutGoes
  <2>2. PutOK(p)
    BY <1>0
  <2>3. FilesAgree'
    BY <1>0, <1>1, <1>2, <2>2 DEF FilesAgree, HalfWay, PutOK
  <2>4. \A q \in Putter : Between(q)' => Between(q)
    BY <1>0, <2>1 DEF Between
  <2>5. ASSUME NEW q \in Putter PROVE PutOK(q)'
    <3>1. CASE q = p
      BY <1>0, <1>1, <1>2, <2>1, <2>2, <2>4, <3>1 DEF PutOK, InPlace
    <3>2. CASE q # p
      <4>1. put[q].alone => ~ InPlace(q)
        BY <1>0, <3>2 DEF PutOK
      <4>2. put'[q] = put[q]
        BY <2>1, <3>2
      <4> QED
        BY <4>1, <4>2 DEF PutOK, InPlace, Between
    <3> QED
      BY <3>1, <3>2
  <2>6. meta' \in Content \cup {None, Torn} /\ broken' \in BOOLEAN
    BY <1>0, <1>2
  <2> QED
    BY <1>0, <1>1, <2>1, <2>3, <2>5, <2>6, PutMoves
<1>3. CASE Fails(p) /\ broken' = TRUE /\ meta' \in {meta, Torn}
  <2>1. meta' \in Content \cup {None, Torn}
    BY <1>0, <1>3
  <2> QED
    BY <1>0, <1>1, <1>3, <2>1, PutFailureKeeps, PutMoves
<1> QED
  BY <1>2, <1>3 DEF PutMetaWrite

LEMMA PutStepKeeps ==
  ASSUME LocalInv, NEW p \in Putter, PutStep(p)
  PROVE  LocalInv'
BY PutRenameKeeps, PutMetaOpenKeeps, PutMetaWriteKeeps DEF PutStep

\* What p's step is to the others' Puts, and to its own.
LEMMA PutStepIs ==
  ASSUME LocalInv, NEW p \in Putter, PutStep(p)
  PROVE  /\ ~ PutIdle(p)
         /\ put'[p].pc = "failed" \/ put'[p].body = put[p].body
         /\ \A q \in Putter \ {p} :
              put'[q].pc = put[q].pc /\ put'[q].body = put[q].body
<1>1. put \in [Putter -> PutRecord]
  BY DEF LocalInv, LocalTypeOK
<1>2. \/ Fails(p) \/ put' = Renamed(p)
      \/ \E at \in {"truncated", "done"} : put' = [put EXCEPT ![p].pc = at]
  BY DEF PutStep, PutRename, PutMetaOpen, PutMetaWrite
<1>3. ~ PutIdle(p)
  BY DEF PutStep, PutRename, PutMetaOpen, PutMetaWrite, PutIdle
<1> QED
  BY <1>1, <1>2, <1>3, PutFailsIs, RenamedIs, PutGoes

LEMMA PutCopyKeeps ==
  ASSUME LocalInv, NEW p \in Putter, NEW v \in Content \cup {None}, PutCopy(p, v)
  PROVE  /\ LocalInv'
         /\ put'[p].pc = "failed" \/ (put'[p].pc = "copied" /\ put'[p].body = v)
         /\ \A q \in Putter \ {p} : put'[q] = put[q]
<1>0. put \in [Putter -> PutRecord]
  BY DEF LocalInv, LocalTypeOK
<1>1. UNCHANGED <<data, meta, broken, reader>> /\ ~ Between(p)
  BY DEF PutCopy, PutIdle, Between
<1>2. /\ put' \in [Putter -> PutRecord]
      /\ \/ put'[p].pc = "failed"
         \/ put'[p].pc = "copied" /\ put'[p].body = v
      /\ \A q \in Putter \ {p} : put'[q] = put[q]
  <2>1. CASE Fails(p)
    BY <1>0, <2>1, PutFailsIs
  <2>2. CASE ~ Fails(p)
    <3> DEFINE x == [NoPut EXCEPT !.pc = "copied", !.body = v]
    <3>1. x \in PutRecord /\ x.pc = "copied" /\ x.body = v
      BY DEF PutRecord, NoPut
    <3>2. put' = [put EXCEPT ![p] = x]
      BY <2>2 DEF PutCopy
    <3> HIDE DEF x
    <3> QED
      BY <1>0, <3>1, <3>2
  <2> QED
    BY <2>1, <2>2
<1>3. \A q \in Putter : Between(q)' = Between(q)
  BY <1>1, <1>2 DEF Between
<1>4. FilesAgree'
  BY <1>1, <1>3 DEF LocalInv, FilesAgree, HalfWay
<1>5. ASSUME NEW q \in Putter PROVE PutOK(q)'
  <2>1. CASE q = p
    BY <1>2, <2>1 DEF PutOK, InPlace, Between
  <2>2. CASE q # p
    BY <1>1, <1>2, <1>3, <2>2 DEF LocalInv, PutOK, InPlace, Between
  <2> QED
    BY <2>1, <2>2
<1>6. LocalTypeOK'
  BY <1>1, <1>2 DEF LocalInv, LocalTypeOK
<1> QED
  BY <1>1, <1>2, <1>4, <1>5, <1>6 DEF LocalInv

LEMMA ReadStepKeeps ==
  ASSUME LocalInv, NEW r \in Reader, ReadStep(r)
  PROVE  LocalInv'
<1>0. /\ LocalTypeOK /\ FilesAgree /\ reader \in [Reader -> ReadRecord]
      /\ reader[r] \in ReadRecord
      /\ UNCHANGED <<data, meta, put, broken>>
  BY DEF LocalInv, LocalTypeOK, ReadStep, Verify, ReadOpen, ReadHead, Ask
<1>1. ASSUME NEW x \in ReadRecord, reader' = [reader EXCEPT ![r] = x],
             x.pc \in {"head", "served"} => x.body \in Content,
             ~ x.overlap =>
               /\ x.pc = "head" => x.body = data /\ data = meta
               /\ x.pc = "served" => x.etag = x.body
      PROVE  LocalInv'
  <2>1. LocalTypeOK'
    BY <1>0, <1>1 DEF LocalTypeOK
  <2>2. FilesAgree' /\ \A p \in Putter : PutOK(p)'
    BY <1>0 DEF LocalInv, FilesAgree, HalfWay, PutOK, InPlace, Between
  <2>3. ASSUME NEW q \in Reader, ~ reader'[q].overlap
        PROVE  /\ reader'[q].pc = "head" => reader'[q].body = data' /\ data' = meta'
               /\ reader'[q].pc = "served" => reader'[q].etag = reader'[q].body
    <3>1. CASE q = r
      BY <1>0, <1>1, <2>3, <3>1
    <3>2. CASE q # r
      <4>1. reader'[q] = reader[q]
        BY <1>0, <1>1, <3>2
      <4> QED
        BY <1>0, <2>3, <4>1 DEF LocalInv
    <3> QED
      BY <3>1, <3>2
  <2> QED
    BY <1>0, <2>1, <2>2, <2>3 DEF LocalInv
<1>2. CASE Verify(r)
  <2>1. PICK pc \in {"open", "expired"} : reader' = [reader EXCEPT ![r].pc = pc]
    BY <1>2 DEF Verify
  <2> DEFINE x == [reader[r] EXCEPT !.pc = pc]
  <2>2. x \in ReadRecord /\ x.pc = pc
    BY <1>0 DEF ReadRecord
  <2>3. reader' = [reader EXCEPT ![r] = x]
    BY <2>1
  <2> HIDE DEF x
  <2> QED
    BY <1>1, <2>2, <2>3
<1>3. CASE ReadOpen(r)
  <2> DEFINE pc == IF data = None THEN "notfound" ELSE "head"
             x == [reader[r] EXCEPT !.body = data, !.overlap = HalfWay, !.pc = pc]
  <2>1. /\ data \in Content \cup {None} /\ HalfWay \in BOOLEAN
        /\ ~ HalfWay => data = meta
    BY <1>0 DEF LocalTypeOK, HalfWay, FilesAgree
  <2>2. x \in ReadRecord /\ x.pc = pc /\ x.body = data /\ x.overlap = HalfWay
    BY <1>0, <2>1 DEF ReadRecord
  <2>3. reader' = [reader EXCEPT ![r] = x]
    BY <1>3 DEF ReadOpen
  <2> HIDE DEF x
  <2> QED
    BY <1>1, <2>1, <2>2, <2>3
<1>4. CASE ReadHead(r)
  <2> DEFINE pc == IF meta \in Content THEN "served" ELSE "error"
             x == [reader[r] EXCEPT !.etag = meta, !.pc = pc]
  <2>1. /\ meta \in Content \cup {None, Torn} /\ reader[r].body \in Content
        /\ ~ reader[r].overlap => reader[r].body = meta
    BY <1>0, <1>4 DEF LocalInv, LocalTypeOK, ReadHead
  <2>2. /\ x \in ReadRecord /\ x.pc = pc /\ x.etag = meta
        /\ x.body = reader[r].body /\ x.overlap = reader[r].overlap
    BY <1>0, <2>1 DEF ReadRecord
  <2>3. reader' = [reader EXCEPT ![r] = x]
    BY <1>4 DEF ReadHead
  <2> HIDE DEF x
  <2> QED
    BY <1>1, <2>1, <2>2, <2>3
<1>5. CASE Ask(r)
  <2>1. NoRead \in ReadRecord /\ NoRead.pc = "url"
    BY DEF NoRead, ReadRecord
  <2> QED
    BY <1>1, <1>5, <2>1 DEF Ask
<1> QED
  BY <1>2, <1>3, <1>4, <1>5 DEF ReadStep

LEMMA LocalCrashKeeps ==
  ASSUME LocalInv, LocalCrash
  PROVE  LocalInv'
<1>1. NoRead \in ReadRecord /\ NoRead.pc = "url"
      /\ NoPut \in PutRecord /\ NoPut.pc = "none"
  BY DEF NoRead, ReadRecord, NoPut, PutRecord
<1>2. LocalTypeOK'
  BY <1>1 DEF LocalCrash, LocalInv, LocalTypeOK, HalfWay
<1>3. FilesAgree'
  BY DEF LocalCrash, LocalInv, FilesAgree, HalfWay
<1>4. \A p \in Putter : PutOK(p)'
  BY <1>1 DEF LocalCrash, PutOK, InPlace, Between
<1> QED
  BY <1>1, <1>2, <1>3, <1>4 DEF LocalCrash, LocalInv

LEMMA LocalInitInv == LocalInit => LocalInv
<1>1. NoRead \in ReadRecord /\ NoRead.pc = "url"
      /\ NoPut \in PutRecord /\ NoPut.pc = "none"
  BY DEF NoRead, ReadRecord, NoPut, PutRecord
<1> QED
  BY <1>1 DEF LocalInit, LocalInv, LocalTypeOK, FilesAgree, PutOK, InPlace, Between

LEMMA LocalStutter ==
  ASSUME LocalInv, UNCHANGED localVars
  PROVE  LocalInv'
BY DEF LocalInv, localVars, LocalTypeOK, FilesAgree, HalfWay, PutOK, InPlace, Between

-----------------------------------------------------------------------------
(* The OpenList session *)

\* The valid tokens stay, or are joined by a new one; the driver's stays, or is
\* a valid one.
SessionOK ==
  /\ static' = static /\ expiries' = expiries
  /\ token' \in Token /\ drawn' \in Token /\ token' <= drawn'
  /\ \/ valid' = valid /\ drawn' = drawn
     \/ drawn' = drawn + 1 /\ valid' = valid \cup {drawn'}
  /\ static \/ token' = token \/ token' \in valid

\* That disturbs no call but the one it is for.
LEMMA CallMoves ==
  ASSUME OpenListInv, NEW c \in Caller, NEW x \in CallRecord, SessionOK,
         call' = [call EXCEPT ![c] = x], CallOK(c)'
  PROVE  OpenListInv'
<1>0. OpenListTypeOK /\ call \in [Caller -> CallRecord] /\ drawn \in Nat
  BY OpenListAssumption DEF OpenListInv, OpenListTypeOK, Token
<1>1. OpenListTypeOK' /\ (token <= drawn)' /\ (static => 1 <= drawn)'
  <2>1. valid' \subseteq Token
    BY <1>0 DEF OpenListTypeOK, SessionOK
  <2>2. call' \in [Caller -> CallRecord]
    BY <1>0
  <2> QED
    BY <1>0, <2>1, <2>2 DEF OpenListInv, OpenListTypeOK, SessionOK
<1>2. ASSUME NEW y \in Caller, y # c PROVE CallOK(y)'
  <2>1. call'[y] = call[y] /\ CallOK(y) /\ call[y] \in CallRecord
    BY <1>0, <1>2 DEF OpenListInv
  <2>2. call[y].tok \in Nat
    BY <2>1, OpenListAssumption DEF CallRecord, Token
  <2>3. call[y].tok <= drawn /\ call[y].tok <= drawn'
    BY <1>0, <2>1, <2>2 DEF CallOK, SessionOK
  <2>4. call[y].tok \in valid' => call[y].tok \in valid
    BY <1>0, <2>2, <2>3 DEF SessionOK
  <2>5. ~ static /\ token \in valid => token' \in valid'
    BY DEF SessionOK
  <2>6. valid \subseteq valid' /\ static' = static
    BY DEF SessionOK
  <2> HIDE DEF SessionOK
  <2> QED
    BY <2>1, <2>3, <2>4, <2>5, <2>6 DEF CallOK
<1> QED
  BY <1>1, <1>2 DEF OpenListInv

\* A call that finds the session stale is marked and goes on as before.
LEMMA StaleIs ==
  ASSUME call \in [Caller -> CallRecord], NEW c \in Caller
  PROVE  /\ Stale(c) \in CallRecord /\ Stale(c).pc = call[c].pc
         /\ Stale(c).tok = call[c].tok /\ Stale(c).again = call[c].again
         /\ call[c].pc \in Over => Stale(c) = call[c]
         /\ call[c].pc \notin Over => Stale(c).stale
<1> DEFINE x == [call[c] EXCEPT !.stale = TRUE]
<1>1. /\ x \in CallRecord /\ x.pc = call[c].pc /\ x.stale
      /\ x.tok = call[c].tok /\ x.again = call[c].again
  BY DEF CallRecord
<1>2. Stale(c) = IF call[c].pc \in Over THEN call[c] ELSE x
  BY DEF Stale
<1> HIDE DEF x
<1> QED
  BY <1>1, <1>2

\* Nothing more is asked of it.
LEMMA StaleKeeps ==
  ASSUME OpenListInv, NEW c \in Caller, call'[c] = Stale(c), static' = static,
         drawn' = drawn
  PROVE  CallOK(c)'
<1>1. CallOK(c) /\ call \in [Caller -> CallRecord]
  BY DEF OpenListInv, OpenListTypeOK
<1>2. /\ call'[c].pc = call[c].pc /\ call'[c].tok = call[c].tok
      /\ call'[c].again = call[c].again
      /\ call[c].pc \in Over => call'[c] = call[c]
      /\ call[c].pc \notin Over => call'[c].stale
  BY <1>1, StaleIs
<1>3. CASE call[c].pc \in Over
  BY <1>1, <1>2, <1>3 DEF CallOK, Over
<1>4. CASE call[c].pc \notin Over
  BY <1>1, <1>2, <1>4 DEF CallOK
<1> QED
  BY <1>3, <1>4

LEMMA NoCallIs ==
  NoCall \in CallRecord /\ NoCall.pc = "none" /\ NoCall.tok = 0
BY OpenListAssumption DEF NoCall, CallRecord, CallPcs, Kinds, Over, Token

LEMMA AfterIs ==
  ASSUME call \in [Caller -> CallRecord], NEW c \in Caller, NEW pc \in CallPcs
  PROVE  /\ After(c, pc) \in CallRecord /\ After(c, pc).pc = pc
         /\ After(c, pc).stale = call[c].stale /\ After(c, pc).tok = 0
<1> DEFINE x == [call[c] EXCEPT !.pc = pc, !.tok = 0]
           y == [NoCall EXCEPT !.pc = pc, !.stale = call[c].stale]
<1>1. call[c] \in CallRecord /\ call[c].stale \in BOOLEAN /\ 0 \in Token
  BY OpenListAssumption DEF CallRecord, Token
<1>2. x \in CallRecord /\ x.pc = pc /\ x.stale = call[c].stale /\ x.tok = 0
  BY <1>1 DEF CallRecord
<1>3. y \in CallRecord /\ y.pc = pc /\ y.stale = call[c].stale /\ y.tok = 0
  BY <1>1, NoCallIs DEF CallRecord
<1>4. After(c, pc) = IF pc \in Over THEN y ELSE x
  BY DEF After
<1> HIDE DEF x, y
<1> QED
  BY <1>2, <1>3, <1>4

\* Going on to most steps takes no more than the session as it was.
LEMMA GoesToKeeps ==
  ASSUME OpenListInv, NEW c \in Caller, NEW pc \in CallPcs, GoesTo(c, pc),
         SessionOK, valid' = valid, token' = token,
         pc \notin {"auth", "send", "keep", "upload"},
         ~ static /\ ~ call[c].stale =>
           /\ pc \in {"relogged", "answered", "putauth"} => token \in valid
           /\ pc # "unauthorized"
  PROVE  OpenListInv'
<1>1. call \in [Caller -> CallRecord]
  BY DEF OpenListInv, OpenListTypeOK
<1>2. PICK x \in CallRecord : x = After(c, pc) /\ x.pc = pc
                              /\ x.stale = call[c].stale /\ x.tok = 0
  BY <1>1, AfterIs
<1>3. call' = [call EXCEPT ![c] = x] /\ call'[c] = x
  BY <1>1, <1>2 DEF GoesTo
<1>4. 0 <= drawn'
  BY OpenListAssumption DEF SessionOK, Token
<1>5. static' = static
  BY DEF SessionOK
<1>6. CallOK(c)'
  BY <1>2, <1>3, <1>4, <1>5 DEF CallOK
<1> QED
  BY <1>3, <1>6, CallMoves

LEMMA BeginEndKeep ==
  ASSUME OpenListInv, NEW c \in Caller,
         (\E kind \in Kinds : Begin(c, kind)) \/ End(c)
  PROVE  OpenListInv'
<1>0. /\ OpenListTypeOK /\ call \in [Caller -> CallRecord]
      /\ UNCHANGED <<static, token, drawn, valid, expiries>>
      /\ 0 <= drawn /\ token <= drawn
  <2>1. OpenListTypeOK /\ token <= drawn
    BY DEF OpenListInv
  <2>2. 0 <= drawn
    BY <2>1, OpenListAssumption DEF OpenListTypeOK, Token
  <2>3. UNCHANGED <<static, token, drawn, valid, expiries>>
    BY DEF Begin, End
  <2> QED
    BY <2>1, <2>2, <2>3 DEF OpenListTypeOK
<1>1. NoCall \in CallRecord /\ NoCall.pc = "none" /\ NoCall.again = FALSE
      /\ NoCall.tok = 0
  BY OpenListAssumption DEF NoCall, CallRecord, CallPcs, Kinds, Over, Token
<1>2. PICK x \in CallRecord :
        /\ call' = [call EXCEPT ![c] = x]
        /\ x.pc \in {"none", "auth"} /\ x.again = FALSE /\ x.tok = 0
  <2>1. CASE End(c)
    BY <1>1, <2>1 DEF End
  <2>2. CASE \E kind \in Kinds : Begin(c, kind)
    <3>1. PICK kind \in Kinds : Begin(c, kind)
      BY <2>2
    <3> DEFINE x == [NoCall EXCEPT !.kind = kind, !.pc = "auth"]
    <3>2. x \in CallRecord /\ x.pc = "auth" /\ x.again = FALSE /\ x.tok = 0
      BY <1>1 DEF CallRecord, CallPcs
    <3> QED
      BY <3>1, <3>2 DEF Begin
  <2> QED
    BY <2>1, <2>2
<1>3. SessionOK
  BY <1>0 DEF SessionOK, OpenListTypeOK
<1>4. CallOK(c)'
  BY <1>0, <1>2 DEF CallOK
<1> QED
  BY <1>2, <1>3, <1>4, CallMoves

\* The driver's token is what is sent next.
LEMMA TakesToken ==
  ASSUME OpenListInv, NEW c \in Caller, NEW pc \in {"send", "upload"},
         NEW known \in Token, known <= drawn,
         call' = [call EXCEPT ![c].pc = pc, ![c].tok = known],
         static' = static /\ expiries' = expiries /\ drawn' = drawn,
         valid' = valid, token' \in Token, token' <= drawn,
         ~ static => token' = token /\ known = token,
         ~ static /\ ~ call[c].stale /\ (pc = "upload" \/ call[c].again) =>
           token \in valid
  PROVE  OpenListInv'
<1>0. /\ OpenListTypeOK /\ call \in [Caller -> CallRecord]
      /\ call[c] \in CallRecord
  BY DEF OpenListInv, OpenListTypeOK
<1> DEFINE x == [call[c] EXCEPT !.pc = pc, !.tok = known]
<1>1. /\ x \in CallRecord /\ x.pc = pc /\ x.tok = known
      /\ x.again = call[c].again /\ x.stale = call[c].stale
  BY <1>0 DEF CallRecord, CallPcs
<1>2. call' = [call EXCEPT ![c] = x]
  OBVIOUS
<1> HIDE DEF x
<1>3. call'[c] = x
  BY <1>0, <1>2
<1>4. CallOK(c)'
  BY <1>1, <1>3 DEF CallOK
<1>5. SessionOK
  BY <1>0 DEF SessionOK, OpenListTypeOK
<1> QED
  BY <1>1, <1>2, <1>4, <1>5, CallMoves

LEMMA CallStepKeeps ==
  ASSUME OpenListInv, NEW c \in Caller, CallStep(c)
  PROVE  OpenListInv'
<1>0. /\ OpenListTypeOK /\ call \in [Caller -> CallRecord] /\ CallOK(c)
      /\ call[c] \in CallRecord /\ call[c].tok \in Token
      /\ token \in Token /\ drawn \in Token /\ valid \subseteq Token
      /\ token <= drawn /\ (static => 1 <= drawn)
  BY DEF OpenListInv, OpenListTypeOK, CallRecord
<1>1. /\ static' = static /\ expiries' = expiries
  BY DEF CallStep, AuthToken, Send, Login, KeepToken, Repeat, Answered, PutAuth,
         Upload
<1>2. ASSUME UNCHANGED <<token, drawn, valid>> PROVE SessionOK
  BY <1>0, <1>1, <1>2 DEF SessionOK
<1>3. CASE AuthToken(c)
  <2>1. CASE GoesTo(c, "login") /\ UNCHANGED token
    <3>1. "login" \in CallPcs
      BY DEF CallPcs
    <3> QED
      BY <1>2, <1>3, <2>1, <3>1, GoesToKeeps DEF AuthToken
  <2>2. CASE ~ (GoesTo(c, "login") /\ UNCHANGED token)
    <3> DEFINE known == IF static THEN 1 ELSE token
    <3>1. known \in Token /\ known <= drawn
      BY <1>0, OpenListAssumption DEF Token
    <3>2. /\ call' = [call EXCEPT ![c].pc = "send", ![c].tok = known]
          /\ token' = known /\ UNCHANGED <<drawn, valid>>
      BY <1>3, <2>2 DEF AuthToken
    <3>3. ~ call[c].again
      BY <1>0, <1>3 DEF AuthToken, CallOK
    <3>4. ~ static => known = token
      OBVIOUS
    <3> HIDE DEF known
    <3> QED
      BY <1>1, <3>1, <3>2, <3>3, <3>4, TakesToken
  <2> QED
    BY <2>1, <2>2
<1>4. CASE Send(c)
  <2>1. PICK answer \in {"answered", "failed", "unauthorized"}, looks \in BOOLEAN :
          /\ (answer = "unauthorized") = (call[c].tok \notin valid)
          /\ answer = "unauthorized" => looks
          /\ IF looks /\ ~ static /\ ~ call[c].again
               THEN call' = [call EXCEPT ![c] = [After(c, "login") EXCEPT !.again = TRUE]]
               ELSE GoesTo(c, answer)
    BY <1>4 DEF Send
  <2>2. SessionOK /\ token' = token /\ valid' = valid /\ call[c].pc = "send"
    BY <1>2, <1>4 DEF Send
  <2>3. CASE looks /\ ~ static /\ ~ call[c].again
    <3>1. "login" \in CallPcs
      BY DEF CallPcs
    <3>2. PICK y \in CallRecord : y = After(c, "login") /\ y.pc = "login" /\ y.tok = 0
      BY <1>0, <3>1, AfterIs
    <3> DEFINE x == [y EXCEPT !.again = TRUE]
    <3>3. x \in CallRecord /\ x.pc = "login" /\ x.tok = 0
      BY <3>2 DEF CallRecord
    <3>4. call' = [call EXCEPT ![c] = x]
      BY <2>1, <2>3, <3>2
    <3> HIDE DEF x
    <3>5. call'[c] = x /\ 0 <= drawn'
      BY <1>0, <2>2, <3>4, OpenListAssumption DEF SessionOK, Token
    <3>6. CallOK(c)'
      BY <3>3, <3>5 DEF CallOK
    <3> QED
      BY <2>2, <3>3, <3>4, <3>6, CallMoves
  <2>4. CASE ~ (looks /\ ~ static /\ ~ call[c].again)
    <3>1. GoesTo(c, answer) /\ answer \in CallPcs
      BY <2>1, <2>4 DEF CallPcs, Over
    <3>2. ~ static /\ ~ call[c].stale =>
            /\ answer = "answered" => token \in valid
            /\ answer # "unauthorized"
      BY <1>0, <2>1, <2>2, <2>4 DEF CallOK
    <3> QED
      BY <2>1, <2>2, <3>1, <3>2, GoesToKeeps
  <2> QED
    BY <2>3, <2>4
<1>5. CASE Login(c)
  <2>1. CASE GoesTo(c, "nologin") /\ UNCHANGED <<drawn, valid>>
    <3>1. "nologin" \in CallPcs /\ token' = token
      BY <1>5 DEF CallPcs, Over, Login
    <3> QED
      BY <1>2, <2>1, <3>1, GoesToKeeps
  <2>2. CASE /\ drawn < MaxLogins /\ drawn' = drawn + 1
             /\ valid' = valid \cup {drawn'}
             /\ call' = [call EXCEPT ![c].pc = "keep", ![c].tok = drawn']
    <3>1. drawn' \in Token /\ token' = token /\ token' <= drawn'
      BY <1>0, <1>5, <2>2, OpenListAssumption DEF Token, Login
    <3> DEFINE x == [call[c] EXCEPT !.pc = "keep", !.tok = drawn']
    <3>2. x \in CallRecord /\ x.pc = "keep" /\ x.tok = drawn'
      BY <1>0, <3>1 DEF CallRecord, CallPcs
    <3>3. call' = [call EXCEPT ![c] = x]
      BY <2>2
    <3> HIDE DEF x
    <3>4. call'[c] = x
      BY <1>0, <3>3
    <3>5. SessionOK
      BY <1>0, <1>1, <2>2, <3>1 DEF SessionOK
    <3>6. drawn' <= drawn'
      BY <3>1, OpenListAssumption DEF Token
    <3>7. CallOK(c)'
      BY <2>2, <3>2, <3>4, <3>6 DEF CallOK
    <3> QED
      BY <3>2, <3>3, <3>5, <3>7, CallMoves
  <2> QED
    BY <1>5, <2>1, <2>2 DEF Login
<1>6. CASE KeepToken(c)
  <2>1. /\ call[c].pc = "keep" /\ token' = call[c].tok
        /\ UNCHANGED <<static, drawn, valid, expiries>>
        /\ call[c].tok <= drawn /\ "relogged" \in CallPcs
        /\ call' = [d \in Caller |->
                      IF d = c THEN After(c, "relogged")
                      ELSE IF call[c].tok \in valid THEN call[d] ELSE Stale(d)]
    BY <1>0, <1>6 DEF KeepToken, CallOK, CallPcs
  <2>2. PICK x \in CallRecord :
          /\ x = After(c, "relogged") /\ x.pc = "relogged" /\ x.tok = 0
          /\ x.stale = call[c].stale
    BY <1>0, <2>1, AfterIs
  <2>3. call'[c] = x /\ 0 <= drawn'
    BY <1>0, <2>1, <2>2, OpenListAssumption DEF Token
  <2>4. CallOK(c)'
    BY <1>0, <2>1, <2>2, <2>3 DEF CallOK
  <2>5. CASE call[c].tok \in valid
    <3>1. call' = [call EXCEPT ![c] = x]
      BY <1>0, <2>1, <2>2, <2>5
    <3>2. SessionOK
      BY <1>0, <2>1, <2>5 DEF SessionOK
    <3> QED
      BY <2>4, <3>1, <3>2, CallMoves
  <2>6. CASE call[c].tok \notin valid
    <3>1. ASSUME NEW d \in Caller, d # c
          PROVE  call'[d] = Stale(d) /\ Stale(d) \in CallRecord
      BY <1>0, <2>1, <2>6, <3>1, StaleIs
    <3>2. call' = [d \in Caller |-> call'[d]]
      BY <2>1
    <3>3. \A d \in Caller : call'[d] \in CallRecord
      BY <2>2, <2>3, <3>1
    <3>4. OpenListTypeOK'
      BY <1>0, <2>1, <3>2, <3>3 DEF OpenListTypeOK
    <3>5. \A d \in Caller \ {c} : CallOK(d)'
      BY <2>1, <3>1, StaleKeeps
    <3> QED
      BY <1>0, <2>1, <2>4, <3>4, <3>5 DEF OpenListInv
  <2> QED
    BY <2>5, <2>6
<1>7. CASE Repeat(c)
  <2>1. /\ call[c].pc = "relogged"
        /\ call' = [call EXCEPT ![c].pc = "send", ![c].tok = token]
        /\ UNCHANGED <<static, token, drawn, valid, expiries>>
    BY <1>7 DEF Repeat
  <2>2. ~ static /\ ~ call[c].stale => token \in valid
    BY <1>0, <2>1 DEF CallOK
  <2> QED
    BY <1>0, <2>1, <2>2, TakesToken
<1>8. CASE Answered(c)
  <2>1. PICK to \in {"ok", "putauth"} : GoesTo(c, to)
    BY <1>8 DEF Answered
  <2>2. to \in CallPcs /\ UNCHANGED <<token, drawn, valid>>
    BY <1>8 DEF CallPcs, Over, Answered
  <2>3. ~ static /\ ~ call[c].stale => token \in valid
    BY <1>0, <1>8 DEF CallOK, Answered
  <2> QED
    BY <1>2, <2>1, <2>2, <2>3, GoesToKeeps
<1>9. CASE PutAuth(c)
  <2>1. /\ call[c].pc = "putauth"
        /\ call' = [call EXCEPT ![c].pc = "upload", ![c].tok = token]
        /\ UNCHANGED <<static, token, drawn, valid, expiries>>
    BY <1>9 DEF PutAuth
  <2>2. ~ static /\ ~ call[c].stale => token \in valid
    BY <1>0, <2>1 DEF CallOK
  <2> QED
    BY <1>0, <2>1, <2>2, TakesToken
<1>10. CASE Upload(c)
  <2>1. PICK answer \in {"ok", "failed", "unauthorized"} :
          /\ (answer = "unauthorized") = (call[c].tok \notin valid)
          /\ GoesTo(c, answer)
    BY <1>10 DEF Upload
  <2>2. answer \in CallPcs /\ UNCHANGED <<token, drawn, valid>>
    BY <1>10 DEF CallPcs, Over, Upload
  <2>3. ~ static /\ ~ call[c].stale => answer # "unauthorized"
    BY <1>0, <1>10, <2>1 DEF CallOK, Upload
  <2> QED
    BY <1>2, <2>1, <2>2, <2>3, GoesToKeeps
<1> QED
  BY <1>3, <1>4, <1>5, <1>6, <1>7, <1>8, <1>9, <1>10 DEF CallStep

\* OpenList's change of mind marks the calls that are under way.
LEMMA ExpireKeeps ==
  ASSUME OpenListInv, Expire
  PROVE  OpenListInv'
<1>0. /\ OpenListTypeOK /\ call \in [Caller -> CallRecord]
      /\ token <= drawn /\ (static => 1 <= drawn)
  BY DEF OpenListInv, OpenListTypeOK
<1>1. /\ UNCHANGED <<static, token, drawn>> /\ valid' = {}
      /\ expiries < MaxExpiries /\ expiries' = expiries + 1
      /\ call' = [c \in Caller |-> Stale(c)]
  BY DEF Expire
<1>2. \A c \in Caller : call'[c] = Stale(c) /\ Stale(c) \in CallRecord
  BY <1>0, <1>1, StaleIs
<1>3. OpenListTypeOK'
  <2>1. call' \in [Caller -> CallRecord]
    BY <1>1, <1>2
  <2> QED
    BY <1>0, <1>1, <2>1, OpenListAssumption DEF OpenListTypeOK
<1>4. \A c \in Caller : CallOK(c)'
  BY <1>1, <1>2, StaleKeeps
<1> QED
  BY <1>0, <1>1, <1>3, <1>4 DEF OpenListInv

LEMMA OpenListCrashKeeps ==
  ASSUME OpenListInv, OpenListCrash
  PROVE  OpenListInv'
<1>1. /\ UNCHANGED <<static, drawn, valid, expiries>> /\ token' = 0
      /\ 0 \in Token /\ call' = [c \in Caller |-> NoCall] /\ 0 <= drawn
  BY OpenListAssumption
  DEF OpenListCrash, Token, OpenListInv, OpenListTypeOK
<1>2. OpenListTypeOK'
  BY <1>1, NoCallIs DEF OpenListInv, OpenListTypeOK
<1>3. \A c \in Caller : CallOK(c)'
  BY <1>1, NoCallIs DEF CallOK
<1> QED
  BY <1>1, <1>2, <1>3 DEF OpenListInv

LEMMA OpenListInitInv == OpenListInit => OpenListInv
<1> SUFFICES ASSUME OpenListInit PROVE OpenListInv
  OBVIOUS
<1>1. /\ static \in BOOLEAN /\ token = 0 /\ 0 \in Token
      /\ drawn \in Token /\ valid \subseteq Token /\ expiries \in 0 .. MaxExpiries
      /\ call = [c \in Caller |-> NoCall] /\ 0 <= drawn /\ (static => 1 <= drawn)
  BY OpenListAssumption DEF OpenListInit, Token
<1>2. OpenListTypeOK
  BY <1>1, NoCallIs DEF OpenListTypeOK
<1>3. \A c \in Caller : CallOK(c)
  BY <1>1, NoCallIs DEF CallOK
<1> QED
  BY <1>1, <1>2, <1>3 DEF OpenListInv

LEMMA OpenListStutter ==
  ASSUME OpenListInv, UNCHANGED openListVars
  PROVE  OpenListInv'
BY DEF OpenListInv, openListVars, OpenListTypeOK, CallOK

-----------------------------------------------------------------------------
(* The processor *)

LEMMA AllowedIs ==
  ASSUME NEW n \in 0 .. MaxRetries
  PROVE  /\ Allowed(n) \in Nat /\ Allowed(MaxRetries + 1) \in Nat
         /\ Allowed(n + 1) = Allowed(n) + Retries + 1
         /\ Allowed(n + 1) <= Allowed(MaxRetries + 1)
<1>1. Retries \in Nat /\ MaxRetries \in Nat /\ MaxRetries - n \in Nat /\ n \in Nat
  BY TransferAssumption
<1>2. \A a, b, c \in Nat : a * b \in Nat /\ a * (b + c) = a * b + a * c
  OBVIOUS
<1>3. Allowed(n) \in Nat /\ Allowed(n + 1) \in Nat /\ Allowed(MaxRetries + 1) \in Nat
  BY <1>1, <1>2 DEF Allowed
<1>4. Allowed(n + 1) = Allowed(n) + Retries + 1
  BY <1>1, <1>2 DEF Allowed
<1>5. Allowed(MaxRetries + 1) = Allowed(n + 1) + Allowed(MaxRetries - n)
  <2>1. MaxRetries + 1 = (n + 1) + (MaxRetries - n)
    BY <1>1
  <2> QED
    BY <1>1, <1>2, <2>1 DEF Allowed
<1>6. Allowed(MaxRetries - n) \in Nat
  BY <1>1, <1>2 DEF Allowed
<1> HIDE DEF Allowed
<1> QED
  BY <1>3, <1>4, <1>5, <1>6

LEMMA AtIs ==
  ASSUME NEW pc \in Working \cup Worked
  PROVE  /\ At(pc) \in WorkRecord /\ At(pc).pc = pc
         /\ At(pc).attempt = 0 /\ At(pc).tries = 0 /\ At(pc).requests = 0
         /\ At(pc).body = None /\ At(pc).file = None /\ At(pc).sum = None
         /\ At(pc).alone = TRUE
BY TransferAssumption DEF At, WorkRecord

LEMMA FailedIs ==
  ASSUME NEW x \in WorkRecord
  PROVE  \/ /\ Failed(x) \in WorkRecord /\ Failed(x).pc = "fetch"
            /\ Failed(x).attempt = 0 /\ Failed(x).tries = x.tries + 1
            /\ Failed(x).requests = x.requests
            /\ executor = "aria2" => Failed(x).body = x.body
         \/ Failed(x) = At("dead")
<1> DEFINE b == IF executor = "aria2" THEN x.body ELSE None
           y == [At("fetch") EXCEPT !.tries = x.tries + 1,
                   !.requests = x.requests, !.body = b]
<1>1. CASE x.tries < MaxRetries
  <2>1. /\ x.tries + 1 \in 0 .. MaxRetries /\ x.requests \in Nat
        /\ b \in Content \cup {None}
    BY <1>1, TransferAssumption DEF WorkRecord
  <2> HIDE DEF b
  <2>2. /\ y \in WorkRecord /\ y.pc = "fetch" /\ y.attempt = 0
        /\ y.tries = x.tries + 1 /\ y.requests = x.requests /\ y.body = b
    <3>1. PICK z \in WorkRecord : z = At("fetch") /\ z.pc = "fetch" /\ z.attempt = 0
      BY AtIs DEF Working
    <3>2. PICK t \in 0 .. MaxRetries : t = x.tries + 1
      BY <2>1
    <3>3. y = [z EXCEPT !.tries = t, !.requests = x.requests, !.body = b]
      BY <3>1, <3>2
    <3> HIDE DEF y
    <3> QED
      BY <2>1, <3>1, <3>2, <3>3 DEF WorkRecord
  <2>3. Failed(x) = y
    BY <1>1 DEF Failed, b
  <2> HIDE DEF y
  <2> QED
    BY <2>2, <2>3 DEF b
<1>2. CASE ~ (x.tries < MaxRetries)
  BY <1>2 DEF Failed
<1> QED
  BY <1>1, <1>2

\* The attempt that fails has spent no more than one attempt may.
LEMMA FailedOK ==
  ASSUME NEW x \in WorkRecord, NEW j \in Jobs,
         x.requests <= Allowed(x.tries) + Retries + 1,
         executor \in {"builtin", "aria2"},
         executor = "builtin" => j = "none",
         j = "active" => x.body \in Content
  PROVE  /\ Failed(x) \in WorkRecord /\ WorkOK(Failed(x), j)
         /\ Failed(x).pc \in {"fetch", "dead"}
<1>1. x.tries \in 0 .. MaxRetries /\ x.requests \in Nat /\ Retries \in Nat
  BY TransferAssumption DEF WorkRecord
<1>2. CASE Failed(x) = At("dead")
  <2>1. /\ At("dead") \in WorkRecord /\ At("dead").pc = "dead"
        /\ At("dead").requests = 0 /\ At("dead").attempt = 0
    BY AtIs DEF Worked
  <2>2. Allowed(MaxRetries + 1) \in Nat
    BY <1>1, AllowedIs
  <2> QED
    BY <1>2, <2>1, <2>2 DEF WorkOK, Working
<1>3. CASE Failed(x) # At("dead")
  <2>1. /\ Failed(x) \in WorkRecord /\ Failed(x).pc = "fetch"
        /\ Failed(x).attempt = 0 /\ Failed(x).tries = x.tries + 1
        /\ Failed(x).requests = x.requests
        /\ executor = "aria2" => Failed(x).body = x.body
    BY <1>3, FailedIs
  <2>2. Allowed(x.tries + 1) = Allowed(x.tries) + Retries + 1
        /\ Allowed(x.tries) \in Nat
    BY <1>1, AllowedIs
  <2>3. Failed(x).requests <= Allowed(Failed(x).tries) + 0
    BY <1>1, <2>1, <2>2
  <2> QED
    BY <2>1, <2>3 DEF WorkOK, Spent, Jobs, Working
<1> QED
  BY <1>2, <1>3

\* The processor's own Put, of localfs.
LEMMA WorkerIs == Worker \in Putter /\ Worker \in Caller
BY TransferAssumption

\* What holds of every step of the executor.
LEMMA SpentIs ==
  ASSUME WorkTypeOK, WorkOK(w, job), w.pc \in Working
  PROVE  /\ w.attempt \in 0 .. Retries /\ w.tries \in 0 .. MaxRetries
         /\ w.requests \in Nat /\ Retries \in Nat /\ Allowed(w.tries) \in Nat
         /\ w.requests <= Allowed(w.tries) + Spent(w)
         /\ w.requests <= Allowed(w.tries) + Retries + 1
         /\ w.pc \in {"fetch", "request"} =>
              w.requests + 1 <= Allowed(w.tries) + Retries + 1
<1>1. /\ w.attempt \in 0 .. Retries /\ w.tries \in 0 .. MaxRetries
      /\ w.requests \in Nat /\ Retries \in Nat /\ MaxRetries \in Nat
  BY TransferAssumption DEF WorkTypeOK, WorkRecord
<1>2. Allowed(w.tries) \in Nat
  BY <1>1, AllowedIs
<1>3. w.requests <= Allowed(w.tries) + Spent(w)
  BY DEF WorkOK
<1> QED
  BY <1>1, <1>2, <1>3 DEF Spent

\* A step of the processor that leaves its Put alone.
LEMMA Moves ==
  ASSUME WorkInv, PutIdle(Worker),
         NEW x \in WorkRecord, NEW j \in Jobs, WorkOK(x, j),
         x.pc \notin {"put", "ready"}, w' = x, job' = j,
         UNCHANGED <<put, config>>, object' \in Content \cup {None},
         tasks' \in 0 .. MaxTasks
  PROVE  WorkInv'
<1>1. WorkTypeOK'
  BY DEF WorkInv, WorkTypeOK, config
<1>2. WorkOK(w, job)'
  BY DEF WorkOK, config
<1>3. PutIdle(Worker)'
  BY DEF PutIdle
<1> QED
  BY <1>1, <1>2, <1>3 DEF WorkInv, ReadyIsStored

\* Such a step leaves the other two parts alone as well.
LEMMA StepMoves ==
  ASSUME Inv, PutIdle(Worker), NEW x \in WorkRecord, NEW j \in Jobs, WorkOK(x, j),
         x.pc \notin {"put", "ready"}, w' = x, job' = j,
         UNCHANGED <<localVars, openListVars, config, tasks, object>>
  PROVE  Inv'
<1>1. LocalInv' /\ OpenListInv'
  BY LocalStutter, OpenListStutter DEF Inv
<1>2. UNCHANGED <<put, config>> /\ object' = object /\ tasks' = tasks
  BY DEF localVars
<1>3. WorkInv'
  BY <1>2, Moves DEF Inv, WorkInv, WorkTypeOK
<1> QED
  BY <1>1, <1>3 DEF Inv

LEMMA StepFails ==
  ASSUME Inv, w.pc \in Working, PutIdle(Worker), NEW x \in WorkRecord, NEW j \in Jobs,
         x.tries = w.tries, x.requests <= Allowed(w.tries) + Retries + 1,
         executor = "builtin" => j = "none",
         j = "active" => x.body \in Content,
         w' = Failed(x), job' = j,
         UNCHANGED <<localVars, openListVars, config, tasks, object>>
  PROVE  Inv'
<1>1. executor \in {"builtin", "aria2"}
  BY DEF Inv, WorkInv, WorkTypeOK
<1>2. /\ Failed(x) \in WorkRecord /\ WorkOK(Failed(x), j)
      /\ Failed(x).pc \in {"fetch", "dead"}
  BY <1>1, FailedOK
<1>3. Failed(x).pc \notin {"put", "ready"}
  BY <1>2
<1> QED
  BY <1>2, <1>3, StepMoves

\* The usual failure: nothing counted since.
LEMMA StepFailed ==
  ASSUME Inv, w.pc \in Working, PutIdle(Worker), Step(Failed(w))
  PROVE  Inv'
<1>1. /\ w \in WorkRecord /\ job \in Jobs
      /\ w.requests <= Allowed(w.tries) + Retries + 1
      /\ executor = "builtin" => job = "none"
      /\ job = "active" => w.body \in Content
  BY SpentIs DEF Inv, WorkInv, WorkTypeOK, WorkOK
<1>2. /\ w' = Failed(w) /\ job' = job
      /\ UNCHANGED <<localVars, openListVars, config, tasks, object>>
  BY DEF Step
<1> QED
  BY <1>1, <1>2, StepFails

LEMMA IdleElsewhere ==
  ASSUME Inv, w.pc # "put"
  PROVE  PutIdle(Worker)
BY DEF Inv, WorkInv

LEMMA BuiltinSteps ==
  ASSUME Inv, StartFetch \/ Request \/ Copy \/ Keep
  PROVE  Inv'
<1>0. /\ w.pc \in {"fetch", "request", "copy", "keep"} /\ w.pc \in Working /\ PutIdle(Worker)
      /\ w \in WorkRecord /\ WorkOK(w, job) /\ job = "none" /\ job \in Jobs
      /\ executor = "builtin" /\ WorkTypeOK
  BY IdleElsewhere
  DEF Inv, WorkInv, WorkTypeOK, WorkOK, StartFetch, Request, Copy, Keep, Working
<1>1. /\ w.attempt \in 0 .. Retries /\ w.tries \in 0 .. MaxRetries
      /\ w.requests \in Nat /\ Retries \in Nat /\ Allowed(w.tries) \in Nat
      /\ w.requests <= Allowed(w.tries) + Spent(w)
      /\ w.requests <= Allowed(w.tries) + Retries + 1
      /\ w.pc \in {"fetch", "request"} =>
           w.requests + 1 <= Allowed(w.tries) + Retries + 1
  BY <1>0, SpentIs
\* A failure that is worth another try, once x has been counted.
<1>2. ASSUME NEW x \in WorkRecord, x.tries = w.tries, x.attempt = w.attempt,
             x.requests <= Allowed(w.tries) + w.attempt + 1, Step(Again(x))
      PROVE  Inv'
  <2>1. w' = Again(x) /\ job' = job
        /\ UNCHANGED <<localVars, openListVars, config, tasks, object>>
    BY <1>2 DEF Step
  <2>2. CASE x.attempt < Retries
    <3> DEFINE y == [x EXCEPT !.pc = "request", !.attempt = @ + 1]
    <3>1. /\ y \in WorkRecord /\ y.pc = "request" /\ y.attempt = w.attempt + 1
          /\ y.tries = w.tries /\ y.requests = x.requests
      <4>1. PICK a \in 0 .. Retries, pc \in Working : a = x.attempt + 1 /\ pc = "request"
        BY <1>1, <1>2, <2>2 DEF Working
      <4>2. y = [x EXCEPT !.pc = pc, !.attempt = a]
        BY <4>1
      <4> HIDE DEF y
      <4> QED
        BY <1>2, <4>1, <4>2 DEF WorkRecord
    <3>2. w' = y
      BY <2>1, <2>2 DEF Again
    <3> HIDE DEF y
    <3>3. WorkOK(y, job)
      BY <1>0, <1>1, <1>2, <3>1 DEF WorkOK, Spent, Working
    <3>4. y.pc \notin {"put", "ready"}
      BY <3>1
    <3> QED
      BY <1>0, <2>1, <3>1, <3>2, <3>3, <3>4, StepMoves
  <2>3. CASE ~ (x.attempt < Retries)
    <3>1. w' = Failed(x)
      BY <2>1, <2>3 DEF Again
    <3>2. x.requests \in Nat /\ x.requests <= Allowed(w.tries) + Retries + 1
      BY <1>1, <1>2 DEF WorkRecord
    <3> QED
      BY <1>0, <1>2, <2>1, <3>1, <3>2, StepFails
  <2> QED
    BY <2>2, <2>3
<1>3. CASE StartFetch
  <2> DEFINE x == [w EXCEPT !.pc = "request"]
  <2>1. /\ x \in WorkRecord /\ x.pc = "request" /\ x.attempt = w.attempt
        /\ x.tries = w.tries /\ x.requests = w.requests
    BY <1>0 DEF WorkRecord, Working
  <2>2. /\ w' = x /\ job' = job /\ w.pc = "fetch"
        /\ UNCHANGED <<localVars, openListVars, config, tasks, object>>
    BY <1>3 DEF StartFetch, Step
  <2> HIDE DEF x
  <2>3. WorkOK(x, job)
    BY <1>0, <1>1, <2>1, <2>2 DEF WorkOK, Spent, Working
  <2>4. x.pc \notin {"put", "ready"}
    BY <2>1
  <2> QED
    BY <1>0, <2>1, <2>2, <2>3, <2>4, StepMoves
<1>4. CASE Request
  <2> DEFINE asked == [w EXCEPT !.requests = @ + 1]
  <2>1. /\ asked \in WorkRecord /\ asked.requests = w.requests + 1
        /\ asked.tries = w.tries /\ asked.attempt = w.attempt
        /\ asked.requests <= Allowed(w.tries) + w.attempt + 1
        /\ asked.requests <= Allowed(w.tries) + Retries + 1
    <3>1. PICK r \in Nat : r = w.requests + 1
      BY <1>1
    <3>2. asked = [w EXCEPT !.requests = r]
      BY <3>1
    <3> HIDE DEF asked
    <3>3. /\ asked \in WorkRecord /\ asked.requests = r
          /\ asked.tries = w.tries /\ asked.attempt = w.attempt
      BY <1>0, <3>2 DEF WorkRecord
    <3>4. w.pc = "request" /\ Spent(w) = w.attempt
      BY <1>4 DEF Request, Spent
    <3> QED
      BY <1>1, <3>1, <3>3, <3>4
  <2>2. \/ \E v \in Content : Step([asked EXCEPT !.pc = "copy", !.body = v])
        \/ Step(Again(asked)) \/ Step(Failed(asked))
    BY <1>4 DEF Request
  <2> HIDE DEF asked
  <2>3. CASE Step(Again(asked))
    BY <1>2, <2>1, <2>3
  <2>4. CASE Step(Failed(asked))
    <3>1. w' = Failed(asked) /\ job' = job
          /\ UNCHANGED <<localVars, openListVars, config, tasks, object>>
      BY <2>4 DEF Step
    <3> QED
      BY <1>0, <2>1, <3>1, StepFails
  <2>5. CASE \E v \in Content : Step([asked EXCEPT !.pc = "copy", !.body = v])
    <3>1. PICK v \in Content : Step([asked EXCEPT !.pc = "copy", !.body = v])
      BY <2>5
    <3> DEFINE x == [asked EXCEPT !.pc = "copy", !.body = v]
    <3>2. /\ x \in WorkRecord /\ x.pc = "copy" /\ x.attempt = w.attempt
          /\ x.tries = w.tries /\ x.requests = asked.requests /\ x.body = v
      BY <2>1 DEF WorkRecord, Working
    <3>3. /\ w' = x /\ job' = job
          /\ UNCHANGED <<localVars, openListVars, config, tasks, object>>
      BY <3>1 DEF Step
    <3> HIDE DEF x
    <3>4. WorkOK(x, job)
      BY <1>0, <1>1, <2>1, <3>2 DEF WorkOK, Spent, Working
    <3>5. x.pc \notin {"put", "ready"}
      BY <3>2
    <3> QED
      BY <1>0, <3>2, <3>3, <3>4, <3>5, StepMoves
  <2> QED
    BY <2>2, <2>3, <2>4, <2>5
<1>5. CASE Copy
  <2>1. w.pc = "copy" /\ w.requests <= Allowed(w.tries) + w.attempt + 1
    BY <1>1, <1>5 DEF Copy, Spent
  <2>2. CASE Step([w EXCEPT !.pc = "keep"])
    <3> DEFINE x == [w EXCEPT !.pc = "keep"]
    <3>1. /\ x \in WorkRecord /\ x.pc = "keep" /\ x.attempt = w.attempt
          /\ x.tries = w.tries /\ x.requests = w.requests /\ x.body = w.body
      BY <1>0 DEF WorkRecord, Working
    <3>2. /\ w' = x /\ job' = job
          /\ UNCHANGED <<localVars, openListVars, config, tasks, object>>
      BY <2>2 DEF Step
    <3> HIDE DEF x
    <3>3. WorkOK(x, job)
      BY <1>0, <1>1, <2>1, <3>1 DEF WorkOK, Spent, Working
    <3>4. x.pc \notin {"put", "ready"}
      BY <3>1
    <3> QED
      BY <1>0, <3>1, <3>2, <3>3, <3>4, StepMoves
  <2> QED
    BY <1>0, <1>2, <1>5, <2>1, <2>2, StepFailed DEF Copy
<1>6. CASE Keep
  <2>1. CASE Step([w EXCEPT !.pc = "open", !.file = w.body, !.sum = w.body,
                      !.body = None])
    <3> DEFINE x == [w EXCEPT !.pc = "open", !.file = w.body, !.sum = w.body,
                        !.body = None]
    <3>1. w.body \in Content /\ w.pc = "keep"
      BY <1>0, <1>6 DEF WorkOK, Keep
    <3>2. /\ x \in WorkRecord /\ x.pc = "open" /\ x.attempt = w.attempt
          /\ x.tries = w.tries /\ x.requests = w.requests
          /\ x.file = w.body /\ x.sum = w.body
      BY <1>0, <3>1 DEF WorkRecord, Working
    <3>3. /\ w' = x /\ job' = job
          /\ UNCHANGED <<localVars, openListVars, config, tasks, object>>
      BY <2>1 DEF Step
    <3> HIDE DEF x
    <3>4. WorkOK(x, job)
      BY <1>0, <1>1, <3>1, <3>2 DEF WorkOK, Spent, Working
    <3>5. x.pc \notin {"put", "ready"}
      BY <3>2
    <3> QED
      BY <1>0, <3>2, <3>3, <3>4, <3>5, StepMoves
  <2> QED
    BY <1>0, <1>6, <2>1, StepFailed DEF Keep
<1> QED
  BY <1>3, <1>4, <1>5, <1>6

LEMMA AriaSteps ==
  ASSUME Inv, AddUri \/ JobEnds \/ Poll \/ Deadline
  PROVE  Inv'
<1>0. /\ w.pc \in Working /\ w.pc # "put" /\ PutIdle(Worker)
      /\ w \in WorkRecord /\ WorkOK(w, job) /\ job \in Jobs
      /\ executor = "aria2" /\ WorkTypeOK /\ w.attempt = 0
  <2>1. WorkTypeOK /\ WorkOK(w, job) /\ w \in WorkRecord /\ job \in Jobs
    BY DEF Inv, WorkInv, WorkTypeOK
  <2>2. w.pc \in Working /\ w.pc # "put" /\ executor = "aria2"
    BY <2>1 DEF WorkTypeOK, WorkRecord, WorkOK, AddUri, JobEnds, Poll, Deadline, Working
  <2> QED
    BY <2>1, <2>2, IdleElsewhere DEF WorkOK
<1>1. /\ w.attempt \in 0 .. Retries /\ w.tries \in 0 .. MaxRetries
      /\ w.requests \in Nat /\ Retries \in Nat /\ Allowed(w.tries) \in Nat
      /\ w.requests <= Allowed(w.tries) + Spent(w)
      /\ w.requests <= Allowed(w.tries) + Retries + 1
      /\ w.pc \in {"fetch", "request"} =>
           w.requests + 1 <= Allowed(w.tries) + Retries + 1
  BY <1>0, SpentIs
<1>2. CASE AddUri
  <2> DEFINE asked == [w EXCEPT !.requests = @ + 1]
  <2>1. /\ asked \in WorkRecord /\ asked.requests = w.requests + 1
        /\ asked.tries = w.tries /\ asked.attempt = 0 /\ asked.body = w.body
        /\ asked.requests <= Allowed(w.tries) + Retries + 1
        /\ asked.requests <= Allowed(w.tries) + 1
    <3>1. PICK r \in Nat : r = w.requests + 1
      BY <1>1
    <3>2. asked = [w EXCEPT !.requests = r]
      BY <3>1
    <3> HIDE DEF asked
    <3>3. /\ asked \in WorkRecord /\ asked.requests = r /\ asked.body = w.body
          /\ asked.tries = w.tries /\ asked.attempt = 0
      BY <1>0, <3>2 DEF WorkRecord
    <3>4. w.pc = "fetch" /\ Spent(w) = 0
      BY <1>2 DEF AddUri, Spent
    <3> QED
      BY <1>1, <3>1, <3>3, <3>4
  <2>2. \/ Job(Failed(asked), job)
        \/ \E v \in Content :
             LET begun == [asked EXCEPT !.body = v]
             IN \/ Job([begun EXCEPT !.pc = "poll"], "active")
                \/ Job(Failed(begun), "active")
    BY <1>2 DEF AddUri
  <2> HIDE DEF asked
  <2>3. CASE Job(Failed(asked), job)
    <3>1. w' = Failed(asked) /\ job' = job
          /\ UNCHANGED <<localVars, openListVars, config, tasks, object>>
      BY <2>3 DEF Job
    <3>2. job = "active" => asked.body \in Content
      BY <1>0, <2>1 DEF WorkOK
    <3> QED
      BY <1>0, <2>1, <3>1, <3>2, StepFails
  <2>4. ASSUME NEW v \in Content,
               \/ Job([[asked EXCEPT !.body = v] EXCEPT !.pc = "poll"], "active")
               \/ Job(Failed([asked EXCEPT !.body = v]), "active")
        PROVE  Inv'
    <3> DEFINE begun == [asked EXCEPT !.body = v]
               x == [begun EXCEPT !.pc = "poll"]
    <3>1. /\ begun \in WorkRecord /\ begun.tries = w.tries /\ begun.body = v
          /\ begun.requests = asked.requests /\ begun.attempt = 0
      BY <2>1 DEF WorkRecord
    <3> HIDE DEF begun
    <3>2. /\ x \in WorkRecord /\ x.tries = w.tries /\ x.body = v
          /\ x.requests = asked.requests /\ x.attempt = 0 /\ x.pc = "poll"
      BY <3>1 DEF WorkRecord, Working
    <3>3. Job(x, "active") \/ Job(Failed(begun), "active")
      BY <2>4 DEF begun
    <3> HIDE DEF x
    <3>4. "active" \in Jobs
      BY DEF Jobs
    <3>5. CASE Job(x, "active")
      <4>1. w' = x /\ job' = "active"
            /\ UNCHANGED <<localVars, openListVars, config, tasks, object>>
        BY <3>5 DEF Job
      <4>2. WorkOK(x, "active")
        BY <1>0, <2>1, <3>2 DEF WorkOK, Spent, Working
      <4>3. x.pc \notin {"put", "ready"}
        BY <3>2
      <4> QED
        BY <1>0, <3>2, <3>4, <4>1, <4>2, <4>3, StepMoves
    <3>6. CASE Job(Failed(begun), "active")
      <4>1. w' = Failed(begun) /\ job' = "active"
            /\ UNCHANGED <<localVars, openListVars, config, tasks, object>>
        BY <3>6 DEF Job
      <4> QED
        BY <1>0, <2>1, <3>1, <3>4, <4>1, StepFails
    <3> QED
      BY <3>3, <3>5, <3>6
  <2> QED
    BY <2>2, <2>3, <2>4
<1>3. CASE JobEnds
  <2>1. /\ job = "active" /\ w.body \in Content /\ w.pc \in {"fetch", "poll"}
    BY <1>0, <1>3 DEF JobEnds, WorkOK, Working
  <2>2. "complete" \in Jobs /\ "error" \in Jobs
    BY DEF Jobs
  <2>3. CASE Job([w EXCEPT !.file = w.body], "complete")
    <3> DEFINE x == [w EXCEPT !.file = w.body]
    <3>1. /\ x \in WorkRecord /\ x.pc = w.pc /\ x.attempt = w.attempt
          /\ x.tries = w.tries /\ x.requests = w.requests /\ x.file = w.body
      BY <1>0, <2>1 DEF WorkRecord
    <3>2. /\ w' = x /\ job' = "complete"
          /\ UNCHANGED <<localVars, openListVars, config, tasks, object>>
      BY <2>3 DEF Job
    <3> HIDE DEF x
    <3>3. WorkOK(x, "complete")
      BY <1>0, <1>1, <2>1, <3>1 DEF WorkOK, Spent, Working
    <3>4. x.pc \notin {"put", "ready"}
      BY <2>1, <3>1
    <3> QED
      BY <1>0, <2>2, <3>1, <3>2, <3>3, <3>4, StepMoves
  <2>4. CASE Job(w, "error")
    <3>1. /\ w' = w /\ job' = "error"
          /\ UNCHANGED <<localVars, openListVars, config, tasks, object>>
      BY <2>4 DEF Job
    <3>2. WorkOK(w, "error")
      BY <1>0, <2>1 DEF WorkOK
    <3>3. w.pc \notin {"put", "ready"}
      BY <2>1
    <3> QED
      BY <1>0, <2>2, <3>1, <3>2, <3>3, StepMoves
  <2> QED
    BY <1>3, <2>3, <2>4 DEF JobEnds
<1>4. CASE Poll
  <2>1. CASE job = "complete" /\ Step([w EXCEPT !.pc = "open", !.sum = w.file])
    <3> DEFINE x == [w EXCEPT !.pc = "open", !.sum = w.file]
    <3>1. w.file \in Content /\ w.pc = "poll"
      BY <1>0, <1>4, <2>1 DEF WorkOK, Poll
    <3>2. /\ x \in WorkRecord /\ x.pc = "open" /\ x.attempt = w.attempt
          /\ x.tries = w.tries /\ x.requests = w.requests
          /\ x.file = w.file /\ x.sum = w.file
      BY <1>0, <3>1 DEF WorkRecord, Working
    <3>3. /\ w' = x /\ job' = job
          /\ UNCHANGED <<localVars, openListVars, config, tasks, object>>
      BY <2>1 DEF Step
    <3> HIDE DEF x
    <3>4. WorkOK(x, job)
      BY <1>0, <1>1, <2>1, <3>1, <3>2 DEF WorkOK, Spent, Working
    <3>5. x.pc \notin {"put", "ready"}
      BY <3>2
    <3> QED
      BY <1>0, <3>2, <3>3, <3>4, <3>5, StepMoves
  <2> QED
    BY <1>0, <1>4, <2>1, StepFailed DEF Poll
<1>5. CASE Deadline
  <2>1. PICK j \in Jobs : Job(Failed(w), j) /\ j \in {job, "none"}
    BY <1>0, <1>5 DEF Deadline, Jobs
  <2>2. w' = Failed(w) /\ job' = j
        /\ UNCHANGED <<localVars, openListVars, config, tasks, object>>
    BY <2>1 DEF Job
  <2>3. j = "active" => w.body \in Content
    BY <1>0, <2>1 DEF WorkOK
  <2> QED
    BY <1>0, <1>1, <2>1, <2>2, <2>3, StepFails
<1> QED
  BY <1>2, <1>3, <1>4, <1>5

LEMMA OpenKeeps ==
  ASSUME Inv, Open
  PROVE  Inv'
<1> DEFINE x == [w EXCEPT !.pc = "put"]
<1>0. /\ w.pc = "open" /\ w.pc \in Working /\ PutIdle(Worker) /\ w \in WorkRecord
      /\ WorkTypeOK /\ WorkOK(w, job) /\ job \in Jobs /\ w.file \in Content
  BY IdleElsewhere DEF Open, Inv, WorkInv, WorkTypeOK, WorkOK, Working
<1>1. /\ w.attempt \in 0 .. Retries /\ w.tries \in 0 .. MaxRetries
      /\ w.requests \in Nat /\ Retries \in Nat /\ Allowed(w.tries) \in Nat
      /\ w.requests <= Allowed(w.tries) + Spent(w)
  BY <1>0, SpentIs
<1>2. /\ x \in WorkRecord /\ x.pc = "put" /\ x.attempt = w.attempt
      /\ x.tries = w.tries /\ x.requests = w.requests
      /\ x.file = w.file /\ x.sum = w.sum
  BY <1>0 DEF WorkRecord, Working
<1>3. WorkOK(x, job)
  <2> HIDE DEF x
  <2> QED
    BY <1>0, <1>1, <1>2 DEF WorkOK, Spent, Working
<1>4. ASSUME w' = x, UNCHANGED <<config, tasks, object, job>>,
             LocalInv', OpenListInv',
             ~ PutIdle(Worker)' => driver = "localfs",
             driver = "localfs" =>
               put'[Worker].pc = "failed" \/ put'[Worker].body = w.file
      PROVE  Inv'
  <2>1. WorkTypeOK'
    BY <1>0, <1>2, <1>4 DEF WorkTypeOK, config
  <2>2. WorkOK(w, job)'
    BY <1>3, <1>4 DEF WorkOK, config
  <2>3. w'.pc = "put" /\ w'.file = w.file
    BY <1>2, <1>4
  <2>4. WorkInv'
    BY <1>4, <2>1, <2>2, <2>3 DEF WorkInv, ReadyIsStored, config
  <2> QED
    BY <1>4, <2>4 DEF Inv
<1>5. CASE driver = "s3" /\ Step(x)
  <2>1. LocalInv' /\ OpenListInv' /\ w' = x
        /\ UNCHANGED <<put, config, tasks, object, job>>
    BY <1>5, LocalStutter, OpenListStutter DEF Inv, Step, localVars
  <2>2. PutIdle(Worker)'
    BY <1>0, <2>1 DEF PutIdle
  <2> QED
    BY <1>4, <1>5, <2>1, <2>2
<1>6. CASE /\ driver = "localfs" /\ PutCopy(Worker, w.file) /\ w' = x
           /\ UNCHANGED <<openListVars, config, tasks, object, job>>
  <2>1. LocalInv' /\ (put'[Worker].pc = "failed" \/ put'[Worker].body = w.file)
    BY <1>0, <1>6, PutCopyKeeps, WorkerIs DEF Inv
  <2>2. OpenListInv'
    BY <1>6, OpenListStutter DEF Inv
  <2> QED
    BY <1>4, <1>6, <2>1, <2>2
<1>7. CASE /\ driver = "openlist" /\ Begin(Worker, "put") /\ w' = x
           /\ UNCHANGED <<localVars, config, tasks, object, job>>
  <2>1. OpenListInv'
    BY <1>7, BeginEndKeep, TransferAssumption DEF Inv, Kinds
  <2>2. LocalInv' /\ put' = put
    BY <1>7, LocalStutter DEF Inv, localVars
  <2>3. PutIdle(Worker)'
    BY <1>0, <2>2 DEF PutIdle
  <2> QED
    BY <1>4, <1>7, <2>1, <2>2, <2>3
<1> HIDE DEF x
<1> QED
  BY <1>0, <1>5, <1>6, <1>7, StepFailed DEF Open, x

\* What was put is what was downloaded, and what was hashed.
LEMMA StoredKeeps ==
  ASSUME Inv, w.pc = "put", PutIdle(Worker), w' = Stored,
         UNCHANGED <<localVars, config, tasks, job>>, OpenListInv',
         object' \in Content \cup {None},
         IF driver = "localfs" THEN put[Worker].pc = "done" ELSE object' = w.file
  PROVE  Inv'
<1>0. /\ w \in WorkRecord /\ WorkTypeOK /\ WorkOK(w, job) /\ LocalInv
      /\ w.pc \in Working /\ w.sum = w.file /\ job # "active"
      /\ executor = "builtin" => job = "none"
      /\ driver = "localfs" => put[Worker].body = w.file
  BY DEF Inv, WorkInv, WorkTypeOK, WorkOK, Working
<1>1. /\ w.tries \in 0 .. MaxRetries /\ w.requests \in Nat /\ Retries \in Nat
      /\ Allowed(w.tries) \in Nat /\ w.requests <= Allowed(w.tries) + Retries + 1
  BY <1>0, SpentIs
<1>2. /\ Allowed(w.tries + 1) = Allowed(w.tries) + Retries + 1
      /\ Allowed(w.tries + 1) <= Allowed(MaxRetries + 1)
      /\ Allowed(MaxRetries + 1) \in Nat
  BY <1>1, AllowedIs
<1>3. /\ Stored \in WorkRecord /\ Stored.pc = "ready" /\ Stored.attempt = 0
      /\ Stored.sum = w.sum /\ Stored.requests = w.requests
  <2>1. PICK z \in WorkRecord : z = At("ready") /\ z.pc = "ready" /\ z.attempt = 0
    BY AtIs DEF Worked
  <2>2. Stored = [z EXCEPT !.sum = w.sum, !.requests = w.requests, !.alone = w.alone]
    BY <2>1 DEF Stored
  <2> HIDE DEF Stored
  <2> QED
    BY <1>0, <2>1, <2>2 DEF WorkRecord
<1>4. WorkTypeOK'
  BY <1>0, <1>3 DEF WorkTypeOK, config
<1>5. w'.requests <= Allowed(MaxRetries + 1)
  BY <1>1, <1>2, <1>3
<1>6. WorkOK(w, job)'
  BY <1>0, <1>3, <1>5 DEF WorkOK, Working, config
<1>7. PutIdle(Worker)'
  BY DEF PutIdle, localVars
<1>8. /\ driver' # "localfs" => ReadyIsStored'
      /\ driver' = "localfs" => put'[Worker].pc = "done" /\ put'[Worker].body = w'.sum
  BY <1>0, <1>3 DEF ReadyIsStored, localVars, config
<1>9. w'.pc # "put"
  BY <1>3
<1>10. LocalInv'
  BY <1>0, LocalStutter
<1> QED
  BY <1>4, <1>6, <1>7, <1>8, <1>9, <1>10 DEF Inv, WorkInv

\* A Put that has failed may have stored its file.
LEMMA PutFails ==
  ASSUME Inv, w.pc = "put", PutIdle(Worker), w' = Failed(w),
         UNCHANGED <<localVars, config, tasks, job>>, OpenListInv',
         object' \in Content \cup {None}
  PROVE  Inv'
<1>1. /\ w \in WorkRecord /\ job \in Jobs /\ w.pc \in Working
      /\ w.requests <= Allowed(w.tries) + Retries + 1
      /\ executor = "builtin" => job = "none"
      /\ job = "active" => w.body \in Content
      /\ executor \in {"builtin", "aria2"} /\ tasks \in 0 .. MaxTasks
  BY SpentIs DEF Inv, WorkInv, WorkTypeOK, WorkOK, Working
<1>2. /\ Failed(w) \in WorkRecord /\ WorkOK(Failed(w), job)
      /\ Failed(w).pc \in {"fetch", "dead"}
  BY <1>1, FailedOK
<1>3. Failed(w).pc \notin {"put", "ready"}
  BY <1>2
<1>4. UNCHANGED <<put, config>> /\ tasks' = tasks /\ job' = job
  BY DEF localVars
<1>5. WorkInv'
  BY <1>1, <1>2, <1>3, <1>4, Moves DEF Inv
<1>6. LocalInv'
  BY LocalStutter DEF Inv
<1> QED
  BY <1>5, <1>6 DEF Inv

LEMMA PutEnds ==
  ASSUME Inv, LocalPutEnds \/ S3PutEnds \/ OpenListPutEnds
  PROVE  Inv'
<1>0. /\ w.pc = "put" /\ object \in Content \cup {None} /\ w.file \in Content
      /\ driver # "localfs" => PutIdle(Worker)
  BY DEF Inv, WorkInv, WorkTypeOK, WorkOK, LocalPutEnds, S3PutEnds,
         OpenListPutEnds
<1>1. CASE LocalPutEnds
  <2>1. /\ driver = "localfs" /\ PutIdle(Worker)
        /\ \/ put[Worker].pc = "done" /\ w' = Stored
           \/ w' = Failed(w)
        /\ UNCHANGED <<localVars, openListVars, config, tasks, object, job>>
    BY <1>1 DEF LocalPutEnds, Step, PutIdle
  <2>2. OpenListInv'
    BY <2>1, OpenListStutter DEF Inv
  <2> QED
    BY <1>0, <2>1, <2>2, StoredKeeps, PutFails
<1>2. CASE S3PutEnds \/ OpenListPutEnds
  <2>1. driver # "localfs" /\ PutIdle(Worker)
        /\ UNCHANGED <<localVars, config, tasks, job>>
        /\ \/ w' = Stored /\ object' = w.file
           \/ w' = Failed(w) /\ object' \in {object, w.file}
    BY <1>0, <1>2 DEF S3PutEnds, OpenListPutEnds, RemotePut
  <2>2. OpenListInv'
    BY <1>2, OpenListStutter, BeginEndKeep, TransferAssumption
    DEF Inv, S3PutEnds, OpenListPutEnds
  <2>3. object' \in Content \cup {None}
    BY <1>0, <2>1
  <2> QED
    BY <1>0, <2>1, <2>2, <2>3, StoredKeeps, PutFails
<1> QED
  BY <1>1, <1>2

\* The processor begins anew, with the next task or the next process.
LEMMA AtOK ==
  ASSUME NEW pc \in {"idle", "fetch"}
  PROVE  At(pc) \in WorkRecord /\ WorkOK(At(pc), "none") /\ At(pc).pc = pc
<1>1. pc \in Working \cup Worked /\ Retries \in Nat /\ MaxRetries \in Nat
  BY TransferAssumption DEF Working, Worked
<1>2. /\ At(pc) \in WorkRecord /\ At(pc).pc = pc
      /\ At(pc).attempt = 0 /\ At(pc).tries = 0 /\ At(pc).requests = 0
  BY <1>1, AtIs
<1>3. Allowed(0) \in Nat /\ Allowed(MaxRetries + 1) \in Nat
  BY <1>1, AllowedIs
<1> QED
  BY <1>2, <1>3 DEF WorkOK, Spent

LEMMA BeginTaskKeeps ==
  ASSUME Inv, BeginTask
  PROVE  Inv'
<1>1. /\ w.pc # "put" /\ tasks < MaxTasks /\ tasks' = tasks + 1
      /\ w' = At("fetch") /\ job' = "none"
      /\ UNCHANGED <<localVars, openListVars, config, object>>
  BY DEF BeginTask, Worked
<1>2. PutIdle(Worker)
  BY <1>1, IdleElsewhere
<1>3. /\ At("fetch") \in WorkRecord /\ WorkOK(At("fetch"), "none")
      /\ At("fetch").pc \notin {"put", "ready"} /\ "none" \in Jobs
  BY AtOK DEF Jobs
<1>4. tasks' \in 0 .. MaxTasks /\ object' \in Content \cup {None}
  BY <1>1, TransferAssumption DEF Inv, WorkInv, WorkTypeOK
<1>5. UNCHANGED <<put, config>>
  BY <1>1 DEF localVars
<1>6. WorkInv'
  BY <1>1, <1>2, <1>3, <1>4, <1>5, Moves DEF Inv
<1> QED
  BY <1>1, <1>6, LocalStutter, OpenListStutter DEF Inv

LEMMA CrashKeeps ==
  ASSUME Inv, Crash
  PROVE  Inv'
<1>1. /\ w' = At("idle") /\ job' = "none" /\ LocalCrash /\ OpenListCrash
      /\ UNCHANGED <<config, tasks, object>>
  BY DEF Crash
<1>2. LocalInv' /\ OpenListInv'
  BY <1>1, LocalCrashKeeps, OpenListCrashKeeps DEF Inv
<1>3. /\ At("idle") \in WorkRecord /\ WorkOK(At("idle"), "none")
      /\ At("idle").pc = "idle" /\ "none" \in Jobs
  BY AtOK DEF Jobs
<1>4. WorkTypeOK'
  BY <1>1, <1>3 DEF Inv, WorkInv, WorkTypeOK, config
<1>5. WorkOK(w, job)'
  BY <1>1, <1>3 DEF WorkOK, config
<1>6. PutIdle(Worker)'
  BY <1>1, WorkerIs DEF LocalCrash, NoPut, PutIdle
<1>7. WorkInv'
  BY <1>1, <1>3, <1>4, <1>5, <1>6 DEF WorkInv, ReadyIsStored
<1> QED
  BY <1>2, <1>7 DEF Inv

-----------------------------------------------------------------------------
(* The others, next to the processor *)

LEMMA LocalStepKeeps ==
  ASSUME Inv, LocalStep
  PROVE  Inv'
<1>1. OpenListInv'
  BY OpenListStutter DEF Inv, LocalStep
<1>2. UNCHANGED <<config, tasks, w, object, job>> /\ driver = "localfs"
  BY DEF LocalStep, workVars
<1>3. WorkTypeOK' /\ WorkOK(w, job)'
  BY <1>2 DEF Inv, WorkInv, WorkTypeOK, WorkOK, config
<1>4. CASE \E p \in Putter : PutStep(p)
  <2>1. PICK p \in Putter : PutStep(p)
    BY <1>4
  <2>2. LocalInv'
    BY <2>1, PutStepKeeps DEF Inv
  <2>3. /\ ~ PutIdle(p)
        /\ put'[p].pc = "failed" \/ put'[p].body = put[p].body
        /\ \A q \in Putter \ {p} :
             put'[q].pc = put[q].pc /\ put'[q].body = put[q].body
    BY <2>1, PutStepIs DEF Inv
  <2>4. CASE p = Worker
    <3>1. w.pc = "put"
      BY <2>3, <2>4 DEF Inv, WorkInv
    <3>2. WorkInv'
      <4>1. put[Worker].pc # "failed"
        BY <2>3, <2>4 DEF PutIdle
      <4>2. driver = "localfs" /\ put[Worker].body = w.file
        BY <1>2, <3>1, <4>1 DEF Inv, WorkInv
      <4>3. put'[Worker].pc = "failed" \/ put'[Worker].body = w.file
        BY <2>3, <2>4, <4>2
      <4>4. UNCHANGED <<driver, w>>
        BY <1>2 DEF config
      <4> QED
        BY <1>3, <3>1, <4>2, <4>3, <4>4 DEF WorkInv
    <3> QED
      BY <1>1, <2>2, <3>2 DEF Inv
  <2>5. CASE p # Worker
    <3>1. put'[Worker].pc = put[Worker].pc /\ put'[Worker].body = put[Worker].body
      BY <2>3, <2>5, WorkerIs
    <3>2. WorkInv'
      BY <1>2, <1>3, <3>1 DEF Inv, WorkInv, ReadyIsStored, PutIdle, config
    <3> QED
      BY <1>1, <2>2, <3>2 DEF Inv
  <2> QED
    BY <2>4, <2>5
<1>5. CASE \E p \in Putter \ {Worker}, v \in Content : PutCopy(p, v)
  <2>1. PICK p \in Putter \ {Worker}, v \in Content : PutCopy(p, v)
    BY <1>5
  <2>2. LocalInv' /\ put'[Worker] = put[Worker]
    BY <2>1, PutCopyKeeps, WorkerIs DEF Inv
  <2>3. WorkInv'
    BY <1>2, <1>3, <2>2 DEF Inv, WorkInv, ReadyIsStored, PutIdle, config
  <2> QED
    BY <1>1, <2>2, <2>3 DEF Inv
<1>6. CASE \E r \in Reader : ReadStep(r)
  <2>1. LocalInv'
    BY <1>6, ReadStepKeeps DEF Inv
  <2>2. UNCHANGED <<data, meta, put>>
    BY <1>6 DEF ReadStep, Verify, ReadOpen, ReadHead, Ask
  <2>3. WorkInv'
    BY <1>2, <1>3, <2>2 DEF Inv, WorkInv, ReadyIsStored, PutIdle, config
  <2> QED
    BY <1>1, <2>1, <2>3 DEF Inv
<1> QED
  BY <1>4, <1>5, <1>6 DEF LocalStep

\* The rival at S3 or OpenList is remembered where it matters.
LEMMA RivalPutKeeps ==
  ASSUME Inv, RivalPut
  PROVE  Inv'
<1>1. /\ driver # "localfs" /\ object' \in Content
      /\ w' = IF w.pc \in {"put", "ready"} THEN [w EXCEPT !.alone = FALSE] ELSE w
      /\ UNCHANGED <<localVars, openListVars, config, tasks, job>>
  BY DEF RivalPut
<1>2. LocalInv' /\ OpenListInv'
  BY <1>1, LocalStutter, OpenListStutter DEF Inv
<1>3. WorkTypeOK /\ WorkOK(w, job) /\ w \in WorkRecord
  BY DEF Inv, WorkInv, WorkTypeOK
<1>4. /\ w' \in WorkRecord /\ w'.pc = w.pc /\ w'.attempt = w.attempt
      /\ w'.tries = w.tries /\ w'.requests = w.requests /\ w'.body = w.body
      /\ w'.file = w.file /\ w'.sum = w.sum
      /\ w.pc = "ready" => ~ w'.alone
  <2> DEFINE x == [w EXCEPT !.alone = FALSE]
  <2>1. /\ x \in WorkRecord /\ x.pc = w.pc /\ x.attempt = w.attempt
        /\ x.tries = w.tries /\ x.requests = w.requests /\ x.body = w.body
        /\ x.file = w.file /\ x.sum = w.sum /\ x.alone = FALSE
    BY <1>3 DEF WorkRecord
  <2>2. w' = IF w.pc \in {"put", "ready"} THEN x ELSE w
    BY <1>1
  <2> HIDE DEF x
  <2> QED
    BY <1>3, <2>1, <2>2
<1>5. WorkTypeOK'
  BY <1>1, <1>3, <1>4 DEF WorkTypeOK, config
<1>6. WorkOK(w, job)'
  <2>1. Spent(w)' = Spent(w)
    BY <1>4 DEF Spent
  <2> QED
    BY <1>1, <1>3, <1>4, <2>1 DEF WorkOK, config
<1>7. put' = put /\ driver' = driver
  BY <1>1 DEF localVars, config
<1>8. ReadyIsStored'
  BY <1>1, <1>4, <1>7 DEF ReadyIsStored
<1>9. WorkInv'
  BY <1>1, <1>4, <1>5, <1>6, <1>7, <1>8 DEF Inv, WorkInv, PutIdle
<1> QED
  BY <1>2, <1>9 DEF Inv

\* The processor's variables and the local store stay.
LEMMA WorkStutter ==
  ASSUME WorkInv, UNCHANGED <<localVars, config, workVars>>
  PROVE  WorkInv'
<1>1. UNCHANGED <<data, meta, put, executor, driver, tasks, w, object, job>>
  BY DEF localVars, config, workVars
<1> QED
  BY <1>1 DEF WorkInv, WorkTypeOK, WorkOK, ReadyIsStored, PutIdle

LEMMA OpenListStepKeeps ==
  ASSUME Inv, OpenListStep
  PROVE  Inv'
<1>1. UNCHANGED <<localVars, config, workVars>>
  BY DEF OpenListStep
<1>2. LocalInv' /\ WorkInv'
  BY <1>1, LocalStutter, WorkStutter DEF Inv
<1>3. OpenListInv'
  <2>1. CASE \E c \in Caller : CallStep(c)
    BY <2>1, CallStepKeeps DEF Inv
  <2>2. CASE \E c \in Caller \ {Worker} : Begin(c, "api") \/ End(c)
    BY <2>2, BeginEndKeep DEF Inv, Kinds
  <2>3. CASE Expire
    BY <2>3, ExpireKeeps DEF Inv
  <2> QED
    BY <2>1, <2>2, <2>3 DEF OpenListStep
<1> QED
  BY <1>2, <1>3 DEF Inv

LEMMA InitInv == Init => Inv
<1> SUFFICES ASSUME Init PROVE Inv
  OBVIOUS
<1>1. LocalInv /\ OpenListInv
  BY LocalInitInv, OpenListInitInv DEF Init
<1>2. /\ w = At("idle") /\ job = "none" /\ tasks = 0 /\ object = None
      /\ executor \in {"builtin", "aria2"} /\ driver \in {"localfs", "s3", "openlist"}
  BY DEF Init
<1>3. /\ At("idle") \in WorkRecord /\ WorkOK(At("idle"), "none")
      /\ At("idle").pc = "idle" /\ "none" \in Jobs
  BY AtOK DEF Jobs
<1>4. PutIdle(Worker)
  BY WorkerIs DEF Init, LocalInit, NoPut, PutIdle
<1>5. WorkInv
  BY <1>2, <1>3, <1>4, TransferAssumption DEF WorkInv, WorkTypeOK, ReadyIsStored
<1> QED
  BY <1>1, <1>5 DEF Inv

LEMMA NextInv == Inv /\ [Next]_vars => Inv'
<1> SUFFICES ASSUME Inv, [Next]_vars PROVE Inv'
  OBVIOUS
<1>1. CASE BeginTask
  BY <1>1, BeginTaskKeeps
<1>2. CASE StartFetch \/ Request \/ Copy \/ Keep
  BY <1>2, BuiltinSteps
<1>3. CASE AddUri \/ JobEnds \/ Poll \/ Deadline
  BY <1>3, AriaSteps
<1>4. CASE Open
  BY <1>4, OpenKeeps
<1>5. CASE LocalPutEnds \/ S3PutEnds \/ OpenListPutEnds
  BY <1>5, PutEnds
<1>6. CASE LocalStep
  BY <1>6, LocalStepKeeps
<1>7. CASE OpenListStep
  BY <1>7, OpenListStepKeeps
<1>8. CASE Crash
  BY <1>8, CrashKeeps
<1>9. CASE RivalPut
  BY <1>9, RivalPutKeeps
<1>10. CASE UNCHANGED vars
  BY <1>10, LocalStutter, OpenListStutter, WorkStutter DEF Inv, vars
<1> QED
  BY <1>1, <1>2, <1>3, <1>4, <1>5, <1>6, <1>7, <1>8, <1>9, <1>10
  DEF Next, WorkerStep

-----------------------------------------------------------------------------

\* What each part promises follows from the three invariants together.
LEMMA InvGives == Inv => TransferInv /\ ServedEtagIsBodys /\ RefusedMeansStale
<1> SUFFICES ASSUME Inv PROVE TransferInv /\ ServedEtagIsBodys /\ RefusedMeansStale
  OBVIOUS
<1>1. TypeOK
  BY DEF Inv, LocalInv, OpenListInv, WorkInv, WorkTypeOK, WorkOK, TypeOK, Jobs
<1>2. RequestsAreBounded
  <2>1. w.pc \in Working \cup Worked /\ w.requests \in Nat /\ Retries \in Nat
        /\ MaxRetries \in Nat
    BY TransferAssumption DEF Inv, WorkInv, WorkTypeOK, WorkRecord
  <2>2. w.requests <= Allowed(MaxRetries + 1)
    <3>1. CASE w.pc \in Working
      <4>1. /\ w.tries \in 0 .. MaxRetries /\ Allowed(w.tries) \in Nat
            /\ w.requests <= Allowed(w.tries) + Retries + 1
        BY <3>1, SpentIs DEF Inv, WorkInv
      <4>2. /\ Allowed(w.tries + 1) = Allowed(w.tries) + Retries + 1
            /\ Allowed(w.tries + 1) <= Allowed(MaxRetries + 1)
            /\ Allowed(MaxRetries + 1) \in Nat
        BY <4>1, AllowedIs
      <4> QED
        BY <2>1, <4>1, <4>2
    <3>2. CASE w.pc \notin Working
      BY <3>2 DEF Inv, WorkInv, WorkOK
    <3> QED
      BY <3>1, <3>2
  <2> QED
    BY <2>2 DEF RequestsAreBounded, Allowed
<1>3. FilesAgree /\ ReadyIsStored
  <2>1. FilesAgree /\ (driver # "localfs" => ReadyIsStored)
    BY DEF Inv, LocalInv, WorkInv
  <2>2. PutOK(Worker)
    BY WorkerIs DEF Inv, LocalInv
  <2>3. driver = "localfs" => ReadyIsStored
    BY <2>2 DEF Inv, WorkInv, ReadyIsStored, PutOK, InPlace
  <2> QED
    BY <2>1, <2>3
<1>4. ServedEtagIsBodys
  BY DEF Inv, LocalInv, ServedEtagIsBodys
<1>5. RefusedMeansStale
  BY DEF Inv, OpenListInv, CallOK, RefusedMeansStale
<1> QED
  BY <1>1, <1>2, <1>3, <1>4, <1>5 DEF TransferInv

\* Whatever failed, was retried, changed at the origin or died, and however the
\* Puts of the key overlap: a task that is ready has the hash of the object
\* stored for it, unless another Put of the key met its own or came after; the
\* object's two files agree unless a Put is between them, or the last ones gave
\* up or met there; and the requests for a task are bounded by the two layers'
\* retries.
THEOREM TransferCorrect == Spec => []TransferInv
<1>1. Spec => []Inv
  BY InitInv, NextInv, PTL DEF Spec
<1> QED
  BY <1>1, InvGives, PTL

\* handleFile answers with the ETag of another generation than its body's only
\* next to a Put, or after Puts that gave up or met half-way.
THEOREM ServedCorrect == Spec => []ServedEtagIsBodys
<1>1. Spec => []Inv
  BY InitInv, NextInv, PTL DEF Spec
<1> QED
  BY <1>1, InvGives, PTL

\* A log-in and one repetition are enough, though an answer to a log-in may be
\* kept late: whoever is refused has had the tokens forgotten under way, or a
\* forgotten one put in the driver, however many callers share it.
THEOREM SessionCorrect == Spec => []RefusedMeansStale
<1>1. Spec => []Inv
  BY InitInv, NextInv, PTL DEF Spec
<1> QED
  BY <1>1, InvGives, PTL
=============================================================================
