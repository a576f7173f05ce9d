------------------------------ MODULE AuthTokens ------------------------------
(***************************************************************************)
(* The device token store (internal/server/auth/auth.go, Store): records   *)
(* by id, an index from the hash of a secret to its record, and a file     *)
(* that is rewritten as a whole after every change.  The API registers,    *)
(* refreshes and revokes tokens; the API and the tunnel validate them.     *)
(*                                                                         *)
(* A secret stands for its hash.  Refresh holds the mutex twice, once to   *)
(* validate and once to rotate, so callers interleave in between; every    *)
(* other operation is one critical section.  As in the task store a save   *)
(* that fails leaves the change in memory.                                 *)
(***************************************************************************)
EXTENDS Naturals

CONSTANTS Device,      \* token records that may be created
          MaxSecrets,  \* bound on the number of secrets ever drawn
          Caller,      \* concurrent calls of Refresh
          Nobody,      \* no device
          TokenFaults  \* the faults allowed to happen

ASSUME TokensAssumption ==
  /\ MaxSecrets \in Nat
  /\ Nobody \notin Device
  /\ TokenFaults \subseteq {"save", "restart"}

\* Secrets in the order they are drawn; 0 stands for a record that does not
\* exist.
Secret == 1 .. MaxSecrets
NoSecret == 0

VARIABLES records,  \* records[d]: the record in memory
          byHash,   \* byHash[s]: the record the index has under s
          file,     \* the records the file holds
          drawn,    \* how many secrets were drawn
          owner,    \* owner[s]: the device s was drawn for
          refresh,  \* refresh[c]: what caller c has validated
          retired,  \* secrets a successful Refresh has replaced
          revoked   \* devices whose revocation was reported as done

tokenVars ==
  <<records, byHash, file, drawn, owner, refresh, retired, revoked>>

Record == [secret : Secret \cup {NoSecret}, revoked : BOOLEAN,
           expired : BOOLEAN]
RecordOf(s, rev, exp) == [secret |-> s, revoked |-> rev, expired |-> exp]
NoRecord == RecordOf(NoSecret, FALSE, FALSE)

Ticket == [device : Device, secret : Secret]
NoTicket == [device |-> Nobody, secret |-> NoSecret]

\* The type invariant.
TokensTypeOK ==
  /\ records \in [Device -> Record]
  /\ byHash \in [Secret -> Device \cup {Nobody}]
  /\ file \in [Device -> Record]
  /\ drawn \in 0 .. MaxSecrets
  /\ owner \in [Secret -> Device \cup {Nobody}]
  /\ refresh \in [Caller -> Ticket \cup {NoTicket}]
  /\ retired \subseteq Secret
  /\ revoked \subseteq Device

TokensInit ==
  /\ records = [d \in Device |-> NoRecord]
  /\ byHash = [s \in Secret |-> Nobody]
  /\ file = records
  /\ drawn = 0
  /\ owner = [s \in Secret |-> Nobody]
  /\ refresh = [c \in Caller |-> NoTicket]
  /\ retired = {} /\ revoked = {}

-----------------------------------------------------------------------------

\* saveLocked: temp file and rename.
SaveTo(ok) == file' = IF ok THEN records' ELSE file

MaySave == IF "save" \in TokenFaults THEN BOOLEAN ELSE {TRUE}

\* A new secret for d, under which the index finds it from now on.
Draw(d) ==
  /\ drawn < MaxSecrets
  /\ drawn' = drawn + 1
  /\ owner' = [owner EXCEPT ![drawn + 1] = d]

\* Validate returns a record without an error.  (It also notes when the
\* device was last seen, which nothing reads.)
Validate(s) ==
  /\ byHash[s] # Nobody
  /\ ~ records[byHash[s]].revoked
  /\ ~ records[byHash[s]].expired

\* Register: a record with an id of its own and a first secret.
Register(d) ==
  /\ records[d] = NoRecord /\ file[d] = NoRecord
  /\ Draw(d)
  /\ records' = [records EXCEPT ![d] = RecordOf(drawn + 1, FALSE, FALSE)]
  /\ byHash' = [byHash EXCEPT ![drawn + 1] = d]
  /\ \E ok \in MaySave : SaveTo(ok)
  /\ UNCHANGED <<refresh, retired, revoked>>

\* Refresh's first critical section.
RefreshValidate(c, s) ==
  /\ refresh[c] = NoTicket
  /\ Validate(s)
  /\ refresh' = [refresh EXCEPT ![c] = [device |-> byHash[s], secret |-> s]]
  /\ UNCHANGED <<records, byHash, file, drawn, owner, retired, revoked>>

\* MUTANT of RefreshRotate: the index forgets the secret the caller presented
\* rather than the one the record has by now.
RefreshRotatePresented(c) ==
  LET d == refresh[c].device
  IN /\ refresh[c] # NoTicket
     /\ Draw(d)
     /\ byHash' = [byHash EXCEPT ![refresh[c].secret] = Nobody,
                                 ![drawn + 1] = d]
     /\ records' = [records EXCEPT ![d] = RecordOf(drawn + 1, @.revoked, FALSE)]
     /\ \E ok \in MaySave :
          /\ SaveTo(ok)
          /\ retired' = IF ok THEN retired \cup {refresh[c].secret} ELSE retired
     /\ refresh' = [refresh EXCEPT ![c] = NoTicket]
     /\ UNCHANGED revoked

\* MUTANT of RefreshRotate: a save that fails is not reported.
RefreshRotateUnsaved(c) ==
  LET d == refresh[c].device
  IN /\ refresh[c] # NoTicket
     /\ Draw(d)
     /\ byHash' = [byHash EXCEPT ![records[d].secret] = Nobody,
                                 ![drawn + 1] = d]
     /\ records' = [records EXCEPT ![d] = RecordOf(drawn + 1, @.revoked, FALSE)]
     /\ \E ok \in MaySave : SaveTo(ok)
     /\ retired' = retired \cup {refresh[c].secret}
     /\ refresh' = [refresh EXCEPT ![c] = NoTicket]
     /\ UNCHANGED revoked

\* Its second one: whatever secret the record has by now gives way to the new
\* one.  A success retires the secret that was presented.
RefreshRotate(c) ==
  LET d == refresh[c].device
      current == records[d].secret
  IN /\ refresh[c] # NoTicket
     /\ Draw(d)
     /\ byHash' = [byHash EXCEPT ![current] = Nobody, ![drawn + 1] = d]
     /\ records' = [records EXCEPT ![d] = RecordOf(drawn + 1, @.revoked, FALSE)]
     /\ \E ok \in MaySave :
          /\ SaveTo(ok)
          /\ retired' = IF ok THEN retired \cup {refresh[c].secret} ELSE retired
     /\ refresh' = [refresh EXCEPT ![c] = NoTicket]
     /\ UNCHANGED revoked

\* MUTANT of Revoke: a save that fails is not reported.
RevokeUnsaved(s) ==
  LET d == byHash[s]
  IN /\ d # Nobody
     /\ records' = [records EXCEPT ![d] = RecordOf(@.secret, TRUE, @.expired)]
     /\ \E ok \in MaySave : SaveTo(ok)
     /\ revoked' = revoked \cup {d}
     /\ UNCHANGED <<byHash, drawn, owner, refresh, retired>>

\* Revoke takes any secret the index knows, expired ones too.
Revoke(s) ==
  LET d == byHash[s]
  IN /\ d # Nobody
     /\ records' = [records EXCEPT ![d] = RecordOf(@.secret, TRUE, @.expired)]
     /\ \E ok \in MaySave :
          /\ SaveTo(ok)
          /\ revoked' = IF ok THEN revoked \cup {d} ELSE revoked
     /\ UNCHANGED <<byHash, drawn, owner, refresh, retired>>

\* ExpiresAt goes by.  That of the record in the file is the same or, after a
\* save that failed, an earlier one.
Expire(d) ==
  /\ records[d] # NoRecord
  /\ file' = IF file[d] = NoRecord THEN file
             ELSE [file EXCEPT ![d] = RecordOf(@.secret, @.revoked, TRUE)]
  /\ \/ records' = [records EXCEPT ![d] = RecordOf(@.secret, @.revoked, TRUE)]
     \/ file[d].secret # records[d].secret /\ UNCHANGED records
  /\ UNCHANGED <<byHash, drawn, owner, refresh, retired, revoked>>

\* The server starts again: NewStore builds both maps from the file.
TokensRestart ==
  /\ "restart" \in TokenFaults
  /\ records' = file
  /\ byHash' = [s \in Secret |->
                  IF \E d \in Device : file[d].secret = s
                  THEN CHOOSE d \in Device : file[d].secret = s ELSE Nobody]
  /\ refresh' = [c \in Caller |-> NoTicket]
  /\ UNCHANGED <<file, drawn, owner, retired, revoked>>

TokensNext ==
  \/ \E d \in Device : Register(d) \/ Expire(d)
  \/ \E c \in Caller, s \in Secret : RefreshValidate(c, s)
  \/ \E c \in Caller : RefreshRotate(c)
  \/ \E s \in Secret : Revoke(s)
  \/ TokensRestart

TokensSpec == TokensInit /\ [][TokensNext]_tokenVars

-----------------------------------------------------------------------------
(* Properties *)

\* The index and the records describe the same tokens: a device is found
\* under exactly the secret its record has, whoever rotates it concurrently.
TokenIndexAgrees ==
  \A s \in Secret, d \in Device : byHash[s] = d <=> records[d].secret = s

\* A revocation that was reported as done is final: no refresh that was under
\* way, no save that fails and no restart makes a token of the device valid
\* again ("revocation is immediate", README.en.md:176).
RevocationIsFinal ==
  \A d \in revoked :
    /\ file[d].revoked
    /\ \A s \in Secret : Validate(s) => byHash[s] # d

\* A secret that a successful refresh has replaced is never valid again
\* ("refresh rotates", README.en.md:176), not even after a restart.
RetiredIsDead ==
  \A s \in retired :
    byHash[s] = Nobody /\ \A d \in Device : file[d].secret # s

\* Why these three hold, as an inductive invariant: secrets are drawn in
\* order, each for one device, and wherever a secret turns up it is its
\* owner's.
OwnedSecrets ==
  /\ \A s \in Secret : owner[s] \in Device <=> s <= drawn
  /\ \A d \in Device : \A rec \in {records[d], file[d]} :
       rec.secret # NoSecret => owner[rec.secret] = d
  /\ \A c \in Caller : refresh[c] # NoTicket =>
       owner[refresh[c].secret] = refresh[c].device
  /\ \A s \in retired : s <= drawn
  /\ \A d \in revoked : records[d].revoked /\ file[d].revoked

TokensInv ==
  /\ TokensTypeOK
  /\ OwnedSecrets
  /\ TokenIndexAgrees
  /\ RevocationIsFinal
  /\ RetiredIsDead
=============================================================================
