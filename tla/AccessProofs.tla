----------------------------- MODULE AccessProofs -----------------------------
(***************************************************************************)
(* Proofs about access to the server.  The token store, and the limits in  *)
(* front of it, for any number of devices, secrets and concurrent          *)
(* requests: TokensInv is an invariant of AuthTokens; the control API does *)
(* to the store nothing but what AuthTokens allows, so it is one of        *)
(* ControlAPI too; BudgetHolds and RateHolds are invariants of ControlAPI  *)
(* for every setting of the limits.  And the tunnel: TunnelInv is an       *)
(* invariant of Tunnel for any number of connections, tokens and nonces,   *)
(* any limit and any buffer.  The two share no state.                      *)
(***************************************************************************)
EXTENDS ControlAPI, Tunnel, FiniteSetTheorems, TLAPS

-----------------------------------------------------------------------------
(* The token store *)

\* What a save leaves in the file.
LEMMA Saved ==
  ASSUME NEW ok \in MaySave, SaveTo(ok)
  PROVE  /\ ok => file' = records'
         /\ ~ ok => file' = file
BY DEF SaveTo

LEMMA InitTokens == TokensInit => TokensInv
<1> SUFFICES ASSUME TokensInit PROVE TokensInv
  OBVIOUS
<1> USE DEF TokensInit, NoRecord, RecordOf, NoTicket, NoSecret, Secret
<1>1. TokensTypeOK
  BY TokensAssumption DEF TokensTypeOK, Record
<1>2. OwnedSecrets
  BY TokensAssumption DEF OwnedSecrets
<1>3. TokenIndexAgrees
  <2>1. ASSUME NEW s \in Secret, NEW d \in Device
        PROVE  byHash[s] # d /\ records[d].secret # s
    BY TokensAssumption
  <2> QED
    BY <2>1 DEF TokenIndexAgrees
<1>4. RevocationIsFinal /\ RetiredIsDead
  BY DEF RevocationIsFinal, RetiredIsDead
<1> QED
  BY <1>1, <1>2, <1>3, <1>4 DEF TokensInv

\* Drawing a secret keeps secrets and their owners in order.
LEMMA DrawOwns ==
  ASSUME TokensTypeOK, OwnedSecrets, NEW d \in Device, Draw(d)
  PROVE  /\ drawn + 1 \in Secret
         /\ drawn' \in 0 .. MaxSecrets
         /\ owner' \in [Secret -> Device \cup {Nobody}]
         /\ owner'[drawn + 1] = d
         /\ \A s \in Secret : s # drawn + 1 => owner'[s] = owner[s]
         /\ \A s \in Secret : owner'[s] \in Device <=> s <= drawn'
         /\ owner[drawn + 1] = Nobody
<1> USE TokensAssumption DEF Draw, Secret
<1>1. drawn \in Nat /\ drawn + 1 \in Secret /\ drawn' = drawn + 1
  BY DEF TokensTypeOK
<1>2. owner \in [Secret -> Device \cup {Nobody}]
  BY DEF TokensTypeOK
<1>3. \A s \in Secret : owner[s] \in Device <=> s <= drawn
  BY DEF OwnedSecrets
<1> QED
  BY <1>1, <1>2, <1>3

\* Only a device that holds a secret is found under it.
LEMMA HolderOwns ==
  ASSUME TokensTypeOK, OwnedSecrets, NEW d \in Device, NEW s \in Secret
  PROVE  /\ records[d].secret = s => owner[s] = d
         /\ file[d].secret = s => owner[s] = d
BY DEF OwnedSecrets, Secret, NoSecret

\* Register: the record is new, and so is its secret.
LEMMA RegisterKeeps ==
  ASSUME TokensInv, NEW d \in Device, Register(d)
  PROVE  TokensInv'
<1> DEFINE n == drawn + 1
<1>0. TokensTypeOK /\ OwnedSecrets /\ TokenIndexAgrees /\ RetiredIsDead
  BY DEF TokensInv
<1> USE TokensAssumption
<1>1. PICK ok \in MaySave : SaveTo(ok)
  BY DEF Register
<1>2. file' = records' \/ file' = file
  BY <1>1, Saved DEF MaySave
<1>3. /\ n \in Secret /\ drawn' = n /\ drawn' \in 0 .. MaxSecrets
      /\ owner' \in [Secret -> Device \cup {Nobody}]
      /\ owner'[n] = d
      /\ \A s \in Secret : s # n => owner'[s] = owner[s]
      /\ \A s \in Secret : owner'[s] \in Device <=> s <= drawn'
      /\ owner[n] = Nobody
  BY <1>0, DrawOwns DEF Register, Draw
<1>4. /\ records \in [Device -> Record] /\ file \in [Device -> Record]
      /\ byHash \in [Secret -> Device \cup {Nobody}]
  BY <1>0 DEF TokensTypeOK
<1>5. /\ records' \in [Device -> Record]
      /\ records'[d] = [secret |-> n, revoked |-> FALSE, expired |-> FALSE]
      /\ \A e \in Device : e # d => records'[e] = records[e]
  <2>1. RecordOf(n, FALSE, FALSE) \in Record
    BY <1>3 DEF RecordOf, Record
  <2> QED
    BY <1>4, <2>1 DEF Register, RecordOf
<1>6. /\ byHash' \in [Secret -> Device \cup {Nobody}]
      /\ byHash'[n] = d
      /\ \A s \in Secret : s # n => byHash'[s] = byHash[s]
  BY <1>3, <1>4 DEF Register
<1>7. TokensTypeOK'
  BY <1>0, <1>2, <1>3, <1>5, <1>6 DEF Register, TokensTypeOK
<1>8. \A e \in Device : records[e].secret # n /\ file[e].secret # n
  BY <1>0, <1>3, HolderOwns
<1>9. d \notin revoked
  BY <1>0 DEF Register, OwnedSecrets, NoRecord, RecordOf
<1>10. OwnedSecrets'
  <2>1. \A e \in Device : \A rec \in {records'[e], file'[e]} :
          rec.secret # NoSecret => owner'[rec.secret] = e
    BY <1>0, <1>2, <1>3, <1>4, <1>5, <1>8 DEF OwnedSecrets, Record
  <2>2. \A c \in Caller : refresh'[c] # NoTicket =>
          owner'[refresh'[c].secret] = refresh'[c].device
    BY <1>0, <1>3 DEF Register, OwnedSecrets, TokensTypeOK, Ticket
  <2>3. \A s \in retired' : s <= drawn'
    BY <1>0, <1>3 DEF Register, OwnedSecrets, TokensTypeOK, Secret
  <2>4. \A e \in revoked' : records'[e].revoked /\ file'[e].revoked
    <3>1. revoked' = revoked /\ revoked \subseteq Device
      BY <1>0 DEF Register, TokensTypeOK
    <3>2. \A e \in revoked : records'[e] = records[e]
      BY <1>5, <1>9, <3>1
    <3> QED
      BY <1>0, <1>2, <3>1, <3>2 DEF OwnedSecrets
  <2> QED
    BY <1>3, <2>1, <2>2, <2>3, <2>4 DEF OwnedSecrets
<1>11. TokenIndexAgrees'
  <2>1. \A s \in Secret : byHash[s] # d
    BY <1>0 DEF Register, TokenIndexAgrees, NoRecord, RecordOf, Secret, NoSecret
  <2> QED
    BY <1>0, <1>3, <1>5, <1>6, <1>8, <2>1 DEF TokenIndexAgrees
<1>12. RevocationIsFinal'
  BY <1>10, <1>7 DEF RevocationIsFinal, OwnedSecrets, Validate
<1>13. RetiredIsDead'
  <2>1. \A s \in retired : s # n /\ s \in Secret
    BY <1>0, <1>3 DEF OwnedSecrets, TokensTypeOK
  <2>2. \A s \in retired : \A e \in Device : records[e].secret # s
    BY <1>0, <2>1 DEF RetiredIsDead, TokenIndexAgrees
  <2> QED
    <3>1. retired' = retired
      BY DEF Register
    <3>2. \A s \in retired : \A e \in Device : records'[e].secret # s
      BY <1>5, <2>1, <2>2
    <3> QED
      BY <1>0, <1>2, <1>6, <2>1, <3>1, <3>2 DEF RetiredIsDead
<1> QED
  BY <1>7, <1>10, <1>11, <1>12, <1>13 DEF TokensInv

\* Refresh's second critical section: whatever the record's secret was, it and
\* the one that was presented are replaced.
LEMMA RefreshRotateKeeps ==
  ASSUME TokensInv, NEW c \in Caller, RefreshRotate(c)
  PROVE  TokensInv'
<1> DEFINE n == drawn + 1
           d == refresh[c].device
           presented == refresh[c].secret
<1>0. TokensTypeOK /\ OwnedSecrets /\ TokenIndexAgrees /\ RetiredIsDead
  BY DEF TokensInv
<1> USE TokensAssumption
<1>1. PICK ok \in MaySave :
        /\ SaveTo(ok)
        /\ retired' = IF ok THEN retired \cup {presented} ELSE retired
  BY DEF RefreshRotate
<1>2. \/ file' = records' /\ retired' = retired \cup {presented}
      \/ file' = file /\ retired' = retired
  BY <1>1, Saved DEF MaySave
<1>3. /\ d \in Device /\ presented \in Secret
      /\ owner[presented] = d /\ presented <= drawn
  BY <1>0 DEF RefreshRotate, TokensTypeOK, Ticket, OwnedSecrets
<1>4. /\ n \in Secret /\ drawn' = n /\ drawn' \in 0 .. MaxSecrets
      /\ owner' \in [Secret -> Device \cup {Nobody}]
      /\ owner'[n] = d
      /\ \A s \in Secret : s # n => owner'[s] = owner[s]
      /\ \A s \in Secret : owner'[s] \in Device <=> s <= drawn'
      /\ owner[n] = Nobody
  BY <1>0, <1>3, DrawOwns DEF RefreshRotate, Draw
<1>5. presented # n
  BY <1>3, <1>4
<1>6. /\ records \in [Device -> Record] /\ file \in [Device -> Record]
      /\ byHash \in [Secret -> Device \cup {Nobody}]
      /\ retired \subseteq Secret /\ revoked \subseteq Device
  BY <1>0 DEF TokensTypeOK
<1>7. /\ records' \in [Device -> Record]
      /\ records'[d] = RecordOf(n, records[d].revoked, FALSE)
      /\ \A e \in Device : e # d => records'[e] = records[e]
  <2>1. RecordOf(n, records[d].revoked, FALSE) \in Record
    BY <1>3, <1>4, <1>6 DEF RecordOf, Record
  <2> QED
    BY <1>3, <1>6, <2>1 DEF RefreshRotate
<1>8. records'[d].secret = n /\ records'[d].revoked = records[d].revoked
  BY <1>7 DEF RecordOf
<1>9. /\ byHash' \in [Secret -> Device \cup {Nobody}]
      /\ byHash'[n] = d
      /\ \A s \in Secret :
           s # n => byHash'[s] = IF s = records[d].secret THEN Nobody
                                 ELSE byHash[s]
  BY <1>3, <1>4, <1>6 DEF RefreshRotate
<1>10. /\ refresh' \in [Caller -> Ticket \cup {NoTicket}]
       /\ \A k \in Caller : refresh'[k] # NoTicket => refresh'[k] = refresh[k]
       /\ revoked' = revoked
  BY <1>0 DEF RefreshRotate, TokensTypeOK
<1>11. TokensTypeOK'
  BY <1>2, <1>3, <1>4, <1>6, <1>7, <1>9, <1>10 DEF TokensTypeOK
<1>12. \A e \in Device : records[e].secret # n /\ file[e].secret # n
  BY <1>0, <1>4, HolderOwns
<1>13. OwnedSecrets'
  <2>1. \A e \in Device : \A rec \in {records'[e], file'[e]} :
          rec.secret # NoSecret => owner'[rec.secret] = e
    <3>1. \A e \in Device :
            records'[e].secret # NoSecret => owner'[records'[e].secret] = e
      <4>1. ASSUME NEW e \in Device, e # d, records[e].secret # NoSecret
            PROVE  owner'[records[e].secret] = e
        BY <1>0, <1>4, <1>6, <1>12, <4>1 DEF OwnedSecrets, Record
      <4> QED
        BY <1>4, <1>7, <1>8, <4>1
    <3>2. \A e \in Device :
            file[e].secret # NoSecret => owner'[file[e].secret] = e
      BY <1>0, <1>4, <1>6, <1>12 DEF OwnedSecrets, Record
    <3> QED
      BY <1>2, <3>1, <3>2
  <2>2. \A k \in Caller : refresh'[k] # NoTicket =>
          owner'[refresh'[k].secret] = refresh'[k].device
    BY <1>0, <1>4, <1>10 DEF OwnedSecrets, TokensTypeOK, Ticket
  <2>3. \A s \in retired' : s <= drawn'
    <3>1. \A s \in retired \cup {presented} : s \in Secret /\ s <= drawn
      BY <1>0, <1>3, <1>6 DEF OwnedSecrets
    <3>2. \A s \in retired' : s \in Secret /\ s <= drawn
      BY <1>2, <3>1
    <3>3. drawn \in Nat /\ drawn' = drawn + 1
      BY <1>0, <1>4 DEF TokensTypeOK
    <3> QED
      BY <3>2, <3>3 DEF Secret
  <2>4. \A e \in revoked' : records'[e].revoked /\ file'[e].revoked
    <3>1. \A e \in revoked : records'[e].revoked = records[e].revoked
      BY <1>6, <1>7, <1>8
    <3> QED
      BY <1>0, <1>2, <1>10, <3>1 DEF OwnedSecrets
  <2> QED
    BY <1>4, <2>1, <2>2, <2>3, <2>4 DEF OwnedSecrets
<1>14. TokenIndexAgrees'
  <2>1. ASSUME NEW s \in Secret, NEW e \in Device
        PROVE  byHash'[s] = e <=> records'[e].secret = s
    <3>1. byHash[s] = e <=> records[e].secret = s
      BY <1>0 DEF TokenIndexAgrees
    <3>2. byHash[s] = d <=> records[d].secret = s
      BY <1>0, <1>3 DEF TokenIndexAgrees
    <3>3. CASE s = n
      BY <1>3, <1>4, <1>7, <1>8, <1>9, <1>12, <3>3
    <3>4. CASE s # n /\ e = d
      BY <1>3, <1>8, <1>9, <3>2, <3>4
    <3>5. CASE s # n /\ e # d
      <4>1. records'[e].secret = records[e].secret
        BY <1>7, <3>5
      <4>2. CASE s = records[d].secret
        <5>1. byHash'[s] # e /\ byHash[s] # e
          BY <1>3, <1>9, <3>2, <3>5, <4>2
        <5> QED
          BY <3>1, <4>1, <5>1
      <4>3. CASE s # records[d].secret
        BY <1>9, <3>1, <3>5, <4>1, <4>3
      <4> QED
        BY <4>2, <4>3
    <3> QED
      BY <3>3, <3>4, <3>5
  <2> QED
    BY <2>1 DEF TokenIndexAgrees
<1>15. RevocationIsFinal'
  BY <1>13, <1>11 DEF RevocationIsFinal, OwnedSecrets, Validate
<1>16. RetiredIsDead'
  <2>1. \A s \in retired : s # n /\ s \in Secret
    BY <1>0, <1>4, <1>6 DEF OwnedSecrets, TokensTypeOK
  <2>2. \A s \in retired : \A e \in Device : records[e].secret # s
    BY <1>0, <2>1 DEF RetiredIsDead, TokenIndexAgrees
  <2>3. \A s \in retired :
          byHash'[s] = Nobody /\ \A e \in Device : records'[e].secret # s
    <3>1. \A s \in retired : byHash[s] = Nobody
      BY <1>0 DEF RetiredIsDead
    <3>2. \A s \in retired : byHash'[s] = Nobody
      BY <1>9, <2>1, <3>1
    <3>3. \A s \in retired : \A e \in Device : records'[e].secret # s
      BY <1>7, <1>8, <2>1, <2>2
    <3> QED
      BY <3>2, <3>3
  <2>4. \A e \in Device : e # d => records[e].secret # presented
    BY <1>0, <1>3, HolderOwns
  <2>5. byHash'[presented] = Nobody
    <3>1. \A e \in Device : e # d => byHash[presented] # e
      BY <1>0, <1>3, <2>4 DEF TokenIndexAgrees
    <3>2. byHash[presented] = d <=> records[d].secret = presented
      BY <1>0, <1>3 DEF TokenIndexAgrees
    <3> QED
      BY <1>3, <1>5, <1>6, <1>9, <3>1, <3>2
  <2>6. \A e \in Device : records'[e].secret # presented
    BY <1>5, <1>7, <1>8, <2>4
  <2>7. \A s \in retired : \A e \in Device : file[e].secret # s
    BY <1>0 DEF RetiredIsDead
  <2> QED
    BY <1>2, <2>3, <2>5, <2>6, <2>7 DEF RetiredIsDead
<1> QED
  BY <1>11, <1>13, <1>14, <1>15, <1>16 DEF TokensInv

\* The other steps draw no secret and leave every record its own.
LEMMA RevokeKeeps ==
  ASSUME TokensInv, NEW s \in Secret, Revoke(s)
  PROVE  TokensInv'
<1> DEFINE d == byHash[s]
<1>0. TokensTypeOK /\ OwnedSecrets /\ TokenIndexAgrees /\ RetiredIsDead
  BY DEF TokensInv
<1> USE TokensAssumption
<1>1. PICK ok \in MaySave :
        /\ SaveTo(ok)
        /\ revoked' = IF ok THEN revoked \cup {d} ELSE revoked
  BY DEF Revoke
<1>2. \/ file' = records' /\ revoked' = revoked \cup {d}
      \/ file' = file /\ revoked' = revoked
  BY <1>1, Saved DEF MaySave
<1>3. /\ records \in [Device -> Record] /\ file \in [Device -> Record]
      /\ byHash \in [Secret -> Device \cup {Nobody}]
      /\ retired \subseteq Secret /\ revoked \subseteq Device
      /\ d \in Device
  BY <1>0 DEF TokensTypeOK, Revoke
<1>4. /\ records' \in [Device -> Record]
      /\ records'[d] = RecordOf(records[d].secret, TRUE, records[d].expired)
      /\ \A e \in Device : e # d => records'[e] = records[e]
  <2>1. RecordOf(records[d].secret, TRUE, records[d].expired) \in Record
    BY <1>3 DEF RecordOf, Record
  <2> QED
    BY <1>3, <2>1 DEF Revoke
<1>5. /\ \A e \in Device : records'[e].secret = records[e].secret
      /\ records'[d].revoked
  BY <1>4 DEF RecordOf
<1>6. UNCHANGED <<byHash, drawn, owner, refresh, retired>>
  BY DEF Revoke
<1>7. TokensTypeOK'
  BY <1>0, <1>2, <1>3, <1>4, <1>6 DEF TokensTypeOK
<1>8. OwnedSecrets'
  <2>1. \A e \in Device : \A rec \in {records'[e], file'[e]} :
          rec.secret # NoSecret => owner'[rec.secret] = e
    BY <1>0, <1>2, <1>5, <1>6 DEF OwnedSecrets
  <2>2. \A e \in revoked : records'[e].revoked
    BY <1>0, <1>3, <1>4, <1>5 DEF OwnedSecrets
  <2>3. \A e \in revoked' : records'[e].revoked /\ file'[e].revoked
    BY <1>0, <1>2, <1>5, <2>2 DEF OwnedSecrets
  <2> QED
    BY <1>0, <1>6, <2>1, <2>3 DEF OwnedSecrets
<1>9. TokenIndexAgrees'
  BY <1>0, <1>5, <1>6 DEF TokenIndexAgrees
<1>10. RevocationIsFinal'
  BY <1>7, <1>8 DEF RevocationIsFinal, OwnedSecrets, Validate
<1>11. RetiredIsDead'
  <2>1. \A r \in retired : \A e \in Device : records[e].secret # r
    BY <1>0, <1>3 DEF RetiredIsDead, TokenIndexAgrees
  <2>2. \A r \in retired : \A e \in Device : file'[e].secret # r
    BY <1>0, <1>2, <1>5, <2>1 DEF RetiredIsDead
  <2> QED
    BY <1>0, <1>6, <2>2 DEF RetiredIsDead
<1> QED
  BY <1>7, <1>8, <1>9, <1>10, <1>11 DEF TokensInv

LEMMA ExpireKeeps ==
  ASSUME TokensInv, NEW d \in Device, Expire(d)
  PROVE  TokensInv'
<1>0. TokensTypeOK /\ OwnedSecrets /\ TokenIndexAgrees /\ RetiredIsDead
  BY DEF TokensInv
<1> USE TokensAssumption
<1>1. records \in [Device -> Record] /\ file \in [Device -> Record]
  BY <1>0 DEF TokensTypeOK
<1>2. UNCHANGED <<byHash, drawn, owner, refresh, retired, revoked>>
  BY DEF Expire
<1> DEFINE Aged(f) == [f EXCEPT ![d] = RecordOf(@.secret, @.revoked, TRUE)]
<1>3. ASSUME NEW f \in [Device -> Record]
      PROVE  /\ Aged(f) \in [Device -> Record]
             /\ \A e \in Device : /\ Aged(f)[e].secret = f[e].secret
                                  /\ Aged(f)[e].revoked = f[e].revoked
  <2>1. RecordOf(f[d].secret, f[d].revoked, TRUE) \in Record
    BY DEF RecordOf, Record
  <2>2. /\ RecordOf(f[d].secret, f[d].revoked, TRUE).secret = f[d].secret
        /\ RecordOf(f[d].secret, f[d].revoked, TRUE).revoked = f[d].revoked
    BY DEF RecordOf
  <2> QED
    BY <2>1, <2>2
<1> HIDE DEF Aged
<1>4. /\ records' \in [Device -> Record]
      /\ \A e \in Device : /\ records'[e].secret = records[e].secret
                           /\ records'[e].revoked = records[e].revoked
  <2>1. records' = records \/ records' = Aged(records)
    BY DEF Expire, Aged
  <2> QED
    BY <1>1, <1>3, <2>1
<1>5. /\ file' \in [Device -> Record]
      /\ \A e \in Device : /\ file'[e].secret = file[e].secret
                           /\ file'[e].revoked = file[e].revoked
  <2>1. file' = file \/ file' = Aged(file)
    BY DEF Expire, Aged
  <2> QED
    BY <1>1, <1>3, <2>1
<1>6. TokensTypeOK'
  BY <1>0, <1>2, <1>4, <1>5 DEF TokensTypeOK
<1>7. OwnedSecrets'
  <2>1. \A e \in Device : \A rec \in {records'[e], file'[e]} :
          rec.secret # NoSecret => owner'[rec.secret] = e
    BY <1>0, <1>2, <1>4, <1>5 DEF OwnedSecrets
  <2>2. \A e \in revoked' : records'[e].revoked /\ file'[e].revoked
    BY <1>0, <1>2, <1>4, <1>5 DEF OwnedSecrets, TokensTypeOK
  <2> QED
    BY <1>0, <1>2, <2>1, <2>2 DEF OwnedSecrets
<1>8. TokenIndexAgrees'
  BY <1>0, <1>2, <1>4 DEF TokenIndexAgrees
<1>9. RevocationIsFinal'
  BY <1>6, <1>7 DEF RevocationIsFinal, OwnedSecrets, Validate
<1>10. RetiredIsDead'
  BY <1>0, <1>2, <1>5 DEF RetiredIsDead
<1> QED
  BY <1>6, <1>7, <1>8, <1>9, <1>10 DEF TokensInv

LEMMA RefreshValidateKeeps ==
  ASSUME TokensInv, NEW c \in Caller, NEW s \in Secret, RefreshValidate(c, s)
  PROVE  TokensInv'
<1>0. TokensTypeOK /\ OwnedSecrets /\ TokenIndexAgrees
  BY DEF TokensInv
<1> USE TokensAssumption
<1>1. UNCHANGED <<records, byHash, file, drawn, owner, retired, revoked>>
  BY DEF RefreshValidate
<1>2. byHash[s] \in Device /\ owner[s] = byHash[s]
  <2>1. byHash[s] \in Device
    BY <1>0 DEF TokensTypeOK, RefreshValidate, Validate
  <2> QED
    BY <1>0, <2>1, HolderOwns DEF TokenIndexAgrees
<1>3. /\ [device |-> byHash[s], secret |-> s] \in Ticket
      /\ refresh' = [refresh EXCEPT ![c] = [device |-> byHash[s], secret |-> s]]
  BY <1>2 DEF RefreshValidate, Ticket
<1>4. TokensTypeOK'
  BY <1>0, <1>1, <1>3 DEF TokensTypeOK
<1>5. \A k \in Caller : refresh'[k] # NoTicket =>
        owner[refresh'[k].secret] = refresh'[k].device
  BY <1>0, <1>2, <1>3 DEF OwnedSecrets, TokensTypeOK
<1>6. OwnedSecrets'
  BY <1>0, <1>1, <1>5 DEF OwnedSecrets
<1>7. (TokenIndexAgrees /\ RevocationIsFinal /\ RetiredIsDead)'
  BY <1>1 DEF TokensInv, TokenIndexAgrees, RevocationIsFinal, RetiredIsDead,
              Validate
<1> QED
  BY <1>4, <1>6, <1>7 DEF TokensInv

\* The index is rebuilt from a file in which no two records share a secret.
LEMMA TokensRestartKeeps ==
  ASSUME TokensInv, TokensRestart
  PROVE  TokensInv'
<1>0. TokensTypeOK /\ OwnedSecrets /\ RetiredIsDead
  BY DEF TokensInv
<1> USE TokensAssumption
<1>1. /\ records' = file /\ file' = file
      /\ UNCHANGED <<drawn, owner, retired, revoked>>
      /\ refresh' = [c \in Caller |-> NoTicket]
  BY DEF TokensRestart
<1>2. ASSUME NEW s \in Secret
      PROVE  /\ byHash'[s] \in Device \cup {Nobody}
             /\ \A d \in Device : byHash'[s] = d <=> file[d].secret = s
  <2>1. CASE \E d \in Device : file[d].secret = s
    <3>1. byHash'[s] = CHOOSE d \in Device : file[d].secret = s
      BY <2>1 DEF TokensRestart
    <3>2. byHash'[s] \in Device /\ file[byHash'[s]].secret = s
      BY <2>1, <3>1
    <3> QED
      BY <1>0, <3>2, HolderOwns
  <2>2. CASE ~ \E d \in Device : file[d].secret = s
    BY <2>2 DEF TokensRestart
  <2> QED
    BY <2>1, <2>2
<1>3. byHash' \in [Secret -> Device \cup {Nobody}]
  <2>1. byHash' = [s \in Secret |-> byHash'[s]]
    BY DEF TokensRestart
  <2> QED
    BY <1>2, <2>1
<1>4. TokensTypeOK'
  BY <1>0, <1>1, <1>3 DEF TokensTypeOK
<1>5. OwnedSecrets'
  BY <1>0, <1>1 DEF OwnedSecrets
<1>6. TokenIndexAgrees'
  BY <1>1, <1>2 DEF TokenIndexAgrees
<1>7. RevocationIsFinal'
  BY <1>4, <1>5 DEF RevocationIsFinal, OwnedSecrets, Validate
<1>8. RetiredIsDead'
  <2>1. retired \subseteq Secret
    BY <1>0 DEF TokensTypeOK
  <2> QED
    BY <1>0, <1>1, <1>2, <2>1 DEF RetiredIsDead
<1> QED
  BY <1>4, <1>5, <1>6, <1>7, <1>8 DEF TokensInv

LEMMA TokensStutter ==
  ASSUME TokensInv, UNCHANGED tokenVars
  PROVE  TokensInv'
BY DEF TokensInv, tokenVars, TokensTypeOK, OwnedSecrets, TokenIndexAgrees,
       RevocationIsFinal, RetiredIsDead, Validate

-----------------------------------------------------------------------------

\* The inductive invariant of the token store.
THEOREM TokensInvariant == TokensSpec => []TokensInv
<1>1. TokensInit => TokensInv
  BY InitTokens
<1>2. TokensInv /\ [TokensNext]_tokenVars => TokensInv'
  BY RegisterKeeps, ExpireKeeps, RefreshValidateKeeps, RefreshRotateKeeps,
     RevokeKeeps, TokensRestartKeeps, TokensStutter DEF TokensNext
<1> QED
  BY <1>1, <1>2, PTL DEF TokensSpec

\* The index from secrets to records, which Validate trusts, and the records,
\* which the file and a restart trust, always describe the same tokens.
THEOREM TokenIndexTheorem == TokensSpec => []TokenIndexAgrees
<1>1. TokensInv => TokenIndexAgrees
  BY DEF TokensInv
<1> QED
  BY <1>1, TokensInvariant, PTL

\* No interleaving of Refresh and Revoke, failed save or restart brings a
\* revoked device's token back to life.
THEOREM RevocationTheorem == TokensSpec => []RevocationIsFinal
<1>1. TokensInv => RevocationIsFinal
  BY DEF TokensInv
<1> QED
  BY <1>1, TokensInvariant, PTL

\* Nor a secret that a successful Refresh has replaced.
THEOREM RetiredTheorem == TokensSpec => []RetiredIsDead
<1>1. TokensInv => RetiredIsDead
  BY DEF TokensInv
<1> QED
  BY <1>1, TokensInvariant, PTL

-----------------------------------------------------------------------------
(* The control API and its limits *)

RequestRecord == [step : {"none", "arrived", "in", "resolve"},
                  device : Device \cup {Nobody}, at : Time]

\* What a bucket holds and has let in is paid for by the burst and by the time
\* until its last reading; one that is not known is as good as full by now.
BucketPaid ==
  IF bucket = Unknown
    THEN admitted <= PerTick * (now + rewound)
    ELSE /\ bucket.last <= now
         /\ admitted + bucket.tokens <= Burst + PerTick * (bucket.last + rewound)

LimitsTypeOK ==
  /\ now \in Time
  /\ asking \in [Caller -> RequestRecord]
  /\ \A c \in Caller : /\ asking[c].at <= now
                       /\ asking[c].step = "resolve" => asking[c].device \in Device
  /\ bucket \in Bucket \cup {Unknown}
  /\ admitted \in Nat /\ rewound \in Nat
  /\ latest \in [Device -> Time]

GrantRecord == [n : Nat, at : Time]

\* Serial numbers are serial; a grant that is not astray is not later than the
\* latest reading, and among the events while it is in the window of that.
Known(grants, evs, last, lost) ==
  /\ grants \subseteq GrantRecord /\ IsFiniteSet(grants)
  /\ evs \subseteq grants /\ lost \subseteq grants
  /\ \A g \in grants :
       /\ g.n <= Cardinality(grants)
       /\ g \notin lost =>
            /\ g.at <= last
            /\ last - g.at <= Window => g \in evs

GrantsKnown(d) == Known(granted[d], events[d], latest[d], astray[d])

InWindow(grants, t) == {g \in grants : g.at - t \in 0 .. Window}

LimitsInv ==
  /\ LimitsTypeOK
  /\ BucketPaid
  /\ granted \in [Device -> SUBSET GrantRecord]
  /\ events \in [Device -> SUBSET GrantRecord]
  /\ astray \in [Device -> SUBSET GrantRecord]
  /\ \A d \in Device : GrantsKnown(d)
  /\ BudgetHolds

LEMMA MaxOfTwo ==
  ASSUME NEW a \in Int, NEW b \in Int
  PROVE  Max({a, b}) = IF a >= b THEN a ELSE b
<1>1. \E x \in {a, b} : \A y \in {a, b} : x >= y
  OBVIOUS
<1>2. Max({a, b}) \in {a, b} /\ \A y \in {a, b} : Max({a, b}) >= y
  BY <1>1, ZenonT(30) DEF Max
<1> QED
  BY <1>2

LEMMA MinOfTwo ==
  ASSUME NEW a \in Int, NEW b \in Int
  PROVE  Min({a, b}) = IF a <= b THEN a ELSE b
<1>1. \E x \in {a, b} : \A y \in {a, b} : x <= y
  OBVIOUS
<1>2. Min({a, b}) \in {a, b} /\ \A y \in {a, b} : Min({a, b}) <= y
  BY <1>1, ZenonT(30) DEF Min
<1> QED
  BY <1>2

\* The price of more time is higher, and prices add up.
LEMMA Prices ==
  ASSUME NEW a \in Int, NEW b \in Int
  PROVE  /\ PerTick * (a + b) = PerTick * a + PerTick * b
         /\ a <= b => PerTick * a <= PerTick * b
         /\ PerTick * a \in Int /\ (a >= 0 => PerTick * a >= 0)
BY LimitsAssumption

\* What gcLocked collects would be full by now.
LEMMA IdleIsFull ==
  ASSUME NEW t \in Nat, t > IdleTicks
  PROVE  PerTick * t >= Burst
<1> DEFINE q == IdleTicks
<1>1. Burst \in Nat /\ PerTick \in Nat /\ 2 * PerTick > 0
  BY LimitsAssumption
<1>2. q \in Int /\ 3 * Burst < (2 * PerTick) * (q + 1)
  BY <1>1 DEF IdleTicks
<1>3. (2 * PerTick) * (q + 1) = 2 * (PerTick * (q + 1))
  BY <1>1, <1>2
<1>4. PerTick * (q + 1) <= PerTick * t
  BY <1>2, Prices
<1>5. PerTick * (q + 1) \in Int /\ PerTick * t \in Int
  BY <1>2, Prices
<1> QED
  BY <1>1, <1>2, <1>3, <1>4, <1>5

\* LimitsInv is about these variables only.
limitsVars == <<now, asking, limits>>

LEMMA LimitsStutter ==
  ASSUME LimitsInv, UNCHANGED limitsVars
  PROVE  LimitsInv'
BY DEF LimitsInv, limitsVars, limits, LimitsTypeOK, BucketPaid, GrantsKnown, BudgetHolds

\* A request goes on, and no limit is asked.
LEMMA GoesOn ==
  ASSUME LimitsInv, NEW c \in Caller, NEW r \in RequestRecord, Becomes(c, r),
         r.at <= now, r.step = "resolve" => r.device \in Device,
         UNCHANGED <<now, limits>>
  PROVE  LimitsInv'
<1>1. UNCHANGED <<now, bucket, events, latest, granted, astray, admitted, rewound>>
  BY DEF limits
<1>2. asking \in [Caller -> RequestRecord] /\ asking' = [asking EXCEPT ![c] = r]
  BY DEF LimitsInv, LimitsTypeOK, Becomes
<1>3. LimitsTypeOK'
  BY <1>1, <1>2 DEF LimitsInv, LimitsTypeOK
<1> QED
  BY <1>1, <1>3 DEF LimitsInv, BucketPaid, GrantsKnown, BudgetHolds

LEMMA RequestsAre ==
  /\ NoRequest \in RequestRecord /\ NoRequest.step = "none" /\ NoRequest.at = 0
  /\ \A step \in {"none", "arrived", "in", "resolve"},
       d \in Device \cup {Nobody}, when \in Time :
       /\ Request(step, d, when) \in RequestRecord
       /\ Request(step, d, when).step = step /\ Request(step, d, when).device = d
       /\ Request(step, d, when).at = when
  /\ \A t \in Time : 0 <= t
  /\ 0 \in Time
BY LimitsAssumption DEF NoRequest, Request, RequestRecord, Time

LEMMA RequestsKeep ==
  ASSUME TokensInv, LimitsInv, NEW c \in Caller,
         \/ Arrive(c) \/ (\E s \in Secret : AskResolve(c, s))
         \/ HandleToken(c) \/ Leave(c)
  PROVE  LimitsInv'
<1>0. now \in Time /\ 0 <= now
  BY RequestsAre DEF LimitsInv, LimitsTypeOK
<1>1. CASE Arrive(c)
  <2>1. PICK r \in RequestRecord : r = Request("arrived", Nobody, now)
    BY <1>0, RequestsAre
  <2>2. r.at = now /\ r.step = "arrived"
    BY <1>0, <2>1, RequestsAre
  <2> QED
    BY <1>0, <1>1, <2>1, <2>2, GoesOn DEF Arrive, LimitsInv, LimitsTypeOK, Time
<1>2. CASE \E s \in Secret : AskResolve(c, s)
  <2>1. PICK s \in Secret : AskResolve(c, s)
    BY <1>2
  <2>2. byHash[s] \in Device
    BY <2>1 DEF AskResolve, Validate, TokensInv, TokensTypeOK
  <2>3. PICK r \in RequestRecord : r = Request("resolve", byHash[s], now)
    BY <1>0, <2>2, RequestsAre
  <2>4. r.at = now /\ r.device = byHash[s]
    BY <1>0, <2>2, <2>3, RequestsAre
  <2> QED
    BY <1>0, <2>1, <2>2, <2>3, <2>4, GoesOn DEF AskResolve, Time
<1>3. CASE HandleToken(c) \/ Leave(c)
  <2>1. Becomes(c, NoRequest) /\ UNCHANGED <<now, limits>>
    BY <1>3 DEF HandleToken, Leave
  <2> QED
    BY <1>0, <2>1, GoesOn, RequestsAre
<1> QED
  BY <1>1, <1>2, <1>3

\* The middleware's limiter: what comes in is taken out of the bucket, and a
\* reading from the past is booked as rewound.
LEMMA AdmitKeeps ==
  ASSUME LimitsInv, NEW c \in Caller, Admit(c)
  PROVE  LimitsInv'
<1> DEFINE when == asking[c].at
           new == bucket = Unknown
           b == IF new THEN FullBucket(when) ELSE bucket
           ok == Refilled(b, when) >= 1
<1>0. /\ LimitsTypeOK /\ BucketPaid
      /\ Burst \in Nat \ {0} /\ PerTick \in Nat \ {0} /\ MaxTime \in Nat
  BY LimitsAssumption DEF LimitsInv
<1>1. /\ when \in Time /\ when <= now /\ now \in Time /\ when \in Nat /\ now \in Nat
      /\ admitted \in Nat /\ rewound \in Nat
  BY <1>0 DEF LimitsTypeOK, RequestRecord, Time
<1>2. /\ Becomes(c, IF ok THEN Request("in", Nobody, 0) ELSE NoRequest)
      /\ bucket' = Spend(b, when)
      /\ rewound' = rewound + Max({0, (IF new THEN now ELSE b.last) - when})
      /\ admitted' = IF ok THEN admitted + 1 ELSE admitted
      /\ UNCHANGED <<now, events, latest, granted, astray>>
  BY DEF Admit
<1>3. /\ b.tokens \in 0 .. Burst /\ b.last \in Nat
      /\ new => b.tokens = Burst /\ b.last = when
      /\ ~ new => b = bucket
  BY <1>0, <1>1 DEF FullBucket, LimitsTypeOK, Bucket, Time
<1> DEFINE back == IF when > b.last THEN PerTick * (when - b.last) ELSE 0
           full == Refilled(b, when)
<1> HIDE DEF b, when, new
<1>4. back \in Nat /\ full = (IF Burst <= b.tokens + back THEN Burst ELSE b.tokens + back)
  <2>1. back \in Nat
    <3>1. ASSUME NEW t \in Nat PROVE PerTick * t \in Nat
      BY <1>0
    <3>2. when > b.last => when - b.last \in Nat
      BY <1>1, <1>3
    <3> QED
      BY <3>1, <3>2
  <2>2. full = Min({Burst, b.tokens + back})
    BY DEF Refilled
  <2> HIDE DEF back, full
  <2> QED
    BY <1>0, <1>3, <2>1, <2>2, MinOfTwo
<1>5. full \in 0 .. Burst
  BY <1>0, <1>3, <1>4
<1>6. /\ bucket'.tokens = (IF full >= 1 THEN full - 1 ELSE 0)
      /\ bucket'.last = when /\ bucket' \in Bucket
  <2>1. Max({0, full - 1}) = IF 0 >= full - 1 THEN 0 ELSE full - 1
    BY <1>5, MaxOfTwo
  <2>2. bucket' = [tokens |-> Max({0, full - 1}), last |-> when]
    BY <1>2 DEF Spend
  <2> HIDE DEF full
  <2> QED
    BY <1>0, <1>1, <1>5, <2>1, <2>2 DEF Bucket
<1> DEFINE late == Max({0, (IF new THEN now ELSE b.last) - when})
<1>7. late = IF (IF new THEN now ELSE b.last) >= when
               THEN (IF new THEN now ELSE b.last) - when ELSE 0
  <2> DEFINE x == (IF new THEN now ELSE b.last) - when
  <2>1. x \in Int
    BY <1>1, <1>3
  <2>2. late = IF 0 >= x THEN 0 ELSE x
    <3> HIDE DEF x
    <3> QED
      BY <2>1, MaxOfTwo DEF x
  <2> HIDE DEF late
  <2> QED
    BY <1>1, <1>3, <2>2
<1>8. admitted' + bucket'.tokens = admitted + full
  BY <1>1, <1>2, <1>5, <1>6
<1>9. admitted' \in Nat /\ rewound' \in Nat /\ rewound' = rewound + late
  BY <1>1, <1>2, <1>3, <1>7
<1> HIDE DEF back, full, late
<1>10. admitted + full <= Burst + PerTick * (when + rewound')
  <2>1. CASE new
    <3>1. admitted <= PerTick * (now + rewound)
      BY <1>0, <2>1 DEF BucketPaid, new
    <3>2. when + rewound' = now + rewound
      BY <1>1, <1>7, <1>9, <2>1
    <3>3. PerTick * (now + rewound) \in Int
      BY <1>1, Prices
    <3> QED
      BY <1>0, <1>1, <1>5, <3>1, <3>2, <3>3
  <2>2. CASE ~ new
    <3>1. admitted + b.tokens <= Burst + PerTick * (b.last + rewound)
      BY <1>0, <1>3, <2>2 DEF BucketPaid, new
    <3>2. full <= b.tokens + back
      BY <1>0, <1>3, <1>4
    <3>3. CASE when > b.last
      <4>1. rewound' = rewound /\ back = PerTick * (when - b.last)
        BY <1>1, <1>3, <1>7, <1>9, <2>2, <3>3 DEF back
      <4>2. when + rewound = (b.last + rewound) + (when - b.last)
        BY <1>1, <1>3
      <4>3. b.last + rewound \in Int /\ when - b.last \in Int
        BY <1>1, <1>3
      <4>4. /\ PerTick * (when + rewound)
                 = PerTick * (b.last + rewound) + PerTick * (when - b.last)
            /\ PerTick * (b.last + rewound) \in Int /\ PerTick * (when - b.last) \in Int
        BY <4>2, <4>3, Prices
      <4> QED
        BY <1>0, <1>1, <1>3, <1>5, <3>1, <3>2, <4>1, <4>4
    <3>4. CASE ~ (when > b.last)
      <4>1. when + rewound' = b.last + rewound /\ back = 0
        BY <1>1, <1>3, <1>7, <1>9, <2>2, <3>4 DEF back
      <4>2. PerTick * (b.last + rewound) \in Int
        <5>1. b.last + rewound \in Int
          BY <1>1, <1>3
        <5> QED
          BY <5>1, Prices
      <4> QED
        BY <1>0, <1>1, <1>3, <1>5, <3>1, <3>2, <4>1, <4>2
    <3> QED
      BY <3>3, <3>4
  <2> QED
    BY <2>1, <2>2
<1>11. bucket' # Unknown
  BY <1>1, <1>6 DEF Unknown
<1>12. BucketPaid'
  <2>1. when <= now' /\ bucket'.last = when
    BY <1>1, <1>2, <1>6 DEF when
  <2> QED
    BY <1>8, <1>10, <1>11, <2>1 DEF BucketPaid
<1>13. LimitsTypeOK'
  <2>1. PICK r \in RequestRecord : r.at = 0 /\ r.step # "resolve" /\ Becomes(c, r)
    BY <1>2, RequestsAre
  <2>2. asking' = [asking EXCEPT ![c] = r]
    BY <2>1 DEF Becomes
  <2> QED
    BY <1>0, <1>1, <1>2, <1>6, <1>9, <2>1, <2>2 DEF LimitsTypeOK
<1> QED
  BY <1>2, <1>12, <1>13 DEF LimitsInv, GrantsKnown, BudgetHolds

LEMMA CollectKeeps ==
  ASSUME LimitsInv, Collect
  PROVE  LimitsInv'
<1>0. /\ LimitsTypeOK /\ BucketPaid /\ bucket # Unknown
      /\ UNCHANGED <<now, asking, events, latest, granted, astray, admitted, rewound>>
      /\ bucket' = Unknown /\ now - bucket.last > IdleTicks
      /\ Burst \in Nat /\ PerTick \in Nat
  BY LimitsAssumption DEF LimitsInv, Collect
<1>1. /\ now \in Nat /\ rewound \in Nat /\ admitted \in Nat
      /\ bucket.tokens \in Nat /\ bucket.last \in Nat /\ bucket.last <= now
      /\ admitted + bucket.tokens <= Burst + PerTick * (bucket.last + rewound)
  BY <1>0 DEF LimitsTypeOK, BucketPaid, Bucket, Time
<1> DEFINE idle == now - bucket.last
           paid == bucket.last + rewound
<1>2. idle \in Nat /\ paid \in Int /\ now + rewound = paid + idle
  BY <1>1
<1>3. PerTick * idle >= Burst
  BY <1>0, <1>2, IdleIsFull
<1>4. /\ PerTick * (paid + idle) = PerTick * paid + PerTick * idle
      /\ PerTick * paid \in Int /\ PerTick * idle \in Int
  BY <1>2, Prices
<1>5. admitted <= PerTick * (now + rewound)
  <2> HIDE DEF idle
  <2> QED
    BY <1>0, <1>1, <1>2, <1>3, <1>4
<1>6. BucketPaid'
  BY <1>0, <1>5 DEF BucketPaid
<1>7. LimitsTypeOK'
  BY <1>0 DEF LimitsTypeOK
<1> QED
  BY <1>0, <1>6, <1>7 DEF LimitsInv, GrantsKnown, BudgetHolds

LEMMA TickKeeps ==
  ASSUME LimitsInv, Tick
  PROVE  LimitsInv'
<1>0. /\ LimitsTypeOK /\ BucketPaid /\ now' = now + 1 /\ now < MaxTime
      /\ UNCHANGED <<asking, bucket, events, latest, granted, astray, admitted, rewound>>
      /\ Burst \in Nat /\ PerTick \in Nat /\ MaxTime \in Nat
  BY LimitsAssumption DEF LimitsInv, Tick, limits
<1>1. now \in Nat /\ rewound \in Nat /\ admitted \in Nat
  BY <1>0 DEF LimitsTypeOK, Time
<1>2. BucketPaid'
  <2>1. CASE bucket = Unknown
    <3> DEFINE before == now + rewound
               after == now' + rewound
    <3>1. before \in Int /\ after \in Int /\ before <= after
      BY <1>0, <1>1
    <3>2. PerTick * before <= PerTick * after
          /\ PerTick * before \in Int /\ PerTick * after \in Int
      <4> HIDE DEF before, after
      <4> QED
        BY <1>0, <3>1, Prices
    <3>3. admitted <= PerTick * before
      BY <1>0, <2>1 DEF BucketPaid
    <3>4. admitted <= PerTick * after
      <4> HIDE DEF before, after
      <4> QED
        BY <1>1, <3>2, <3>3
    <3> QED
      BY <1>0, <2>1, <3>4 DEF BucketPaid
  <2>2. CASE bucket # Unknown
    <3>1. bucket.last \in Nat
      BY <1>0, <2>2 DEF LimitsTypeOK, Bucket, Time
    <3> QED
      BY <1>0, <1>1, <2>2, <3>1 DEF BucketPaid
  <2> QED
    BY <2>1, <2>2
<1>3. LimitsTypeOK'
  <2>1. now' \in Time
    BY <1>0, <1>1 DEF Time
  <2>2. \A c \in Caller : asking[c].at \in Nat
    BY <1>0 DEF LimitsTypeOK, RequestRecord, Time
  <2> QED
    BY <1>0, <1>1, <2>1, <2>2 DEF LimitsTypeOK
<1> QED
  BY <1>0, <1>2, <1>3 DEF LimitsInv, GrantsKnown, BudgetHolds

\* What a collection forgets is astray from then on, or out of every window
\* that counts.
LEMMA SweepKnown ==
  ASSUME LimitsInv, NEW gone \in SUBSET Device, NEW when \in Time, NEW d \in Device
  PROVE  /\ Known(granted[d], Left(gone)[d], Later(gone, when)[d], Astray(gone, when)[d])
         /\ astray[d] \subseteq Astray(gone, when)[d]
         /\ Later(gone, when)[d] \in Time
         /\ Left(gone) \in [Device -> SUBSET GrantRecord]
         /\ Later(gone, when) \in [Device -> Time]
         /\ Astray(gone, when) \in [Device -> SUBSET GrantRecord]
<1>0. /\ latest \in [Device -> Time] /\ granted \in [Device -> SUBSET GrantRecord]
      /\ events \in [Device -> SUBSET GrantRecord]
      /\ astray \in [Device -> SUBSET GrantRecord]
      /\ when \in Nat /\ Time \subseteq Nat /\ Window \in Nat
  BY LimitsAssumption DEF LimitsInv, LimitsTypeOK, Time
<1>1. ASSUME NEW e \in Device
      PROVE  Max({latest[e], when}) = IF latest[e] >= when THEN latest[e] ELSE when
  <2>1. latest[e] \in Time
    BY <1>0
  <2>2. latest[e] \in Int /\ when \in Int
    BY <2>1, LimitsAssumption DEF Time
  <2> QED
    BY <2>2, MaxOfTwo
<1>2. Later(gone, when) \in [Device -> Time]
  BY <1>0, <1>1 DEF Later
<1>3. Left(gone) \in [Device -> SUBSET GrantRecord]
  BY <1>0 DEF Left
<1>4. Astray(gone, when) \in [Device -> SUBSET GrantRecord]
  BY <1>0 DEF Astray
<1>5. GrantsKnown(d) /\ latest[d] \in Nat
  BY <1>0 DEF LimitsInv
<1>6. CASE d \notin gone
  <2>1. /\ Left(gone)[d] = events[d] /\ Later(gone, when)[d] = latest[d]
        /\ Astray(gone, when)[d] = astray[d]
    BY <1>6 DEF Left, Later, Astray
  <2> QED
    BY <1>2, <1>3, <1>4, <1>5, <2>1 DEF GrantsKnown
<1>7. CASE d \in gone
  <2> DEFINE last == IF latest[d] >= when THEN latest[d] ELSE when
             lost == astray[d] \cup {g \in granted[d] : when - g.at <= Window}
  <2>1. /\ Left(gone)[d] = {} /\ Later(gone, when)[d] = last
        /\ Astray(gone, when)[d] = lost
    BY <1>1, <1>7 DEF Left, Later, Astray
  <2>2. ASSUME NEW g \in granted[d], g \notin lost
        PROVE  g.at <= last /\ ~ (last - g.at <= Window)
    <3>1. g.at \in Nat /\ g \notin astray[d] /\ ~ (when - g.at <= Window)
      <4>1. g \in GrantRecord
        BY <1>0
      <4>2. g.at \in Nat
        BY <1>0, <4>1 DEF GrantRecord
      <4> QED
        BY <2>2, <4>2
    <3>2. g.at <= latest[d]
      BY <1>5, <3>1 DEF GrantsKnown, Known
    <3> QED
      BY <1>0, <1>5, <3>1, <3>2
  <2> HIDE DEF last
  <2>3. Known(granted[d], {}, last, lost)
    BY <1>5, <2>2 DEF GrantsKnown, Known
  <2> QED
    BY <1>2, <1>3, <1>4, <2>1, <2>3
<1> QED
  BY <1>6, <1>7

\* Another request's collection.
LEMMA CollectEventsKeeps ==
  ASSUME LimitsInv, CollectEvents
  PROVE  LimitsInv'
<1>0. LimitsTypeOK /\ BucketPaid /\ BudgetHolds /\ now \in Time
  BY DEF LimitsInv, LimitsTypeOK
<1>1. PICK when \in 0 .. now :
        /\ events' = Left(Collected(when)) /\ latest' = Later(Collected(when), when)
        /\ astray' = Astray(Collected(when), when)
        /\ UNCHANGED <<now, asking, bucket, granted, admitted, rewound>>
  BY DEF CollectEvents
<1> DEFINE gone == Collected(when)
<1>2. when \in Time /\ gone \in SUBSET Device
  BY <1>0, LimitsAssumption DEF Time, Collected
<1> HIDE DEF gone
<1>3. events' = Left(gone) /\ latest' = Later(gone, when) /\ astray' = Astray(gone, when)
  BY <1>1 DEF gone
<1>4. \A d \in Device :
        /\ Known(granted[d], events'[d], latest'[d], astray'[d])
        /\ astray[d] \subseteq astray'[d]
  BY <1>2, <1>3, SweepKnown
<1>5. /\ granted' \in [Device -> SUBSET GrantRecord] /\ (\A d \in Device : GrantsKnown(d)')
      /\ (Device # {} => /\ events' \in [Device -> SUBSET GrantRecord]
                         /\ astray' \in [Device -> SUBSET GrantRecord]
                         /\ latest' \in [Device -> Time])
  BY <1>1, <1>2, <1>3, <1>4, SweepKnown DEF LimitsInv, GrantsKnown
<1>6. CASE Device = {}
  <2>1. UNCHANGED <<events, latest, astray>>
    BY <1>3, <1>6 DEF Left, Later, Astray, LimitsInv, LimitsTypeOK
  <2> QED
    BY <1>0, <1>1, <1>6, <2>1 DEF LimitsInv, LimitsTypeOK, BucketPaid, BudgetHolds
<1>7. CASE Device # {}
  <2>1. LimitsTypeOK' /\ BucketPaid'
    BY <1>0, <1>1, <1>5, <1>7 DEF LimitsTypeOK, BucketPaid
  <2>2. BudgetHolds'
    <3> SUFFICES ASSUME NEW d \in Device, NEW t \in Time
                 PROVE  Cardinality(InWindow(granted'[d] \ astray'[d], t)) <= Most
      BY DEF BudgetHolds, InWindow
    <3> DEFINE old == InWindow(granted[d] \ astray[d], t)
               new == InWindow(granted'[d] \ astray'[d], t)
    <3>1. Cardinality(old) <= Most
      BY <1>0 DEF BudgetHolds, InWindow
    <3>2. IsFiniteSet(old) /\ new \subseteq old
      <4>1. IsFiniteSet(granted[d]) /\ old \subseteq granted[d]
        BY <1>4 DEF Known, InWindow
      <4>2. new \subseteq old
        BY <1>1, <1>4 DEF InWindow
      <4> QED
        BY <4>1, <4>2, FS_Subset
    <3> HIDE DEF old, new
    <3>3. /\ Cardinality(new) <= Cardinality(old)
          /\ Cardinality(new) \in Nat /\ Cardinality(old) \in Nat
      BY <3>2, FS_Subset, FS_CardinalityType
    <3> QED
      BY <3>1, <3>3, LimitsAssumption DEF new
  <2> QED
    BY <1>5, <1>7, <2>1, <2>2 DEF LimitsInv
<1> QED
  BY <1>6, <1>7

\* Count.Allow: whatever else was granted for the window that ends with this
\* reading is still among the events, so there is room for one more.
LEMMA DecideResolveKeeps ==
  ASSUME LimitsInv, NEW c \in Caller, DecideResolve(c)
  PROVE  LimitsInv'
<1>0. /\ LimitsTypeOK /\ BucketPaid /\ BudgetHolds
      /\ granted \in [Device -> SUBSET GrantRecord]
      /\ latest \in [Device -> Time]
      /\ Window \in Nat /\ Most \in Nat
  BY LimitsAssumption DEF LimitsInv, LimitsTypeOK
<1> DEFINE Decided(e, t, swept) ==
             LET left == Left(swept)[e]
                 grant == Grant(e, t)
                 late == IF t < latest[e] THEN {grant} ELSE {}
             IN /\ latest' = Later(swept \cup {e}, t)
                /\ \/ /\ HasRoom(left, t)
                      /\ events' = [Left(swept) EXCEPT ![e] = Recent(left, t) \cup {grant}]
                      /\ granted' = [granted EXCEPT ![e] = granted[e] \cup {grant}]
                      /\ astray' = [Astray(swept, t) EXCEPT
                                     ![e] = Astray(swept, t)[e] \cup late]
                   \/ /\ events' = [Left(swept) EXCEPT ![e] = Recent(left, t)]
                      /\ astray' = Astray(swept, t)
                      /\ granted' = granted
<1>1. PICK d \in Device, when \in Time :
        when \in Nat /\ \E gone \in {{}, Collected(when)} : Decided(d, when, gone)
  <2>1. asking[c].device \in Device /\ asking[c].at \in Time /\ asking[c].at \in Nat
    BY <1>0 DEF DecideResolve, LimitsTypeOK, RequestRecord, Time
  <2>2. \E gone \in {{}, Collected(asking[c].at)} :
          Decided(asking[c].device, asking[c].at, gone)
    BY DEF DecideResolve
  <2> HIDE DEF Decided
  <2> QED
    BY <2>1, <2>2
<1>2. PICK gone \in {{}, Collected(when)} : Decided(d, when, gone)
  BY <1>1
<1> DEFINE evs == Left(gone)
           lost == Astray(gone, when)
           last == Later(gone, when)[d]
           g == Grant(d, when)
           late == IF when < latest[d] THEN {g} ELSE {}
           rest == Recent(evs[d], when)
<1>3. gone \in SUBSET Device
  BY DEF Collected
<1>4. \A e \in Device :
        /\ Known(granted[e], evs[e], Later(gone, when)[e], lost[e])
        /\ astray[e] \subseteq lost[e] /\ Later(gone, when)[e] \in Time
        /\ evs \in [Device -> SUBSET GrantRecord]
        /\ lost \in [Device -> SUBSET GrantRecord]
  BY <1>1, <1>3, SweepKnown
<1>5. /\ latest'[d] = (IF latest[d] >= when THEN latest[d] ELSE when)
      /\ latest' \in [Device -> Time] /\ latest[d] \in Nat
      /\ \A e \in Device \ {d} : latest'[e] = Later(gone, when)[e]
      /\ last \in Nat /\ last <= latest'[d] /\ latest[d] <= last
  <2>1. latest[d] \in Nat /\ Time \subseteq Nat
    BY <1>0 DEF Time
  <2>2. Max({latest[d], when}) = (IF latest[d] >= when THEN latest[d] ELSE when)
    BY <1>1, <2>1, MaxOfTwo
  <2>3. latest' = Later(gone \cup {d}, when)
    BY <1>2
  <2>4. latest' \in [Device -> Time]
    <3>1. gone \cup {d} \in SUBSET Device
      BY <1>1, <1>3
    <3> QED
      BY <1>1, <2>3, <3>1, SweepKnown
  <2>5. /\ latest'[d] = Max({latest[d], when})
        /\ last = IF d \in gone THEN Max({latest[d], when}) ELSE latest[d]
        /\ \A e \in Device \ {d} : latest'[e] = Later(gone, when)[e]
    BY <2>3 DEF Later
  <2>6. last = latest[d] \/ last = (IF latest[d] >= when THEN latest[d] ELSE when)
    BY <2>2, <2>5
  <2>7. latest'[d] = (IF latest[d] >= when THEN latest[d] ELSE when)
    BY <2>2, <2>5
  <2> HIDE DEF last, Decided
  <2>8. last \in Nat /\ last <= latest'[d] /\ latest[d] <= last
    BY <1>1, <2>1, <2>6, <2>7
  <2> QED
    BY <2>1, <2>4, <2>5, <2>7, <2>8
<1> HIDE DEF evs, lost, last
<1>6. /\ IsFiniteSet(granted[d]) /\ Cardinality(granted[d]) \in Nat
      /\ rest \subseteq evs[d] /\ evs[d] \subseteq granted[d]
      /\ granted[d] \subseteq GrantRecord /\ lost[d] \subseteq granted[d]
  BY <1>4, FS_CardinalityType DEF Known, Recent
<1>7. g \in GrantRecord /\ g.n = Cardinality(granted[d]) + 1 /\ g.at = when
  BY <1>1, <1>6 DEF GrantRecord, Grant
<1>8. g \notin granted[d]
  BY <1>4, <1>6, <1>7 DEF Known, GrantRecord
<1>9. /\ IsFiniteSet(granted[d] \cup {g})
      /\ Cardinality(granted[d] \cup {g}) = Cardinality(granted[d]) + 1
  BY <1>6, <1>8, FS_AddElement
<1>10. \A x \in granted[d] \ lost[d] :
         /\ x.at <= latest'[d]
         /\ latest'[d] - x.at <= Window => x \in rest
  <2> SUFFICES ASSUME NEW x \in granted[d] \ lost[d]
               PROVE  /\ x.at <= latest'[d]
                      /\ latest'[d] - x.at <= Window => x \in rest
    OBVIOUS
  <2>1. x.at \in Nat
    BY <1>6 DEF GrantRecord, Time
  <2>2. x.at <= last /\ (last - x.at <= Window => x \in evs[d])
    BY <1>4 DEF Known, last
  <2>3. latest'[d] - x.at <= Window => last - x.at <= Window /\ when - x.at <= Window
    BY <1>0, <1>1, <1>5, <2>1
  <2> QED
    BY <1>1, <1>5, <2>1, <2>2, <2>3 DEF Recent
<1>11. late \subseteq {g} /\ (g \notin late => latest[d] <= when)
  <2>1. late = IF when < latest[d] THEN {g} ELSE {}
    OBVIOUS
  <2> HIDE DEF late, g
  <2> QED
    BY <1>1, <1>5, <2>1
<1> HIDE DEF g, rest, late
<1>12. \/ /\ HasRoom(evs[d], when)
          /\ events' = [evs EXCEPT ![d] = rest \cup {g}]
          /\ granted' = [granted EXCEPT ![d] = granted[d] \cup {g}]
          /\ astray' = [lost EXCEPT ![d] = lost[d] \cup late]
       \/ /\ events' = [evs EXCEPT ![d] = rest]
          /\ astray' = lost /\ granted' = granted
  BY <1>2 DEF evs, lost, g, late, rest
<1>13. \/ /\ HasRoom(evs[d], when)
          /\ events'[d] = rest \cup {g} /\ granted'[d] = granted[d] \cup {g}
          /\ astray'[d] = lost[d] \cup late
       \/ /\ events'[d] = rest /\ astray'[d] = lost[d] /\ granted'[d] = granted[d]
  BY <1>0, <1>4, <1>12
<1>14. /\ granted' \in [Device -> SUBSET GrantRecord]
       /\ events' \in [Device -> SUBSET GrantRecord]
       /\ astray' \in [Device -> SUBSET GrantRecord]
       /\ \A e \in Device \ {d} : granted'[e] = granted[e] /\ events'[e] = evs[e]
                                 /\ astray'[e] = lost[e]
  <2>1. /\ rest \cup {g} \in SUBSET GrantRecord /\ rest \in SUBSET GrantRecord
        /\ granted[d] \cup {g} \in SUBSET GrantRecord
        /\ lost[d] \cup late \in SUBSET GrantRecord
    BY <1>6, <1>7, <1>11
  <2>2. evs \in [Device -> SUBSET GrantRecord] /\ lost \in [Device -> SUBSET GrantRecord]
    BY <1>4
  <2> QED
    BY <1>0, <1>12, <2>1, <2>2
<1>15. \A e \in Device : GrantsKnown(e)'
  <2>1. ASSUME NEW e \in Device, e # d PROVE GrantsKnown(e)'
    BY <1>4, <1>5, <1>14, <2>1 DEF GrantsKnown
  <2>2. CASE events'[d] = rest /\ astray'[d] = lost[d] /\ granted'[d] = granted[d]
    <3>1. \A x \in granted[d] : x.n <= Cardinality(granted[d])
      BY <1>4 DEF Known
    <3> QED
      BY <1>6, <1>10, <2>1, <2>2, <3>1 DEF GrantsKnown, Known
  <2>3. CASE /\ events'[d] = rest \cup {g} /\ granted'[d] = granted[d] \cup {g}
             /\ astray'[d] = lost[d] \cup late
    <3>1. /\ granted'[d] \subseteq GrantRecord /\ IsFiniteSet(granted'[d])
          /\ events'[d] \subseteq granted'[d] /\ astray'[d] \subseteq granted'[d]
      BY <1>6, <1>7, <1>9, <1>11, <2>3
    <3>2. ASSUME NEW x \in granted[d]
          PROVE  /\ x.n <= Cardinality(granted'[d])
                 /\ x \notin astray'[d] =>
                      /\ x.at <= latest'[d]
                      /\ latest'[d] - x.at <= Window => x \in events'[d]
      <4>1. x.n \in Nat /\ x.n <= Cardinality(granted[d])
        BY <1>4, <1>6 DEF Known, GrantRecord
      <4>2. x.n <= Cardinality(granted'[d])
        BY <1>6, <1>9, <2>3, <4>1
      <4> QED
        BY <1>10, <2>3, <4>2
    <3>3. /\ g.n <= Cardinality(granted'[d])
          /\ g \notin astray'[d] => g.at <= latest'[d] /\ g \in events'[d]
      BY <1>1, <1>5, <1>6, <1>7, <1>9, <1>11, <2>3
    <3>4. \A x \in granted'[d] :
            /\ x.n <= Cardinality(granted'[d])
            /\ x \notin astray'[d] =>
                 /\ x.at <= latest'[d]
                 /\ latest'[d] - x.at <= Window => x \in events'[d]
      BY <2>3, <3>2, <3>3
    <3>5. GrantsKnown(d)'
      BY <3>1, <3>4 DEF GrantsKnown, Known
    <3> QED
      BY <2>1, <3>5
  <2> QED
    BY <1>13, <2>2, <2>3
<1>16. BudgetHolds'
  <2> SUFFICES ASSUME NEW e \in Device, NEW t \in Time
               PROVE  Cardinality(InWindow(granted'[e] \ astray'[e], t)) <= Most
    BY DEF BudgetHolds, InWindow
  <2> DEFINE before == InWindow(granted[e] \ astray[e], t)
             old == InWindow(granted[e] \ lost[e], t)
  <2>1. Cardinality(before) <= Most
    BY <1>0 DEF BudgetHolds, InWindow
  <2>2. IsFiniteSet(old) /\ Cardinality(old) \in Nat /\ Cardinality(old) <= Most
    <3>1. IsFiniteSet(granted[e]) /\ before \subseteq granted[e] /\ old \subseteq before
      BY <1>4 DEF Known, InWindow
    <3> HIDE DEF before, old
    <3>2. /\ IsFiniteSet(before) /\ IsFiniteSet(old)
          /\ Cardinality(old) <= Cardinality(before)
      BY <3>1, FS_Subset
    <3>3. Cardinality(old) \in Nat /\ Cardinality(before) \in Nat
      BY <3>2, FS_CardinalityType
    <3> QED
      BY <1>0, <2>1, <3>2, <3>3
  <2>3. CASE e # d \/ (granted'[d] = granted[d] /\ astray'[d] = lost[d]) \/ g \in late
    <3>1. InWindow(granted'[e] \ astray'[e], t) \subseteq old
      BY <1>13, <1>14, <2>3 DEF InWindow
    <3>2. old \subseteq InWindow(granted'[e] \ astray'[e], t)
      BY <1>8, <1>11, <1>13, <1>14, <2>3 DEF InWindow
    <3>3. InWindow(granted'[e] \ astray'[e], t) = old
      BY <3>1, <3>2
    <3> QED
      BY <2>2, <3>3
  <2>4. CASE /\ e = d /\ g \notin late /\ HasRoom(evs[d], when)
             /\ granted'[d] = granted[d] \cup {g} /\ astray'[d] = lost[d] \cup late
    <3>1. IsFiniteSet(rest) /\ Cardinality(rest) < Most
      <4>1. IsFiniteSet(rest)
        BY <1>6, FS_Subset
      <4> QED
        BY <2>4, <4>1 DEF HasRoom, rest
    <3>2. late = {} /\ g \notin lost[d]
      BY <1>6, <1>8, <1>11, <2>4
    <3>3. CASE when - t \in 0 .. Window
      <4>1. InWindow(granted'[d] \ astray'[d], t) = old \cup {g}
        BY <1>7, <2>4, <3>2, <3>3 DEF InWindow
      <4>2. latest'[d] = when /\ t \in Nat
        BY <1>1, <1>5, <1>11, <2>4 DEF Time
      <4>3. old \subseteq rest
        <5> SUFFICES ASSUME NEW x \in old PROVE x \in rest
          OBVIOUS
        <5>1. /\ x \in granted[d] \ lost[d] /\ x.at \in Nat
              /\ x.at - t \in 0 .. Window
          BY <1>6, <2>4 DEF InWindow, GrantRecord, Time
        <5>2. when - x.at <= Window
          BY <1>0, <1>1, <3>3, <4>2, <5>1
        <5> QED
          BY <1>10, <4>2, <5>1, <5>2
      <4>4. Cardinality(old) <= Cardinality(rest) /\ Cardinality(rest) \in Nat
        BY <3>1, <4>3, FS_Subset, FS_CardinalityType
      <4>5. g \notin old
        BY <1>8, <2>4 DEF InWindow
      <4>6. Cardinality(old \cup {g}) = Cardinality(old) + 1
        BY <2>2, <4>5, FS_AddElement
      <4>7. Cardinality(old \cup {g}) <= Most
        <5> HIDE DEF old
        <5> QED
          BY <1>0, <2>2, <3>1, <4>4, <4>6
      <4> QED
        BY <2>4, <4>1, <4>7
    <3>4. CASE ~ (when - t \in 0 .. Window)
      <4>1. InWindow(granted'[d] \ astray'[d], t) = old
        BY <1>7, <1>8, <2>4, <3>2, <3>4 DEF InWindow
      <4> QED
        BY <2>2, <2>4, <4>1
    <3> QED
      BY <3>3, <3>4
  <2> QED
    BY <1>13, <2>3, <2>4
<1>17. Becomes(c, NoRequest) /\ UNCHANGED <<now, bucket, admitted, rewound>>
  BY DEF DecideResolve
<1>18. LimitsTypeOK'
  <2>1. asking' = [asking EXCEPT ![c] = NoRequest]
    BY <1>17 DEF Becomes
  <2>2. 0 <= now
    BY <1>0, RequestsAre DEF LimitsTypeOK
  <2> QED
    BY <1>0, <1>5, <1>17, <2>1, <2>2, RequestsAre DEF LimitsTypeOK
<1>19. BucketPaid'
  BY <1>0, <1>17 DEF BucketPaid
<1> QED
  BY <1>14, <1>15, <1>16, <1>18, <1>19 DEF LimitsInv

\* The API does to the store nothing but what AuthTokens allows: a refinement,
\* the variables of the store being the same.
LEMMA APIStepsAreTokenSteps == [APINext]_apiVars => [TokensNext]_tokenVars
<1> SUFFICES ASSUME [APINext]_apiVars PROVE [TokensNext]_tokenVars
  OBVIOUS
<1>1. CASE UNCHANGED apiVars
  BY <1>1 DEF apiVars
<1>2. ASSUME NEW c \in Caller, Serve(c) PROVE [TokensNext]_tokenVars
  <2>1. CASE \/ Arrive(c) \/ Admit(c) \/ (\E s \in Secret : AskResolve(c, s))
             \/ DecideResolve(c) \/ Leave(c)
    BY <2>1 DEF Arrive, Admit, AskResolve, DecideResolve, Leave
  <2>2. CASE HandleToken(c) \/ FinishRefresh(c)
    BY <2>2 DEF HandleToken, FinishRefresh, TokensNext
  <2> QED
    BY <1>2, <2>1, <2>2 DEF Serve
<1>3. CASE Collect \/ CollectEvents \/ Tick
  BY <1>3 DEF Collect, CollectEvents, Tick
<1>4. CASE TokenExpires \/ APIRestart
  BY <1>4 DEF TokenExpires, APIRestart, TokensNext
<1> QED
  BY <1>1, <1>2, <1>3, <1>4 DEF APINext

LEMMA NoGrants ==
  ASSUME NEW d \in Device, granted[d] = {}, events[d] = {}, astray[d] = {}
  PROVE  /\ GrantsKnown(d)
         /\ \A t \in Time :
              Cardinality(InWindow(granted[d] \ astray[d], t)) <= Most
<1>1. IsFiniteSet({}) /\ Cardinality({}) = 0
  BY FS_EmptySet
<1>2. \A t \in Time : InWindow(granted[d] \ astray[d], t) = {}
  BY DEF InWindow
<1> QED
  BY <1>1, <1>2, LimitsAssumption DEF GrantsKnown, Known

LEMMA NothingIsPaid ==
  ASSUME now = 0, admitted = 0, rewound = 0, bucket = Unknown
  PROVE  BucketPaid
BY LimitsAssumption DEF BucketPaid

LEMMA LimitsInit == APIInit => LimitsInv
<1> SUFFICES ASSUME APIInit PROVE LimitsInv
  OBVIOUS
<1>1. LimitsTypeOK
  BY RequestsAre DEF APIInit, LimitsTypeOK, NoLimits
<1>2. BucketPaid
  BY NothingIsPaid DEF APIInit, NoLimits
<1>3. /\ granted = [d \in Device |-> {}] /\ events = [d \in Device |-> {}]
      /\ astray = [d \in Device |-> {}]
  BY DEF APIInit, NoLimits
<1>4. \A d \in Device :
        /\ GrantsKnown(d)
        /\ \A t \in Time : Cardinality(InWindow(granted[d] \ astray[d], t)) <= Most
  BY <1>3, NoGrants
<1> QED
  BY <1>1, <1>2, <1>3, <1>4 DEF LimitsInv, BudgetHolds, InWindow

\* A restart forgets the limits.
LEMMA APIRestartKeeps ==
  ASSUME APIRestart
  PROVE  LimitsInv'
<1>1. LimitsTypeOK'
  BY RequestsAre DEF APIRestart, LimitsTypeOK, NoLimits
<1>2. BucketPaid'
  BY LimitsAssumption DEF APIRestart, NoLimits, BucketPaid
<1>3. /\ granted' = [d \in Device |-> {}] /\ events' = [d \in Device |-> {}]
      /\ astray' = [d \in Device |-> {}]
  BY DEF APIRestart, NoLimits
<1>4. IsFiniteSet({}) /\ Cardinality({}) = 0
  BY FS_EmptySet
<1>5. \A d \in Device : GrantsKnown(d)'
  BY <1>3, <1>4 DEF GrantsKnown, Known
<1>6. BudgetHolds'
  <2> SUFFICES ASSUME NEW d \in Device, NEW t \in Time
               PROVE  Cardinality(InWindow(granted'[d] \ astray'[d], t)) <= Most
    BY DEF BudgetHolds, InWindow
  <2>1. InWindow(granted'[d] \ astray'[d], t) = {}
    BY <1>3 DEF InWindow
  <2> QED
    BY <1>4, <2>1, LimitsAssumption
<1> QED
  BY <1>1, <1>2, <1>3, <1>5, <1>6 DEF LimitsInv

LEMMA LimitsNext == TokensInv /\ LimitsInv /\ [APINext]_apiVars => LimitsInv'
<1> SUFFICES ASSUME TokensInv, LimitsInv, [APINext]_apiVars PROVE LimitsInv'
  OBVIOUS
<1>1. CASE UNCHANGED apiVars
  BY <1>1, LimitsStutter DEF apiVars, limitsVars
<1>2. ASSUME NEW c \in Caller, Serve(c) PROVE LimitsInv'
  <2>1. CASE FinishRefresh(c)
    BY <2>1, LimitsStutter DEF FinishRefresh, limitsVars
  <2> QED
    BY <1>2, <2>1, RequestsKeep, AdmitKeeps, DecideResolveKeeps DEF Serve
<1>3. CASE TokenExpires
  BY <1>3, LimitsStutter DEF TokenExpires, limitsVars
<1> QED
  BY <1>1, <1>2, <1>3, CollectKeeps, CollectEventsKeeps, TickKeeps,
     APIRestartKeeps DEF APINext

LEMMA LimitsInvImplies == LimitsInv => BudgetHolds /\ RateHolds
<1> SUFFICES ASSUME LimitsInv PROVE BudgetHolds /\ RateHolds
  OBVIOUS
<1>0. /\ LimitsTypeOK /\ BucketPaid /\ BudgetHolds
      /\ Burst \in Nat /\ PerTick \in Nat
  BY LimitsAssumption DEF LimitsInv
<1>1. now \in Nat /\ rewound \in Nat /\ admitted \in Nat
  BY <1>0 DEF LimitsTypeOK, Time
<1> DEFINE elapsed == now + rewound
<1>2. elapsed \in Int /\ PerTick * elapsed \in Int
  BY <1>0, <1>1
<1>3. CASE bucket = Unknown
  <2>1. admitted <= PerTick * elapsed /\ bucket.tokens = Burst
    BY <1>0, <1>3 DEF BucketPaid, Unknown
  <2>2. admitted + bucket.tokens <= Burst + PerTick * elapsed
    <3> HIDE DEF elapsed
    <3> QED
      BY <1>0, <1>1, <1>2, <2>1
  <2> QED
    BY <1>0, <2>2 DEF RateHolds
<1>4. CASE bucket # Unknown
  <2> DEFINE reached == bucket.last + rewound
  <2>1. /\ bucket.last \in Nat /\ bucket.last <= now /\ bucket.tokens \in Nat
        /\ admitted + bucket.tokens <= Burst + PerTick * reached
    BY <1>0, <1>4 DEF LimitsTypeOK, BucketPaid, Bucket, Time
  <2>2. reached \in Int /\ reached <= elapsed
    BY <1>1, <2>1
  <2>3. PerTick * reached <= PerTick * elapsed /\ PerTick * reached \in Int
    <3> HIDE DEF reached, elapsed
    <3> QED
      BY <1>2, <2>2, Prices
  <2>4. admitted + bucket.tokens <= Burst + PerTick * elapsed
    <3> HIDE DEF reached, elapsed
    <3> QED
      BY <1>0, <1>1, <1>2, <2>1, <2>3
  <2> QED
    BY <1>0, <2>4 DEF RateHolds
<1> QED
  BY <1>0, <1>3, <1>4

-----------------------------------------------------------------------------

\* Behind the API, too, the token store is as AuthTokens says: whatever the
\* handlers, the clock and the limits do, the store takes a step of its own.
THEOREM APIImplementsTokens == APISpec => TokensSpec
<1>1. APIInit => TokensInit
  BY DEF APIInit
<1> QED
  BY <1>1, APIStepsAreTokenSteps, PTL DEF APISpec, TokensSpec

LEMMA LimitsInvariant == APISpec => []LimitsInv
<1>1. APISpec => []TokensInv
  BY APIImplementsTokens, TokensInvariant, PTL
<1> QED
  BY <1>1, LimitsInit, LimitsNext, PTL DEF APISpec

\* POST /resolve: in no window has a device more resolves than ResolveRate
\* allows, but for those whose reading was late and those that a collection
\* forgot because a late one stood last; a rotated secret renews nothing.
THEOREM BudgetTheorem == APISpec => []BudgetHolds
<1>1. LimitsInv => BudgetHolds
  BY LimitsInvImplies
<1> QED
  BY <1>1, LimitsInvariant, PTL

\* The middleware's limiter: what an address is let in for is covered by the
\* burst, the time and the ticks that late readings rewound, and the
\* collection of idle buckets gives nothing away.
THEOREM RateTheorem == APISpec => []RateHolds
<1>1. LimitsInv => RateHolds
  BY LimitsInvImplies
<1> QED
  BY <1>1, LimitsInvariant, PTL

-----------------------------------------------------------------------------
(* The tunnel *)

\* A connection holds a slot from Acquire to the release.
Holding == {"dial", "reply", "pump", "drain", "release"}

LEMMA HoldersFinite ==
  ASSUME NEW t \in Token
  PROVE  IsFiniteSet(Holders(t)) /\ Cardinality(Holders(t)) \in Nat
<1>1. Holders(t) \subseteq Conn
  BY DEF Holders
<1> QED
  BY <1>1, TunnelAssumption, FS_Subset, FS_CardinalityType

\* A step that moves no connection into or out of Holding keeps the holders.
LEMMA SlotsStay ==
  ASSUME SlotsAreHeld, cur' = cur,
         \A d \in Conn : at'[d] \in Holding <=> at[d] \in Holding,
         \A d \in Conn : at[d] \in Holding => req'[d] = req[d]
  PROVE  SlotsAreHeld'
<1>1. ASSUME NEW t \in Token
      PROVE  {d \in Conn : req'[d].token = t /\ at'[d] \in Holding}
               = {d \in Conn : req[d].token = t /\ at[d] \in Holding}
  OBVIOUS
<1>2. ASSUME NEW t \in Token
      PROVE  Holders(t)' = Holders(t)
  BY <1>1 DEF Holders, Holding
<1> QED
  BY <1>2 DEF SlotsAreHeld

LEMMA InitTunnel == Init => TunnelInv
<1> SUFFICES ASSUME Init PROVE TunnelInv
  OBVIOUS
<1> USE TunnelAssumption DEF Init, Stopped, Empty, Way, Step
<1>1. TypeOK
  <2>1. chunk \in [Conn -> [Way -> 0 .. CopyBuffer]]
    <3>1. Empty \in [Way -> 0 .. CopyBuffer]
      OBVIOUS
    <3> QED
      BY <3>1 DEF Init
  <2>2. pump \in [Conn -> [Way -> {"read", "write", "count", "done"}]]
    OBVIOUS
  <2> QED
    BY <2>1, <2>2 DEF TypeOK
<1>2. CappedInv
  BY DEF CappedInv, Overrun
<1>3. PumpsAreAwaited
  BY DEF PumpsAreAwaited
<1>4. SlotsAreHeld
  <2>1. ASSUME NEW t \in Token PROVE Holders(t) = {}
    BY DEF Holders
  <2>2. \A t \in Token : Cardinality(Holders(t)) = 0
    BY <2>1, FS_EmptySet
  <2> QED
    BY <2>2 DEF SlotsAreHeld
<1>5. RecentIsSeen /\ recent \cap stale = {}
  BY DEF RecentIsSeen
<1> QED
  BY <1>1, <1>2, <1>3, <1>4, <1>5 DEF TunnelInv

-----------------------------------------------------------------------------
(* handle *)

\* The steps of handle before a slot is taken.
LEMMA BeforeKeeps ==
  ASSUME TunnelInv, NEW c \in Conn,
         Accept(c) \/ ReadHandshake(c) \/ CheckAndAdd(c) \/ CheckPolicy(c)
  PROVE  TunnelInv'
<1>0. /\ TypeOK /\ CappedInv /\ PumpsAreAwaited /\ SlotsAreHeld
      /\ RecentIsSeen /\ recent \cap stale = {}
  BY DEF TunnelInv
<1>1. PICK from \in {"free", "handshake", "nonce", "policy"},
           to \in {"free", "handshake", "nonce", "policy", "acquire"} :
        Move(c, from, to)
  BY DEF Accept, ReadHandshake, CheckAndAdd, CheckPolicy
<1>2. /\ UNCHANGED <<pump, chunk, total, cur>>
      /\ req' \in [Conn -> Handshake]
      /\ \A d \in Conn : d # c => req'[d] = req[d]
  BY <1>0 DEF Accept, ReadHandshake, CheckAndAdd, CheckPolicy, pumpVars,
              TypeOK
<1>3. /\ at' \in [Conn -> Step]
      /\ at'[c] = to /\ at[c] = from
      /\ \A d \in Conn : d # c => at'[d] = at[d]
  BY <1>0, <1>1 DEF Move, TypeOK, Step
<1>4. /\ seen' \subseteq Handshake /\ stale' \subseteq Handshake
      /\ recent' \subseteq Handshake /\ reset' \in BOOLEAN
      /\ RecentIsSeen' /\ recent' \cap stale' = {}
  <2>1. CASE UNCHANGED nonceVars
    BY <1>0, <2>1 DEF nonceVars, TypeOK, RecentIsSeen
  <2>2. CASE CheckAndAdd(c)
    <3> DEFINE full == Cardinality(Kept) >= MaxSeen
               kept == IF full THEN {} ELSE Kept
    <3>1. /\ stale' = stale \cap kept
          /\ reset' = (reset \/ full)
          /\ \/ seen' = kept /\ recent' = recent
             \/ /\ req[c] \notin kept
                /\ seen' = kept \cup {req[c]} /\ recent' = recent \cup {req[c]}
      BY <2>2 DEF CheckAndAdd
    <3>2. Kept \subseteq seen /\ seen \ stale \subseteq Kept
      BY DEF Kept
    <3>3. kept \subseteq seen /\ (full \/ Kept \subseteq kept)
      BY <3>2
    <3> HIDE DEF full, kept
    <3>4. req[c] \in Handshake
      BY <1>0 DEF TypeOK
    <3>5. /\ seen' \subseteq Handshake /\ stale' \subseteq Handshake
          /\ recent' \subseteq Handshake
      BY <1>0, <3>1, <3>3, <3>4 DEF TypeOK
    <3>6. reset' \in BOOLEAN
      BY <3>1
    <3>7. recent' \cap stale' = {}
      BY <1>0, <3>1
    <3>8. RecentIsSeen'
      BY <1>0, <3>1, <3>2, <3>3 DEF RecentIsSeen
    <3> QED
      BY <3>5, <3>6, <3>7, <3>8
  <2> QED
    BY <2>1, <2>2 DEF Accept, ReadHandshake, CheckPolicy
<1>5. TypeOK'
  BY <1>0, <1>2, <1>3, <1>4 DEF TypeOK
<1>6. CappedInv'
  BY <1>0, <1>1, <1>2, <1>3 DEF CappedInv, Overrun
<1>7. PumpsAreAwaited'
  BY <1>0, <1>1, <1>2, <1>3 DEF PumpsAreAwaited
<1>8. SlotsAreHeld'
  <2>1. \A d \in Conn : at'[d] \in Holding <=> at[d] \in Holding
    BY <1>1, <1>3 DEF Holding
  <2>2. \A d \in Conn : at[d] \in Holding => req'[d] = req[d]
    BY <1>1, <1>2, <1>3 DEF Holding
  <2> QED
    BY <1>0, <1>2, <2>1, <2>2, SlotsStay
<1> QED
  BY <1>4, <1>5, <1>6, <1>7, <1>8 DEF TunnelInv

\* Acquire counts the connection it lets through.
LEMMA AcquireKeeps ==
  ASSUME TunnelInv, NEW c \in Conn, Acquire(c)
  PROVE  TunnelInv'
<1>0. /\ TypeOK /\ CappedInv /\ PumpsAreAwaited /\ SlotsAreHeld
      /\ RecentIsSeen /\ recent \cap stale = {}
  BY DEF TunnelInv
<1>1. UNCHANGED <<req, pump, chunk, total, seen, stale, recent, reset>>
  BY DEF Acquire, pumpVars, nonceVars
<1>2. PICK t \in Token : t = req[c].token /\ at[c] = "acquire"
  BY <1>0 DEF TypeOK, Handshake, Acquire, Move
<1>3. /\ at' \in [Conn -> Step] /\ at'[c] \in {"dial", "free"}
      /\ \A d \in Conn : d # c => at'[d] = at[d]
  BY <1>0 DEF Acquire, Move, TypeOK, Step
<1>4. cur' \in [Token -> Nat]
  BY <1>0, <1>2 DEF Acquire, TypeOK
<1>5. TypeOK'
  BY <1>0, <1>1, <1>3, <1>4 DEF TypeOK
<1>6. CappedInv' /\ PumpsAreAwaited'
  BY <1>0, <1>1, <1>2, <1>3 DEF CappedInv, PumpsAreAwaited, Overrun
<1>7. SlotsAreHeld'
  <2>1. CASE cur' = cur /\ at'[c] = "free"
    BY <1>0, <1>1, <1>2, <1>3, <2>1, SlotsStay DEF Holding
  <2>2. CASE /\ at'[c] = "dial" /\ cur[t] < MaxConnsPerToken
             /\ cur' = [cur EXCEPT ![t] = @ + 1]
    <3>1. Holders(t)' = Holders(t) \cup {c} /\ c \notin Holders(t)
      BY <1>1, <1>2, <1>3, <2>2 DEF Holders
    <3>2. \A u \in Token : u # t => Holders(u)' = Holders(u)
      BY <1>1, <1>2, <1>3 DEF Holders
    <3>3. Cardinality(Holders(t)') = Cardinality(Holders(t)) + 1
      BY <1>2, <3>1, HoldersFinite, FS_AddElement
    <3>4. cur'[t] = cur[t] + 1 /\ \A u \in Token : u # t => cur'[u] = cur[u]
      BY <1>0, <1>2, <2>2 DEF TypeOK
    <3>5. cur[t] \in Nat /\ cur[t] + 1 <= MaxConnsPerToken
      BY <1>0, <1>2, <2>2, TunnelAssumption DEF TypeOK
    <3>6. Cardinality(Holders(t)) = cur[t]
      BY <1>0, <1>2 DEF SlotsAreHeld
    <3>7. ASSUME NEW u \in Token
          PROVE  /\ cur'[u] = Cardinality(Holders(u)')
                 /\ cur'[u] <= MaxConnsPerToken
      <4>1. CASE u = t
        BY <3>3, <3>4, <3>5, <3>6, <4>1
      <4>2. CASE u # t
        BY <1>0, <3>2, <3>4, <4>2 DEF SlotsAreHeld
      <4> QED
        BY <4>1, <4>2
    <3> QED
      BY <3>7 DEF SlotsAreHeld
  <2> QED
    BY <1>0, <1>2, <2>1, <2>2 DEF Acquire, Move, TypeOK
<1>8. (RecentIsSeen /\ recent \cap stale = {})'
  BY <1>0, <1>1 DEF RecentIsSeen
<1> QED
  BY <1>5, <1>6, <1>7, <1>8 DEF TunnelInv

\* The deferred release takes back what Acquire counted.
LEMMA ReleaseKeeps ==
  ASSUME TunnelInv, NEW c \in Conn, Release(c)
  PROVE  TunnelInv'
<1>0. /\ TypeOK /\ CappedInv /\ PumpsAreAwaited /\ SlotsAreHeld
      /\ RecentIsSeen /\ recent \cap stale = {}
  BY DEF TunnelInv
<1>1. UNCHANGED <<req, pump, chunk, seen, stale, recent, reset>>
  BY DEF Release, nonceVars
<1>2. PICK t \in Token : t = req[c].token /\ at[c] = "release"
  BY <1>0 DEF TypeOK, Handshake, Release, Move
<1>3. /\ at' \in [Conn -> Step] /\ at'[c] = "free"
      /\ \A d \in Conn : d # c => at'[d] = at[d]
  BY <1>0 DEF Release, Move, TypeOK, Step
<1>4. /\ total' \in [Conn -> Nat] /\ total'[c] = 0
      /\ \A d \in Conn : d # c => total'[d] = total[d]
  BY <1>0 DEF Release, TypeOK
<1>5. /\ Holders(t)' = Holders(t) \ {c} /\ c \in Holders(t)
      /\ \A u \in Token : u # t => Holders(u)' = Holders(u)
  BY <1>1, <1>2, <1>3 DEF Holders
<1>6. /\ Cardinality(Holders(t)') = Cardinality(Holders(t)) - 1
      /\ cur[t] = Cardinality(Holders(t)) /\ cur[t] \in Nat
      /\ Cardinality(Holders(t)) # 0
  <2>1. IsFiniteSet(Holders(t)) /\ Holders(t) # {}
    BY <1>2, <1>5, HoldersFinite
  <2>2. Cardinality(Holders(t)') = Cardinality(Holders(t)) - 1
    BY <1>5, <2>1, FS_RemoveElement
  <2>3. Cardinality(Holders(t)) # 0
    BY <2>1, FS_EmptySet
  <2> QED
    BY <1>0, <1>2, <2>2, <2>3 DEF SlotsAreHeld, TypeOK
<1>7. /\ cur' \in [Token -> Nat] /\ cur'[t] = cur[t] - 1
      /\ \A u \in Token : u # t => cur'[u] = cur[u]
  <2>1. cur[t] - 1 \in Nat
    BY <1>6
  <2>2. cur \in [Token -> Nat] /\ cur' = [cur EXCEPT ![t] = @ - 1]
    BY <1>0, <1>2 DEF TypeOK, Release
  <2> QED
    BY <1>2, <2>1, <2>2
<1>8. TypeOK'
  BY <1>0, <1>1, <1>3, <1>4, <1>7 DEF TypeOK
<1>9. CappedInv' /\ PumpsAreAwaited'
  BY <1>0, <1>1, <1>2, <1>3, <1>4, TunnelAssumption
     DEF CappedInv, PumpsAreAwaited, Overrun
<1>10. SlotsAreHeld'
  <2>1. ASSUME NEW u \in Token
        PROVE  /\ cur'[u] = Cardinality(Holders(u)')
               /\ cur'[u] <= MaxConnsPerToken
    <3>1. cur[u] = Cardinality(Holders(u)) /\ cur[u] <= MaxConnsPerToken
      BY <1>0 DEF SlotsAreHeld
    <3>2. CASE u = t
      BY <1>6, <1>7, <3>1, <3>2, TunnelAssumption
    <3>3. CASE u # t
      BY <1>5, <1>7, <3>1, <3>3
    <3> QED
      BY <3>2, <3>3
  <2> QED
    BY <2>1 DEF SlotsAreHeld
<1>11. (RecentIsSeen /\ recent \cap stale = {})'
  BY <1>0, <1>1 DEF RecentIsSeen
<1> QED
  BY <1>8, <1>9, <1>10, <1>11 DEF TunnelInv

\* The steps of handle while it holds the slot.
LEMMA HoldingKeeps ==
  ASSUME TunnelInv, NEW c \in Conn,
         Dial(c) \/ Reply(c) \/ FirstDone(c) \/ SecondDone(c)
  PROVE  TunnelInv'
<1>0. /\ TypeOK /\ CappedInv /\ PumpsAreAwaited /\ SlotsAreHeld
      /\ RecentIsSeen /\ recent \cap stale = {}
  BY DEF TunnelInv
<1>1. UNCHANGED <<req, chunk, total, cur, seen, stale, recent, reset>>
  BY DEF Dial, Reply, FirstDone, SecondDone, pumpVars, nonceVars
<1>2. PICK from \in {"dial", "reply", "pump", "drain"},
           to \in {"reply", "pump", "drain", "release"} :
        Move(c, from, to) /\ (to = "reply" => from = "dial")
  BY DEF Dial, Reply, FirstDone, SecondDone
<1>3. /\ at' \in [Conn -> Step] /\ at[c] = from /\ at'[c] = to
      /\ \A d \in Conn : d # c => at'[d] = at[d]
  BY <1>0, <1>2 DEF Move, TypeOK, Step
<1>4. /\ pump' \in [Conn -> [Way -> {"read", "write", "count", "done"}]]
      /\ \A d \in Conn : d # c => pump'[d] = pump[d]
      /\ \/ pump'[c] = pump[c]
         \/ at'[c] = "pump" /\ at[c] = "reply"
  <2>1. pump \in [Conn -> [Way -> {"read", "write", "count", "done"}]]
    BY <1>0 DEF TypeOK
  <2>2. CASE pump' = pump
    BY <2>1, <2>2
  <2>3. CASE /\ pump' = [pump EXCEPT ![c] = [w \in Way |-> "read"]]
             /\ Move(c, "reply", "pump")
    <3>1. [w \in Way |-> "read"]
            \in [Way -> {"read", "write", "count", "done"}]
      OBVIOUS
    <3>2. at[c] = "reply" /\ at'[c] = "pump"
      BY <1>0, <2>3 DEF Move, TypeOK
    <3> QED
      BY <2>1, <2>3, <3>1, <3>2
  <2> QED
    BY <2>2, <2>3 DEF Dial, Reply, FirstDone, SecondDone, pumpVars
<1>5. TypeOK'
  BY <1>0, <1>1, <1>3, <1>4 DEF TypeOK
<1>6. PumpsAreAwaited'
  <2>1. CASE at'[c] \in {"pump", "drain"}
    BY <1>0, <1>3, <1>4, <2>1 DEF PumpsAreAwaited
  <2>2. CASE Dial(c) \/ Reply(c)
    BY <1>0, <1>3, <1>4, <2>2 DEF PumpsAreAwaited, Dial, Reply, Move
  <2>3. CASE SecondDone(c)
    <3>1. \A w \in Way : pump[c][w] = "done"
      BY <2>3 DEF SecondDone, Ended
    <3>2. pump[c] = Stopped /\ pump' = pump
      BY <1>0, <2>3, <3>1 DEF SecondDone, pumpVars, TypeOK, Stopped
    <3> QED
      BY <1>0, <1>3, <1>4, <3>2 DEF PumpsAreAwaited
  <2> QED
    BY <1>2, <1>3, <2>1, <2>2, <2>3 DEF FirstDone, Move
<1>7. CappedInv'
  <2>1. ASSUME NEW d \in Conn
        PROVE  /\ total'[d] <= MaxBytesPerConn + Overrun(d, "up")'
                                 + Overrun(d, "down")'
               /\ at'[d] \notin {"pump", "drain", "release"} => total'[d] = 0
    <3>1. CASE pump'[d] = pump[d]
      <4>1. at'[d] \notin {"pump", "drain", "release"}
              => at[d] \notin {"pump", "drain", "release"}
        BY <1>2, <1>3
      <4>2. /\ total'[d] = total[d]
            /\ Overrun(d, "up")' = Overrun(d, "up")
            /\ Overrun(d, "down")' = Overrun(d, "down")
        BY <1>1, <3>1 DEF Overrun
      <4> QED
        BY <1>0, <4>1, <4>2 DEF CappedInv
    <3>2. CASE d = c /\ at'[c] = "pump" /\ at[c] = "reply"
      BY <1>0, <1>1, <3>2, TunnelAssumption DEF CappedInv, Overrun
    <3> QED
      BY <1>4, <3>1, <3>2
  <2> QED
    BY <2>1 DEF CappedInv
<1>8. SlotsAreHeld'
  BY <1>0, <1>1, <1>2, <1>3, SlotsStay DEF Holding
<1>9. (RecentIsSeen /\ recent \cap stale = {})'
  BY <1>0, <1>1 DEF RecentIsSeen
<1> QED
  BY <1>5, <1>6, <1>7, <1>8, <1>9 DEF TunnelInv

-----------------------------------------------------------------------------
(* The pumps *)

\* A pump works only while the handler waits for it; a step of it changes
\* nothing but its own state and the count.
LEMMA PumpKeeps ==
  ASSUME TunnelInv, NEW c \in Conn, NEW w \in Way, Pump(c, w)
  PROVE  TunnelInv'
<1>0. /\ TypeOK /\ CappedInv /\ PumpsAreAwaited /\ SlotsAreHeld
      /\ RecentIsSeen /\ recent \cap stale = {}
  BY DEF TunnelInv
<1>1. UNCHANGED <<at, req, cur, seen, stale, recent, reset>>
  BY DEF Pump, PumpRead, PumpWrite, PumpCount, nonceVars
<1>2. /\ pump \in [Conn -> [Way -> {"read", "write", "count", "done"}]]
      /\ chunk \in [Conn -> [Way -> 0 .. CopyBuffer]]
      /\ total \in [Conn -> Nat]
  BY <1>0 DEF TypeOK
<1>3. PICK step \in {"read", "write", "count", "done"} : PumpTo(c, w, step)
  BY DEF Pump, PumpRead, PumpWrite, PumpCount
<1>4. /\ pump' \in [Conn -> [Way -> {"read", "write", "count", "done"}]]
      /\ pump'[c][w] = step
      /\ \A x \in Way : x # w => pump'[c][x] = pump[c][x]
      /\ \A d \in Conn : d # c => pump'[d] = pump[d]
  BY <1>2, <1>3 DEF PumpTo
<1>5. PICK n \in 0 .. CopyBuffer :
        chunk' = chunk \/ chunk' = [chunk EXCEPT ![c][w] = n]
  <2>1. 0 \in 0 .. CopyBuffer /\ 1 .. CopyBuffer \subseteq 0 .. CopyBuffer
    BY TunnelAssumption
  <2>2. CASE PumpRead(c, w)
    BY <2>1, <2>2 DEF PumpRead
  <2>3. CASE PumpWrite(c, w)
    BY <2>1, <2>3 DEF PumpWrite
  <2>4. CASE PumpCount(c, w)
    BY <2>1, <2>4 DEF PumpCount
  <2> QED
    BY <2>2, <2>3, <2>4 DEF Pump
<1>6. chunk' \in [Conn -> [Way -> 0 .. CopyBuffer]]
  <2>1. CASE chunk' = chunk
    BY <1>2, <2>1
  <2>2. CASE chunk' = [chunk EXCEPT ![c][w] = n]
    <3>1. [chunk[c] EXCEPT ![w] = n] \in [Way -> 0 .. CopyBuffer]
      BY <1>2
    <3> QED
      BY <1>2, <2>2, <3>1
  <2> QED
    BY <1>5, <2>1, <2>2
<1>7. pump[c][w] \in {"read", "write", "count"}
  BY DEF Pump, PumpRead, PumpWrite, PumpCount
<1>8. at[c] \in {"pump", "drain"}
  BY <1>0, <1>7 DEF PumpsAreAwaited, Stopped
<1>9. /\ chunk[c][w] \in 0 .. CopyBuffer /\ total[c] \in Nat
      /\ CopyBuffer \in Nat /\ MaxBytesPerConn \in Nat
  BY <1>2, TunnelAssumption
<1>10. /\ total' \in [Conn -> Nat]
       /\ \A d \in Conn : d # c => total'[d] = total[d]
       /\ \/ total' = total
          \/ /\ pump[c][w] = "count" /\ total'[c] = total[c] + chunk[c][w]
             /\ total'[c] > MaxBytesPerConn => step = "done"
  <2>1. CASE PumpRead(c, w) \/ PumpWrite(c, w)
    BY <1>2, <2>1 DEF PumpRead, PumpWrite
  <2>2. CASE PumpCount(c, w)
    <3>1. total' = [total EXCEPT ![c] = @ + chunk[c][w]]
      BY <2>2 DEF PumpCount
    <3>2. total[c] + chunk[c][w] \in Nat
      BY <1>9
    <3>3. pump'[c][w] = IF total'[c] > MaxBytesPerConn THEN "done" ELSE "read"
      BY <1>2, <2>2 DEF PumpCount, PumpTo
    <3> QED
      BY <1>2, <1>4, <2>2, <3>1, <3>2, <3>3 DEF PumpCount
  <2> QED
    BY <2>1, <2>2 DEF Pump
<1>11. TypeOK'
  BY <1>0, <1>1, <1>4, <1>6, <1>10 DEF TypeOK
<1>12. PumpsAreAwaited'
  BY <1>0, <1>1, <1>4, <1>8 DEF PumpsAreAwaited
<1>13. CappedInv'
  <2>1. ASSUME NEW d \in Conn, d # c
        PROVE  /\ total'[d] <= MaxBytesPerConn + Overrun(d, "up")'
                                 + Overrun(d, "down")'
               /\ at'[d] \notin {"pump", "drain", "release"} => total'[d] = 0
    <3>1. Overrun(d, "up")' = Overrun(d, "up")
          /\ Overrun(d, "down")' = Overrun(d, "down")
      BY <1>4, <2>1 DEF Overrun
    <3> QED
      BY <1>0, <1>1, <1>10, <2>1, <3>1 DEF CappedInv
  <2>2. total'[c] <= MaxBytesPerConn + Overrun(c, "up")' + Overrun(c, "down")'
    <3>1. total[c] <= MaxBytesPerConn + Overrun(c, "up") + Overrun(c, "down")
      BY <1>0 DEF CappedInv
    <3>2. /\ Overrun(c, "up")'
               = IF pump'[c]["up"] = "done" THEN CopyBuffer ELSE 0
          /\ Overrun(c, "down")'
               = IF pump'[c]["down"] = "done" THEN CopyBuffer ELSE 0
      BY DEF Overrun
    <3>3. CASE w = "up"
      <4>1. Overrun(c, "up") = 0 /\ Overrun(c, "down")' = Overrun(c, "down")
        BY <1>4, <1>7, <3>2, <3>3 DEF Overrun, Way
      <4>2. Overrun(c, "up")' = IF step = "done" THEN CopyBuffer ELSE 0
        BY <1>4, <3>2, <3>3
      <4>3. Overrun(c, "down") \in {0, CopyBuffer}
        BY DEF Overrun
      <4> QED
        BY <1>9, <1>10, <3>1, <3>3, <4>1, <4>2, <4>3
    <3>4. CASE w = "down"
      <4>1. Overrun(c, "down") = 0 /\ Overrun(c, "up")' = Overrun(c, "up")
        BY <1>4, <1>7, <3>2, <3>4 DEF Overrun, Way
      <4>2. Overrun(c, "down")' = IF step = "done" THEN CopyBuffer ELSE 0
        BY <1>4, <3>2, <3>4
      <4>3. Overrun(c, "up") \in {0, CopyBuffer}
        BY DEF Overrun
      <4> QED
        BY <1>9, <1>10, <3>1, <3>4, <4>1, <4>2, <4>3
    <3> QED
      BY <3>3, <3>4 DEF Way
  <2>3. at'[c] \notin {"pump", "drain", "release"} => total'[c] = 0
    BY <1>1, <1>8
  <2> QED
    BY <2>1, <2>2, <2>3 DEF CappedInv
<1>14. SlotsAreHeld'
  BY <1>0, <1>1, SlotsStay
<1>15. (RecentIsSeen /\ recent \cap stale = {})'
  BY <1>0, <1>1 DEF RecentIsSeen
<1> QED
  BY <1>11, <1>12, <1>13, <1>14, <1>15 DEF TunnelInv

LEMMA TimePassesKeeps ==
  ASSUME TunnelInv, TimePasses
  PROVE  TunnelInv'
<1>0. /\ TypeOK /\ CappedInv /\ PumpsAreAwaited /\ SlotsAreHeld
  BY DEF TunnelInv
<1>1. /\ UNCHANGED <<at, req, pump, chunk, total, cur, seen, reset>>
      /\ stale' = seen /\ recent' = {}
  BY DEF TimePasses, pumpVars
<1>2. TypeOK'
  BY <1>0, <1>1 DEF TypeOK
<1>3. (CappedInv /\ PumpsAreAwaited)'
  BY <1>0, <1>1 DEF CappedInv, PumpsAreAwaited, Overrun
<1>4. SlotsAreHeld'
  BY <1>0, <1>1, SlotsStay
<1>5. (RecentIsSeen /\ recent \cap stale = {})'
  BY <1>1 DEF RecentIsSeen
<1> QED
  BY <1>2, <1>3, <1>4, <1>5 DEF TunnelInv

LEMMA TunnelStutter ==
  ASSUME TunnelInv, UNCHANGED vars
  PROVE  TunnelInv'
<1>1. UNCHANGED <<at, req, pump, chunk, total, cur, seen, stale, recent, reset>>
  BY DEF vars, pumpVars, nonceVars
<1>2. SlotsAreHeld'
  BY <1>1, SlotsStay DEF TunnelInv
<1> QED
  BY <1>1, <1>2 DEF TunnelInv, TypeOK, CappedInv, PumpsAreAwaited, Overrun,
                    RecentIsSeen

-----------------------------------------------------------------------------

\* The inductive invariant of the tunnel.
THEOREM TunnelInvariant == Spec => []TunnelInv
<1>1. Init => TunnelInv
  BY InitTunnel
<1>2. TunnelInv /\ [Next]_vars => TunnelInv'
  BY BeforeKeeps, AcquireKeeps, HoldingKeeps, ReleaseKeeps, PumpKeeps,
     TimePassesKeeps, TunnelStutter DEF Next, Handle
<1> QED
  BY <1>1, <1>2, PTL DEF Spec

\* A token's count is the number of its connections, on every path out of
\* handle, and never passes the limit.
THEOREM SlotsTheorem == Spec => []SlotsAreHeld
<1>1. TunnelInv => SlotsAreHeld
  BY DEF TunnelInv
<1> QED
  BY <1>1, TunnelInvariant, PTL

\* The two pumps together exceed the cap by at most a buffer each.
THEOREM CapTheorem == Spec => []BytesAreCapped
<1>1. TunnelInv => BytesAreCapped
  <2> SUFFICES ASSUME TunnelInv, NEW c \in Conn
               PROVE  total[c] <= MaxBytesPerConn + 2 * CopyBuffer
    BY DEF BytesAreCapped
  <2>1. total[c] <= MaxBytesPerConn + Overrun(c, "up") + Overrun(c, "down")
    BY DEF TunnelInv, CappedInv
  <2>2. Overrun(c, "up") \in {0, CopyBuffer}
        /\ Overrun(c, "down") \in {0, CopyBuffer}
    BY DEF Overrun
  <2>3. total[c] \in Nat
    BY DEF TunnelInv, TypeOK
  <2> QED
    BY <2>1, <2>2, <2>3, TunnelAssumption
<1> QED
  BY <1>1, TunnelInvariant, PTL

\* A slot is free only when nothing flows in its name any more.
THEOREM AwaitedTheorem == Spec => []PumpsAreAwaited
<1>1. TunnelInv => PumpsAreAwaited
  BY DEF TunnelInv
<1> QED
  BY <1>1, TunnelInvariant, PTL

\* A nonce accepted within the ttl is remembered until the store is emptied.
THEOREM NonceTheorem == Spec => []RecentIsSeen
<1>1. TunnelInv => RecentIsSeen
  BY DEF TunnelInv
<1> QED
  BY <1>1, TunnelInvariant, PTL
=============================================================================
