-------------------------- MODULE Envelope_proofs ---------------------------
(***************************************************************************)
(* Theorems about Envelope, for any number of requests and participants.   *)
(* For any interleaving of their steps: types, what a signature rests on,  *)
(* and the coherence of the envelope's row.  As long as nobody joins or    *)
(* leaves: what COMPLETED means.  For requests that do not overlap: the    *)
(* row between requests, and that they implement EnvelopeLifecycle.        *)
(***************************************************************************)
EXTENDS Envelope, TLAPS

(***************************************************************************)
(* Types                                                                   *)
(***************************************************************************)
\* A new envelope's row is a row.
LEMMA DraftType == DraftEnvelope \in EnvelopeRow
PROOF BY DEF DraftEnvelope, EnvelopeRow, Open

\* So is what an idle request holds a request's state.
LEMMA IdleType == Idle \in RequestState
PROOF BY DraftType DEF Idle, RequestState, RequestSteps

\* Writing an entity over the envelope row leaves an envelope row.
LEMMA WriteType ==
  ASSUME env \in EnvelopeRow, NEW entity \in EnvelopeRow, WriteEntity(entity)
  PROVE  env' \in EnvelopeRow
PROOF BY DEF WriteEntity, Kept, EnvelopeRow

\* The three ways a request moves keep every request's state well typed.
LEMMA BeginType ==
  ASSUME req \in [Requests -> RequestState], NEW r \in Requests,
         NEW state \in RequestState, Begin(r, state)
  PROVE  req' \in [Requests -> RequestState]
PROOF BY DEF Begin

LEMMA GotoType ==
  ASSUME req \in [Requests -> RequestState], NEW r \in Requests,
         NEW step \in RequestSteps, Goto(r, step)
  PROVE  req' \in [Requests -> RequestState]
PROOF BY DEF Goto, RequestState

LEMMA EndType ==
  ASSUME req \in [Requests -> RequestState], NEW r \in Requests, End(r)
  PROVE  req' \in [Requests -> RequestState]
PROOF BY IdleType DEF End, RequestState, RequestSteps

LEMMA RefuseType ==
  ASSUME TypeOK, NEW r \in Requests, Refuse(r)
  PROVE  TypeOK'
PROOF BY EndType DEF Refuse, TypeOK

\* The entities the use cases write back are envelope rows.
LEMMA EntityTypes ==
  ASSUME TypeOK
  PROVE  /\ [env EXCEPT !.status = "READY_FOR_SIGNATURE", !.sentAt = TRUE] \in EnvelopeRow
         /\ [env EXCEPT !.status = "CANCELLED", !.cancelledAt = TRUE] \in EnvelopeRow
         /\ [env EXCEPT !.status = "COMPLETED", !.completedAt = TRUE] \in EnvelopeRow
         /\ \A s \in Participants :
              [env EXCEPT !.status = "DECLINED", !.declinedAt = TRUE,
                          !.declinedBy = s] \in EnvelopeRow
PROOF BY DEF TypeOK, EnvelopeRow, Open, Final

\* A row of a participant that is not there, or has just been created.
LEMMA RowTypes ==
  /\ NoRow("ABSENT") \in SignerRow
  /\ NoRow("REMOVED") \in SignerRow
  /\ \A b \in BOOLEAN : [NoRow("PENDING") EXCEPT !.invited = b] \in SignerRow
PROOF BY DEF NoRow, SignerRow, InRoster

\* Initially the types hold.
LEMMA TypeInit == Init => TypeOK
PROOF
<1> SUFFICES ASSUME Init PROVE TypeOK
    OBVIOUS
<1>1. env \in EnvelopeRow
      BY DraftType DEF Init, EnvelopeRow, Open
<1>2. row \in [Participants -> SignerRow]
  <2>1. PICK sent \in BOOLEAN :
          row = [s \in Participants |->
                  IF s \in Roster
                  THEN [NoRow("PENDING") EXCEPT !.invited = sent /\ s \in External]
                  ELSE NoRow("ABSENT")]
        BY DEF Init
  <2> QED
      BY <2>1, RowTypes
<1>3. req \in [Requests -> RequestState]
      BY IdleType DEF Init
<1> QED
    BY <1>1, <1>2, <1>3 DEF Init, TypeOK

\* Sending keeps the types.
LEMMA TypeSending ==
  ASSUME TypeOK, NEW r \in Requests, Sending(r)
  PROVE  TypeOK'
PROOF
<1>1. ASSUME NEW targets \in SUBSET (Present \intersect External)
      PROVE  [Idle EXCEPT !.pc = "send_tokens", !.add = targets] \in RequestState
      BY IdleType DEF RequestState, RequestSteps, Present
<1>2. CASE SendRead(r)
  <2>1. [Idle EXCEPT !.pc = "send_write",
                     !.seen = [env EXCEPT !.status = "READY_FOR_SIGNATURE",
                                          !.sentAt = TRUE]] \in RequestState
        BY IdleType, EntityTypes DEF RequestState, RequestSteps
  <2> QED
      BY <1>1, <1>2, <2>1, BeginType DEF SendRead, TypeOK
<1>3. CASE SendWrite(r)
  <2>1. CASE Writable(req[r].seen)
    <3>1. req[r].seen \in EnvelopeRow
          BY DEF TypeOK, RequestState
    <3> QED
        BY <1>1, <1>3, <2>1, <3>1, WriteType, BeginType DEF SendWrite, TypeOK
  <2>2. CASE ~Writable(req[r].seen)
        BY <1>3, <2>2, RefuseType DEF SendWrite
  <2> QED BY <2>1, <2>2
<1>4. CASE SendToken(r)
  <2>1. ASSUME NEW s \in Present,
               row' = [row EXCEPT ![s].invited = TRUE],
               req' = [req EXCEPT ![r].add = @ \ {s}],
               UNCHANGED <<env, stored>>
        PROVE  TypeOK'
    <3>1. row' \in [Participants -> SignerRow]
          BY <2>1 DEF TypeOK, SignerRow, Present
    <3>2. req' \in [Requests -> RequestState]
          BY <2>1 DEF TypeOK, RequestState
    <3> QED BY <2>1, <3>1, <3>2 DEF TypeOK
  <2> QED
      BY <1>4, <2>1, RefuseType DEF SendToken
<1>5. CASE SendDone(r)
      BY <1>5, RefuseType DEF SendDone
<1> QED
    BY <1>2, <1>3, <1>4, <1>5 DEF Sending

\* Cancelling keeps the types.
LEMMA TypeCancelling ==
  ASSUME TypeOK, NEW r \in Requests, Cancelling(r)
  PROVE  TypeOK'
PROOF
<1>1. CASE CancelRead(r)
  <2>1. [Idle EXCEPT !.pc = "cancel_write",
                     !.seen = [env EXCEPT !.status = "CANCELLED",
                                          !.cancelledAt = TRUE]] \in RequestState
        BY IdleType, EntityTypes DEF RequestState, RequestSteps
  <2> QED
      BY <1>1, <2>1, BeginType DEF CancelRead, TypeOK
<1>2. CASE CancelWrite(r)
  <2>1. req[r].seen \in EnvelopeRow
        BY DEF TypeOK, RequestState
  <2> QED
      BY <1>2, <2>1, WriteType, EndType, RefuseType DEF CancelWrite, TypeOK
<1> QED
    BY <1>1, <1>2 DEF Cancelling

\* Updating keeps the types.
LEMMA TypeUpdating ==
  ASSUME TypeOK, NEW r \in Requests, Updating(r)
  PROVE  TypeOK'
PROOF
<1>1. CASE UpdateRead(r)
  <2>1. ASSUME NEW add \in SUBSET {s \in Participants \ Viewers : HasStatus(s, "ABSENT")},
               NEW remove \in SUBSET Present
        PROVE  [Idle EXCEPT !.pc = "update_write", !.seen = env,
                            !.add = add, !.remove = remove] \in RequestState
        BY IdleType DEF RequestState, RequestSteps, Present, TypeOK
  <2> QED
      BY <1>1, <2>1, BeginType DEF UpdateRead, TypeOK
<1>2. CASE UpdateWrite(r)
  <2>1. CASE Writable(req[r].seen)
    <3>1. req[r].seen \in EnvelopeRow
          BY DEF TypeOK, RequestState
    <3>2. env' \in EnvelopeRow
          BY <1>2, <2>1, <3>1, WriteType DEF UpdateWrite, TypeOK
    <3>3. req' \in [Requests -> RequestState]
          BY <1>2, <2>1, DraftType DEF UpdateWrite, TypeOK, RequestState, RequestSteps
    <3> QED
        BY <1>2, <2>1, <3>2, <3>3 DEF UpdateWrite, TypeOK
  <2>2. CASE ~Writable(req[r].seen)
        BY <1>2, <2>2, RefuseType DEF UpdateWrite
  <2> QED BY <2>1, <2>2
<1>3. CASE UpdateAdd(r)
  <2>1. ASSUME NEW s \in req[r].add,
               row' = [row EXCEPT ![s].status = "PENDING"],
               req' = [req EXCEPT ![r].add = @ \ {s}],
               UNCHANGED <<env, stored>>
        PROVE  TypeOK'
    <3>1. row' \in [Participants -> SignerRow]
          BY <2>1 DEF TypeOK, SignerRow, RequestState, InRoster
    <3>2. req' \in [Requests -> RequestState]
          BY <2>1 DEF TypeOK, RequestState
    <3> QED BY <2>1, <3>1, <3>2 DEF TypeOK
  <2> QED
      BY <1>3, <2>1, RefuseType DEF UpdateAdd
<1>4. CASE UpdateFindRemoved(r)
  <2>1. ASSUME NEW s \in Present,
               req' = [req EXCEPT ![r].pc = "update_delete", ![r].signer = s],
               UNCHANGED <<env, row, stored>>
        PROVE  TypeOK'
        BY <2>1 DEF TypeOK, RequestState, RequestSteps, Present
  <2> QED
      BY <1>4, <2>1, RefuseType DEF UpdateFindRemoved
<1>5. CASE UpdateDelete(r)
  <2> DEFINE s == req[r].signer
             allowed == s \in Present /\ ~(env.status = "DECLINED" /\ env.declinedBy = s)
  <2>1. CASE allowed
    <3>1. row' \in [Participants -> SignerRow]
          BY <1>5, <2>1, RowTypes DEF UpdateDelete, TypeOK
    <3>2. env' \in EnvelopeRow
          BY <1>5, <2>1 DEF UpdateDelete, TypeOK, EnvelopeRow
    <3>3. req' \in [Requests -> RequestState]
          BY <1>5, <2>1 DEF UpdateDelete, TypeOK, RequestState, RequestSteps
    <3> QED
        BY <1>5, <2>1, <3>1, <3>2, <3>3 DEF UpdateDelete, TypeOK
  <2>2. CASE ~allowed
        BY <1>5, <2>2, RefuseType DEF UpdateDelete
  <2> QED BY <2>1, <2>2
<1>6. CASE UpdateDone(r)
      BY <1>6, RefuseType DEF UpdateDone
<1> QED
    BY <1>1, <1>2, <1>3, <1>4, <1>5, <1>6 DEF Updating

\* Sharing keeps the types.
LEMMA TypeSharing ==
  ASSUME TypeOK, NEW r \in Requests, Sharing(r)
  PROVE  TypeOK'
PROOF
<1>1. CASE ShareRead(r)
  <2>1. ASSUME NEW v \in Viewers
        PROVE  [Idle EXCEPT !.pc = "share_create", !.signer = v] \in RequestState
        BY IdleType DEF RequestState, RequestSteps, Participants, External
  <2> QED
      BY <1>1, <2>1, BeginType DEF ShareRead, TypeOK
<1>2. CASE ShareCreate(r)
  <2>1. CASE HasStatus(req[r].signer, "ABSENT")
    <3>1. row' \in [Participants -> SignerRow]
          BY <1>2, <2>1 DEF ShareCreate, TypeOK, SignerRow, InRoster
    <3> QED
        BY <1>2, <2>1, <3>1, GotoType DEF ShareCreate, TypeOK, RequestSteps
  <2>2. CASE ~HasStatus(req[r].signer, "ABSENT")
        BY <1>2, <2>2, RefuseType DEF ShareCreate
  <2> QED BY <2>1, <2>2
<1>3. CASE ShareToken(r)
  <2>1. ASSUME req[r].signer \in Present,
               row' = [row EXCEPT ![req[r].signer].invited = TRUE],
               End(r), UNCHANGED <<env, stored>>
        PROVE  TypeOK'
    <3>1. row' \in [Participants -> SignerRow]
          BY <2>1 DEF TypeOK, SignerRow, Present
    <3> QED BY <2>1, <3>1, EndType DEF TypeOK
  <2> QED
      BY <1>3, <2>1, RefuseType DEF ShareToken
<1> QED
    BY <1>1, <1>2, <1>3 DEF Sharing

\* Signing keeps the types.
LEMMA TypeSigning ==
  ASSUME TypeOK, NEW r \in Requests, Signing(r)
  PROVE  TypeOK'
PROOF
<1> DEFINE s == req[r].signer
<1>1. CASE SignStart(r)
  <2>1. ASSUME NEW t \in Present
        PROVE  /\ [Idle EXCEPT !.pc = "sign_validate_owner", !.signer = t] \in RequestState
               /\ [Idle EXCEPT !.pc = "sign_validate", !.signer = t] \in RequestState
        BY IdleType DEF RequestState, RequestSteps, SignSteps, Present
  <2> QED
      BY <1>1, <2>1, BeginType DEF SignStart, TypeOK
<1>2. CASE SignValidate(r)
      BY <1>2, RefuseType, GotoType DEF SignValidate, TypeOK, RequestSteps, SignSteps
<1>3. CASE SignConsent(r)
  <2>1. CASE s \in Present /\ ~row[s].consent
    <3>1. row' \in [Participants -> SignerRow]
          BY <1>3, <2>1 DEF SignConsent, TypeOK, SignerRow, Present
    <3> QED
        BY <1>3, <2>1, <3>1, GotoType DEF SignConsent, TypeOK, RequestSteps, SignSteps
  <2>2. CASE ~(s \in Present /\ ~row[s].consent)
        BY <1>3, <2>2, RefuseType DEF SignConsent
  <2> QED BY <2>1, <2>2
<1>4. CASE SignDocument(r)
      BY <1>4, GotoType DEF SignDocument, TypeOK, RequestSteps, SignSteps
<1>5. CASE SignFind(r)
      BY <1>5, RefuseType, GotoType DEF SignFind, TypeOK, RequestSteps, SignSteps
<1>6. CASE SignSave(r)
  <2>1. CASE s \in Present
    <3>1. row' \in [Participants -> SignerRow]
          BY <1>6, <2>1 DEF SignSave, TypeOK, SignerRow, Present, InRoster
    <3> QED
        BY <1>6, <2>1, <3>1, GotoType DEF SignSave, TypeOK, RequestSteps, SignSteps
  <2>2. CASE s \notin Present
        BY <1>6, <2>2, RefuseType DEF SignSave
  <2> QED BY <2>1, <2>2
<1>7. CASE SignKey(r)
  <2>1. CASE row[s].consent /\ SignatureFits
    <3>1. env' \in EnvelopeRow
      <4>1. <<"signature", r>> \in Sha
            BY DEF Sha
      <4> QED
          BY <1>7, <2>1, <4>1 DEF SignKey, TypeOK, EnvelopeRow
    <3> QED
        BY <1>7, <2>1, <3>1, GotoType DEF SignKey, TypeOK, RequestSteps, SignSteps
  <2>2. CASE ~(row[s].consent /\ SignatureFits)
        BY <1>7, <2>2, RefuseType DEF SignKey
  <2> QED BY <2>1, <2>2
<1>8. CASE SignHash(r)
  <2>1. env' \in EnvelopeRow
        BY <1>8 DEF SignHash, TypeOK, EnvelopeRow, Sha
  <2> QED
      BY <1>8, <2>1, GotoType DEF SignHash, TypeOK, RequestSteps, SignSteps
<1>9. CASE SignFinalize(r)
      BY <1>9, RefuseType, GotoType DEF SignFinalize, TypeOK, RequestSteps, SignSteps
<1>10. CASE CompleteWrite(r)
      BY <1>10, EntityTypes, EndType DEF CompleteWrite, TypeOK
<1> QED
    BY <1>1, <1>2, <1>3, <1>4, <1>5, <1>6, <1>7, <1>8, <1>9, <1>10 DEF Signing

\* Declining keeps the types.
LEMMA TypeDeclining ==
  ASSUME TypeOK, NEW r \in Requests, Declining(r)
  PROVE  TypeOK'
PROOF
<1> DEFINE s == req[r].signer
<1>1. CASE DeclineFind(r)
  <2>1. ASSUME NEW t \in Present
        PROVE  [Idle EXCEPT !.pc = "decline_save", !.signer = t] \in RequestState
        BY IdleType DEF RequestState, RequestSteps, Present
  <2> QED
      BY <1>1, <2>1, BeginType DEF DeclineFind, TypeOK
<1>2. CASE DeclineSave(r)
  <2>1. CASE s \in Present /\ ~row[s].stamped
    <3>1. row' \in [Participants -> SignerRow]
          BY <1>2, <2>1 DEF DeclineSave, TypeOK, SignerRow, Present, InRoster
    <3> QED
        BY <1>2, <2>1, <3>1, GotoType DEF DeclineSave, TypeOK, RequestSteps
  <2>2. CASE ~(s \in Present /\ ~row[s].stamped)
        BY <1>2, <2>2, RefuseType DEF DeclineSave
  <2> QED BY <2>1, <2>2
<1>3. CASE DeclineRead(r)
  <2> DEFINE entity == [env EXCEPT !.status = "DECLINED", !.declinedAt = TRUE,
                                   !.declinedBy = req[r].signer]
  <2>1. entity \in EnvelopeRow
        BY <1>3 DEF DeclineRead, TypeOK, EnvelopeRow, Final, RequestState
  <2>2. req' = [req EXCEPT ![r].pc = "decline_write", ![r].seen = entity]
        BY <1>3 DEF DeclineRead
  <2> HIDE DEF entity
  <2>3. req' \in [Requests -> RequestState]
        BY <2>1, <2>2 DEF TypeOK, RequestState, RequestSteps
  <2> QED
      BY <1>3, <2>3 DEF DeclineRead, TypeOK
<1>4. CASE DeclineWrite(r)
  <2>1. req[r].seen \in EnvelopeRow
        BY DEF TypeOK, RequestState
  <2> QED
      BY <1>4, <2>1, WriteType, EndType, RefuseType DEF DeclineWrite, TypeOK
<1> QED
    BY <1>1, <1>2, <1>3, <1>4 DEF Declining

\* Every step keeps the types.
LEMMA TypeStep == TypeOK /\ [Next]_vars => TypeOK'
PROOF
<1> SUFFICES ASSUME TypeOK, [Next]_vars PROVE TypeOK'
    OBVIOUS
<1>1. CASE UNCHANGED vars
      BY <1>1 DEF TypeOK, vars
<1>2. ASSUME NEW r \in Requests, Handling(r) \/ Die(r)
      PROVE  TypeOK'
      BY <1>2, TypeSending, TypeCancelling, TypeUpdating, TypeSharing, TypeSigning,
         TypeDeclining, RefuseType DEF Handling, Die
<1> QED
    BY <1>1, <1>2 DEF Next

(* Type correctness: the rows and the requests keep the shapes the code    *)
(* gives them, for any number of overlapping requests.                     *)
THEOREM TypeCorrect == Spec => []TypeOK
PROOF BY TypeInit, TypeStep, PTL DEF Spec

(***************************************************************************)
(* Signing: the inductive invariant                                        *)
(*                                                                         *)
(* The consent record is what serialises the requests that sign for one    *)
(* signer: who has recorded it holds it until the row is deleted, and a    *)
(* deleted row never comes back.                                           *)
(***************************************************************************)
AfterConsent == SignSteps \ {"sign_validate", "sign_consent"}
AfterSave == {"sign_key", "sign_hash", "sign_finalize", "complete_write"}

\* A request past recordConsent works on a row that has the consent, or is gone.
ConsentHeld ==
  \A r \in Requests : req[r].pc \in AfterConsent =>
    /\ req[r].signer \in Participants
    /\ row[req[r].signer].consent \/ HasStatus(req[r].signer, "REMOVED")

\* Until it saves the row, nobody else has made that row SIGNED.
NotYetSigned ==
  \A r \in Requests : req[r].pc \in AfterConsent \ AfterSave =>
    ~HasStatus(req[r].signer, "SIGNED")

\* It has put its PDF in S3 before it looks for the row to save.
DocumentStored ==
  \A r \in Requests : req[r].pc \in AfterConsent \ {"sign_document"} => r \in stored

\* A row's evidence was written by a request that has saved that very row.
EvidenceOwned ==
  \A s \in Participants : row[s].evidence # None =>
    /\ row[s].evidence \in stored
    /\ \/ req[row[s].evidence].pc = "done"
       \/ req[row[s].evidence].pc \in AfterSave

\* No two rows have the same evidence.
EvidenceUnique ==
  \A s, t \in Participants :
    s # t /\ row[s].evidence # None => row[s].evidence # row[t].evidence

\* A SIGNED row is complete.
SignedComplete ==
  \A s \in Participants : HasStatus(s, "SIGNED") =>
    row[s].consent /\ row[s].stamped /\ row[s].evidence # None

SigningInv ==
  /\ TypeOK
  /\ OneSigningPerSigner
  /\ ConsentHeld
  /\ NotYetSigned
  /\ DocumentStored
  /\ EvidenceOwned
  /\ EvidenceUnique
  /\ SignedComplete

\* What a step does to the requests when it is none of the signing steps
\* between recordConsent and completion.
Elsewhere(r) ==
  /\ \A q \in Requests \ {r} : req'[q] = req[q]
  /\ req'[r].pc \notin AfterConsent
  /\ req[r].pc \in AfterSave \union {"done"} => req'[r].pc = "done"
  /\ stored' = stored

SameSignature(s) ==
  /\ row'[s].consent = row[s].consent
  /\ row'[s].stamped = row[s].stamped
  /\ row'[s].evidence = row[s].evidence

\* What such a step does to a row: nothing a signature is made of, or it
\* deletes the row, or declines a row that has no consent timestamp.
Gentle(s) ==
  \/ SameSignature(s) /\ row'[s].status = row[s].status
  \/ SameSignature(s) /\ HasStatus(s, "ABSENT") /\ row'[s].status = "PENDING"
  \/ row'[s] = NoRow("REMOVED")
  \/ /\ s \in Present
     /\ ~row[s].stamped
     /\ row'[s].status = "DECLINED"
     /\ row'[s].consent = row[s].consent
     /\ row'[s].evidence = None

\* A request that is refused does nothing to the rows.
LEMMA RefuseElsewhere ==
  ASSUME TypeOK, NEW r \in Requests, Refuse(r)
  PROVE  Elsewhere(r) /\ \A s \in Participants : Gentle(s)
PROOF BY DEF Refuse, End, Elsewhere, Gentle, SameSignature, TypeOK, AfterConsent, SignSteps,
             RequestState, Idle

\* Nor does one that begins.
LEMMA BeginElsewhere ==
  ASSUME TypeOK, NEW r \in Requests, NEW state, Begin(r, state),
         req[r].pc \notin AfterSave \union {"done"},
         state.pc \notin AfterConsent, UNCHANGED <<row, stored>>
  PROVE  Elsewhere(r) /\ \A s \in Participants : Gentle(s)
PROOF BY DEF Begin, Elsewhere, Gentle, SameSignature, TypeOK

\* None of the other operations is a signing step.
LEMMA SendingElsewhere ==
  ASSUME TypeOK, NEW r \in Requests, Sending(r)
  PROVE  Elsewhere(r) /\ \A s \in Participants : Gentle(s)
PROOF
<1>1. CASE SendRead(r)
      BY <1>1, BeginElsewhere DEF SendRead, Invoked, AfterSave, AfterConsent, SignSteps, Idle
<1>2. CASE SendWrite(r)
  <2>1. CASE Writable(req[r].seen)
        BY <1>2, <2>1, BeginElsewhere DEF SendWrite, AfterSave, AfterConsent, SignSteps, Idle
  <2>2. CASE ~Writable(req[r].seen)
        BY <1>2, <2>2, RefuseElsewhere DEF SendWrite
  <2> QED BY <2>1, <2>2
<1>3. CASE SendToken(r)
  <2>1. ASSUME NEW s \in Present,
               row' = [row EXCEPT ![s].invited = TRUE],
               req' = [req EXCEPT ![r].add = @ \ {s}],
               UNCHANGED <<env, stored>>
        PROVE  Elsewhere(r) /\ \A t \in Participants : Gentle(t)
    <3>1. Elsewhere(r)
          BY <1>3, <2>1 DEF SendToken, Elsewhere, TypeOK, RequestState, AfterConsent, AfterSave, SignSteps
    <3>2. \A t \in Participants : Gentle(t)
          BY <2>1 DEF Gentle, SameSignature, TypeOK, SignerRow, Present
    <3> QED BY <3>1, <3>2
  <2> QED
      BY <1>3, <2>1, RefuseElsewhere DEF SendToken
<1>4. CASE SendDone(r)
      BY <1>4, RefuseElsewhere DEF SendDone
<1> QED
    BY <1>1, <1>2, <1>3, <1>4 DEF Sending

LEMMA CancellingElsewhere ==
  ASSUME TypeOK, NEW r \in Requests, Cancelling(r)
  PROVE  Elsewhere(r) /\ \A s \in Participants : Gentle(s)
PROOF
<1>1. CASE CancelRead(r)
      BY <1>1, BeginElsewhere DEF CancelRead, Invoked, AfterSave, AfterConsent, SignSteps, Idle
<1>2. CASE CancelWrite(r)
  <2>1. CASE Writable(req[r].seen)
        BY <1>2, <2>1 DEF CancelWrite, End, Idle, Elsewhere, Gentle, SameSignature, TypeOK,
           AfterConsent, SignSteps
  <2>2. CASE ~Writable(req[r].seen)
        BY <1>2, <2>2, RefuseElsewhere DEF CancelWrite
  <2> QED BY <2>1, <2>2
<1> QED
    BY <1>1, <1>2 DEF Cancelling

LEMMA UpdatingElsewhere ==
  ASSUME TypeOK, NEW r \in Requests, Updating(r)
  PROVE  Elsewhere(r) /\ \A s \in Participants : Gentle(s)
PROOF
<1>1. CASE UpdateRead(r)
      BY <1>1, BeginElsewhere DEF UpdateRead, Invoked, AfterSave, AfterConsent, SignSteps, Idle
<1>2. CASE UpdateWrite(r)
  <2>1. CASE Writable(req[r].seen)
        BY <1>2, <2>1 DEF UpdateWrite, Elsewhere, Gentle, SameSignature, TypeOK, RequestState,
           AfterConsent, AfterSave, SignSteps
  <2>2. CASE ~Writable(req[r].seen)
        BY <1>2, <2>2, RefuseElsewhere DEF UpdateWrite
  <2> QED BY <2>1, <2>2
<1>3. CASE UpdateAdd(r)
  <2>1. ASSUME NEW s \in req[r].add, HasStatus(s, "ABSENT"),
               row' = [row EXCEPT ![s].status = "PENDING"],
               req' = [req EXCEPT ![r].add = @ \ {s}],
               UNCHANGED <<env, stored>>
        PROVE  Elsewhere(r) /\ \A t \in Participants : Gentle(t)
    <3>1. Elsewhere(r)
          BY <1>3, <2>1 DEF UpdateAdd, Elsewhere, TypeOK, RequestState, AfterConsent, AfterSave, SignSteps
    <3>2. \A t \in Participants : Gentle(t)
          BY <2>1 DEF Gentle, SameSignature, HasStatus, TypeOK, SignerRow
    <3> QED BY <3>1, <3>2
  <2> QED
      BY <1>3, <2>1, RefuseElsewhere DEF UpdateAdd
<1>4. CASE UpdateFindRemoved(r)
  <2>1. ASSUME NEW s \in Present,
               req' = [req EXCEPT ![r].pc = "update_delete", ![r].signer = s],
               UNCHANGED <<env, row, stored>>
        PROVE  Elsewhere(r) /\ \A t \in Participants : Gentle(t)
        BY <1>4, <2>1 DEF UpdateFindRemoved, Elsewhere, Gentle, SameSignature, TypeOK, RequestState,
           AfterConsent, AfterSave, SignSteps
  <2> QED
      BY <1>4, <2>1, RefuseElsewhere DEF UpdateFindRemoved
<1>5. CASE UpdateDelete(r)
  <2> DEFINE s == req[r].signer
             allowed == s \in Present /\ ~(env.status = "DECLINED" /\ env.declinedBy = s)
  <2>1. CASE allowed
    <3>1. Elsewhere(r)
          BY <1>5, <2>1 DEF UpdateDelete, Elsewhere, TypeOK, RequestState, AfterConsent, AfterSave, SignSteps
    <3>2. \A t \in Participants : Gentle(t)
          BY <1>5, <2>1 DEF UpdateDelete, Gentle, SameSignature, TypeOK
    <3> QED BY <3>1, <3>2
  <2>2. CASE ~allowed
        BY <1>5, <2>2, RefuseElsewhere DEF UpdateDelete
  <2> QED BY <2>1, <2>2
<1>6. CASE UpdateDone(r)
      BY <1>6, RefuseElsewhere DEF UpdateDone
<1> QED
    BY <1>1, <1>2, <1>3, <1>4, <1>5, <1>6 DEF Updating

LEMMA SharingElsewhere ==
  ASSUME TypeOK, NEW r \in Requests, Sharing(r)
  PROVE  Elsewhere(r) /\ \A s \in Participants : Gentle(s)
PROOF
<1> DEFINE v == req[r].signer
<1>1. CASE ShareRead(r)
      BY <1>1, BeginElsewhere DEF ShareRead, Invoked, AfterSave, AfterConsent, SignSteps, Idle
<1>2. CASE ShareCreate(r)
  <2>1. CASE HasStatus(v, "ABSENT")
    <3>1. Elsewhere(r)
          BY <1>2, <2>1 DEF ShareCreate, Goto, Elsewhere, TypeOK, RequestState, AfterConsent,
             AfterSave, SignSteps
    <3>2. \A t \in Participants : Gentle(t)
          BY <1>2, <2>1 DEF ShareCreate, Gentle, SameSignature, HasStatus, TypeOK, SignerRow
    <3> QED BY <3>1, <3>2
  <2>2. CASE ~HasStatus(v, "ABSENT")
        BY <1>2, <2>2, RefuseElsewhere DEF ShareCreate
  <2> QED BY <2>1, <2>2
<1>3. CASE ShareToken(r)
  <2>1. ASSUME v \in Present, row' = [row EXCEPT ![v].invited = TRUE],
               End(r), UNCHANGED <<env, stored>>
        PROVE  Elsewhere(r) /\ \A t \in Participants : Gentle(t)
    <3>1. Elsewhere(r)
          BY <2>1 DEF End, Idle, Elsewhere, TypeOK, AfterConsent, SignSteps
    <3>2. \A t \in Participants : Gentle(t)
          BY <2>1 DEF Gentle, SameSignature, TypeOK, SignerRow, Present
    <3> QED BY <3>1, <3>2
  <2> QED
      BY <1>3, <2>1, RefuseElsewhere DEF ShareToken
<1> QED
    BY <1>1, <1>2, <1>3 DEF Sharing

LEMMA DecliningElsewhere ==
  ASSUME TypeOK, NEW r \in Requests, Declining(r)
  PROVE  Elsewhere(r) /\ \A s \in Participants : Gentle(s)
PROOF
<1> DEFINE s == req[r].signer
<1>1. CASE DeclineFind(r)
      BY <1>1, BeginElsewhere DEF DeclineFind, Invoked, AfterSave, AfterConsent, SignSteps, Idle
<1>2. CASE DeclineSave(r)
  <2>1. CASE s \in Present /\ ~row[s].stamped
    <3>1. Elsewhere(r)
          BY <1>2, <2>1 DEF DeclineSave, Goto, Elsewhere, TypeOK, RequestState, AfterConsent,
             AfterSave, SignSteps
    <3>2. \A t \in Participants : Gentle(t)
          BY <1>2, <2>1 DEF DeclineSave, Gentle, SameSignature, TypeOK, SignerRow
    <3> QED BY <3>1, <3>2
  <2>2. CASE ~(s \in Present /\ ~row[s].stamped)
        BY <1>2, <2>2, RefuseElsewhere DEF DeclineSave
  <2> QED BY <2>1, <2>2
<1>3. CASE DeclineRead(r)
      BY <1>3 DEF DeclineRead, Elsewhere, Gentle, SameSignature, TypeOK, RequestState, AfterConsent,
         AfterSave, SignSteps
<1>4. CASE DeclineWrite(r)
  <2>1. CASE Writable(req[r].seen)
        BY <1>4, <2>1 DEF DeclineWrite, End, Idle, Elsewhere, Gentle, SameSignature, TypeOK,
           AfterConsent, SignSteps
  <2>2. CASE ~Writable(req[r].seen)
        BY <1>4, <2>2, RefuseElsewhere DEF DeclineWrite
  <2> QED BY <2>1, <2>2
<1> QED
    BY <1>1, <1>2, <1>3, <1>4 DEF Declining

\* A step elsewhere keeps the invariant.
LEMMA SigningInvElsewhere ==
  ASSUME SigningInv, TypeOK', NEW r \in Requests,
         Elsewhere(r), \A s \in Participants : Gentle(s)
  PROVE  SigningInv'
PROOF
<1> USE DEF SigningInv
<1>1. \A q \in Requests : req'[q].pc \in AfterConsent => q # r /\ req'[q] = req[q]
      BY DEF Elsewhere
<1>2. OneSigningPerSigner'
      BY <1>1 DEF OneSigningPerSigner, Consented, AfterConsent
<1>3. ConsentHeld'
      BY <1>1 DEF ConsentHeld, Gentle, SameSignature, NoRow, HasStatus, Present, InRoster
<1>4. NotYetSigned'
  <2> SUFFICES ASSUME NEW q \in Requests, req'[q].pc \in AfterConsent \ AfterSave
               PROVE  row'[req'[q].signer].status # "SIGNED"
      BY DEF NotYetSigned, HasStatus
  <2>1. req'[q] = req[q] /\ req[q].signer \in Participants /\ ~HasStatus(req[q].signer, "SIGNED")
        BY <1>1 DEF ConsentHeld, NotYetSigned
  <2> QED
      BY <2>1 DEF Gentle, NoRow, HasStatus
<1>5. DocumentStored'
      BY <1>1 DEF DocumentStored, Elsewhere
<1>6. \A s \in Participants : row'[s].evidence # None => row'[s].evidence = row[s].evidence
      BY DEF Gentle, SameSignature, NoRow
<1>7. EvidenceOwned'
  <2> SUFFICES ASSUME NEW s \in Participants, row'[s].evidence # None
               PROVE  /\ row'[s].evidence \in stored'
                      /\ \/ req'[row'[s].evidence].pc = "done"
                         \/ req'[row'[s].evidence].pc \in AfterSave
      BY DEF EvidenceOwned
  <2> DEFINE q == row[s].evidence
  <2>1. row'[s].evidence = q /\ q \in Requests
        BY <1>6 DEF TypeOK, SignerRow
  <2>2. q \in stored /\ (req[q].pc = "done" \/ req[q].pc \in AfterSave)
        BY <2>1 DEF EvidenceOwned
  <2> QED
      BY <2>1, <2>2 DEF Elsewhere
<1>8. EvidenceUnique'
      BY <1>6 DEF EvidenceUnique
<1>9. SignedComplete'
  <2> SUFFICES ASSUME NEW s \in Participants, row'[s].status = "SIGNED"
               PROVE  row'[s].consent /\ row'[s].stamped /\ row'[s].evidence # None
      BY DEF SignedComplete, HasStatus
  <2>1. SameSignature(s) /\ row[s].status = "SIGNED"
        BY DEF Gentle, NoRow
  <2> QED
      BY <2>1 DEF SignedComplete, SameSignature, HasStatus
<1> QED
    BY <1>2, <1>3, <1>4, <1>5, <1>7, <1>8, <1>9

(***************************************************************************)
(* Signing: the steps that do something to the invariant                   *)
(***************************************************************************)
\* recordConsent succeeds.
Records(r) ==
  LET s == req[r].signer IN
  /\ req[r].pc = "sign_consent"
  /\ s \in Present
  /\ ~row[s].consent
  /\ row' = [row EXCEPT ![s].consent = TRUE]
  /\ Goto(r, "sign_document")
  /\ stored' = stored

\* The signer's row is saved as SIGNED.
Saves(r) ==
  LET s == req[r].signer IN
  /\ req[r].pc = "sign_save"
  /\ s \in Present
  /\ row' = [row EXCEPT ![s].status = "SIGNED", ![s].stamped = TRUE, ![s].evidence = r]
  /\ Goto(r, "sign_key")
  /\ stored' = stored

\* A request that has the consent goes on, and leaves the rows alone.
Advances(r) ==
  /\ req[r].pc \in AfterConsent
  /\ \E step \in AfterConsent \ {"sign_document"} :
       /\ step \in AfterSave <=> req[r].pc \in AfterSave
       /\ Goto(r, step)
  /\ r \in stored'
  /\ stored' \subseteq stored \union {r}
  /\ stored \subseteq stored'
  /\ row' = row

\* Every signing step is one of these, or happens elsewhere.
LEMMA SigningKinds ==
  ASSUME TypeOK, DocumentStored, NEW r \in Requests, Signing(r)
  PROVE  \/ Elsewhere(r) /\ \A s \in Participants : Gentle(s)
         \/ Records(r) \/ Saves(r) \/ Advances(r)
PROOF
<1> DEFINE s == req[r].signer
<1>1. CASE SignStart(r)
      BY <1>1, BeginElsewhere DEF SignStart, Invoked, AfterSave, AfterConsent, SignSteps, Idle
<1>2. CASE SignValidate(r)
  <2>1. CASE req' = [req EXCEPT ![r].pc = "sign_consent"] /\ UNCHANGED <<env, row, stored>>
        BY <1>2, <2>1 DEF SignValidate, Elsewhere, Gentle, SameSignature, TypeOK, RequestState,
           AfterConsent, AfterSave, SignSteps
  <2> QED
      BY <1>2, <2>1, RefuseElsewhere DEF SignValidate, Goto
<1>3. CASE SignConsent(r)
      BY <1>3, RefuseElsewhere DEF SignConsent, Records
<1>4. CASE SignDocument(r)
      BY <1>4 DEF SignDocument, Advances, AfterConsent, AfterSave, SignSteps
<1>5. CASE SignFind(r)
      BY <1>5, RefuseElsewhere DEF SignFind, Advances, DocumentStored, AfterConsent, AfterSave, SignSteps
<1>6. CASE SignSave(r)
      BY <1>6, RefuseElsewhere DEF SignSave, Saves
<1>7. CASE SignKey(r)
      BY <1>7, RefuseElsewhere DEF SignKey, Advances, DocumentStored, AfterConsent, AfterSave, SignSteps
<1>8. CASE SignHash(r)
      BY <1>8 DEF SignHash, Advances, DocumentStored, AfterConsent, AfterSave, SignSteps
<1>9. CASE SignFinalize(r)
      BY <1>9, RefuseElsewhere DEF SignFinalize, Advances, DocumentStored, AfterConsent, AfterSave, SignSteps
<1>10. CASE CompleteWrite(r)
      BY <1>10 DEF CompleteWrite, End, Idle, Elsewhere, Gentle, SameSignature, TypeOK,
         AfterConsent, SignSteps
<1> QED
    BY <1>1, <1>2, <1>3, <1>4, <1>5, <1>6, <1>7, <1>8, <1>9, <1>10 DEF Signing

\* So every step of the specification is one of the four kinds.
LEMMA StepKinds ==
  ASSUME TypeOK, DocumentStored, Next
  PROVE  \E r \in Requests :
           \/ Elsewhere(r) /\ \A s \in Participants : Gentle(s)
           \/ Records(r) \/ Saves(r) \/ Advances(r)
PROOF
<1>1. PICK r \in Requests : Handling(r) \/ Die(r)
      BY DEF Next
<1> QED
    BY <1>1, SendingElsewhere, CancellingElsewhere, UpdatingElsewhere, SharingElsewhere,
       DecliningElsewhere, SigningKinds, RefuseElsewhere DEF Handling, Die

\* Recording the consent keeps the invariant: nobody else has that row's consent.
LEMMA SigningInvRecords ==
  ASSUME SigningInv, TypeOK', NEW r \in Requests, Records(r)
  PROVE  SigningInv'
PROOF
<1> DEFINE s == req[r].signer
<1> USE DEF SigningInv
<1>1. /\ s \in Participants
      /\ ~row[s].consent
      /\ ~HasStatus(s, "REMOVED")
      /\ stored' = stored
      BY DEF Records, Present, HasStatus, InRoster
<1>2. ~HasStatus(s, "SIGNED")
      BY <1>1 DEF SignedComplete
<1>3. /\ req'[r].pc = "sign_document"
      /\ req'[r].signer = s
      /\ \A q \in Requests \ {r} : req'[q] = req[q]
      BY DEF Records, Goto, TypeOK, RequestState
<1>4. /\ row'[s].consent
      /\ \A t \in Participants \ {s} : row'[t] = row[t]
      /\ \A t \in Participants : /\ row'[t].status = row[t].status
                                 /\ row'[t].stamped = row[t].stamped
                                 /\ row'[t].evidence = row[t].evidence
                                 /\ row[t].consent => row'[t].consent
      BY <1>1 DEF Records, TypeOK, SignerRow
<1>5. \A q \in Requests \ {r} : req[q].pc \in AfterConsent => req[q].signer # s
      BY <1>1 DEF ConsentHeld
<1>6. OneSigningPerSigner'
      BY <1>3, <1>5 DEF OneSigningPerSigner, Consented, AfterConsent
<1>7. ConsentHeld'
      BY <1>1, <1>3, <1>4 DEF ConsentHeld, HasStatus
<1>8. NotYetSigned'
      BY <1>1, <1>2, <1>3, <1>4 DEF NotYetSigned, ConsentHeld, HasStatus
<1>9. DocumentStored'
      BY <1>1, <1>3 DEF DocumentStored
<1>10. EvidenceOwned'
  <2>1. req[r].pc = "sign_consent"
        BY DEF Records
  <2>2. \A t \in Participants : row[t].evidence # None => row[t].evidence \in Requests \ {r}
        BY <2>1 DEF EvidenceOwned, TypeOK, SignerRow, AfterSave
  <2> QED
      BY <1>1, <1>3, <1>4, <2>2 DEF EvidenceOwned
<1>11. EvidenceUnique'
      BY <1>4 DEF EvidenceUnique
<1>12. SignedComplete'
      BY <1>4 DEF SignedComplete, HasStatus
<1> QED
    BY <1>6, <1>7, <1>8, <1>9, <1>10, <1>11, <1>12

\* Saving the row keeps it: only the holder of the consent gets there.
LEMMA SigningInvSaves ==
  ASSUME SigningInv, TypeOK', NEW r \in Requests, Saves(r)
  PROVE  SigningInv'
PROOF
<1> DEFINE s == req[r].signer
<1> USE DEF SigningInv
<1>1. /\ s \in Participants
      /\ ~HasStatus(s, "REMOVED")
      /\ stored' = stored
      /\ req[r].pc = "sign_save"
      BY DEF Saves, Present, HasStatus, InRoster
<1>2. r \in stored /\ row[s].consent
      BY <1>1 DEF DocumentStored, ConsentHeld, AfterConsent, SignSteps
<1>3. /\ req'[r].pc = "sign_key"
      /\ req'[r].signer = s
      /\ \A q \in Requests \ {r} : req'[q] = req[q]
      BY DEF Saves, Goto, TypeOK, RequestState
<1>4. /\ row'[s].status = "SIGNED"
      /\ row'[s].stamped
      /\ row'[s].evidence = r
      /\ row'[s].consent = row[s].consent
      /\ \A t \in Participants \ {s} : row'[t] = row[t]
      BY <1>1 DEF Saves, TypeOK, SignerRow
<1>5. \A q \in Requests \ {r} : req[q].pc \in AfterConsent => req[q].signer # s
      BY <1>1 DEF OneSigningPerSigner, Consented, AfterConsent, SignSteps
<1>6. \A t \in Participants : row[t].evidence # r
  <2>1. r # None
        BY ConstantsAssumption
  <2> QED
      BY <1>1, <2>1 DEF EvidenceOwned, AfterSave
<1>7. OneSigningPerSigner'
      BY <1>3, <1>5 DEF OneSigningPerSigner, Consented, AfterConsent
<1>8. ConsentHeld'
  <2> SUFFICES ASSUME NEW q \in Requests, req'[q].pc \in AfterConsent
               PROVE  /\ req'[q].signer \in Participants
                      /\ row'[req'[q].signer].consent \/ row'[req'[q].signer].status = "REMOVED"
      BY DEF ConsentHeld, HasStatus
  <2>1. CASE q = r
        BY <1>1, <1>2, <1>3, <1>4, <2>1
  <2>2. CASE q # r
        BY <1>1, <1>3, <1>4, <1>5, <2>2 DEF ConsentHeld, HasStatus
  <2> QED BY <2>1, <2>2
<1>9. NotYetSigned'
      BY <1>1, <1>3, <1>4, <1>5 DEF NotYetSigned, ConsentHeld, HasStatus, AfterSave
<1>10. DocumentStored'
      BY <1>1, <1>2, <1>3 DEF DocumentStored
<1>11. EvidenceOwned'
  <2> SUFFICES ASSUME NEW t \in Participants, row'[t].evidence # None
               PROVE  /\ row'[t].evidence \in stored'
                      /\ \/ req'[row'[t].evidence].pc = "done"
                         \/ req'[row'[t].evidence].pc \in AfterSave
      BY DEF EvidenceOwned
  <2>1. CASE t = s
        BY <1>1, <1>2, <1>3, <1>4, <2>1 DEF AfterSave
  <2>2. CASE t # s
    <3>1. row'[t].evidence = row[t].evidence /\ row[t].evidence \in Requests \ {r}
          BY <1>4, <1>6, <2>2 DEF TypeOK, SignerRow
    <3> QED
        BY <1>1, <1>3, <3>1 DEF EvidenceOwned
  <2> QED BY <2>1, <2>2
<1>12. EvidenceUnique'
      BY <1>4, <1>6 DEF EvidenceUnique
<1>13. SignedComplete'
  <2>1. r # None
        BY ConstantsAssumption
  <2> QED
      BY <1>2, <1>4, <2>1 DEF SignedComplete, HasStatus
<1> QED
    BY <1>7, <1>8, <1>9, <1>10, <1>11, <1>12, <1>13

\* Going on keeps it.
LEMMA SigningInvAdvances ==
  ASSUME SigningInv, TypeOK', NEW r \in Requests, Advances(r)
  PROVE  SigningInv'
PROOF
<1> USE DEF SigningInv
<1>1. PICK step \in AfterConsent \ {"sign_document"} :
        /\ step \in AfterSave <=> req[r].pc \in AfterSave
        /\ Goto(r, step)
      BY DEF Advances
<1>2. /\ req[r].pc \in AfterConsent
      /\ r \in stored'
      /\ stored \subseteq stored'
      /\ row' = row
      BY DEF Advances
<1>3. /\ req'[r].pc = step
      /\ req'[r].signer = req[r].signer
      /\ \A q \in Requests \ {r} : req'[q] = req[q]
      BY <1>1 DEF Goto, TypeOK, RequestState
<1>4. OneSigningPerSigner'
      BY <1>2, <1>3 DEF OneSigningPerSigner, Consented, AfterConsent
<1>5. ConsentHeld'
      BY <1>2, <1>3 DEF ConsentHeld, HasStatus
<1>6. NotYetSigned'
      BY <1>1, <1>2, <1>3 DEF NotYetSigned, HasStatus
<1>7. DocumentStored'
      BY <1>2, <1>3 DEF DocumentStored
<1>8. EvidenceOwned'
  <2> SUFFICES ASSUME NEW t \in Participants, row[t].evidence # None
               PROVE  /\ row[t].evidence \in stored'
                      /\ \/ req'[row[t].evidence].pc = "done"
                         \/ req'[row[t].evidence].pc \in AfterSave
      BY <1>2 DEF EvidenceOwned
  <2>1. /\ row[t].evidence \in Requests
        /\ row[t].evidence \in stored
        /\ \/ req[row[t].evidence].pc = "done"
           \/ req[row[t].evidence].pc \in AfterSave
        BY DEF EvidenceOwned, TypeOK, SignerRow
  <2>2. CASE row[t].evidence = r
    <3>1. "done" \notin AfterConsent
          BY DEF AfterConsent, SignSteps
    <3> QED
        BY <1>1, <1>2, <1>3, <2>1, <2>2, <3>1
  <2>3. CASE row[t].evidence # r
        BY <1>2, <1>3, <2>1, <2>3
  <2> QED BY <2>2, <2>3
<1>9. EvidenceUnique' /\ SignedComplete'
      BY <1>2 DEF EvidenceUnique, SignedComplete, HasStatus
<1> QED
    BY <1>4, <1>5, <1>6, <1>7, <1>8, <1>9

\* Nobody has signed in the initial states.
LEMMA SigningInvInit == Init => SigningInv
PROOF
<1> SUFFICES ASSUME Init PROVE SigningInv
    OBVIOUS
<1>1. \A r \in Requests : req[r].pc = "idle"
      BY DEF Init, Idle
<1>2. \A s \in Participants : row[s].evidence = None /\ ~HasStatus(s, "SIGNED")
  <2>1. PICK sent \in BOOLEAN :
          row = [s \in Participants |->
                  IF s \in Roster
                  THEN [NoRow("PENDING") EXCEPT !.invited = sent /\ s \in External]
                  ELSE NoRow("ABSENT")]
        BY DEF Init
  <2> QED
      BY <2>1 DEF NoRow, HasStatus
<1>3. OneSigningPerSigner /\ ConsentHeld /\ NotYetSigned /\ DocumentStored
      BY <1>1 DEF OneSigningPerSigner, Consented, ConsentHeld, NotYetSigned, DocumentStored,
         AfterConsent, SignSteps
<1>4. EvidenceOwned /\ EvidenceUnique /\ SignedComplete
      BY <1>2 DEF EvidenceOwned, EvidenceUnique, SignedComplete
<1> QED
    BY <1>3, <1>4, TypeInit DEF SigningInv

\* Every step keeps the invariant.
LEMMA SigningInvStep == SigningInv /\ [Next]_vars => SigningInv'
PROOF
<1> SUFFICES ASSUME SigningInv, [Next]_vars PROVE SigningInv'
    OBVIOUS
<1>1. CASE UNCHANGED vars
      BY <1>1 DEF SigningInv, TypeOK, OneSigningPerSigner, Consented, ConsentHeld, NotYetSigned,
         DocumentStored, EvidenceOwned, EvidenceUnique, SignedComplete, HasStatus, vars
<1>2. CASE Next
  <2>1. TypeOK /\ DocumentStored /\ TypeOK'
        BY TypeStep DEF SigningInv
  <2> QED
      BY <1>2, <2>1, StepKinds, SigningInvElsewhere, SigningInvRecords, SigningInvSaves,
         SigningInvAdvances
<1> QED
    BY <1>1, <1>2

\* The invariant holds in every reachable state.
LEMMA SigningInvariant == Spec => []SigningInv
PROOF BY SigningInvInit, SigningInvStep, PTL DEF Spec

(***************************************************************************)
(* Signing: theorems                                                       *)
(***************************************************************************)
(* However many sign requests of one signer overlap, one of them gets past *)
(* recordConsent (SignDocumentUseCase, ConsentService.createConsent).      *)
THEOREM OneSigning == Spec => []OneSigningPerSigner
PROOF
<1>1. SigningInv => OneSigningPerSigner
      BY DEF SigningInv
<1> QED
    BY <1>1, SigningInvariant, PTL

(* A SIGNED row has its consent, its consent timestamp and a signed PDF of *)
(* its own in S3, whatever ran beside the request that saved it.           *)
THEOREM SignedEvidence == Spec => []SignedHasEvidence
PROOF
<1>1. SigningInv => SignedHasEvidence
  <2> SUFFICES ASSUME SigningInv, NEW s \in Present, HasStatus(s, "SIGNED")
               PROVE  /\ row[s].consent
                      /\ row[s].stamped
                      /\ row[s].evidence \in stored
                      /\ \A t \in Present \ {s} : row[t].evidence # row[s].evidence
      BY DEF SignedHasEvidence
  <2>1. s \in Participants /\ Present \subseteq Participants
        BY DEF Present
  <2>2. row[s].consent /\ row[s].stamped /\ row[s].evidence # None
        BY <2>1 DEF SigningInv, SignedComplete
  <2> QED
      BY <2>1, <2>2 DEF SigningInv, EvidenceOwned, EvidenceUnique
<1> QED
    BY <1>1, SigningInvariant, PTL

\* A step leaves a SIGNED row SIGNED, with its evidence, or deletes it.
LEMMA SignedStays ==
  ASSUME SigningInv, Next, NEW s \in Participants, HasStatus(s, "SIGNED")
  PROVE  \/ row'[s].status = "REMOVED"
         \/ row'[s].status = "SIGNED" /\ row'[s].evidence = row[s].evidence
PROOF
<1>1. PICK r \in Requests :
        \/ Elsewhere(r) /\ \A t \in Participants : Gentle(t)
        \/ Records(r) \/ Saves(r) \/ Advances(r)
      BY StepKinds DEF SigningInv
<1>2. CASE \A t \in Participants : Gentle(t)
  <2>1. row[s].stamped /\ row[s].status = "SIGNED"
        BY DEF SigningInv, SignedComplete, HasStatus
  <2> QED
      BY <1>2, <2>1 DEF Gentle, SameSignature, NoRow, HasStatus
<1>3. CASE Records(r)
      BY <1>3 DEF Records, Present, HasStatus, SigningInv, TypeOK, SignerRow
<1>4. CASE Saves(r)
  <2>1. s # req[r].signer
        BY <1>4 DEF Saves, SigningInv, NotYetSigned, AfterConsent, AfterSave, SignSteps
  <2> QED
      BY <1>4, <2>1 DEF Saves, Present, HasStatus, SigningInv, TypeOK
<1>5. CASE Advances(r)
      BY <1>5 DEF Advances, HasStatus
<1> QED
    BY <1>1, <1>2, <1>3, <1>4, <1>5

(* No request changes a SIGNED row but by deleting it: a decline that read *)
(* the row before it was signed is refused by its consent constraint, and  *)
(* a second signing never gets that far.                                   *)
THEOREM SignatureStays == Spec => SignatureKept
PROOF
<1>1. SigningInv /\ [Next]_vars
        => [\A s \in Participants : HasStatus(s, "SIGNED") =>
              \/ row'[s].status = "REMOVED"
              \/ row'[s].status = "SIGNED" /\ row'[s].evidence = row[s].evidence]_vars
      BY SignedStays
<1> QED
    BY <1>1, SigningInvariant, PTL DEF Spec, SignatureKept

(***************************************************************************)
(* Coherence: the inductive invariant                                      *)
(*                                                                         *)
(* A copy is stale, but it was coherent when it was read and made so when  *)
(* it was changed; and a decliner is a participant, so never null.         *)
(***************************************************************************)
Sound(state) ==
  /\ Coherent(state.seen)
  /\ state.pc \in {"decline_save", "decline_read"} => state.signer \in Participants

CoherentInv ==
  /\ TypeOK
  /\ EnvelopeCoherent
  /\ \A r \in Requests : Sound(req[r])

(***************************************************************************)
(* Coherence: the requests' copies                                         *)
(***************************************************************************)
\* What an idle request holds is sound, and so are the copies a use case makes.
LEMMA CopiesCoherent ==
  ASSUME CoherentInv
  PROVE  /\ Coherent(DraftEnvelope)
         /\ Coherent(env)
         /\ Coherent([env EXCEPT !.status = "READY_FOR_SIGNATURE", !.sentAt = TRUE])
         /\ Coherent([env EXCEPT !.status = "CANCELLED", !.cancelledAt = TRUE])
         /\ \A s \in Participants :
              Coherent([env EXCEPT !.status = "DECLINED", !.declinedAt = TRUE,
                                   !.declinedBy = s])
PROOF
<1>1. Coherent(DraftEnvelope) /\ Coherent(env)
      BY DEF Coherent, DraftEnvelope, CoherentInv, EnvelopeCoherent
<1>2. env \in EnvelopeRow
      BY DEF CoherentInv, TypeOK
<1>3. \A s \in Participants : s # None
      BY ConstantsAssumption
<1> QED
    BY <1>1, <1>2, <1>3 DEF Coherent, EnvelopeRow

\* A step changes the state of one request, and leaves it sound.
LEMMA OneSound ==
  ASSUME CoherentInv, NEW r \in Requests, NEW state, Sound(state), Begin(r, state)
  PROVE  \A q \in Requests : Sound(req'[q])
PROOF BY DEF CoherentInv, TypeOK, Begin

LEMMA GotoSound ==
  ASSUME CoherentInv, NEW r \in Requests, NEW step, Goto(r, step),
         step \in {"decline_save", "decline_read"} => req[r].signer \in Participants
  PROVE  \A q \in Requests : Sound(req'[q])
PROOF BY DEF CoherentInv, TypeOK, RequestState, Goto, Sound

LEMMA EndSound ==
  ASSUME CoherentInv, NEW r \in Requests, End(r)
  PROVE  \A q \in Requests : Sound(req'[q])
PROOF BY CopiesCoherent DEF CoherentInv, TypeOK, End, Idle, Sound

(***************************************************************************)
(* Coherence: the envelope row                                             *)
(***************************************************************************)
\* Writing a coherent copy over the row leaves it coherent.
LEMMA CoherentWrite ==
  ASSUME CoherentInv, NEW r \in Requests, Writable(req[r].seen),
         WriteEntity(req[r].seen), UNCHANGED row
  PROVE  EnvelopeCoherent'
PROOF
<1> DEFINE entity == req[r].seen
<1>1. entity \in EnvelopeRow /\ Coherent(entity)
      BY DEF CoherentInv, TypeOK, RequestState, Sound
<1>2. env'.declinedBy = IF entity.declinedBy = None THEN env.declinedBy
                        ELSE entity.declinedBy
      BY <1>1 DEF WriteEntity, Kept, EnvelopeRow
<1>3. /\ env'.status = entity.status
      /\ env'.sentAt = entity.sentAt
      /\ env'.completedAt = entity.completedAt
      /\ env'.cancelledAt = entity.cancelledAt
      /\ env'.declinedAt = entity.declinedAt
      BY <1>1 DEF WriteEntity, EnvelopeRow
<1>4. Coherent(env')
      BY <1>1, <1>2, <1>3 DEF Coherent
<1>5. env'.declinedBy \in Present \union {None} /\ Present' = Present
      BY <1>2 DEF Writable, CoherentInv, EnvelopeCoherent, Present, HasStatus
<1> QED
    BY <1>4, <1>5 DEF EnvelopeCoherent, Coherent

\* A step that does not write the row and deletes nobody leaves it coherent.
LEMMA CoherentRest ==
  ASSUME CoherentInv, UNCHANGED env, Present \subseteq Present'
  PROVE  EnvelopeCoherent'
PROOF BY DEF CoherentInv, EnvelopeCoherent, Coherent

LEMMA RosterSame ==
  ASSUME UNCHANGED row
  PROVE  Present' = Present
PROOF BY DEF Present

\* A row that is changed and stays, or comes to be, on the roster.
LEMMA RosterGrows ==
  ASSUME TypeOK, NEW s \in Participants, NEW value, value.status \in InRoster,
         row' = [row EXCEPT ![s] = value]
  PROVE  Present \subseteq Present'
PROOF BY DEF Present, TypeOK

\* A request that is refused keeps the invariant.
LEMMA RefuseCoherent ==
  ASSUME CoherentInv, NEW r \in Requests, Refuse(r)
  PROVE  EnvelopeCoherent' /\ \A q \in Requests : Sound(req'[q])
PROOF BY EndSound, CoherentRest, RosterSame DEF Refuse

(***************************************************************************)
(* Coherence: the steps                                                    *)
(***************************************************************************)
LEMMA SendingCoherent ==
  ASSUME CoherentInv, NEW r \in Requests, Sending(r)
  PROVE  EnvelopeCoherent' /\ \A q \in Requests : Sound(req'[q])
PROOF
<1>1. ASSUME NEW targets
      PROVE  Sound([Idle EXCEPT !.pc = "send_tokens", !.add = targets])
      BY CopiesCoherent DEF Sound, Idle
<1>2. CASE SendRead(r)
  <2>1. Sound([Idle EXCEPT !.pc = "send_write",
                           !.seen = [env EXCEPT !.status = "READY_FOR_SIGNATURE",
                                                !.sentAt = TRUE]])
        BY CopiesCoherent DEF Sound, Idle
  <2> QED
      BY <1>1, <1>2, <2>1, OneSound, CoherentRest, RosterSame DEF SendRead
<1>3. CASE SendWrite(r)
  <2>1. CASE Writable(req[r].seen)
        BY <1>1, <1>3, <2>1, OneSound, CoherentWrite DEF SendWrite
  <2>2. CASE ~Writable(req[r].seen)
        BY <1>3, <2>2, RefuseCoherent DEF SendWrite
  <2> QED BY <2>1, <2>2
<1>4. CASE SendToken(r)
  <2>1. ASSUME NEW s \in Present,
               row' = [row EXCEPT ![s].invited = TRUE],
               req' = [req EXCEPT ![r].add = @ \ {s}],
               UNCHANGED <<env, stored>>
        PROVE  EnvelopeCoherent' /\ \A q \in Requests : Sound(req'[q])
    <3>1. \A q \in Requests : Sound(req'[q])
          BY <2>1 DEF CoherentInv, TypeOK, RequestState, Sound
    <3>2. Present \subseteq Present'
          BY <2>1 DEF Present, CoherentInv, TypeOK, SignerRow
    <3> QED BY <2>1, <3>1, <3>2, CoherentRest
  <2> QED
      BY <1>4, <2>1, RefuseCoherent DEF SendToken
<1>5. CASE SendDone(r)
      BY <1>5, RefuseCoherent DEF SendDone
<1> QED
    BY <1>2, <1>3, <1>4, <1>5 DEF Sending

LEMMA CancellingCoherent ==
  ASSUME CoherentInv, NEW r \in Requests, Cancelling(r)
  PROVE  EnvelopeCoherent' /\ \A q \in Requests : Sound(req'[q])
PROOF
<1>1. CASE CancelRead(r)
  <2>1. Sound([Idle EXCEPT !.pc = "cancel_write",
                           !.seen = [env EXCEPT !.status = "CANCELLED",
                                                !.cancelledAt = TRUE]])
        BY CopiesCoherent DEF Sound, Idle
  <2> QED
      BY <1>1, <2>1, OneSound, CoherentRest, RosterSame DEF CancelRead
<1>2. CASE CancelWrite(r)
  <2>1. CASE Writable(req[r].seen)
        BY <1>2, <2>1, EndSound, CoherentWrite DEF CancelWrite
  <2>2. CASE ~Writable(req[r].seen)
        BY <1>2, <2>2, RefuseCoherent DEF CancelWrite
  <2> QED BY <2>1, <2>2
<1> QED
    BY <1>1, <1>2 DEF Cancelling

LEMMA UpdatingCoherent ==
  ASSUME CoherentInv, NEW r \in Requests, Updating(r)
  PROVE  EnvelopeCoherent' /\ \A q \in Requests : Sound(req'[q])
PROOF
<1>1. CASE UpdateRead(r)
  <2>1. PICK add, remove :
          Begin(r, [Idle EXCEPT !.pc = "update_write", !.seen = env,
                                !.add = add, !.remove = remove])
        BY <1>1 DEF UpdateRead
  <2>2. Sound([Idle EXCEPT !.pc = "update_write", !.seen = env,
                           !.add = add, !.remove = remove])
        BY CopiesCoherent DEF Sound, Idle
  <2> QED
      BY <1>1, <2>1, <2>2, OneSound, CoherentRest, RosterSame DEF UpdateRead
<1>2. CASE UpdateWrite(r)
  <2>1. CASE Writable(req[r].seen)
    <3>1. \A q \in Requests : Sound(req'[q])
          BY <1>2, <2>1, CopiesCoherent DEF UpdateWrite, CoherentInv, TypeOK, RequestState, Sound
    <3> QED
        BY <1>2, <2>1, <3>1, CoherentWrite DEF UpdateWrite
  <2>2. CASE ~Writable(req[r].seen)
        BY <1>2, <2>2, RefuseCoherent DEF UpdateWrite
  <2> QED BY <2>1, <2>2
<1>3. CASE UpdateAdd(r)
  <2>1. ASSUME NEW s \in req[r].add, HasStatus(s, "ABSENT"),
               row' = [row EXCEPT ![s].status = "PENDING"],
               req' = [req EXCEPT ![r].add = @ \ {s}],
               UNCHANGED <<env, stored>>
        PROVE  EnvelopeCoherent' /\ \A q \in Requests : Sound(req'[q])
    <3>1. \A q \in Requests : Sound(req'[q])
          BY <2>1 DEF CoherentInv, TypeOK, RequestState, Sound
    <3>2. Present \subseteq Present'
          BY <2>1 DEF Present, CoherentInv, TypeOK, SignerRow, InRoster
    <3> QED BY <2>1, <3>1, <3>2, CoherentRest
  <2> QED
      BY <1>3, <2>1, RefuseCoherent DEF UpdateAdd
<1>4. CASE UpdateFindRemoved(r)
  <2>1. ASSUME NEW s \in req[r].remove,
               req' = [req EXCEPT ![r].pc = "update_delete", ![r].signer = s],
               UNCHANGED <<env, row, stored>>
        PROVE  EnvelopeCoherent' /\ \A q \in Requests : Sound(req'[q])
    <3>1. \A q \in Requests : Sound(req'[q])
          BY <2>1 DEF CoherentInv, TypeOK, RequestState, Sound
    <3> QED BY <2>1, <3>1, CoherentRest, RosterSame
  <2> QED
      BY <1>4, <2>1, RefuseCoherent DEF UpdateFindRemoved
<1>5. CASE UpdateDelete(r)
  <2> DEFINE s == req[r].signer
  <2>1. CASE s \in Present /\ ~(env.status = "DECLINED" /\ env.declinedBy = s)
    <3>1. \A q \in Requests : Sound(req'[q])
          BY <1>5, <2>1 DEF UpdateDelete, CoherentInv, TypeOK, RequestState, Sound
    <3>2. Present' = Present \ {s}
          BY <1>5, <2>1 DEF UpdateDelete, Present, CoherentInv, TypeOK, NoRow, InRoster
    <3>3. env' = [env EXCEPT !.declinedBy = IF @ = s THEN None ELSE @]
          BY <1>5, <2>1 DEF UpdateDelete
    <3>4. Coherent(env') /\ env'.declinedBy \in Present' \union {None}
          BY <2>1, <3>2, <3>3 DEF CoherentInv, TypeOK, EnvelopeRow, EnvelopeCoherent, Coherent
    <3> QED
        BY <3>1, <3>4 DEF EnvelopeCoherent, Coherent
  <2>2. CASE ~(s \in Present /\ ~(env.status = "DECLINED" /\ env.declinedBy = s))
        BY <1>5, <2>2, RefuseCoherent DEF UpdateDelete
  <2> QED BY <2>1, <2>2
<1>6. CASE UpdateDone(r)
      BY <1>6, RefuseCoherent DEF UpdateDone
<1> QED
    BY <1>1, <1>2, <1>3, <1>4, <1>5, <1>6 DEF Updating

LEMMA SharingCoherent ==
  ASSUME CoherentInv, NEW r \in Requests, Sharing(r)
  PROVE  EnvelopeCoherent' /\ \A q \in Requests : Sound(req'[q])
PROOF
<1> DEFINE v == req[r].signer
<1>1. CASE ShareRead(r)
  <2>1. PICK s : Begin(r, [Idle EXCEPT !.pc = "share_create", !.signer = s])
        BY <1>1 DEF ShareRead
  <2>2. Sound([Idle EXCEPT !.pc = "share_create", !.signer = s])
        BY CopiesCoherent DEF Sound, Idle
  <2> QED
      BY <1>1, <2>1, <2>2, OneSound, CoherentRest, RosterSame DEF ShareRead
<1>2. CASE ShareCreate(r)
  <2>1. CASE HasStatus(v, "ABSENT")
    <3>1. Present \subseteq Present'
          BY <1>2, <2>1 DEF ShareCreate, Present, CoherentInv, TypeOK, SignerRow, InRoster
    <3> QED
        BY <1>2, <2>1, <3>1, GotoSound, CoherentRest DEF ShareCreate
  <2>2. CASE ~HasStatus(v, "ABSENT")
        BY <1>2, <2>2, RefuseCoherent DEF ShareCreate
  <2> QED BY <2>1, <2>2
<1>3. CASE ShareToken(r)
  <2>1. CASE v \in Present /\ row' = [row EXCEPT ![v].invited = TRUE] /\ End(r)
             /\ UNCHANGED <<env, stored>>
    <3>1. Present \subseteq Present'
          BY <2>1 DEF Present, CoherentInv, TypeOK, SignerRow
    <3> QED BY <2>1, <3>1, EndSound, CoherentRest
  <2> QED
      BY <1>3, <2>1, RefuseCoherent DEF ShareToken
<1> QED
    BY <1>1, <1>2, <1>3 DEF Sharing

LEMMA SigningCoherent ==
  ASSUME CoherentInv, NEW r \in Requests, Signing(r)
  PROVE  EnvelopeCoherent' /\ \A q \in Requests : Sound(req'[q])
PROOF
<1> DEFINE s == req[r].signer
<1>1. CASE SignStart(r)
  <2>1. PICK t \in Present, step \in {"sign_validate", "sign_validate_owner"} :
          Begin(r, [Idle EXCEPT !.pc = step, !.signer = t])
        BY <1>1 DEF SignStart
  <2>2. Sound([Idle EXCEPT !.pc = step, !.signer = t])
        BY CopiesCoherent DEF Sound, Idle
  <2> QED
      BY <1>1, <2>1, <2>2, OneSound, CoherentRest, RosterSame DEF SignStart
<1>2. CASE SignValidate(r)
      BY <1>2, RefuseCoherent, GotoSound, CoherentRest, RosterSame DEF SignValidate
<1>3. CASE SignConsent(r)
  <2>1. CASE s \in Present /\ ~row[s].consent
    <3>1. Present \subseteq Present'
          BY <1>3, <2>1 DEF SignConsent, Present, CoherentInv, TypeOK, SignerRow
    <3> QED
        BY <1>3, <2>1, <3>1, GotoSound, CoherentRest DEF SignConsent
  <2>2. CASE ~(s \in Present /\ ~row[s].consent)
        BY <1>3, <2>2, RefuseCoherent DEF SignConsent
  <2> QED BY <2>1, <2>2
<1>4. CASE SignDocument(r) \/ SignFind(r) \/ SignFinalize(r)
      BY <1>4, RefuseCoherent, GotoSound, CoherentRest, RosterSame
      DEF SignDocument, SignFind, SignFinalize
<1>5. CASE SignSave(r)
  <2>1. CASE s \in Present
    <3>1. Present \subseteq Present'
          BY <1>5, <2>1 DEF SignSave, Present, CoherentInv, TypeOK, SignerRow, InRoster
    <3> QED
        BY <1>5, <2>1, <3>1, GotoSound, CoherentRest DEF SignSave
  <2>2. CASE s \notin Present
        BY <1>5, <2>2, RefuseCoherent DEF SignSave
  <2> QED BY <2>1, <2>2
<1>6. CASE SignKey(r)
  <2>1. CASE row[s].consent /\ SignatureFits
    <3>1. EnvelopeCoherent'
          BY <1>6, <2>1, RosterSame
          DEF SignKey, CoherentInv, TypeOK, EnvelopeRow, EnvelopeCoherent, Coherent
    <3> QED
        BY <1>6, <2>1, <3>1, GotoSound DEF SignKey
  <2>2. CASE ~(row[s].consent /\ SignatureFits)
        BY <1>6, <2>2, RefuseCoherent DEF SignKey
  <2> QED BY <2>1, <2>2
<1>7. CASE SignHash(r)
  <2>1. EnvelopeCoherent'
        BY <1>7, RosterSame
        DEF SignHash, CoherentInv, TypeOK, EnvelopeRow, EnvelopeCoherent, Coherent
  <2> QED
      BY <1>7, <2>1, GotoSound DEF SignHash
<1>8. CASE CompleteWrite(r)
  <2>1. EnvelopeCoherent'
        BY <1>8, RosterSame
        DEF CompleteWrite, CoherentInv, TypeOK, EnvelopeRow, EnvelopeCoherent, Coherent
  <2> QED
      BY <1>8, <2>1, EndSound DEF CompleteWrite
<1> QED
    BY <1>1, <1>2, <1>3, <1>4, <1>5, <1>6, <1>7, <1>8 DEF Signing

LEMMA DecliningCoherent ==
  ASSUME CoherentInv, NEW r \in Requests, Declining(r)
  PROVE  EnvelopeCoherent' /\ \A q \in Requests : Sound(req'[q])
PROOF
<1> DEFINE s == req[r].signer
<1>1. CASE DeclineFind(r)
  <2>1. PICK t \in Present : Begin(r, [Idle EXCEPT !.pc = "decline_save", !.signer = t])
        BY <1>1 DEF DeclineFind
  <2>2. Sound([Idle EXCEPT !.pc = "decline_save", !.signer = t])
        BY CopiesCoherent DEF Sound, Idle, Present
  <2> QED
      BY <1>1, <2>1, <2>2, OneSound, CoherentRest, RosterSame DEF DeclineFind
<1>2. CASE DeclineSave(r)
  <2>1. CASE s \in Present /\ ~row[s].stamped
    <3>1. Present \subseteq Present' /\ s \in Participants
          BY <1>2, <2>1 DEF DeclineSave, Present, CoherentInv, TypeOK, SignerRow, InRoster
    <3> QED
        BY <1>2, <2>1, <3>1, GotoSound, CoherentRest DEF DeclineSave
  <2>2. CASE ~(s \in Present /\ ~row[s].stamped)
        BY <1>2, <2>2, RefuseCoherent DEF DeclineSave
  <2> QED BY <2>1, <2>2
<1>3. CASE DeclineRead(r)
  <2>1. s \in Participants
        BY <1>3 DEF DeclineRead, CoherentInv, Sound
  <2>2. \A q \in Requests : Sound(req'[q])
        BY <1>3, <2>1, CopiesCoherent DEF DeclineRead, CoherentInv, TypeOK, RequestState, Sound
  <2> QED
      BY <1>3, <2>2, CoherentRest, RosterSame DEF DeclineRead
<1>4. CASE DeclineWrite(r)
  <2>1. CASE Writable(req[r].seen)
        BY <1>4, <2>1, EndSound, CoherentWrite DEF DeclineWrite
  <2>2. CASE ~Writable(req[r].seen)
        BY <1>4, <2>2, RefuseCoherent DEF DeclineWrite
  <2> QED BY <2>1, <2>2
<1> QED
    BY <1>1, <1>2, <1>3, <1>4 DEF Declining

(***************************************************************************)
(* Coherence: the theorem                                                  *)
(***************************************************************************)
LEMMA CoherentInit == Init => CoherentInv
PROOF
<1> SUFFICES ASSUME Init PROVE CoherentInv
    OBVIOUS
<1>1. Coherent(DraftEnvelope)
      BY DEF Coherent, DraftEnvelope
<1>2. EnvelopeCoherent
      BY <1>1 DEF Init, EnvelopeCoherent, Coherent, DraftEnvelope
<1>3. \A r \in Requests : Sound(req[r])
      BY <1>1 DEF Init, Sound, Idle
<1> QED
    BY <1>2, <1>3, TypeInit DEF CoherentInv

LEMMA CoherentStep == CoherentInv /\ [Next]_vars => CoherentInv'
PROOF
<1> SUFFICES ASSUME CoherentInv, [Next]_vars PROVE CoherentInv'
    OBVIOUS
<1>1. TypeOK'
      BY TypeStep DEF CoherentInv
<1>2. ASSUME NEW r \in Requests, Handling(r) \/ Die(r)
      PROVE  EnvelopeCoherent' /\ \A q \in Requests : Sound(req'[q])
      BY <1>2, SendingCoherent, CancellingCoherent, UpdatingCoherent, SharingCoherent,
         SigningCoherent, DecliningCoherent, RefuseCoherent DEF Handling, Die
<1>3. CASE UNCHANGED vars
  <2>1. UNCHANGED env /\ UNCHANGED row /\ UNCHANGED req
        BY <1>3 DEF vars
  <2>2. EnvelopeCoherent'
        BY <2>1, CoherentRest, RosterSame
  <2>3. \A r \in Requests : Sound(req'[r])
        BY <2>1 DEF CoherentInv
  <2> QED
      BY <1>1, <2>2, <2>3 DEF CoherentInv, Sound, Coherent
<1> QED
    BY <1>1, <1>2, <1>3 DEF Next, CoherentInv, Sound, Coherent

(* The writes of any number of overlapping requests, stale as their copies *)
(* may be, and the deletion of any signer, keep the envelope row within    *)
(* the check constraints and the foreign key of its table.                 *)
THEOREM Coherence == Spec => []EnvelopeCoherent
PROOF
<1>1. CoherentInv => EnvelopeCoherent
      BY DEF CoherentInv
<1> QED
    BY <1>1, CoherentInit, CoherentStep, PTL DEF Spec

(***************************************************************************)
(* Completion: the inductive invariant                                     *)
(*                                                                         *)
(* When nobody updates or shares the envelope its roster stays as it is,   *)
(* so that who has signed, and the document a signature refers to, stay.   *)
(* Requests overlap and die as before.                                     *)
(***************************************************************************)
RosterSteps == {"update_write", "update_roster", "update_delete", "share_create", "share_token"}
AfterKey == {"sign_hash", "sign_finalize", "complete_write"}

RosterFixed == Operations \intersect {"update", "share"} = {}

\* A key names the document of a signature.
Signed(key) == \E s \in Present : HasStatus(s, "SIGNED") /\ row[s].evidence = key

\* The keys and hashes an envelope, or a copy of one, may hold.
Traces ==
  {<<None, None>>} \union
  {<<key, <<"signature", key>>>> : key \in {k \in Requests : Signed(k)}} \union
  {<<key, <<"content", other>>>> : key, other \in {k \in Requests : Signed(k)}}

\* A request's copy of the envelope is of before its completion, and past the save
\* of its signer's row it is the request that signed it.
Steady(r) ==
  /\ req[r].pc \notin RosterSteps
  /\ req[r].seen.status # "COMPLETED"
  /\ <<req[r].seen.signedKey, req[r].seen.signedSha>> \in Traces
  /\ req[r].pc \in AfterSave =>
       /\ req[r].signer \in Present
       /\ HasStatus(req[r].signer, "SIGNED") /\ row[req[r].signer].evidence = r
  /\ req[r].pc \in AfterKey => env.signedKey # None
  /\ req[r].pc = "complete_write" => AllSigned

CompletionInv ==
  /\ SigningInv
  /\ RosterFixed
  /\ \A r \in Requests : Steady(r)
  /\ <<env.signedKey, env.signedSha>> \in Traces
  /\ env.status = "COMPLETED" => AllSigned /\ env.signedKey # None

(***************************************************************************)
(* Completion: the steps                                                   *)
(***************************************************************************)
\* Nobody begins to change the roster, and nobody is at it.
LEMMA RosterLeft ==
  ASSUME CompletionInv, NEW r \in Requests
  PROVE  ~Updating(r) /\ ~Sharing(r)
PROOF
<1>1. req[r].pc \notin RosterSteps /\ RosterFixed
      BY DEF CompletionInv, Steady
<1>2. ~Updating(r)
      BY <1>1 DEF RosterSteps, RosterFixed, Updating, Invoked, UpdateRead, UpdateWrite, UpdateAdd,
                  UpdateFindRemoved, UpdateDelete, UpdateDone
<1>3. ~Sharing(r)
      BY <1>1 DEF RosterSteps, RosterFixed, Sharing, Invoked, ShareRead, ShareCreate, ShareToken
<1> QED
    BY <1>2, <1>3

\* So the roster stays.
LEMMA RosterKept ==
  ASSUME TypeOK, NEW r \in Requests,
         Sending(r) \/ Cancelling(r) \/ Signing(r) \/ Declining(r) \/ Die(r)
  PROVE  Present' = Present
PROOF
<1>1. row \in [Participants -> SignerRow]
      BY DEF TypeOK
<1>2. ASSUME NEW s \in Present, NEW new, new.status \in InRoster, row' = [row EXCEPT ![s] = new]
      PROVE  Present' = Present
      BY <1>1, <1>2 DEF Present
<1>3. CASE row' = row
      BY <1>3 DEF Present
<1>4. ASSUME NEW s \in Present,
             \/ row' = [row EXCEPT ![s].invited = TRUE]
             \/ row' = [row EXCEPT ![s].consent = TRUE]
             \/ row' = [row EXCEPT ![s].status = "SIGNED", ![s].stamped = TRUE, ![s].evidence = r]
             \/ row' = [row EXCEPT ![s].status = "DECLINED", ![s].evidence = None]
      PROVE  Present' = Present
  <2>1. row[s] \in SignerRow /\ row[s].status \in InRoster
        BY <1>1 DEF Present
  <2>2. \A t \in Participants : row'[t].status \in InRoster <=> row[t].status \in InRoster
        BY <1>1, <1>4, <2>1 DEF SignerRow, InRoster, Present
  <2> QED
      BY <2>2 DEF Present
<1>5. CASE Sending(r)
      BY <1>3, <1>4, <1>5 DEF Sending, SendRead, SendWrite, SendToken, SendDone, Refuse
<1>6. CASE Cancelling(r)
      BY <1>3, <1>6 DEF Cancelling, CancelRead, CancelWrite, Refuse
<1>7. CASE Signing(r)
      BY <1>3, <1>4, <1>7
      DEF Signing, SignStart, SignValidate, SignConsent, SignDocument, SignFind, SignSave, SignKey,
          SignHash, SignFinalize, CompleteWrite, Refuse
<1>8. CASE Declining(r)
      BY <1>3, <1>4, <1>8 DEF Declining, DeclineFind, DeclineSave, DeclineRead, DeclineWrite, Refuse
<1>9. CASE Die(r)
      BY <1>3, <1>9 DEF Die, Refuse
<1> QED
    BY <1>5, <1>6, <1>7, <1>8, <1>9

\* And with it the signatures.
LEMMA SignaturesLast ==
  ASSUME SigningInv, Next, Present' = Present
  PROVE  (AllSigned => AllSigned') /\ Traces \subseteq Traces'
PROOF
<1>1. \A s \in Present : s \in Participants /\ row'[s].status # "REMOVED"
      BY DEF Present, InRoster
<1>2. \A s \in Present : HasStatus(s, "SIGNED") =>
        row'[s].status = "SIGNED" /\ row'[s].evidence = row[s].evidence
      BY <1>1, SignedStays
<1>3. \A key : Signed(key) => Signed(key)'
      BY <1>2 DEF Signed, HasStatus
<1>4. AllSigned => AllSigned'
      BY <1>2 DEF AllSigned, HasStatus
<1>5. Traces \subseteq Traces'
      BY <1>3 DEF Traces
<1> QED
    BY <1>4, <1>5

\* What each step does to the envelope's row, and to the requests.
Keyed ==
  /\ env.signedKey # None => env'.signedKey # None
  /\ <<env'.signedKey, env'.signedSha>> \in Traces'
  /\ env'.status = "COMPLETED" => AllSigned' /\ env'.signedKey # None

Keeps(r) ==
  /\ \A q \in Requests \ {r} : req'[q] = req[q]
  /\ Steady(r)'
  /\ Keyed

LEMMA KeepsComplete ==
  ASSUME CompletionInv, SigningInv', Next, Present' = Present, NEW r \in Requests, Keeps(r)
  PROVE  CompletionInv'
PROOF
<1>1. (AllSigned => AllSigned') /\ Traces \subseteq Traces'
      BY SignaturesLast DEF CompletionInv
<1>2. ASSUME NEW q \in Requests \ {r}
      PROVE  Steady(q)'
  <2>1. Steady(q) /\ req'[q] = req[q] /\ (env.signedKey # None => env'.signedKey # None)
        BY DEF CompletionInv, Keeps, Keyed
  <2>2. <<req'[q].seen.signedKey, req'[q].seen.signedSha>> \in Traces'
        BY <1>1, <2>1 DEF Steady
  <2>3. req[q].pc \in AfterSave =>
          /\ req[q].signer \in Present'
          /\ row'[req[q].signer].status = "SIGNED" /\ row'[req[q].signer].evidence = q
    <3> SUFFICES ASSUME req[q].pc \in AfterSave
                 PROVE  /\ req[q].signer \in Present'
                        /\ row'[req[q].signer].status = "SIGNED" /\ row'[req[q].signer].evidence = q
        OBVIOUS
    <3>1. /\ req[q].signer \in Present /\ HasStatus(req[q].signer, "SIGNED")
          /\ row[req[q].signer].evidence = q
          BY <2>1 DEF Steady
    <3>2. req[q].signer \in Participants /\ row'[req[q].signer].status # "REMOVED"
          BY <3>1 DEF Present, InRoster
    <3> QED
        BY <3>1, <3>2, SignedStays DEF CompletionInv
  <2> QED
      BY <1>1, <2>1, <2>2, <2>3 DEF Steady, HasStatus
<1> QED
    BY <1>2 DEF CompletionInv, Keeps, Keyed, Steady, RosterFixed

\* A key and a hash are set together.
LEMMA TracesWhole ==
  ASSUME NEW key, NEW sha, <<key, sha>> \in Traces
  PROVE  key = None <=> sha = None
PROOF
<1>1. \A k \in Requests : k # None /\ <<"signature", k>> # None /\ <<"content", k>> # None
      BY ConstantsAssumption DEF Sha
<1> QED
    BY <1>1 DEF Traces

\* And a key that is set names a signature.
LEMMA TracesSigned ==
  ASSUME NEW key, NEW sha, <<key, sha>> \in Traces, key # None
  PROVE  key \in Requests /\ Signed(key)
PROOF BY DEF Traces

\* A row that is left alone, or written back from a request's copy.
LEMMA KeyedRow ==
  ASSUME CompletionInv, Next, Present' = Present, NEW r \in Requests,
         env' = env \/ (WriteEntity(req[r].seen) /\ row' = row)
  PROVE  Keyed
PROOF
<1>1. (AllSigned => AllSigned') /\ Traces \subseteq Traces'
      BY SignaturesLast DEF CompletionInv
<1>2. /\ env.status = "COMPLETED" => AllSigned /\ env.signedKey # None
      /\ req[r].seen.status # "COMPLETED"
      /\ <<req[r].seen.signedKey, req[r].seen.signedSha>> \in Traces
      /\ <<env.signedKey, env.signedSha>> \in Traces
      /\ req[r].seen \in EnvelopeRow /\ env \in EnvelopeRow
      BY DEF CompletionInv, Steady, SigningInv, TypeOK, RequestState
<1>3. CASE env' = env
      BY <1>1, <1>2, <1>3 DEF Keyed
<1>4. ASSUME WriteEntity(req[r].seen), row' = row
      PROVE  Keyed
  <2>1. /\ env'.status = req[r].seen.status
        /\ env'.signedKey = Kept(req[r].seen.signedKey, env.signedKey)
        /\ env'.signedSha = Kept(req[r].seen.signedSha, env.signedSha)
        BY <1>2, <1>4 DEF WriteEntity, EnvelopeRow
  <2>2. req[r].seen.signedKey = None <=> req[r].seen.signedSha = None
        BY <1>2, TracesWhole
  <2>3. <<env'.signedKey, env'.signedSha>> \in Traces
        BY <1>2, <2>1, <2>2 DEF Kept
  <2> QED
      BY <1>1, <1>2, <2>1, <2>3 DEF Keyed, Kept
<1> QED
    BY <1>3, <1>4

\* A request that goes on with the copy and the signer it has.
LEMMA GoesOnKeeps ==
  ASSUME CompletionInv, Next, Present' = Present, NEW r \in Requests, Keyed,
         req' \in [Requests -> RequestState], \A q \in Requests \ {r} : req'[q] = req[q],
         req'[r].seen = req[r].seen, req'[r].signer = req[r].signer,
         req'[r].pc \notin RosterSteps,
         req'[r].pc \in AfterSave => req[r].pc \in AfterSave,
         req'[r].pc \in AfterKey => env'.signedKey # None,
         req'[r].pc = "complete_write" => AllSigned
  PROVE  Keeps(r)
PROOF
<1>1. (AllSigned => AllSigned') /\ Traces \subseteq Traces'
      BY SignaturesLast DEF CompletionInv
<1>2. Steady(r)
      BY DEF CompletionInv
<1>3. <<req'[r].seen.signedKey, req'[r].seen.signedSha>> \in Traces'
      BY <1>1, <1>2 DEF Steady
<1>4. req'[r].pc \in AfterSave =>
        /\ req'[r].signer \in Present'
        /\ row'[req'[r].signer].status = "SIGNED" /\ row'[req'[r].signer].evidence = r
  <2> SUFFICES ASSUME req[r].pc \in AfterSave
               PROVE  /\ req[r].signer \in Present'
                      /\ row'[req[r].signer].status = "SIGNED" /\ row'[req[r].signer].evidence = r
      OBVIOUS
  <2>1. /\ req[r].signer \in Present /\ HasStatus(req[r].signer, "SIGNED")
        /\ row[req[r].signer].evidence = r
        BY <1>2 DEF Steady
  <2>2. req[r].signer \in Participants /\ row'[req[r].signer].status # "REMOVED"
        BY <2>1 DEF Present, InRoster
  <2> QED
      BY <2>1, <2>2, SignedStays DEF CompletionInv
<1>5. Steady(r)'
      BY <1>1, <1>2, <1>3, <1>4 DEF Steady, HasStatus
<1> QED
    BY <1>5 DEF Keeps

\* A request that begins, ends or reads has the copy it was given.
LEMMA FreshKeeps ==
  ASSUME CompletionInv, Next, Present' = Present, NEW r \in Requests, Keyed,
         NEW state, req' = [req EXCEPT ![r] = state],
         state.pc \notin RosterSteps \union AfterSave, state.seen.status # "COMPLETED",
         \/ state.seen.signedKey = None /\ state.seen.signedSha = None
         \/ /\ env' = env
            /\ state.seen.signedKey = env.signedKey /\ state.seen.signedSha = env.signedSha
  PROVE  Keeps(r)
PROOF
<1>1. req'[r] = state /\ \A q \in Requests \ {r} : req'[q] = req[q]
      BY DEF CompletionInv, SigningInv, TypeOK
<1>2. <<req'[r].seen.signedKey, req'[r].seen.signedSha>> \in Traces'
      BY <1>1 DEF Keyed, Traces
<1>3. req'[r].pc \notin AfterKey /\ req'[r].pc # "complete_write"
      BY <1>1 DEF AfterSave, AfterKey
<1>4. Steady(r)'
      BY <1>1, <1>2, <1>3 DEF Steady
<1> QED
    BY <1>1, <1>4 DEF Keeps

LEMMA EndKeeps ==
  ASSUME CompletionInv, Next, Present' = Present, NEW r \in Requests, Keyed, End(r)
  PROVE  Keeps(r)
PROOF
<1> PICK state : state = [Idle EXCEPT !.pc = "done"]
    OBVIOUS
<1>1. /\ state.pc = "done" /\ state.seen.status = "DRAFT"
      /\ state.seen.signedKey = None /\ state.seen.signedSha = None
      BY DEF Idle, DraftEnvelope
<1>2. req' = [req EXCEPT ![r] = state]
      BY DEF End
<1> QED
    BY <1>1, <1>2, FreshKeeps DEF RosterSteps, AfterSave

LEMMA RefuseKeeps ==
  ASSUME CompletionInv, Next, Present' = Present, NEW r \in Requests, Refuse(r)
  PROVE  Keeps(r)
PROOF
BY KeyedRow, EndKeeps DEF Refuse

LEMMA SendingKeeps ==
  ASSUME CompletionInv, Next, Present' = Present, NEW r \in Requests, Sending(r)
  PROVE  Keeps(r)
PROOF
<1>1. /\ env \in EnvelopeRow /\ req \in [Requests -> RequestState]
      BY DEF CompletionInv, SigningInv, TypeOK
<1>2. ASSUME NEW targets, Begin(r, [Idle EXCEPT !.pc = "send_tokens", !.add = targets]), Keyed
      PROVE  Keeps(r)
  <2> PICK state : state = [Idle EXCEPT !.pc = "send_tokens", !.add = targets]
      OBVIOUS
  <2>1. /\ state.pc = "send_tokens" /\ state.seen.status = "DRAFT"
        /\ state.seen.signedKey = None /\ state.seen.signedSha = None
        BY DEF Idle, DraftEnvelope
  <2> QED
      BY <1>2, <2>1, FreshKeeps DEF Begin, RosterSteps, AfterSave
<1>3. CASE SendRead(r)
  <2>1. Keyed
        BY <1>3, KeyedRow DEF SendRead
  <2>2. ASSUME Begin(r, [Idle EXCEPT !.pc = "send_write",
                                     !.seen = [env EXCEPT !.status = "READY_FOR_SIGNATURE",
                                                          !.sentAt = TRUE]])
        PROVE  Keeps(r)
    <3> PICK copy : copy = [env EXCEPT !.status = "READY_FOR_SIGNATURE", !.sentAt = TRUE]
        OBVIOUS
    <3> PICK state : state = [Idle EXCEPT !.pc = "send_write", !.seen = copy]
        OBVIOUS
    <3>1. /\ copy.status = "READY_FOR_SIGNATURE"
          /\ copy.signedKey = env.signedKey /\ copy.signedSha = env.signedSha
          BY <1>1 DEF EnvelopeRow
    <3>2. state.pc = "send_write" /\ state.seen = copy
          BY DEF Idle
    <3>3. env' = env
          BY <1>3 DEF SendRead
    <3> QED
        BY <2>1, <2>2, <3>1, <3>2, <3>3, FreshKeeps DEF Begin, RosterSteps, AfterSave
  <2> QED
      BY <1>2, <1>3, <2>1, <2>2 DEF SendRead
<1>4. CASE SendWrite(r)
  <2>1. CASE Writable(req[r].seen)
        BY <1>2, <1>4, <2>1, KeyedRow DEF SendWrite
  <2>2. CASE ~Writable(req[r].seen)
        BY <1>4, <2>2, RefuseKeeps DEF SendWrite
  <2> QED
      BY <2>1, <2>2
<1>5. CASE SendToken(r)
  <2>1. ASSUME NEW s \in req[r].add,
               req' = [req EXCEPT ![r].add = @ \ {s}], UNCHANGED <<env, stored>>
        PROVE  Keeps(r)
    <3>1. Keyed
          BY <2>1, KeyedRow
    <3>2. /\ req' \in [Requests -> RequestState] /\ \A q \in Requests \ {r} : req'[q] = req[q]
          /\ req'[r].pc = req[r].pc /\ req'[r].seen = req[r].seen /\ req'[r].signer = req[r].signer
          BY <1>1, <2>1 DEF RequestState
    <3>3. req[r].pc = "send_tokens"
          BY <1>5 DEF SendToken
    <3> QED
        BY <3>1, <3>2, <3>3, GoesOnKeeps DEF RosterSteps, AfterSave, AfterKey
  <2> QED
      BY <1>5, <2>1, RefuseKeeps DEF SendToken
<1>6. CASE SendDone(r)
      BY <1>6, RefuseKeeps DEF SendDone
<1> QED
    BY <1>3, <1>4, <1>5, <1>6 DEF Sending

LEMMA CancellingKeeps ==
  ASSUME CompletionInv, Next, Present' = Present, NEW r \in Requests, Cancelling(r)
  PROVE  Keeps(r)
PROOF
<1>1. CASE CancelRead(r)
  <2> PICK copy : copy = [env EXCEPT !.status = "CANCELLED", !.cancelledAt = TRUE]
      OBVIOUS
  <2> PICK state : state = [Idle EXCEPT !.pc = "cancel_write", !.seen = copy]
      OBVIOUS
  <2>1. /\ copy.status = "CANCELLED"
        /\ copy.signedKey = env.signedKey /\ copy.signedSha = env.signedSha
        BY DEF CompletionInv, SigningInv, TypeOK, EnvelopeRow
  <2>2. state.pc = "cancel_write" /\ state.seen = copy
        BY DEF Idle
  <2>3. env' = env /\ req' = [req EXCEPT ![r] = state]
        BY <1>1 DEF CancelRead, Begin
  <2> QED
      BY <2>1, <2>2, <2>3, KeyedRow, FreshKeeps DEF RosterSteps, AfterSave
<1>2. CASE CancelWrite(r)
  <2>1. CASE Writable(req[r].seen)
        BY <1>2, <2>1, KeyedRow, EndKeeps DEF CancelWrite
  <2>2. CASE ~Writable(req[r].seen)
        BY <1>2, <2>2, RefuseKeeps DEF CancelWrite
  <2> QED
      BY <2>1, <2>2
<1> QED
    BY <1>1, <1>2 DEF Cancelling

LEMMA SigningKeeps ==
  ASSUME CompletionInv, Next, Present' = Present, NEW r \in Requests, Signing(r)
  PROVE  Keeps(r)
PROOF
<1>1. /\ env \in EnvelopeRow /\ req \in [Requests -> RequestState] /\ Steady(r) /\ r # None
      /\ row \in [Participants -> SignerRow]
      BY ConstantsAssumption DEF CompletionInv, SigningInv, TypeOK
<1>2. ASSUME NEW step \in RequestSteps, Goto(r, step), Keyed, step \notin RosterSteps,
             step \in AfterSave => req[r].pc \in AfterSave,
             step \in AfterKey => env'.signedKey # None,
             step = "complete_write" => AllSigned
      PROVE  Keeps(r)
  <2>1. /\ req' \in [Requests -> RequestState] /\ \A q \in Requests \ {r} : req'[q] = req[q]
        /\ req'[r].pc = step /\ req'[r].seen = req[r].seen /\ req'[r].signer = req[r].signer
        BY <1>1, <1>2 DEF Goto, RequestState
  <2> QED
      BY <1>2, <2>1, GoesOnKeeps
<1>3. {"sign_consent", "sign_document", "sign_find", "sign_save", "sign_key", "sign_hash",
       "sign_finalize", "complete_write"} \subseteq RequestSteps \ RosterSteps
      BY DEF RequestSteps, SignSteps, RosterSteps
<1> USE DEF AfterSave, AfterKey
<1>4. CASE SignStart(r)
  <2> PICK s \in Present, step \in {"sign_validate", "sign_validate_owner"} :
           Begin(r, [Idle EXCEPT !.pc = step, !.signer = s])
      BY <1>4 DEF SignStart
  <2> PICK state : state = [Idle EXCEPT !.pc = step, !.signer = s]
      OBVIOUS
  <2>1. /\ state.pc = step /\ state.seen.status = "DRAFT"
        /\ state.seen.signedKey = None /\ state.seen.signedSha = None
        BY DEF Idle, DraftEnvelope
  <2>2. env' = env /\ req' = [req EXCEPT ![r] = state]
        BY <1>4 DEF SignStart, Begin
  <2> QED
      BY <2>1, <2>2, KeyedRow, FreshKeeps DEF RosterSteps
<1>5. CASE SignValidate(r)
  <2>1. Goto(r, "sign_consent") /\ env' = env => Keeps(r)
        BY <1>2, <1>3, KeyedRow
  <2> QED
      BY <1>5, <2>1, RefuseKeeps DEF SignValidate
<1>6. CASE SignConsent(r)
  <2>1. Goto(r, "sign_document") /\ env' = env => Keeps(r)
        BY <1>2, <1>3, KeyedRow
  <2> QED
      BY <1>6, <2>1, RefuseKeeps DEF SignConsent
<1>7. CASE SignDocument(r)
  <2>1. Goto(r, "sign_find") /\ env' = env => Keeps(r)
        BY <1>2, <1>3, KeyedRow
  <2> QED
      BY <1>7, <2>1 DEF SignDocument
<1>8. CASE SignFind(r)
  <2>1. Goto(r, "sign_save") /\ env' = env => Keeps(r)
        BY <1>2, <1>3, KeyedRow
  <2> QED
      BY <1>8, <2>1, RefuseKeeps DEF SignFind
<1>9. CASE SignSave(r)
  <2> DEFINE s == req[r].signer
  <2>1. ASSUME s \in Present,
               row' = [row EXCEPT ![s].status = "SIGNED", ![s].stamped = TRUE, ![s].evidence = r],
               Goto(r, "sign_key"), UNCHANGED <<env, stored>>
        PROVE  Keeps(r)
    <3>1. Keyed
          BY <2>1, KeyedRow
    <3>2. /\ \A q \in Requests \ {r} : req'[q] = req[q]
          /\ req'[r].pc = "sign_key" /\ req'[r].seen = req[r].seen /\ req'[r].signer = s
          BY <1>1, <2>1 DEF Goto, RequestState
    <3>3. row'[s].status = "SIGNED" /\ row'[s].evidence = r /\ s \in Present'
          BY <1>1, <2>1 DEF Present, SignerRow
    <3>4. <<req'[r].seen.signedKey, req'[r].seen.signedSha>> \in Traces'
          BY <1>1, <3>2, SignaturesLast DEF CompletionInv, Steady
    <3>5. Steady(r)'
          BY <1>1, <3>2, <3>3, <3>4 DEF Steady, RosterSteps, HasStatus
    <3> QED
        BY <3>1, <3>2, <3>5 DEF Keeps
  <2> QED
      BY <1>9, <2>1, RefuseKeeps DEF SignSave
<1>10. CASE SignKey(r)
  <2>1. ASSUME env' = [env EXCEPT !.signedKey = r, !.signedSha = <<"signature", r>>],
               Goto(r, "sign_hash"), row' = row
        PROVE  Keeps(r)
    <3>1. env'.signedKey = r /\ env'.signedSha = <<"signature", r>> /\ env'.status = env.status
          BY <1>1, <2>1 DEF EnvelopeRow
    <3>2. Signed(r)
          BY <1>1, <1>10 DEF SignKey, Steady, Signed
    <3>3. <<r, <<"signature", r>>>> \in Traces
          BY <3>2 DEF Traces
    <3>4. (AllSigned => AllSigned') /\ Traces \subseteq Traces'
          BY SignaturesLast DEF CompletionInv
    <3>5. Keyed
          BY <1>1, <3>1, <3>3, <3>4 DEF Keyed, CompletionInv
    <3> QED
        BY <1>1, <1>2, <1>3, <1>10, <2>1, <3>1, <3>5 DEF SignKey
  <2> QED
      BY <1>10, <2>1, RefuseKeeps DEF SignKey
<1>11. CASE SignHash(r)
  <2>1. /\ env'.signedKey = env.signedKey /\ env'.signedSha = <<"content", r>>
        /\ env'.status = env.status
        BY <1>1, <1>11 DEF SignHash, EnvelopeRow
  <2>2. env.signedKey # None /\ Signed(r)
        BY <1>1, <1>11 DEF SignHash, Steady, Signed
  <2>3. <<env.signedKey, <<"content", r>>>> \in Traces
    <3>1. <<env.signedKey, env.signedSha>> \in Traces
          BY DEF CompletionInv
    <3>2. env.signedKey \in Requests /\ Signed(env.signedKey)
          BY <2>2, <3>1, TracesSigned
    <3> QED
        BY <2>2, <3>2 DEF Traces
  <2>4. (AllSigned => AllSigned') /\ Traces \subseteq Traces'
        BY SignaturesLast DEF CompletionInv
  <2>5. Keyed
        BY <2>1, <2>2, <2>3, <2>4 DEF Keyed, CompletionInv
  <2> QED
      BY <1>2, <1>3, <1>11, <2>1, <2>2, <2>5 DEF SignHash
<1>12. CASE SignFinalize(r)
  <2>1. Goto(r, "complete_write") /\ env' = env /\ AllSigned => Keeps(r)
    <3>1. env' = env => Keyed
          BY KeyedRow
    <3>2. env.signedKey # None
          BY <1>1, <1>12 DEF SignFinalize, Steady
    <3> QED
        BY <1>2, <1>3, <1>12, <3>1, <3>2 DEF SignFinalize
  <2> QED
      BY <1>12, <2>1, RefuseKeeps DEF SignFinalize
<1>13. CASE CompleteWrite(r)
  <2>1. /\ env'.signedKey = env.signedKey /\ env'.signedSha = env.signedSha
        /\ row' = row /\ End(r)
        BY <1>1, <1>13 DEF CompleteWrite, EnvelopeRow
  <2>2. env'.signedKey # None /\ AllSigned'
        BY <1>1, <1>13, <2>1 DEF CompleteWrite, Steady, AllSigned, Present, HasStatus
  <2>3. <<env'.signedKey, env'.signedSha>> \in Traces'
        BY <2>1, SignaturesLast DEF CompletionInv
  <2>4. Keyed
        BY <2>2, <2>3 DEF Keyed
  <2> QED
      BY <2>1, <2>4, EndKeeps
<1> QED
    BY <1>4, <1>5, <1>6, <1>7, <1>8, <1>9, <1>10, <1>11, <1>12, <1>13 DEF Signing

LEMMA DecliningKeeps ==
  ASSUME CompletionInv, Next, Present' = Present, NEW r \in Requests, Declining(r)
  PROVE  Keeps(r)
PROOF
<1>1. /\ env \in EnvelopeRow /\ req \in [Requests -> RequestState]
      BY DEF CompletionInv, SigningInv, TypeOK
<1>2. CASE DeclineFind(r)
  <2> PICK s \in Present : Begin(r, [Idle EXCEPT !.pc = "decline_save", !.signer = s])
      BY <1>2 DEF DeclineFind
  <2> PICK state : state = [Idle EXCEPT !.pc = "decline_save", !.signer = s]
      OBVIOUS
  <2>1. /\ state.pc = "decline_save" /\ state.seen.status = "DRAFT"
        /\ state.seen.signedKey = None /\ state.seen.signedSha = None
        BY DEF Idle, DraftEnvelope
  <2>2. env' = env /\ req' = [req EXCEPT ![r] = state]
        BY <1>2 DEF DeclineFind, Begin
  <2> QED
      BY <2>1, <2>2, KeyedRow, FreshKeeps DEF RosterSteps, AfterSave
<1>3. CASE DeclineSave(r)
  <2>1. ASSUME Goto(r, "decline_read"), env' = env
        PROVE  Keeps(r)
    <3>1. /\ req' \in [Requests -> RequestState] /\ \A q \in Requests \ {r} : req'[q] = req[q]
          /\ req'[r].pc = "decline_read" /\ req'[r].seen = req[r].seen
          /\ req'[r].signer = req[r].signer
          BY <1>1, <2>1 DEF Goto, RequestState, RequestSteps
    <3>2. Keyed
          BY <2>1, KeyedRow
    <3> QED
        BY <3>1, <3>2, GoesOnKeeps DEF RosterSteps, AfterSave, AfterKey
  <2> QED
      BY <1>3, <2>1, RefuseKeeps DEF DeclineSave
<1>4. CASE DeclineRead(r)
  <2> PICK copy : copy = [env EXCEPT !.status = "DECLINED", !.declinedAt = TRUE,
                                     !.declinedBy = req[r].signer]
      OBVIOUS
  <2> PICK state : state = [req[r] EXCEPT !.pc = "decline_write", !.seen = copy]
      OBVIOUS
  <2>1. /\ copy.status = "DECLINED"
        /\ copy.signedKey = env.signedKey /\ copy.signedSha = env.signedSha
        BY <1>1 DEF EnvelopeRow
  <2>2. state.pc = "decline_write" /\ state.seen = copy
        BY <1>1 DEF RequestState
  <2>3. env' = env /\ req' = [req EXCEPT ![r] = state]
        BY <1>1, <1>4 DEF DeclineRead
  <2> QED
      BY <2>1, <2>2, <2>3, KeyedRow, FreshKeeps DEF RosterSteps, AfterSave
<1>5. CASE DeclineWrite(r)
  <2>1. CASE Writable(req[r].seen)
        BY <1>5, <2>1, KeyedRow, EndKeeps DEF DeclineWrite
  <2>2. CASE ~Writable(req[r].seen)
        BY <1>5, <2>2, RefuseKeeps DEF DeclineWrite
  <2> QED
      BY <2>1, <2>2
<1> QED
    BY <1>2, <1>3, <1>4, <1>5 DEF Declining

(***************************************************************************)
(* Completion: the theorems                                                *)
(***************************************************************************)
LEMMA CompletionInit == Init /\ RosterFixed => CompletionInv
PROOF
<1> SUFFICES ASSUME Init, RosterFixed PROVE CompletionInv
    OBVIOUS
<1>1. \A r \in Requests : Steady(r)
      BY DEF Init, Idle, DraftEnvelope, Steady, RosterSteps, AfterSave, AfterKey, Traces
<1>2. /\ <<env.signedKey, env.signedSha>> \in Traces
      /\ env.status # "COMPLETED"
      BY DEF Init, DraftEnvelope, Traces
<1> QED
    BY <1>1, <1>2, SigningInvInit DEF CompletionInv

LEMMA CompletionStep == CompletionInv /\ [Next]_vars => CompletionInv'
PROOF
<1> SUFFICES ASSUME CompletionInv, [Next]_vars PROVE CompletionInv'
    OBVIOUS
<1>1. SigningInv'
      BY SigningInvStep DEF CompletionInv
<1>2. CASE UNCHANGED vars
      BY <1>1, <1>2 DEF vars, CompletionInv, RosterFixed, Steady, Traces, Signed, AllSigned, Present, HasStatus
<1>3. ASSUME Next
      PROVE  CompletionInv'
  <2> PICK r \in Requests : Handling(r) \/ Die(r)
      BY <1>3 DEF Next
  <2>1. Sending(r) \/ Cancelling(r) \/ Signing(r) \/ Declining(r) \/ Die(r)
        BY RosterLeft DEF Handling
  <2>2. Present' = Present
        BY <2>1, RosterKept DEF CompletionInv, SigningInv
  <2>3. Keeps(r)
        BY <1>3, <2>1, <2>2, SendingKeeps, CancellingKeeps, SigningKeeps, DecliningKeeps,
           RefuseKeeps DEF Die
  <2> QED
      BY <1>1, <1>3, <2>2, <2>3, KeepsComplete
<1> QED
    BY <1>2, <1>3

LEMMA CompletionInvariant == Spec /\ RosterFixed => []CompletionInv
PROOF
BY CompletionInit, CompletionStep, PTL DEF Spec

(* While nobody updates or shares it, an envelope is COMPLETED only when   *)
(* everybody on it has signed, however the requests overlap and die:       *)
(* nobody comes or goes between the check of completeEnvelope and its      *)
(* write, and no stale copy completes it again.                            *)
THEOREM CompletionSound == Spec /\ RosterFixed => []CompletedIsAllSigned
PROOF
<1>1. CompletionInv => CompletedIsAllSigned
      BY DEF CompletionInv, CompletedIsAllSigned
<1> QED
    BY <1>1, CompletionInvariant, PTL

(* And then its signed document is that of one of the signatures on it:    *)
(* a stale copy may bring back an earlier signature's document, never none *)
(* and never that of a row which is not SIGNED.                            *)
THEOREM CompletionDocument == Spec /\ RosterFixed => []CompletedHasDocument
PROOF
<1>1. CompletionInv => CompletedHasDocument
      BY TracesSigned DEF CompletionInv, CompletedHasDocument, Signed
<1> QED
    BY <1>1, CompletionInvariant, PTL

(* And the hash recorded with it is of some signature's content, or of the *)
(* very signature whose document is at signedKey, although requests write  *)
(* key and hash by turns and copies of both from before over them.         *)
THEOREM HashRecorded == Spec /\ RosterFixed => []RecordedHash
PROOF
<1>1. CompletionInv => RecordedHash
  <2> SUFFICES ASSUME CompletionInv, env.signedKey # None
               PROVE  RecordedHash
      BY DEF RecordedHash
  <2> PICK key, sha : key = env.signedKey /\ sha = env.signedSha
      OBVIOUS
  <2>1. /\ <<key, sha>> \in Traces /\ key # None
        BY DEF CompletionInv
  <2>2. \E signed \in Requests :
          /\ Signed(signed)
          /\ sha = <<"content", signed>> \/ (sha = <<"signature", signed>> /\ key = signed)
        BY <2>1 DEF Traces
  <2> QED
      BY <2>2 DEF RecordedHash, Signed
<1> QED
    BY <1>1, CompletionInvariant, PTL

(***************************************************************************)
(* Requests that do not overlap: the inductive invariant                   *)
(*                                                                         *)
(* A request finds everything as it read it: its copy is the row with its  *)
(* own change, and the statuses it looked at have not changed.             *)
(***************************************************************************)
OfOpen == {"cancel_write", "update_write", "update_roster", "update_delete", "share_create", "share_token"}
OfReady == SignSteps \union {"sign_validate_owner"}
OfDecline == {"decline_save", "decline_read", "decline_write"}

Sent == [env EXCEPT !.status = "READY_FOR_SIGNATURE", !.sentAt = TRUE]
Cancelled == [env EXCEPT !.status = "CANCELLED", !.cancelledAt = TRUE]
Declined(s) == [env EXCEPT !.status = "DECLINED", !.declinedAt = TRUE, !.declinedBy = s]

\* The envelope is as the request found it.
Finds(r) ==
  /\ req[r].pc = "send_write" => env.status = "DRAFT" /\ req[r].seen = Sent
  /\ req[r].pc \in OfOpen => env.status \in Open
  /\ req[r].pc = "cancel_write" => req[r].seen = Cancelled
  /\ req[r].pc = "update_write" => req[r].seen = env
  /\ req[r].pc \in OfReady => env.status = "READY_FOR_SIGNATURE"
  /\ req[r].pc = "complete_write" => AllSigned
  /\ req[r].pc \in OfDecline => env.status # "COMPLETED"
  /\ req[r].pc = "decline_write" => req[r].seen = Declined(req[r].signer)

\* So is the participant it works on.
FindsSigner(r) ==
  /\ req[r].pc \in OfReady \union OfDecline \union {"share_create"} => req[r].signer \in Participants
  /\ req[r].pc = "update_delete" => row[req[r].signer].status \in {"PENDING", "DECLINED"}
  /\ req[r].pc \in {"sign_save", "decline_save"} => HasStatus(req[r].signer, "PENDING")
  /\ req[r].pc \in {"decline_read", "decline_write"} => HasStatus(req[r].signer, "DECLINED")

\* What a user may read in the rows between any two requests.
Consistent ==
  /\ env.status = "COMPLETED" => AllSigned
  /\ env.status = "DECLINED" => env.declinedBy \in Participants
  /\ DeclinerDeclined

SerialInv ==
  /\ TypeOK
  /\ ~Overlap
  /\ \A q, r \in Requests : Running(q) /\ Running(r) => q = r
  /\ \A r \in Requests : Finds(r) /\ FindsSigner(r)
  /\ Consistent

(***************************************************************************)
(* Requests that do not overlap: one request's step                        *)
(***************************************************************************)
\* What its users see of the envelope, and what a step may do to that.
Statuses == [s \in Participants |-> row[s].status]

Promised == Lifecycle!Next \/ UNCHANGED <<env.status, Statuses>>

Serves(r) ==
  /\ \A q \in Requests \ {r} : req'[q] = req[q]
  /\ Running(r) \/ \A q \in Requests : ~Running(q)
  /\ Finds(r)' /\ FindsSigner(r)'
  /\ Consistent'
  /\ Promised

LEMMA ServesSerial ==
  ASSUME SerialInv, TypeOK', NEW r \in Requests, Serves(r)
  PROVE  SerialInv'
PROOF
<1>1. \A q \in Requests \ {r} : ~Running(q)
      BY DEF SerialInv, Serves
<1>2. ASSUME NEW q \in Requests \ {r}
      PROVE  ~Running(q)' /\ Finds(q)' /\ FindsSigner(q)'
  <2>1. req'[q] = req[q] /\ req[q].pc \in {"idle", "done"}
        BY <1>1 DEF Serves, Running
  <2> QED
      BY <2>1 DEF Running, Finds, FindsSigner, OfOpen, OfReady, OfDecline, SignSteps
<1>3. \A p, q \in Requests : Running(p)' /\ Running(q)' => p = q
      BY <1>2
<1> QED
    BY <1>2, <1>3 DEF SerialInv, Serves

\* The ways a request moves.
LEMMA Moves ==
  ASSUME TypeOK, NEW r \in Requests
  PROVE  /\ \A state : Begin(r, state) =>
              req'[r] = state /\ \A q \in Requests \ {r} : req'[q] = req[q]
         /\ \A step : Goto(r, step) =>
              /\ req'[r].pc = step /\ req'[r].seen = req[r].seen /\ req'[r].signer = req[r].signer
              /\ \A q \in Requests \ {r} : req'[q] = req[q]
         /\ End(r) => req'[r].pc = "done" /\ \A q \in Requests \ {r} : req'[q] = req[q]
PROOF
BY DEF TypeOK, RequestState, Begin, Goto, End, Idle

\* A step that changes no status.
LEMMA StillConsistent ==
  ASSUME SerialInv, env' = env, \A s \in Participants : row'[s].status = row[s].status
  PROVE  /\ Consistent' /\ Promised /\ AllSigned' = AllSigned
         /\ \A s \in Participants : \A value : HasStatus(s, value)' <=> HasStatus(s, value)
PROOF
<1>1. \A s \in Participants : \A value : HasStatus(s, value)' <=> HasStatus(s, value)
      BY DEF HasStatus
<1>2. AllSigned' = AllSigned
      BY <1>1 DEF AllSigned, Present, HasStatus
<1>3. Statuses' = Statuses
      BY DEF Statuses
<1>4. Consistent'
      BY <1>1, <1>2 DEF SerialInv, Consistent, DeclinerDeclined, HasStatus
<1> QED
    BY <1>1, <1>2, <1>3, <1>4 DEF Promised

\* A step that changes the status of the envelope, or that of one participant.
LEMMA StatusMoves ==
  ASSUME SerialInv, row' = row
  PROVE  /\ env.status = "DRAFT" /\ env'.status = "READY_FOR_SIGNATURE" => Promised
         /\ env.status \in Open /\ env'.status = "CANCELLED" => Promised
         /\ env'.status = env.status => Promised
         /\ \A s \in Participants :
              env.status # "COMPLETED" /\ HasStatus(s, "DECLINED") /\ env'.status = "DECLINED"
                => Promised
         /\ env.status = "READY_FOR_SIGNATURE" /\ AllSigned /\ env'.status = "COMPLETED"
              => Promised
PROOF
<1>1. Statuses' = Statuses /\ \A s \in Participants : Statuses[s] = row[s].status
      BY DEF Statuses
<1> USE <1>1 DEF Promised, Statuses, Lifecycle!Next, Lifecycle!Move
<1>2. env.status = "DRAFT" /\ env'.status = "READY_FOR_SIGNATURE" => Promised
      BY DEF Lifecycle!Send
<1>3. env.status \in Open /\ env'.status = "CANCELLED" => Promised
      BY DEF Lifecycle!Cancel, Lifecycle!Open, Open
<1>4. env'.status = env.status => Promised
      OBVIOUS
<1>5. ASSUME NEW s \in Participants, env.status # "COMPLETED", HasStatus(s, "DECLINED"),
             env'.status = "DECLINED"
      PROVE  Promised
      BY <1>5 DEF Lifecycle!Close, Lifecycle!Is, HasStatus
<1>6. ASSUME env.status = "READY_FOR_SIGNATURE", AllSigned, env'.status = "COMPLETED"
      PROVE  Promised
  <2>1. \A s \in Participants : Statuses[s] \notin {"PENDING", "DECLINED"}
        BY <1>6 DEF AllSigned, Present, InRoster, HasStatus
  <2> QED
      BY <1>6, <2>1 DEF Lifecycle!Complete, Lifecycle!Is
<1> QED
    BY <1>2, <1>3, <1>4, <1>5, <1>6

LEMMA SignerMoves ==
  ASSUME SerialInv, env'.status = env.status, NEW s \in Participants,
         \A t \in Participants \ {s} : row'[t].status = row[t].status
  PROVE  /\ env.status \in Open /\ HasStatus(s, "ABSENT") /\ row'[s].status = "PENDING" => Promised
         /\ /\ env.status \in Open
            /\ row[s].status \in {"PENDING", "DECLINED"} /\ row'[s].status = "REMOVED"
            => Promised
         /\ /\ env.status = "READY_FOR_SIGNATURE"
            /\ HasStatus(s, "PENDING") /\ row'[s].status = "SIGNED"
            => Promised
         /\ env.status # "COMPLETED" /\ HasStatus(s, "PENDING") /\ row'[s].status = "DECLINED"
            => Promised
PROOF
<1>1. Statuses' = [Statuses EXCEPT ![s] = row'[s].status] /\ Statuses[s] = row[s].status
      BY DEF Statuses
<1> USE <1>1 DEF Promised, Statuses, Lifecycle!Next, Lifecycle!Become, Lifecycle!Is, HasStatus
<1>2. env.status \in Open /\ HasStatus(s, "ABSENT") /\ row'[s].status = "PENDING" => Promised
      BY DEF Lifecycle!Join, Lifecycle!Open, Open
<1>3. /\ env.status \in Open
      /\ row[s].status \in {"PENDING", "DECLINED"} /\ row'[s].status = "REMOVED"
      => Promised
      BY DEF Lifecycle!Leave, Lifecycle!Open, Open
<1>4. /\ env.status = "READY_FOR_SIGNATURE"
      /\ HasStatus(s, "PENDING") /\ row'[s].status = "SIGNED"
      => Promised
      BY DEF Lifecycle!Sign
<1>5. env.status # "COMPLETED" /\ HasStatus(s, "PENDING") /\ row'[s].status = "DECLINED" => Promised
      BY DEF Lifecycle!Decline
<1> QED
    BY <1>2, <1>3, <1>4, <1>5

\* While the envelope is open, whatever happens to its rows is consistent.
LEMMA OpenConsistent ==
  ASSUME SerialInv, env'.status \in Open,
         env'.signedKey = env.signedKey, env'.signedSha = env.signedSha
  PROVE  Consistent'
PROOF
BY DEF SerialInv, Consistent, DeclinerDeclined, Open

\* A copy that has the row's own keys is written as it is.
LEMMA WriteFields ==
  ASSUME TypeOK, NEW r \in Requests, NEW entity \in EnvelopeRow, WriteEntity(entity),
         entity.signedKey = env.signedKey, entity.signedSha = env.signedSha
  PROVE  /\ env'.status = entity.status
         /\ env'.signedKey = env.signedKey /\ env'.signedSha = env.signedSha
         /\ env'.declinedBy = IF entity.declinedBy = None THEN env.declinedBy ELSE entity.declinedBy
PROOF
BY DEF TypeOK, WriteEntity, Kept, EnvelopeRow

\* A request that ends finds nothing, and one that is refused changes nothing.
LEMMA EndServes ==
  ASSUME SerialInv, NEW r \in Requests, End(r), Running(r), Consistent', Promised
  PROVE  Serves(r)
PROOF
<1>1. req'[r].pc = "done" /\ \A q \in Requests \ {r} : req'[q] = req[q]
      BY Moves DEF SerialInv
<1> QED
    BY <1>1 DEF Serves, Finds, FindsSigner, OfOpen, OfReady, OfDecline, SignSteps

LEMMA RefuseServes ==
  ASSUME SerialInv, NEW r \in Requests, Refuse(r), Running(r)
  PROVE  Serves(r)
PROOF
<1>1. Consistent' /\ Promised
      BY StillConsistent DEF Refuse
<1> QED
    BY <1>1, EndServes DEF Refuse

\* A request that begins.
LEMMA BeginServes ==
  ASSUME SerialInv, NEW r \in Requests, NEW op, Invoked(r, op), NEW state, Begin(r, state),
         UNCHANGED <<env, row, stored>>,
         state.pc \in {"send_write", "send_tokens", "cancel_write", "update_write", "share_create",
                       "sign_validate", "sign_validate_owner", "decline_save"},
         state.pc = "send_write" => env.status = "DRAFT" /\ state.seen = Sent,
         state.pc \in OfOpen => env.status \in Open,
         state.pc = "cancel_write" => state.seen = Cancelled,
         state.pc = "update_write" => state.seen = env,
         state.pc \in OfReady => env.status = "READY_FOR_SIGNATURE",
         state.pc \in OfReady \union {"share_create"} => state.signer \in Participants,
         state.pc = "decline_save" =>
           env.status # "COMPLETED" /\ state.signer \in Participants /\ HasStatus(state.signer, "PENDING")
  PROVE  Serves(r)
PROOF
<1>1. req'[r] = state /\ \A q \in Requests \ {r} : req'[q] = req[q]
      BY Moves DEF SerialInv
<1>2. Consistent' /\ Promised
      BY StillConsistent
<1>3. \A q \in Requests : ~Running(q)
      BY DEF SerialInv, Invoked
<1>4. Finds(r)'
      BY <1>1 DEF Finds, Sent, Cancelled, OfDecline
<1>5. FindsSigner(r)'
      BY <1>1 DEF FindsSigner, OfDecline, HasStatus
<1> QED
    BY <1>1, <1>2, <1>3, <1>4, <1>5 DEF Serves

\* A request that goes on, no status being changed.
LEMMA GoesOnServes ==
  ASSUME SerialInv, NEW r \in Requests, Running(r), env' = env,
         \A s \in Participants : row'[s].status = row[s].status,
         \A q \in Requests \ {r} : req'[q] = req[q],
         req'[r].pc \in {"send_tokens", "update_roster", "update_delete", "share_token"} \union OfReady,
         req'[r].pc \in {"update_roster", "update_delete", "share_token"} => env.status \in Open,
         req'[r].pc \in OfReady =>
           env.status = "READY_FOR_SIGNATURE" /\ req'[r].signer \in Participants,
         req'[r].pc = "update_delete" =>
           /\ req'[r].signer \in Participants
           /\ row[req'[r].signer].status \in {"PENDING", "DECLINED"},
         req'[r].pc # "sign_hash",
         req'[r].pc = "sign_save" => HasStatus(req'[r].signer, "PENDING"),
         req'[r].pc = "complete_write" => AllSigned
  PROVE  Serves(r)
PROOF
<1>1. Consistent' /\ Promised /\ AllSigned' = AllSigned
      BY StillConsistent
<1>2. Finds(r)'
      BY <1>1 DEF Finds, OfOpen, OfReady, OfDecline, SignSteps
<1>3. FindsSigner(r)'
      BY DEF FindsSigner, OfReady, OfDecline, SignSteps, HasStatus
<1> QED
    BY <1>1, <1>2, <1>3 DEF Serves

LEMMA SendingServes ==
  ASSUME SerialInv, NEW r \in Requests, Sending(r)
  PROVE  Serves(r)
PROOF
<1>1. TypeOK /\ Finds(r) /\ req \in [Requests -> RequestState] /\ row \in [Participants -> SignerRow]
      BY DEF SerialInv, TypeOK
<1>2. CASE SendRead(r)
  <2>1. UNCHANGED <<env, row, stored>> /\ Invoked(r, "send")
        BY <1>2 DEF SendRead
  <2>2. ASSUME env.status = "DRAFT",
               Begin(r, [Idle EXCEPT !.pc = "send_write",
                                     !.seen = [env EXCEPT !.status = "READY_FOR_SIGNATURE",
                                                          !.sentAt = TRUE]])
        PROVE  Serves(r)
    <3> PICK copy : copy = Sent
        OBVIOUS
    <3> PICK state : state = [Idle EXCEPT !.pc = "send_write", !.seen = copy]
        OBVIOUS
    <3>1. state.pc = "send_write" /\ state.seen = copy
          BY DEF Idle
    <3> QED
        BY <2>1, <2>2, <3>1, BeginServes DEF Sent, OfOpen, OfReady, SignSteps
  <2>3. ASSUME NEW targets, Begin(r, [Idle EXCEPT !.pc = "send_tokens", !.add = targets])
        PROVE  Serves(r)
    <3> PICK state : state = [Idle EXCEPT !.pc = "send_tokens", !.add = targets]
        OBVIOUS
    <3>1. state.pc = "send_tokens"
          BY DEF Idle
    <3> QED
        BY <2>1, <2>3, <3>1, BeginServes DEF OfOpen, OfReady, SignSteps
  <2> QED
      BY <1>2, <2>2, <2>3 DEF SendRead
<1>3. CASE SendWrite(r)
  <2>1. req[r].pc = "send_write" /\ Running(r) /\ env.status = "DRAFT" /\ req[r].seen = Sent
        BY <1>1, <1>3 DEF SendWrite, Finds, Running
  <2>2. ASSUME NEW targets, WriteEntity(req[r].seen), row' = row,
               Begin(r, [Idle EXCEPT !.pc = "send_tokens", !.add = targets])
        PROVE  Serves(r)
    <3> PICK state : state = [Idle EXCEPT !.pc = "send_tokens", !.add = targets]
        OBVIOUS
    <3>1. state.pc = "send_tokens"
          BY DEF Idle
    <3>2. req'[r] = state /\ \A q \in Requests \ {r} : req'[q] = req[q]
          BY <1>1, <2>2, Moves
    <3>3. /\ Sent \in EnvelopeRow /\ Sent.status = "READY_FOR_SIGNATURE"
          /\ Sent.signedKey = env.signedKey /\ Sent.signedSha = env.signedSha
          BY <1>1 DEF Sent, TypeOK, EnvelopeRow, Open
    <3>4. /\ env'.status = "READY_FOR_SIGNATURE"
          /\ env'.signedKey = env.signedKey /\ env'.signedSha = env.signedSha
          BY <1>1, <2>1, <2>2, <3>3, WriteFields
    <3>5. Promised /\ Consistent'
          BY <2>1, <2>2, <3>4, StatusMoves, OpenConsistent DEF Open
    <3> QED
        BY <2>1, <3>1, <3>2, <3>5
        DEF Serves, Finds, FindsSigner, OfOpen, OfReady, OfDecline, SignSteps
  <2> QED
      BY <1>3, <2>1, <2>2, RefuseServes DEF SendWrite
<1>4. CASE SendToken(r)
  <2>1. req[r].pc = "send_tokens" /\ Running(r)
        BY <1>4 DEF SendToken, Running
  <2>2. ASSUME NEW s \in Present, row' = [row EXCEPT ![s].invited = TRUE],
               req' = [req EXCEPT ![r].add = @ \ {s}], env' = env
        PROVE  Serves(r)
    <3>1. \A t \in Participants : row'[t].status = row[t].status
          BY <1>1, <2>2 DEF SignerRow, Present
    <3>2. req'[r].pc = req[r].pc /\ \A q \in Requests \ {r} : req'[q] = req[q]
          BY <1>1, <2>2 DEF RequestState
    <3> QED
        BY <2>1, <2>2, <3>1, <3>2, GoesOnServes DEF OfReady, SignSteps
  <2> QED
      BY <1>4, <2>1, <2>2, RefuseServes DEF SendToken
<1>5. CASE SendDone(r)
      BY <1>5, RefuseServes DEF SendDone, Running
<1> QED
    BY <1>2, <1>3, <1>4, <1>5 DEF Sending

LEMMA CancellingServes ==
  ASSUME SerialInv, NEW r \in Requests, Cancelling(r)
  PROVE  Serves(r)
PROOF
<1>1. TypeOK /\ Finds(r)
      BY DEF SerialInv
<1>2. CASE CancelRead(r)
  <2> PICK copy : copy = Cancelled
      OBVIOUS
  <2> PICK state : state = [Idle EXCEPT !.pc = "cancel_write", !.seen = copy]
      OBVIOUS
  <2>1. state.pc = "cancel_write" /\ state.seen = copy
        BY DEF Idle
  <2>2. UNCHANGED <<env, row, stored>> /\ Invoked(r, "cancel") /\ env.status \in Open /\ Begin(r, state)
        BY <1>2 DEF CancelRead, Cancelled
  <2> QED
      BY <2>1, <2>2, BeginServes DEF OfReady, SignSteps
<1>3. CASE CancelWrite(r)
  <2>1. req[r].pc = "cancel_write" /\ Running(r) /\ env.status \in Open /\ req[r].seen = Cancelled
        BY <1>1, <1>3 DEF CancelWrite, Finds, OfOpen, Running
  <2>2. ASSUME WriteEntity(req[r].seen), row' = row, End(r)
        PROVE  Serves(r)
    <3>1. /\ Cancelled \in EnvelopeRow /\ Cancelled.status = "CANCELLED"
          /\ Cancelled.signedKey = env.signedKey /\ Cancelled.signedSha = env.signedSha
          BY <1>1 DEF Cancelled, TypeOK, EnvelopeRow, Final
    <3>2. /\ env'.status = "CANCELLED"
          /\ env'.signedKey = env.signedKey /\ env'.signedSha = env.signedSha
          BY <1>1, <2>1, <2>2, <3>1, WriteFields
    <3>3. Promised
          BY <2>1, <2>2, <3>2, StatusMoves
    <3>4. Consistent'
          BY <3>2 DEF SerialInv, Consistent, DeclinerDeclined
    <3> QED
        BY <2>1, <2>2, <3>3, <3>4, EndServes
  <2> QED
      BY <1>3, <2>1, <2>2, RefuseServes DEF CancelWrite
<1> QED
    BY <1>2, <1>3 DEF Cancelling

\* A participant comes or goes while the envelope is open.
LEMMA RosterServes ==
  ASSUME SerialInv, NEW r \in Requests, Running(r), env.status \in Open, env'.status = env.status,
         env'.signedKey = env.signedKey, env'.signedSha = env.signedSha,
         NEW s \in Participants, \A t \in Participants \ {s} : row'[t].status = row[t].status,
         \/ HasStatus(s, "ABSENT") /\ row'[s].status = "PENDING"
         \/ row[s].status \in {"PENDING", "DECLINED"} /\ row'[s].status = "REMOVED",
         \A q \in Requests \ {r} : req'[q] = req[q],
         req'[r].pc \in {"update_roster", "share_token"}
  PROVE  Serves(r)
PROOF
<1>1. Promised /\ Consistent'
      BY SignerMoves, OpenConsistent
<1>2. Finds(r)' /\ FindsSigner(r)'
      BY DEF Finds, FindsSigner, OfReady, OfDecline, SignSteps
<1> QED
    BY <1>1, <1>2 DEF Serves

LEMMA UpdatingServes ==
  ASSUME SerialInv, NEW r \in Requests, Updating(r)
  PROVE  Serves(r)
PROOF
<1>1. /\ TypeOK /\ Finds(r) /\ FindsSigner(r) /\ env \in EnvelopeRow
      /\ req \in [Requests -> RequestState] /\ row \in [Participants -> SignerRow]
      BY DEF SerialInv, TypeOK
<1>2. CASE UpdateRead(r)
  <2> PICK add, remove :
           Begin(r, [Idle EXCEPT !.pc = "update_write", !.seen = env, !.add = add, !.remove = remove])
      BY <1>2 DEF UpdateRead
  <2> PICK copy : copy = env
      OBVIOUS
  <2> PICK state : state = [Idle EXCEPT !.pc = "update_write", !.seen = copy, !.add = add,
                                        !.remove = remove]
      OBVIOUS
  <2>1. state.pc = "update_write" /\ state.seen = copy
        BY DEF Idle
  <2>2. UNCHANGED <<env, row, stored>> /\ Invoked(r, "update") /\ env.status \in Open /\ Begin(r, state)
        BY <1>2 DEF UpdateRead
  <2> QED
      BY <2>1, <2>2, BeginServes DEF OfReady, SignSteps
<1>3. CASE UpdateWrite(r)
  <2>1. req[r].pc = "update_write" /\ Running(r) /\ env.status \in Open /\ req[r].seen = env
        BY <1>1, <1>3 DEF UpdateWrite, Finds, OfOpen, Running
  <2>2. ASSUME WriteEntity(req[r].seen), row' = row,
               req' = [req EXCEPT ![r].pc = "update_roster", ![r].seen = DraftEnvelope]
        PROVE  Serves(r)
    <3>1. env'.status = env.status /\ env'.signedKey = env.signedKey /\ env'.signedSha = env.signedSha
          BY <1>1, <2>1, <2>2, WriteFields
    <3>2. Promised /\ Consistent'
          BY <2>1, <2>2, <3>1, StatusMoves, OpenConsistent
    <3>3. req'[r].pc = "update_roster" /\ \A q \in Requests \ {r} : req'[q] = req[q]
          BY <1>1, <2>2 DEF RequestState
    <3>4. Finds(r)' /\ FindsSigner(r)'
          BY <2>1, <3>1, <3>3 DEF Finds, FindsSigner, OfReady, OfDecline, SignSteps
    <3> QED
        BY <2>1, <3>2, <3>3, <3>4 DEF Serves
  <2> QED
      BY <1>3, <2>1, <2>2, RefuseServes DEF UpdateWrite
<1>4. CASE UpdateAdd(r)
  <2>1. req[r].pc = "update_roster" /\ Running(r) /\ env.status \in Open
        BY <1>1, <1>4 DEF UpdateAdd, Finds, OfOpen, Running
  <2>2. ASSUME NEW s \in req[r].add, HasStatus(s, "ABSENT"),
               row' = [row EXCEPT ![s].status = "PENDING"],
               req' = [req EXCEPT ![r].add = @ \ {s}], env' = env
        PROVE  Serves(r)
    <3>1. s \in Participants
          BY <1>1 DEF RequestState
    <3>2. row'[s].status = "PENDING" /\ \A t \in Participants \ {s} : row'[t].status = row[t].status
          BY <1>1, <2>2, <3>1 DEF SignerRow
    <3>3. req'[r].pc = req[r].pc /\ \A q \in Requests \ {r} : req'[q] = req[q]
          BY <1>1, <2>2 DEF RequestState
    <3> QED
        BY <2>1, <2>2, <3>1, <3>2, <3>3, RosterServes
  <2> QED
      BY <1>4, <2>1, <2>2, RefuseServes DEF UpdateAdd
<1>5. CASE UpdateFindRemoved(r)
  <2>1. req[r].pc = "update_roster" /\ Running(r) /\ env.status \in Open
        BY <1>1, <1>5 DEF UpdateFindRemoved, Finds, OfOpen, Running
  <2>2. ASSUME NEW s \in Present, ~HasStatus(s, "SIGNED"),
               req' = [req EXCEPT ![r].pc = "update_delete", ![r].signer = s], UNCHANGED <<env, row>>
        PROVE  Serves(r)
    <3>1. /\ req'[r].pc = "update_delete" /\ req'[r].signer = s
          /\ \A q \in Requests \ {r} : req'[q] = req[q]
          BY <1>1, <2>2 DEF RequestState
    <3>2. s \in Participants /\ row[s].status \in {"PENDING", "DECLINED"}
          BY <2>2 DEF Present, InRoster, HasStatus
    <3> QED
        BY <2>1, <2>2, <3>1, <3>2, GoesOnServes DEF OfReady, SignSteps
  <2> QED
      BY <1>5, <2>1, <2>2, RefuseServes DEF UpdateFindRemoved
<1>6. CASE UpdateDelete(r)
  <2> DEFINE s == req[r].signer
  <2>1. /\ req[r].pc = "update_delete" /\ Running(r) /\ env.status \in Open
        /\ row[s].status \in {"PENDING", "DECLINED"}
        BY <1>1, <1>6 DEF UpdateDelete, Finds, FindsSigner, OfOpen, Running
  <2>2. ASSUME s \in Present, row' = [row EXCEPT ![s] = NoRow("REMOVED")],
               env' = [env EXCEPT !.declinedBy = IF @ = s THEN None ELSE @],
               req' = [req EXCEPT ![r].pc = "update_roster", ![r].signer = None, ![r].remove = @ \ {s}]
        PROVE  Serves(r)
    <3> PICK t \in Participants : t = s
        BY <2>2 DEF Present
    <3>1. row'[t].status = "REMOVED" /\ \A u \in Participants \ {t} : row'[u].status = row[u].status
          BY <1>1, <2>2 DEF NoRow
    <3>2. req'[r].pc = "update_roster" /\ \A q \in Requests \ {r} : req'[q] = req[q]
          BY <1>1, <2>2 DEF RequestState
    <3>3. env'.status = env.status /\ env'.signedKey = env.signedKey /\ env'.signedSha = env.signedSha
          BY <1>1, <2>2 DEF EnvelopeRow
    <3> QED
        BY <2>1, <3>1, <3>2, <3>3, RosterServes
  <2> QED
      BY <1>6, <2>1, <2>2, RefuseServes DEF UpdateDelete
<1>7. CASE UpdateDone(r)
      BY <1>7, RefuseServes DEF UpdateDone, Running
<1> QED
    BY <1>2, <1>3, <1>4, <1>5, <1>6, <1>7 DEF Updating

LEMMA SharingServes ==
  ASSUME SerialInv, NEW r \in Requests, Sharing(r)
  PROVE  Serves(r)
PROOF
<1>1. /\ TypeOK /\ Finds(r) /\ FindsSigner(r)
      /\ req \in [Requests -> RequestState] /\ row \in [Participants -> SignerRow]
      BY DEF SerialInv, TypeOK
<1> DEFINE v == req[r].signer
<1>2. CASE ShareRead(r)
  <2> PICK s \in Viewers : Begin(r, [Idle EXCEPT !.pc = "share_create", !.signer = s])
      BY <1>2 DEF ShareRead
  <2> PICK state : state = [Idle EXCEPT !.pc = "share_create", !.signer = s]
      OBVIOUS
  <2>1. state.pc = "share_create" /\ state.signer = s /\ s \in Participants
        BY DEF Idle, Participants, External
  <2>2. UNCHANGED <<env, row, stored>> /\ Invoked(r, "share") /\ env.status \in Open /\ Begin(r, state)
        BY <1>2 DEF ShareRead
  <2> QED
      BY <2>1, <2>2, BeginServes DEF OfReady, SignSteps
<1>3. CASE ShareCreate(r)
  <2>1. /\ req[r].pc = "share_create" /\ Running(r) /\ env.status \in Open /\ v \in Participants
        BY <1>1, <1>3 DEF ShareCreate, Finds, FindsSigner, OfOpen, Running
  <2>2. ASSUME HasStatus(v, "ABSENT"), row' = [row EXCEPT ![v].status = "PENDING"],
               Goto(r, "share_token"), env' = env
        PROVE  Serves(r)
    <3> PICK t \in Participants : t = v
        BY <2>1
    <3>1. row'[t].status = "PENDING" /\ \A u \in Participants \ {t} : row'[u].status = row[u].status
          BY <1>1, <2>2 DEF SignerRow
    <3>2. req'[r].pc = "share_token" /\ \A q \in Requests \ {r} : req'[q] = req[q]
          BY <1>1, <2>2, Moves
    <3> QED
        BY <2>1, <2>2, <3>1, <3>2, RosterServes
  <2> QED
      BY <1>3, <2>1, <2>2, RefuseServes DEF ShareCreate
<1>4. CASE ShareToken(r)
  <2>1. req[r].pc = "share_token" /\ Running(r)
        BY <1>4 DEF ShareToken, Running
  <2>2. ASSUME v \in Present, row' = [row EXCEPT ![v].invited = TRUE], End(r), env' = env
        PROVE  Serves(r)
    <3>1. \A t \in Participants : row'[t].status = row[t].status
          BY <1>1, <2>2 DEF SignerRow, Present
    <3> QED
        BY <2>1, <2>2, <3>1, StillConsistent, EndServes
  <2> QED
      BY <1>4, <2>1, <2>2, RefuseServes DEF ShareToken
<1> QED
    BY <1>2, <1>3, <1>4 DEF Sharing

LEMMA SigningServes ==
  ASSUME SerialInv, NEW r \in Requests, Signing(r)
  PROVE  Serves(r)
PROOF
<1> DEFINE s == req[r].signer
<1>1. /\ TypeOK /\ Finds(r) /\ FindsSigner(r) /\ env \in EnvelopeRow
      /\ req \in [Requests -> RequestState] /\ row \in [Participants -> SignerRow]
      BY DEF SerialInv, TypeOK
<1>2. CASE SignStart(r)
  <2> PICK t \in Present, step \in {"sign_validate", "sign_validate_owner"} :
           Begin(r, [Idle EXCEPT !.pc = step, !.signer = t])
      BY <1>2 DEF SignStart
  <2> PICK state : state = [Idle EXCEPT !.pc = step, !.signer = t]
      OBVIOUS
  <2>1. state.pc = step /\ state.signer = t /\ t \in Participants
        BY DEF Idle, Present
  <2>2. /\ UNCHANGED <<env, row, stored>> /\ Invoked(r, "sign")
        /\ env.status = "READY_FOR_SIGNATURE" /\ Begin(r, state)
        BY <1>2 DEF SignStart
  <2> QED
      BY <2>1, <2>2, BeginServes DEF OfOpen
\* The steps that change no status.
<1>3. ASSUME Running(r), req[r].pc \in OfReady, env' = env,
             \A t \in Participants : row'[t].status = row[t].status,
             NEW step \in SignSteps \ {"sign_hash"}, Goto(r, step),
             step = "sign_save" => HasStatus(s, "PENDING"),
             step = "complete_write" => AllSigned
      PROVE  Serves(r)
  <2>1. req'[r].pc = step /\ req'[r].signer = s /\ \A q \in Requests \ {r} : req'[q] = req[q]
        BY <1>1, <1>3, Moves
  <2>2. env.status = "READY_FOR_SIGNATURE" /\ s \in Participants
        BY <1>1, <1>3 DEF Finds, FindsSigner
  <2> QED
      BY <1>3, <2>1, <2>2, GoesOnServes DEF OfReady, SignSteps
<1> USE DEF OfReady, SignSteps, Running
<1>4. CASE SignValidate(r)
  <2>1. row' = row /\ env' = env /\ Goto(r, "sign_consent") => Serves(r)
        BY <1>3, <1>4 DEF SignValidate
  <2> QED
      BY <1>4, <2>1, RefuseServes DEF SignValidate
<1>5. CASE SignConsent(r)
  <2>1. ASSUME s \in Present, row' = [row EXCEPT ![s].consent = TRUE], env' = env,
               Goto(r, "sign_document")
        PROVE  Serves(r)
    <3>1. \A t \in Participants : row'[t].status = row[t].status
          BY <1>1, <2>1 DEF SignerRow, Present
    <3> QED
        BY <1>3, <1>5, <2>1, <3>1 DEF SignConsent
  <2> QED
      BY <1>5, <2>1, RefuseServes DEF SignConsent
<1>6. CASE SignDocument(r)
      BY <1>3, <1>6 DEF SignDocument
<1>7. CASE SignFind(r)
  <2>1. row' = row /\ env' = env /\ Goto(r, "sign_save") /\ HasStatus(s, "PENDING") => Serves(r)
        BY <1>3, <1>7 DEF SignFind
  <2> QED
      BY <1>7, <2>1, RefuseServes DEF SignFind
<1>8. CASE SignSave(r)
  <2>1. /\ req[r].pc = "sign_save" /\ env.status = "READY_FOR_SIGNATURE"
        /\ s \in Participants /\ HasStatus(s, "PENDING")
        BY <1>1, <1>8 DEF SignSave, Finds, FindsSigner
  <2>2. ASSUME row' = [row EXCEPT ![s].status = "SIGNED", ![s].stamped = TRUE, ![s].evidence = r],
               Goto(r, "sign_key"), env' = env
        PROVE  Serves(r)
    <3> PICK t \in Participants : t = s
        BY <2>1
    <3>1. row'[t].status = "SIGNED" /\ \A u \in Participants \ {t} : row'[u].status = row[u].status
          BY <1>1, <2>2 DEF SignerRow
    <3>2. /\ req'[r].pc = "sign_key" /\ req'[r].signer = t
          /\ \A q \in Requests \ {r} : req'[q] = req[q]
          BY <1>1, <2>2, Moves
    <3>3. Promised /\ Consistent'
          BY <2>1, <2>2, <3>1, SignerMoves, OpenConsistent DEF Open
    <3>4. Finds(r)' /\ FindsSigner(r)'
          BY <2>1, <2>2, <3>2 DEF Finds, FindsSigner, OfOpen, OfDecline
    <3> QED
        BY <2>1, <3>2, <3>3, <3>4 DEF Serves
  <2> QED
      BY <1>8, <2>1, <2>2, RefuseServes DEF SignSave
\* The steps that write the signed document's key and hash.
<1>9. ASSUME env.status = "READY_FOR_SIGNATURE", env'.status = env.status, row' = row, Running(r),
             s \in Participants,
             NEW step \in {"sign_hash", "sign_finalize"}, Goto(r, step)
      PROVE  Serves(r)
  <2>1. /\ req'[r].pc = step /\ req'[r].signer = s /\ \A q \in Requests \ {r} : req'[q] = req[q]
        BY <1>1, <1>9, Moves
  <2>2. Promised
        BY <1>9, StatusMoves
  <2>3. Consistent'
        BY <1>9 DEF Consistent, DeclinerDeclined
  <2>4. Finds(r)' /\ FindsSigner(r)'
        BY <1>9, <2>1 DEF Finds, FindsSigner, OfOpen, OfDecline
  <2> QED
      BY <1>9, <2>1, <2>2, <2>3, <2>4 DEF Serves
<1>10. CASE SignKey(r)
  <2>1. req[r].pc = "sign_key" /\ env.status = "READY_FOR_SIGNATURE" /\ s \in Participants
        BY <1>1, <1>10 DEF SignKey, Finds, FindsSigner
  <2>2. ASSUME env' = [env EXCEPT !.signedKey = r, !.signedSha = <<"signature", r>>],
               Goto(r, "sign_hash"), row' = row
        PROVE  Serves(r)
    <3>1. env'.status = env.status
          BY <1>1, <2>2 DEF EnvelopeRow
    <3> QED
        BY <1>9, <2>1, <2>2, <3>1
  <2> QED
      BY <1>10, <2>1, <2>2, RefuseServes DEF SignKey
<1>11. CASE SignHash(r)
  <2>1. /\ req[r].pc = "sign_hash" /\ env.status = "READY_FOR_SIGNATURE" /\ s \in Participants
        BY <1>1, <1>11 DEF SignHash, Finds, FindsSigner
  <2>2. env'.status = env.status /\ row' = row /\ Goto(r, "sign_finalize")
        BY <1>1, <1>11 DEF SignHash, EnvelopeRow
  <2> QED
      BY <1>9, <2>1, <2>2
<1>12. CASE SignFinalize(r)
  <2>1. row' = row /\ env' = env /\ Goto(r, "complete_write") /\ AllSigned => Serves(r)
        BY <1>3, <1>12 DEF SignFinalize
  <2> QED
      BY <1>12, <2>1, RefuseServes DEF SignFinalize
<1>13. CASE CompleteWrite(r)
  <2>1. req[r].pc = "complete_write" /\ env.status = "READY_FOR_SIGNATURE" /\ AllSigned
        BY <1>1, <1>13 DEF CompleteWrite, Finds
  <2>2. /\ env'.status = "COMPLETED" /\ row' = row /\ End(r)
        /\ env'.signedKey = env.signedKey /\ env'.signedSha = env.signedSha
        BY <1>1, <1>13 DEF CompleteWrite, EnvelopeRow
  <2>3. AllSigned'
        BY <2>1, <2>2 DEF AllSigned, Present, HasStatus
  <2>4. Promised
        BY <2>1, <2>2, StatusMoves
  <2>5. Consistent'
        BY <2>2, <2>3 DEF SerialInv, Consistent, DeclinerDeclined
  <2> QED
      BY <2>1, <2>2, <2>4, <2>5, EndServes
<1> QED
    BY <1>2, <1>4, <1>5, <1>6, <1>7, <1>8, <1>10, <1>11, <1>12, <1>13 DEF Signing

LEMMA DecliningServes ==
  ASSUME SerialInv, NEW r \in Requests, Declining(r)
  PROVE  Serves(r)
PROOF
<1> DEFINE s == req[r].signer
<1>1. /\ TypeOK /\ Finds(r) /\ FindsSigner(r) /\ env \in EnvelopeRow /\ Consistent
      /\ req \in [Requests -> RequestState] /\ row \in [Participants -> SignerRow]
      BY DEF SerialInv, TypeOK
<1>2. CASE DeclineFind(r)
  <2> PICK t \in Present : HasStatus(t, "PENDING") /\ Begin(r, [Idle EXCEPT !.pc = "decline_save", !.signer = t])
      BY <1>2 DEF DeclineFind
  <2> PICK state : state = [Idle EXCEPT !.pc = "decline_save", !.signer = t]
      OBVIOUS
  <2>1. state.pc = "decline_save" /\ state.signer = t /\ t \in Participants
        BY DEF Idle, Present
  <2>2. env.status # "COMPLETED"
        BY <1>1 DEF Consistent, AllSigned, HasStatus
  <2>3. UNCHANGED <<env, row, stored>> /\ Invoked(r, "decline") /\ Begin(r, state)
        BY <1>2 DEF DeclineFind
  <2> QED
      BY <2>1, <2>2, <2>3, BeginServes DEF OfOpen, OfReady, SignSteps
<1> USE DEF OfDecline, Running
<1>3. CASE DeclineSave(r)
  <2>1. /\ req[r].pc = "decline_save" /\ env.status # "COMPLETED"
        /\ s \in Participants /\ HasStatus(s, "PENDING")
        BY <1>1, <1>3 DEF DeclineSave, Finds, FindsSigner
  <2>2. ASSUME row' = [row EXCEPT ![s].status = "DECLINED", ![s].evidence = None],
               Goto(r, "decline_read"), env' = env
        PROVE  Serves(r)
    <3> PICK t \in Participants : t = s
        BY <2>1
    <3>1. row'[t].status = "DECLINED" /\ \A u \in Participants \ {t} : row'[u].status = row[u].status
          BY <1>1, <2>2 DEF SignerRow
    <3>2. /\ req'[r].pc = "decline_read" /\ req'[r].signer = t
          /\ \A q \in Requests \ {r} : req'[q] = req[q]
          BY <1>1, <2>2, Moves
    <3>3. Promised
          BY <2>1, <2>2, <3>1, SignerMoves
    <3>4. Consistent'
          BY <1>1, <2>1, <2>2, <3>1 DEF Consistent, DeclinerDeclined, HasStatus
    <3>5. Finds(r)' /\ FindsSigner(r)'
          BY <2>1, <2>2, <3>1, <3>2 DEF Finds, FindsSigner, OfOpen, OfReady, SignSteps, HasStatus
    <3> QED
        BY <2>1, <3>2, <3>3, <3>4, <3>5 DEF Serves
  <2> QED
      BY <1>3, <2>1, <2>2, RefuseServes DEF DeclineSave
<1>4. CASE DeclineRead(r)
  <2>1. /\ req[r].pc = "decline_read" /\ env.status # "COMPLETED"
        /\ s \in Participants /\ HasStatus(s, "DECLINED")
        BY <1>1, <1>4 DEF DeclineRead, Finds, FindsSigner
  <2> PICK t, copy : t = s /\ copy = Declined(s)
      OBVIOUS
  <2>2. req' = [req EXCEPT ![r].pc = "decline_write", ![r].seen = copy] /\ UNCHANGED <<env, row, stored>>
        BY <1>4 DEF DeclineRead, Declined
  <2>3. /\ req'[r].pc = "decline_write" /\ req'[r].signer = t /\ req'[r].seen = copy
        /\ \A q \in Requests \ {r} : req'[q] = req[q]
        BY <1>1, <2>2 DEF RequestState
  <2>4. Promised /\ Consistent'
        BY <2>2, StillConsistent
  <2>5. Finds(r)'
        BY <2>1, <2>2, <2>3 DEF Finds, OfOpen, OfReady, SignSteps, Declined
  <2>6. FindsSigner(r)'
        BY <2>1, <2>2, <2>3 DEF FindsSigner, OfReady, SignSteps, HasStatus
  <2> QED
      BY <2>1, <2>3, <2>4, <2>5, <2>6 DEF Serves
<1>5. CASE DeclineWrite(r)
  <2>1. /\ req[r].pc = "decline_write" /\ env.status # "COMPLETED" /\ req[r].seen = Declined(s)
        /\ s \in Participants /\ HasStatus(s, "DECLINED") /\ s # None
        BY <1>1, <1>5, ConstantsAssumption DEF DeclineWrite, Finds, FindsSigner
  <2>2. ASSUME WriteEntity(req[r].seen), row' = row, End(r)
        PROVE  Serves(r)
    <3>1. /\ Declined(s) \in EnvelopeRow /\ Declined(s).status = "DECLINED" /\ Declined(s).declinedBy = s
          /\ Declined(s).signedKey = env.signedKey /\ Declined(s).signedSha = env.signedSha
          BY <1>1, <2>1 DEF Declined, EnvelopeRow, Final
    <3>2. /\ env'.status = "DECLINED" /\ env'.declinedBy = s
          /\ env'.signedKey = env.signedKey /\ env'.signedSha = env.signedSha
          BY <1>1, <2>1, <2>2, <3>1, WriteFields
    <3>3. Promised
          BY <2>1, <2>2, <3>2, StatusMoves
    <3>4. Consistent'
          BY <1>1, <2>1, <2>2, <3>2 DEF Consistent, DeclinerDeclined, HasStatus
    <3> QED
        BY <2>1, <2>2, <3>3, <3>4, EndServes
  <2> QED
      BY <1>5, <2>1, <2>2, RefuseServes DEF DeclineWrite
<1> QED
    BY <1>2, <1>3, <1>4, <1>5 DEF Declining

(***************************************************************************)
(* Requests that do not overlap: the theorems                              *)
(***************************************************************************)
LEMMA SerialInit == Init /\ ~Overlap => SerialInv
PROOF
<1> SUFFICES ASSUME Init, ~Overlap PROVE SerialInv
    OBVIOUS
<1>1. \A r \in Requests : req[r].pc = "idle"
      BY DEF Init, Idle
<1>2. \A r \in Requests : ~Running(r) /\ Finds(r) /\ FindsSigner(r)
      BY <1>1 DEF Running, Finds, FindsSigner, OfOpen, OfReady, OfDecline, SignSteps
<1>3. Consistent
      BY DEF Init, DraftEnvelope, Consistent, DeclinerDeclined
<1> QED
    BY <1>2, <1>3, TypeInit DEF SerialInv

LEMMA SerialStep ==
  ASSUME SerialInv, [Next]_vars
  PROVE  SerialInv' /\ Promised
PROOF
<1>1. TypeOK'
      BY TypeStep DEF SerialInv
<1>2. CASE UNCHANGED vars
  <2>1. SerialInv'
        BY <1>1, <1>2
        DEF vars, SerialInv, Running, Finds, FindsSigner, Sent, Cancelled, Declined, AllSigned, Present,
            HasStatus, Consistent, DeclinerDeclined
  <2>2. Promised
        BY <1>2, StillConsistent DEF vars
  <2> QED
      BY <2>1, <2>2
<1>3. ASSUME NEW r \in Requests, Handling(r) \/ Die(r)
      PROVE  SerialInv' /\ Promised
  <2>1. Serves(r)
        BY <1>3, SendingServes, CancellingServes, UpdatingServes, SharingServes, SigningServes,
           DecliningServes, RefuseServes DEF Handling, Die
  <2> QED
      BY <1>1, <2>1, ServesSerial DEF Serves
<1> QED
    BY <1>2, <1>3 DEF Next

LEMMA SerialInvariant == Spec /\ ~Overlap => []SerialInv
PROOF
<1>1. SerialInv /\ [Next]_vars => SerialInv'
      BY SerialStep
<1> QED
    BY SerialInit, <1>1, PTL DEF Spec

(* When requests do not overlap, the decliner of a DECLINED envelope is a  *)
(* signer whose row says DECLINED.                                         *)
THEOREM DeclinerSaid == Spec /\ ~Overlap => []DeclinerDeclined
PROOF
<1>1. SerialInv => DeclinerDeclined
      BY DEF SerialInv, Consistent
<1> QED
    BY <1>1, SerialInvariant, PTL

\* A draft, or an envelope just sent, is where the lifecycle begins.
LEMMA LifecycleInit == Init => Lifecycle!Init
PROOF
<1> SUFFICES ASSUME Init PROVE Lifecycle!Init
    OBVIOUS
<1>1. env.status \in {"DRAFT", "READY_FOR_SIGNATURE"}
      BY DEF Init, DraftEnvelope
<1>2. \A s \in Participants : row[s].status \in {"ABSENT", "PENDING"}
  <2>1. PICK sent \in BOOLEAN :
          row = [s \in Participants |->
                  IF s \in Roster
                  THEN [NoRow("PENDING") EXCEPT !.invited = sent /\ s \in External]
                  ELSE NoRow("ABSENT")]
        BY DEF Init
  <2> QED
      BY <2>1 DEF NoRow
<1> QED
    BY <1>1, <1>2 DEF Lifecycle!Init, Lifecycle!Open

(* When requests do not overlap, the separate writes of every use case,    *)
(* and those of one that died half way, are steps of the lifecycle, for    *)
(* any number of participants and requests.                                *)
THEOREM LifecycleImplemented == Spec /\ ~Overlap => ImplementsLifecycle
PROOF
<1>1. SerialInv /\ [Next]_vars
        => [Lifecycle!Next]_<<env.status, [s \in Participants |-> row[s].status]>>
      BY SerialStep DEF Promised, Statuses
<1> QED
    BY <1>1, LifecycleInit, SerialInvariant, PTL DEF Spec, ImplementsLifecycle, Lifecycle!Spec

=============================================================================
