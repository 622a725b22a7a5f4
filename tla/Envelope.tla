------------------------------ MODULE Envelope ------------------------------
(***************************************************************************)
(* One signature envelope of the signature-service: its row, the rows of   *)
(* its participants, and the Lambda requests that work on them.            *)
(*                                                                         *)
(* A request is a TypeScript use case.  It runs no database transaction:   *)
(* every awaited repository call is a step of its own, so requests         *)
(* interleave at every await, and a request may die at any await (timeout, *)
(* failed call).  An envelope row that was read is kept by the request in  *)
(* "seen" and written back as a whole later (EntityMapper writes each      *)
(* field that is not undefined), whatever happened to the row in between.  *)
(*                                                                         *)
(* A request that is refused before its first write leaves no trace and is *)
(* not modelled.  Invitation tokens are reduced to one flag per signer, a  *)
(* token was issued: whether that token is still accepted is left open.    *)
(***************************************************************************)
EXTENDS Naturals, FiniteSets

CONSTANTS
  Requests,       \* request slots, each used for one request
  Owner,          \* the participant row of the envelope's creator
  Invitees,       \* external signers
  Viewers,        \* external read-only participants
  Roster,         \* participants present when the model starts
  SigningOrder,   \* "OWNER_FIRST" or "INVITEES_FIRST"
  Operations,     \* operations the users invoke
  Overlap,        \* may requests run concurrently?
  Failures,       \* may a request die between two steps?
  SignatureFits,  \* has KMS's signature, in hexadecimal, a SHA-256's length?
  MaxBatch,       \* most participants one update adds or removes
  None            \* null

External == Invitees \union Viewers
Participants == {Owner} \union External

\* What signedSha256 may be set to, of request r.  <<"signature", r>>: the bytes
\* of KMS's signature, which the code calls signatureHash.  <<"content", r>>: the
\* hash of the PDF before the signature is embedded in it.  <<"signed", r>>: that
\* of the PDF with the signature, which S3 stores under the key r; the code never
\* writes this one.
Sha == {"signature", "content", "signed"} \X Requests

OperationNames == {"send", "cancel", "update", "share", "sign", "decline"}

ASSUME ConstantsAssumption ==
  /\ Owner \notin External
  /\ Invitees \intersect Viewers = {}
  /\ Roster \subseteq {Owner} \union Invitees
  /\ SigningOrder \in {"OWNER_FIRST", "INVITEES_FIRST"}
  /\ Operations \subseteq OperationNames
  /\ Overlap \in BOOLEAN
  /\ Failures \in BOOLEAN
  /\ SignatureFits \in BOOLEAN
  /\ MaxBatch \in Nat
  /\ None \notin Participants \union Requests \union Sha

VARIABLES
  env,      \* the SignatureEnvelope row
  row,      \* the EnvelopeSigner rows, with their Consent and whether invited
  stored,   \* signed PDFs in S3, each named by the request that made it
  req       \* the state of every request

vars == <<env, row, stored, req>>

(***************************************************************************)
(* Data                                                                    *)
(***************************************************************************)
Open == {"DRAFT", "READY_FOR_SIGNATURE"}
Final == {"COMPLETED", "DECLINED", "CANCELLED"}

\* Timestamps are modelled by whether they are set.
EnvelopeRow ==
  [status      : Open \union Final,
   sentAt      : BOOLEAN,
   completedAt : BOOLEAN,
   cancelledAt : BOOLEAN,
   declinedAt  : BOOLEAN,
   declinedBy  : Participants \union {None},
   signedKey   : Requests \union {None},
   signedSha   : Sha \union {None}]

DraftEnvelope ==
  [status |-> "DRAFT", sentAt |-> FALSE, completedAt |-> FALSE,
   cancelledAt |-> FALSE, declinedAt |-> FALSE, declinedBy |-> None,
   signedKey |-> None, signedSha |-> None]

InRoster == {"PENDING", "SIGNED", "DECLINED"}

\* evidence: the signed PDF the row's signature fields describe
\* stamped: consentGiven and consentTimestamp of the row are set
SignerRow ==
  [status   : InRoster \union {"ABSENT", "REMOVED"},
   invited  : BOOLEAN,
   consent  : BOOLEAN,
   stamped  : BOOLEAN,
   evidence : Requests \union {None}]

NoRow(status) ==
  [status |-> status, invited |-> FALSE, consent |-> FALSE,
   stamped |-> FALSE, evidence |-> None]

\* A request holds at most one row it works on, one copy of the envelope row,
\* and the participants it has still to add (or invite) and to remove.
Idle ==
  [pc |-> "idle", signer |-> None, seen |-> DraftEnvelope, add |-> {}, remove |-> {}]

SignSteps ==
  {"sign_validate", "sign_consent", "sign_document", "sign_find", "sign_save",
   "sign_key", "sign_hash", "sign_finalize", "complete_write"}
RequestSteps ==
  SignSteps \union
  {"idle", "done", "send_write", "send_tokens", "cancel_write",
   "update_write", "update_roster", "update_delete",
   "share_create", "share_token",
   "decline_save", "decline_read", "decline_write"}

RequestState ==
  [pc     : RequestSteps \union {"sign_validate_owner"},
   signer : Participants \union {None},
   seen   : EnvelopeRow,
   add    : SUBSET Participants,
   remove : SUBSET Participants]

Present == {s \in Participants : row[s].status \in InRoster}
HasStatus(s, status) == row[s].status = status
AllSigned == \A s \in Present : HasStatus(s, "SIGNED")

(***************************************************************************)
(* The life of a request                                                   *)
(***************************************************************************)
Running(r) == req[r].pc \notin {"idle", "done"}

\* A user calls operation op; without Overlap, only when nothing else runs.
Invoked(r, op) ==
  /\ op \in Operations
  /\ req[r].pc = "idle"
  /\ Overlap \/ \A q \in Requests : ~Running(q)

Begin(r, state) == req' = [req EXCEPT ![r] = state]
Goto(r, step) == req' = [req EXCEPT ![r].pc = step]
End(r) == req' = [req EXCEPT ![r] = [Idle EXCEPT !.pc = "done"]]

\* The request is refused: it ends with an error and writes nothing more.
Refuse(r) == End(r) /\ UNCHANGED <<env, row, stored>>

(***************************************************************************)
(* SignatureEnvelopeRepository.update: the whole entity is written.  The   *)
(* keys, hashes and the decliner are undefined in the entity when the row  *)
(* had none, and an undefined field is not written; timestamps are null    *)
(* and are.  The foreign key on the decliner refuses a row that is gone.   *)
(***************************************************************************)
\* Altered: an unset field of the entity is written as null.
KeptNever(new, old) == new

Kept(new, old) == IF new = None THEN old ELSE new

Writable(entity) == entity.declinedBy \in Present \union {None}

WriteEntity(entity) ==
  env' = [entity EXCEPT !.declinedBy = Kept(entity.declinedBy, env.declinedBy),
                        !.signedKey  = Kept(entity.signedKey, env.signedKey),
                        !.signedSha  = Kept(entity.signedSha, env.signedSha)]

(***************************************************************************)
(* Altered actions: what a plausible slip would make of an action below.   *)
(* They are used to see that the properties notice; no action uses them.   *)
(***************************************************************************)
\* createConsent neither looks for a consent nor has a unique index.
SignConsentUnchecked(r) ==
  LET s == req[r].signer IN
  /\ req[r].pc = "sign_consent"
  /\ IF s \in Present
     THEN /\ row' = [row EXCEPT ![s].consent = TRUE]
          /\ Goto(r, "sign_document")
          /\ UNCHANGED <<env, stored>>
     ELSE Refuse(r)

\* The signed PDF is not awaited into S3.
SignDocumentUnstored(r) ==
  /\ req[r].pc = "sign_document"
  /\ Goto(r, "sign_find")
  /\ UNCHANGED <<env, row, stored>>

\* Key and hash are passed in the wrong order.
SignKeySwapped(r) ==
  /\ req[r].pc = "sign_key"
  /\ env' = [env EXCEPT !.signedSha = r, !.signedKey = <<"signature", r>>]
  /\ Goto(r, "sign_hash")
  /\ UNCHANGED <<row, stored>>

\* The second update is given the signature again, not the content's hash.
SignHashOfSignature(r) ==
  /\ req[r].pc = "sign_hash"
  /\ env' = [env EXCEPT !.signedSha = <<"signature", r>>]
  /\ Goto(r, "sign_finalize")
  /\ UNCHANGED <<row, stored>>

\* A signed document that is there already is taken for a conflict.
SignKeyOnce(r) ==
  /\ req[r].pc = "sign_key"
  /\ IF env.signedKey = None
     THEN /\ env' = [env EXCEPT !.signedKey = r, !.signedSha = <<"signature", r>>]
          /\ Goto(r, "sign_hash")
          /\ UNCHANGED <<row, stored>>
     ELSE Refuse(r)

\* One signature is enough.
SignFinalizeEager(r) ==
  /\ req[r].pc = "sign_finalize"
  /\ Goto(r, "complete_write")
  /\ UNCHANGED <<env, row, stored>>

\* completeEnvelope forgets completedAt.
CompleteWriteStatusOnly(r) ==
  /\ req[r].pc = "complete_write"
  /\ env' = [env EXCEPT !.status = "COMPLETED"]
  /\ End(r)
  /\ UNCHANGED <<row, stored>>

\* Without the consent check constraint, a stale decline is accepted.
DeclineSaveUnchecked(r) ==
  LET s == req[r].signer IN
  /\ req[r].pc = "decline_save"
  /\ IF s \in Present
     THEN /\ row' = [row EXCEPT ![s].status = "DECLINED", ![s].evidence = None]
          /\ Goto(r, "decline_read")
          /\ UNCHANGED <<env, stored>>
     ELSE Refuse(r)

\* The signer's row is left as it was.
DeclineSaveForgotten(r) ==
  /\ req[r].pc = "decline_save"
  /\ Goto(r, "decline_read")
  /\ UNCHANGED <<env, row, stored>>

(***************************************************************************)
(* Send                                                                    *)
(***************************************************************************)
SendRead(r) ==
  /\ Invoked(r, "send")
  /\ env.status \in Open
  /\ Present \intersect External # {}
  /\ IF env.status = "DRAFT"
     THEN Begin(r, [Idle EXCEPT !.pc = "send_write",
                                !.seen = [env EXCEPT !.status = "READY_FOR_SIGNATURE",
                                                     !.sentAt = TRUE]])
     ELSE \E targets \in SUBSET (Present \intersect External) :
            Begin(r, [Idle EXCEPT !.pc = "send_tokens", !.add = targets])
  /\ UNCHANGED <<env, row, stored>>

\* The update returns the row with its signers: the targets come from there.
SendWrite(r) ==
  /\ req[r].pc = "send_write"
  /\ IF Writable(req[r].seen)
     THEN /\ WriteEntity(req[r].seen)
          /\ \E targets \in SUBSET (Present \intersect External) :
               Begin(r, [Idle EXCEPT !.pc = "send_tokens", !.add = targets])
          /\ UNCHANGED <<row, stored>>
     ELSE Refuse(r)

\* A second ACTIVE token of a signer is refused by a partial unique index.
\* Whether an earlier token is still ACTIVE is not known here.
SendToken(r) ==
  /\ req[r].pc = "send_tokens"
  /\ \E s \in req[r].add :
       \/ /\ s \in Present
          /\ row' = [row EXCEPT ![s].invited = TRUE]
          /\ req' = [req EXCEPT ![r].add = @ \ {s}]
          /\ UNCHANGED <<env, stored>>
       \/ /\ s \notin Present \/ row[s].invited
          /\ Refuse(r)

SendDone(r) ==
  /\ req[r].pc = "send_tokens"
  /\ req[r].add = {}
  /\ Refuse(r)

(***************************************************************************)
(* Cancel                                                                  *)
(***************************************************************************)
CancelRead(r) ==
  /\ Invoked(r, "cancel")
  /\ env.status \in Open
  /\ Begin(r, [Idle EXCEPT !.pc = "cancel_write",
                           !.seen = [env EXCEPT !.status = "CANCELLED",
                                                !.cancelledAt = TRUE]])
  /\ UNCHANGED <<env, row, stored>>

CancelWrite(r) ==
  /\ req[r].pc = "cancel_write"
  /\ IF Writable(req[r].seen)
     THEN WriteEntity(req[r].seen) /\ End(r) /\ UNCHANGED <<row, stored>>
     ELSE Refuse(r)

(***************************************************************************)
(* Update: the envelope's fields, then the participants to add, then those *)
(* to remove, one call each.                                               *)
(***************************************************************************)
UpdateRead(r) ==
  /\ Invoked(r, "update")
  /\ env.status \in Open
  /\ \E add \in SUBSET {s \in Participants \ Viewers : HasStatus(s, "ABSENT")},
        remove \in SUBSET Present :
       /\ Cardinality(add \union remove) <= MaxBatch
       /\ Begin(r, [Idle EXCEPT !.pc = "update_write", !.seen = env,
                                !.add = add, !.remove = remove])
  /\ UNCHANGED <<env, row, stored>>

UpdateWrite(r) ==
  /\ req[r].pc = "update_write"
  /\ IF Writable(req[r].seen)
     THEN /\ WriteEntity(req[r].seen)
          /\ req' = [req EXCEPT ![r].pc = "update_roster", ![r].seen = DraftEnvelope]
          /\ UNCHANGED <<row, stored>>
     ELSE Refuse(r)

\* envelopeId and email (or userId) are unique: a participant is created once.
UpdateAdd(r) ==
  /\ req[r].pc = "update_roster"
  /\ \E s \in req[r].add :
       IF HasStatus(s, "ABSENT")
       THEN /\ row' = [row EXCEPT ![s].status = "PENDING"]
            /\ req' = [req EXCEPT ![r].add = @ \ {s}]
            /\ UNCHANGED <<env, stored>>
       ELSE Refuse(r)

\* deleteSigner refuses a signer it reads as SIGNED ...
UpdateFindRemoved(r) ==
  /\ req[r].pc = "update_roster"
  /\ req[r].add = {}
  /\ \E s \in req[r].remove :
       IF s \in Present /\ ~HasStatus(s, "SIGNED")
       THEN /\ req' = [req EXCEPT ![r].pc = "update_delete", ![r].signer = s]
            /\ UNCHANGED <<env, row, stored>>
       ELSE Refuse(r)

\* ... and deletes the row, with its consent and tokens, whatever it is now.
\* The decliner is set to null, which a DECLINED envelope does not allow.
UpdateDelete(r) ==
  LET s == req[r].signer IN
  /\ req[r].pc = "update_delete"
  /\ IF s \in Present /\ ~(env.status = "DECLINED" /\ env.declinedBy = s)
     THEN /\ row' = [row EXCEPT ![s] = NoRow("REMOVED")]
          /\ env' = [env EXCEPT !.declinedBy = IF @ = s THEN None ELSE @]
          /\ req' = [req EXCEPT ![r].pc = "update_roster", ![r].signer = None,
                                ![r].remove = @ \ {s}]
          /\ UNCHANGED stored
     ELSE Refuse(r)

UpdateDone(r) ==
  /\ req[r].pc = "update_roster"
  /\ req[r].add = {}
  /\ req[r].remove = {}
  /\ Refuse(r)

(***************************************************************************)
(* Share: a viewer's row, then its token.                                  *)
(***************************************************************************)
ShareRead(r) ==
  /\ Invoked(r, "share")
  /\ env.status \in Open
  /\ \E v \in Viewers :
       /\ HasStatus(v, "ABSENT")
       /\ Begin(r, [Idle EXCEPT !.pc = "share_create", !.signer = v])
  /\ UNCHANGED <<env, row, stored>>

ShareCreate(r) ==
  /\ req[r].pc = "share_create"
  /\ IF HasStatus(req[r].signer, "ABSENT")
     THEN /\ row' = [row EXCEPT ![req[r].signer].status = "PENDING"]
          /\ Goto(r, "share_token")
          /\ UNCHANGED <<env, stored>>
     ELSE Refuse(r)

ShareToken(r) ==
  LET v == req[r].signer IN
  /\ req[r].pc = "share_token"
  /\ \/ /\ v \in Present
        /\ row' = [row EXCEPT ![v].invited = TRUE]
        /\ End(r)
        /\ UNCHANGED <<env, stored>>
     \/ /\ v \notin Present \/ row[v].invited
        /\ Refuse(r)

(***************************************************************************)
(* Sign                                                                    *)
(***************************************************************************)
\* Any invitation token of the envelope opens the door to a guest.
GuestMayEnter == \E s \in External : row[s].invited

SignStart(r) ==
  /\ Invoked(r, "sign")
  /\ env.status = "READY_FOR_SIGNATURE"
  /\ \E s \in Present :
       \/ Begin(r, [Idle EXCEPT !.pc = "sign_validate_owner", !.signer = s])
       \/ /\ GuestMayEnter
          /\ Begin(r, [Idle EXCEPT !.pc = "sign_validate", !.signer = s])
  /\ UNCHANGED <<env, row, stored>>

\* The signing order is only looked at when the requester is the owner.
OrderAllows(s) ==
  IF SigningOrder = "OWNER_FIRST"
  THEN s = Owner \/ Owner \notin Present \/ HasStatus(Owner, "SIGNED")
  ELSE s = Owner => \A i \in Present \intersect External : HasStatus(i, "SIGNED")

SignValidate(r) ==
  LET s == req[r].signer IN
  /\ req[r].pc \in {"sign_validate", "sign_validate_owner"}
  /\ IF HasStatus(s, "PENDING") /\ (req[r].pc = "sign_validate_owner" => OrderAllows(s))
     THEN Goto(r, "sign_consent") /\ UNCHANGED <<env, row, stored>>
     ELSE Refuse(r)

\* One consent per signer: looked up first, and a unique index behind it.
SignConsent(r) ==
  LET s == req[r].signer IN
  /\ req[r].pc = "sign_consent"
  /\ IF s \in Present /\ ~row[s].consent
     THEN /\ row' = [row EXCEPT ![s].consent = TRUE]
          /\ Goto(r, "sign_document")
          /\ UNCHANGED <<env, stored>>
     ELSE Refuse(r)

\* KMS signs, the signature is embedded, the signed PDF is put in S3.
SignDocument(r) ==
  /\ req[r].pc = "sign_document"
  /\ stored' = stored \union {r}
  /\ Goto(r, "sign_find")
  /\ UNCHANGED <<env, row>>

SignFind(r) ==
  /\ req[r].pc = "sign_find"
  /\ IF HasStatus(req[r].signer, "PENDING")
     THEN Goto(r, "sign_save") /\ UNCHANGED <<env, row, stored>>
     ELSE Refuse(r)

SignSave(r) ==
  LET s == req[r].signer IN
  /\ req[r].pc = "sign_save"
  /\ IF s \in Present
     THEN /\ row' = [row EXCEPT ![s].status = "SIGNED", ![s].stamped = TRUE,
                                ![s].evidence = r]
          /\ Goto(r, "sign_key")
          /\ UNCHANGED <<env, stored>>
     ELSE Refuse(r)

\* The consent is linked to the signature; it is gone if the row was deleted.
\* Then KMS's signature is parsed as a hash (DocumentHash wants 64 hex digits).
SignKey(r) ==
  /\ req[r].pc = "sign_key"
  /\ IF row[req[r].signer].consent /\ SignatureFits
     THEN /\ env' = [env EXCEPT !.signedKey = r, !.signedSha = <<"signature", r>>]
          /\ Goto(r, "sign_hash")
          /\ UNCHANGED <<row, stored>>
     ELSE Refuse(r)

\* The hash of the content as it was before the signature was embedded.
SignHash(r) ==
  /\ req[r].pc = "sign_hash"
  /\ env' = [env EXCEPT !.signedSha = <<"content", r>>]
  /\ Goto(r, "sign_finalize")
  /\ UNCHANGED <<row, stored>>

\* isCompleted() is asked of the roster just read, viewers included.
SignFinalize(r) ==
  /\ req[r].pc = "sign_finalize"
  /\ IF AllSigned
     THEN Goto(r, "complete_write") /\ UNCHANGED <<env, row, stored>>
     ELSE Refuse(r)

\* completeEnvelope writes its two fields only, over any status.
CompleteWrite(r) ==
  /\ req[r].pc = "complete_write"
  /\ env' = [env EXCEPT !.status = "COMPLETED", !.completedAt = TRUE]
  /\ End(r)
  /\ UNCHANGED <<row, stored>>

(***************************************************************************)
(* Decline                                                                 *)
(***************************************************************************)
DeclineFind(r) ==
  /\ Invoked(r, "decline")
  /\ GuestMayEnter
  /\ \E s \in Present :
       /\ HasStatus(s, "PENDING")
       /\ Begin(r, [Idle EXCEPT !.pc = "decline_save", !.signer = s])
  /\ UNCHANGED <<env, row, stored>>

\* The row is written whole, with consentGiven false and no consentTimestamp:
\* the consent check constraint refuses it over a row that has the timestamp.
DeclineSave(r) ==
  LET s == req[r].signer IN
  /\ req[r].pc = "decline_save"
  /\ IF s \in Present /\ ~row[s].stamped
     THEN /\ row' = [row EXCEPT ![s].status = "DECLINED", ![s].evidence = None]
          /\ Goto(r, "decline_read")
          /\ UNCHANGED <<env, stored>>
     ELSE Refuse(r)

\* setDeclinedInfo does not look at the envelope's status.
DeclineRead(r) ==
  /\ req[r].pc = "decline_read"
  /\ req' = [req EXCEPT ![r].pc = "decline_write",
                        ![r].seen = [env EXCEPT !.status = "DECLINED",
                                                !.declinedAt = TRUE,
                                                !.declinedBy = req[r].signer]]
  /\ UNCHANGED <<env, row, stored>>

DeclineWrite(r) ==
  /\ req[r].pc = "decline_write"
  /\ IF Writable(req[r].seen)
     THEN WriteEntity(req[r].seen) /\ End(r) /\ UNCHANGED <<row, stored>>
     ELSE Refuse(r)

(***************************************************************************)
(* Failure and specification                                               *)
(***************************************************************************)
\* An awaited call fails or the Lambda is stopped: what was written stays.
Die(r) ==
  /\ Failures
  /\ Running(r)
  /\ Refuse(r)

\* The envelope is a draft, or has just been sent to all external signers.
Init ==
  /\ stored = {}
  /\ req = [r \in Requests |-> Idle]
  /\ \E sent \in BOOLEAN :
       /\ sent => Roster \intersect External # {}
       /\ env = IF sent THEN [DraftEnvelope EXCEPT !.status = "READY_FOR_SIGNATURE",
                                                   !.sentAt = TRUE]
                ELSE DraftEnvelope
       /\ row = [s \in Participants |->
                  IF s \in Roster
                  THEN [NoRow("PENDING") EXCEPT !.invited = sent /\ s \in External]
                  ELSE NoRow("ABSENT")]

Sending(r) == SendRead(r) \/ SendWrite(r) \/ SendToken(r) \/ SendDone(r)
Cancelling(r) == CancelRead(r) \/ CancelWrite(r)
Updating(r) ==
  \/ UpdateRead(r) \/ UpdateWrite(r) \/ UpdateAdd(r)
  \/ UpdateFindRemoved(r) \/ UpdateDelete(r) \/ UpdateDone(r)
Sharing(r) == ShareRead(r) \/ ShareCreate(r) \/ ShareToken(r)
Signing(r) ==
  \/ SignStart(r) \/ SignValidate(r) \/ SignConsent(r) \/ SignDocument(r)
  \/ SignFind(r) \/ SignSave(r) \/ SignKey(r) \/ SignHash(r)
  \/ SignFinalize(r) \/ CompleteWrite(r)
Declining(r) ==
  DeclineFind(r) \/ DeclineSave(r) \/ DeclineRead(r) \/ DeclineWrite(r)

Handling(r) ==
  Sending(r) \/ Cancelling(r) \/ Updating(r) \/ Sharing(r) \/ Signing(r) \/ Declining(r)

Next == \E r \in Requests : Handling(r) \/ Die(r)

Spec == Init /\ [][Next]_vars

\* A request that has begun runs on: Node resumes it after every await.
FairSpec == Spec /\ \A r \in Requests : WF_vars(Running(r) /\ Handling(r))

(***************************************************************************)
(* Properties                                                              *)
(***************************************************************************)
(* Types of the four variables. *)
TypeOK ==
  /\ env \in EnvelopeRow
  /\ row \in [Participants -> SignerRow]
  /\ stored \subseteq Requests
  /\ req \in [Requests -> RequestState]

\* Requests between the consent they recorded and the end of the signing.
Consented ==
  {r \in Requests : req[r].pc \in SignSteps \ {"sign_validate", "sign_consent"}}

(* However many sign requests of one signer run at once (a double click, a *)
(* retry by the client), one gets past recordConsent: a signer's document  *)
(* is signed by KMS and put in S3 by one request only.                     *)
OneSigningPerSigner ==
  \A q, r \in Consented : q # r => req[q].signer # req[r].signer

(* A row that says SIGNED has its consent record, its consent timestamp and *)
(* the key of a signed PDF that really is in S3, and no two rows have the   *)
(* same PDF: markSignerAsSigned comes last in a chain of separate writes.   *)
SignedHasEvidence ==
  \A s \in Present : HasStatus(s, "SIGNED") =>
    /\ row[s].consent
    /\ row[s].stamped
    /\ row[s].evidence \in stored
    /\ \A t \in Present \ {s} : row[t].evidence # row[s].evidence

\* The check constraints of the SignatureEnvelope table.
Coherent(entity) ==
  /\ entity.status = "READY_FOR_SIGNATURE" => entity.sentAt
  /\ entity.status = "COMPLETED" => entity.completedAt
  /\ entity.status = "CANCELLED" => entity.cancelledAt
  /\ entity.status = "DECLINED" => entity.declinedAt /\ entity.declinedBy # None

(* The envelope row satisfies the table's check constraints and its foreign *)
(* key whatever stale copies are written over it and whoever is deleted:    *)
(* the writes of the use cases never run into the constraints.              *)
EnvelopeCoherent ==
  Coherent(env) /\ env.declinedBy \in Present \union {None}

(* No request turns a signature into anything else: a row that is SIGNED    *)
(* keeps that status and its evidence until it is deleted, although decline *)
(* and sign write the whole row from a copy they read earlier.              *)
SignatureKept ==
  [][\A s \in Participants : HasStatus(s, "SIGNED") =>
       \/ row'[s].status = "REMOVED"
       \/ row'[s].status = "SIGNED" /\ row'[s].evidence = row[s].evidence]_vars

(* COMPLETED means that every participant has signed ("Completes an         *)
(* envelope when all signers have signed", EnvelopeStateService): between   *)
(* the check in completeEnvelope and its write, nobody unsigns or joins.    *)
CompletedIsAllSigned == env.status = "COMPLETED" => AllSigned

(* The keys a completed envelope hands out are those of a signature of its  *)
(* own: signedKey is some signer's evidence, set after that signer's row.   *)
CompletedHasDocument ==
  env.status = "COMPLETED" =>
    \E s \in Present : HasStatus(s, "SIGNED") /\ env.signedKey = row[s].evidence

(* Two updates write signedKey and signedSha256, the second the hash alone, *)
(* while stale copies of the row are written over both.  The hash that is   *)
(* left still belongs to a signing of the envelope, though perhaps not to   *)
(* the one whose PDF is at signedKey; only the signature's own bytes, which *)
(* come with the key, never stand beside another signing's key.             *)
(* Neither is the hash of the PDF stored under signedKey (see Sha).         *)
RecordedHash ==
  env.signedKey # None =>
    \E s \in Present :
      /\ HasStatus(s, "SIGNED")
      /\ \/ env.signedSha = <<"content", row[s].evidence>>
         \/ /\ env.signedSha = <<"signature", row[s].evidence>>
            /\ env.signedKey = row[s].evidence

(* The signer recorded as decliner is one whose row says DECLINED.          *)
DeclinerDeclined ==
  env.status = "DECLINED" => HasStatus(env.declinedBy, "DECLINED")

(* When the last participant has signed, the envelope is completed, however *)
(* the last requests overlap: the one that saves its row last finds all     *)
(* rows signed when it checks.                                              *)
AllSignedCompletes == AllSigned ~> (env.status = "COMPLETED")

(***************************************************************************)
(* The abstract specification                                              *)
(***************************************************************************)
Lifecycle ==
  INSTANCE EnvelopeLifecycle
    WITH status <- env.status, signer <- [s \in Participants |-> row[s].status]

(* When requests do not overlap, the separate writes of a use case, and     *)
(* those of one that died half way, amount to the steps of the lifecycle.   *)
ImplementsLifecycle == Lifecycle!Spec

=============================================================================
