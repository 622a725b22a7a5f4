------------------------------ MODULE Documents ------------------------------
(***************************************************************************)
(* One document of documents-service: its DynamoDB item, and the requests  *)
(* of makeDocumentsCommandsPort that create, change, lock and delete it.   *)
(*                                                                         *)
(* getById reads the index GSI1, which lags behind the table (external:    *)
(* it passes through every version, in order).  A change reads the item    *)
(* twice, in the port and in DocumentRepositoryDdb.update, and puts the    *)
(* whole item, on the one condition that it is still there: the metadata,  *)
(* which holds the locks, is from the first reading, everything else from  *)
(* the second.                                                             *)
(*                                                                         *)
(* A request that its first reading refuses need not be made.  Metadata    *)
(* given by clients is taken not to name "locks".  Identifiers are unique, *)
(* so that a document has one request that creates it.                     *)
(***************************************************************************)
EXTENDS Naturals, Sequences, FiniteSets

CONSTANTS
  Requests,   \* the requests, each made at most once; a lock is named after its
  Users,      \* those who make them
  MaxFaults,  \* bound: puts whose answer is lost
  NoItem,     \* no item in the table
  Undefined   \* no name

Item == [status : {"pending", "ready"}, name : Requests \cup {Undefined},
         file : Requests, locks : SUBSET Requests]

ASSUME DocumentsAssumption ==
  /\ IsFiniteSet(Requests)
  /\ MaxFaults \in Nat
  /\ Undefined \notin Requests
  /\ NoItem \notin Item

VARIABLES
  versions,  \* what the table has held, oldest first
  indexed,   \* the version that the index holds
  sentAt,    \* the version at which the envelope left 'draft', or 0
  expired,   \* locks whose expiresAt has passed
  req,
  calm,      \* whether requests wait for each other and the index; never changes
  faults

vars == <<versions, indexed, sentAt, expired, req, calm, faults>>

item == versions[Len(versions)]
image == versions[indexed]

\* isDdbDocumentItem: an item without a name makes every getById throw.
Readable(version) == version # NoItem /\ version.name # Undefined

Running == {"insert", "envelope", "reread", "write", "delete"}
Operations == {"create", "upload", "patch", "put", "lock", "unlock", "delete"}

Idle == [op |-> "none", step |-> "idle", name |-> Undefined, user |-> Undefined,
         lock |-> Undefined, seen |-> NoItem, copy |-> NoItem]

Init ==
  /\ versions = <<NoItem>>
  /\ indexed = 1
  /\ sentAt = 0
  /\ expired = {}
  /\ req = [r \in Requests |-> Idle]
  /\ calm \in BOOLEAN
  /\ faults = 0

At(r, step) == req[r].step = step
UnderWay(r) == req[r].step \in Running

Begin(r, record) ==
  /\ At(r, "idle")
  /\ calm => indexed = Len(versions) /\ \A q \in Requests : ~UnderWay(q)
  /\ req' = [req EXCEPT ![r] = record]
  /\ UNCHANGED <<versions, indexed, sentAt, expired, calm, faults>>

Goto(r, step) == req' = [req EXCEPT ![r].step = step]
\* Answered, refused or broken off; that a lock was its user's is remembered.
End(r) == req' = [req EXCEPT ![r] = [Idle EXCEPT !.step = "ended", !.op = req[r].op, !.user = req[r].user]]
Quiet == UNCHANGED <<indexed, sentAt, expired, calm>>

(***************************************************************************)
(* Creating.  upload asks for an envelope in draft, create does not.       *)
(***************************************************************************)
Create(r) ==
  \E op \in {"create", "upload"} :
    /\ \A q \in Requests : req[q].op \notin {"create", "upload"}
    /\ op = "upload" => sentAt = 0
    /\ Begin(r, [Idle EXCEPT !.op = op, !.step = "insert"])

Created(r) ==
  [status |-> IF req[r].op = "create" THEN "ready" ELSE "pending",
   name |-> r, file |-> r, locks |-> {}]

\* The put's condition is that there is no item.
Insert(r) ==
  /\ At(r, "insert")
  /\ End(r)
  /\ IF item = NoItem THEN versions' = Append(versions, Created(r)) ELSE UNCHANGED versions
  /\ Quiet /\ UNCHANGED faults

\* It is carried out, its answer is lost, and the SDK sends it again.
InsertUnanswered(r) ==
  /\ At(r, "insert")
  /\ item = NoItem
  /\ faults < MaxFaults
  /\ faults' = faults + 1
  /\ versions' = Append(versions, Created(r))
  /\ Quiet /\ UNCHANGED req

(***************************************************************************)
(* Changing.  The first reading ...                                        *)
(***************************************************************************)
Change(r) ==
  \E op \in {"patch", "put"}, name \in {r, Undefined} :
    /\ Readable(image)
    /\ Begin(r, [Idle EXCEPT !.op = op, !.step = "envelope", !.name = name, !.seen = image])

Lock(r) ==
  \E user \in Users :
    /\ Readable(image)
    /\ Begin(r, [Idle EXCEPT !.op = "lock", !.step = "reread", !.user = user, !.seen = image])

\* Altered: anybody may remove a lock.
MayUnlockAny(user, lock) == lock \notin expired

\* assertDocumentLockDeletable.
MayUnlock(user, lock) == req[lock].user = user /\ lock \notin expired

\* A lock that the document does not have is removed all the same.
Unlock(r) ==
  \E user \in Users, lock \in {l \in Requests : req[l].op = "lock"} :
    /\ Readable(image)
    /\ lock \in image.locks => MayUnlock(user, lock)
    /\ Begin(r, [Idle EXCEPT !.op = "unlock", !.step = "reread", !.user = user,
                             !.lock = lock, !.seen = image])

Delete(r) ==
  /\ Readable(image)
  /\ Begin(r, [Idle EXCEPT !.op = "delete", !.step = "reread"])

\* assertDocumentStatusTransition to 'uploaded', assertDocumentMutable.
Allows(op, seen) == op = "put" => seen.status = "pending"

\* Altered: the envelope's status is not looked at.
ReadEnvelopeUnchecked(r) ==
  /\ At(r, "envelope")
  /\ IF Allows(req[r].op, req[r].seen) THEN Goto(r, "reread") ELSE End(r)
  /\ Quiet /\ UNCHANGED <<versions, faults>>

\* ... the envelope's status ...
ReadEnvelope(r) ==
  /\ At(r, "envelope")
  /\ IF sentAt = 0 /\ Allows(req[r].op, req[r].seen) THEN Goto(r, "reread") ELSE End(r)
  /\ Quiet /\ UNCHANGED <<versions, faults>>

\* Altered: whatever the index holds is taken for the item.
RereadUnchecked(r) ==
  /\ At(r, "reread")
  /\ req' = [req EXCEPT ![r].step = IF req[r].op = "delete" THEN "delete" ELSE "write",
                        ![r].copy = image]
  /\ Quiet /\ UNCHANGED <<versions, faults>>

\* ... the repository's reading ...
Reread(r) ==
  /\ At(r, "reread")
  /\ IF Readable(image)
     THEN req' = [req EXCEPT ![r].step = IF req[r].op = "delete" THEN "delete" ELSE "write",
                             ![r].copy = image]
     ELSE End(r)
  /\ Quiet /\ UNCHANGED <<versions, faults>>

\* A patch without a name overwrites the name with undefined, which is stored as
\* no name (a client library that refuses undefined values is BreakOff).
Changed(r) ==
  LET c == req[r] IN
  CASE c.op = "patch"  -> [c.copy EXCEPT !.name = c.name, !.locks = c.seen.locks]
    [] c.op = "put"    -> [c.copy EXCEPT !.file = r, !.locks = c.seen.locks]
    [] c.op = "lock"   -> [c.copy EXCEPT !.locks = c.seen.locks \cup {r}]
    [] c.op = "unlock" -> [c.copy EXCEPT !.locks = c.seen.locks \ {c.lock}]

PutItem(r) == versions' = Append(versions, Changed(r))

\* Altered: the put has no condition.
WriteUnconditional(r) ==
  /\ At(r, "write")
  /\ PutItem(r)
  /\ End(r)
  /\ Quiet /\ UNCHANGED faults

\* ... and the put.
Write(r) ==
  /\ At(r, "write")
  /\ IF item = NoItem
     THEN End(r) /\ UNCHANGED versions
     ELSE End(r) /\ PutItem(r)
  /\ Quiet /\ UNCHANGED faults

\* The put is carried out, its answer is lost, and the SDK sends it again.
WriteUnanswered(r) ==
  /\ At(r, "write")
  /\ item # NoItem
  /\ faults < MaxFaults
  /\ faults' = faults + 1
  /\ PutItem(r)
  /\ Quiet /\ UNCHANGED req

\* The envelope's status is not looked at.
Erase(r) ==
  /\ At(r, "delete")
  /\ IF item = NoItem
     THEN End(r) /\ UNCHANGED versions
     ELSE End(r) /\ versions' = Append(versions, NoItem)
  /\ Quiet /\ UNCHANGED faults

BreakOff(r) ==
  /\ UnderWay(r)
  /\ End(r)
  /\ Quiet /\ UNCHANGED <<versions, faults>>

(***************************************************************************)
(* The surroundings.                                                       *)
(***************************************************************************)
Propagate ==
  /\ indexed < Len(versions)
  /\ indexed' = indexed + 1
  /\ UNCHANGED <<versions, sentAt, expired, req, calm, faults>>

SendEnvelope ==
  /\ sentAt = 0
  /\ sentAt' = Len(versions)
  /\ UNCHANGED <<versions, indexed, expired, req, calm, faults>>

ExpireLock ==
  \E l \in Requests \ expired :
    /\ req[l].op = "lock"
    /\ expired' = expired \cup {l}
    /\ UNCHANGED <<versions, indexed, sentAt, req, calm, faults>>

Creating(r) == Create(r) \/ Insert(r) \/ InsertUnanswered(r)
Changing(r) ==
  \/ Change(r) \/ Lock(r) \/ Unlock(r)
  \/ ReadEnvelope(r) \/ Reread(r) \/ Write(r) \/ WriteUnanswered(r)
Deleting(r) == Delete(r) \/ Erase(r)

Next ==
  \/ \E r \in Requests : Creating(r) \/ Changing(r) \/ Deleting(r) \/ BreakOff(r)
  \/ Propagate
  \/ SendEnvelope
  \/ ExpireLock

Spec == Init /\ [][Next]_vars

(***************************************************************************)
(* Properties                                                              *)
(***************************************************************************)
(* Types of the variables; a request that will write holds two readings. *)
TypeOK ==
  /\ versions \in Seq(Item \cup {NoItem})
  /\ indexed \in 1 .. Len(versions)
  /\ sentAt \in 0 .. Len(versions)
  /\ expired \subseteq Requests
  /\ \A r \in Requests :
       /\ req[r].op \in Operations \cup {"none"}
       /\ req[r].step \in Running \cup {"idle", "ended"}
       /\ At(r, "write") => Readable(req[r].seen) /\ Readable(req[r].copy)
  /\ calm \in BOOLEAN
  /\ faults \in 0 .. MaxFaults

(* A deleted document stays deleted: no change brings it back that read it *)
(* before, or reads it in the index after.  Only its creation can, when    *)
(* the answer was lost, and then as it was created.                        *)
DeletedStaysDeleted ==
  \A k \in 2 .. Len(versions) - 1 :
    versions[k] = NoItem =>
      \/ versions[k + 1] = NoItem
      \/ faults > 0 /\ versions[k + 1] = versions[2]

(* After its envelope was sent, a document's name and file change at most  *)
(* once, by the request that was under way then, as long as requests wait  *)
(* for each other and for the index.                                       *)
SentIsSettled ==
  LET contents == {<<versions[k].name, versions[k].file>> :
                     k \in {l \in sentAt .. Len(versions) : l > 0 /\ versions[l] # NoItem}}
  IN calm /\ sentAt > 0 => Cardinality(contents) <= 2

(* A lock goes with its document or by its owner's request and by no other *)
(* change, as long as requests wait for each other and for the index.      *)
OnlyOwnerUnlocks ==
  [][calm /\ item # NoItem /\ item' # NoItem
       => \A l \in item.locks \ item'.locks :
            \E r \in Requests : At(r, "write") /\ req[r].lock = l /\ req[r].user = req[l].user
    ]_versions

=============================================================================
