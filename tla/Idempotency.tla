---------------------------- MODULE Idempotency ----------------------------
(***************************************************************************)
(* IdempotencyRunner.run over IdempotencyStoreDdb, for one key: a request  *)
(* and its repetitions, each a run that wants to execute fn.               *)
(*                                                                         *)
(* A run reads the key's record, makes it (pending) unless it is there,    *)
(* executes fn and marks the record completed.  The record vanishes by its *)
(* TTL.  DynamoDB may carry out a request and lose the answer: the SDK     *)
(* then sends the request again.                                           *)
(***************************************************************************)
EXTENDS Naturals, FiniteSets

CONSTANTS
  Runs,        \* calls of run with one key
  Failures,    \* may answers be lost, fn throw, and runs die?
  None         \* no record

Records == [state : {"pending", "completed"}, by : Runs]

ASSUME IdempotencyAssumption ==
  /\ Failures \in BOOLEAN
  /\ None \notin Records

VARIABLES
  record,   \* the key's record, with the run that made it
  pc,       \* each run's progress
  effect    \* runs whose fn had its effect

vars == <<record, pc, effect>>

Executing == {"fn", "complete"}
Conflict == {"in_progress", "processed", "exists"}
Over == {"returned", "failed"} \union Conflict

TypeOK ==
  /\ record \in {None} \union Records
  /\ pc \in [Runs -> {"idle", "put"} \union Executing \union Over]
  /\ effect \subseteq Runs

Init ==
  /\ record = None
  /\ pc = [r \in Runs |-> "idle"]
  /\ effect = {}

Goes(r, from, to) ==
  /\ pc[r] = from
  /\ pc' = [pc EXCEPT ![r] = to]

\* store.get, a consistent read.
Get(r) ==
  /\ \/ record = None /\ Goes(r, "idle", "put")
     \/ /\ record # None
        /\ record.state = "pending"
        /\ Goes(r, "idle", "in_progress")
     \/ /\ record # None
        /\ record.state = "completed"
        /\ Goes(r, "idle", "processed")
  /\ UNCHANGED <<record, effect>>

\* Altered: the PutItem has no condition.
AbsentUnchecked == TRUE

\* attribute_not_exists(pk) AND attribute_not_exists(sk)
Absent == record = None

Pending(r) == record' = [state |-> "pending", by |-> r]

PutPending(r) ==
  /\ \/ Absent /\ Pending(r) /\ Goes(r, "put", "fn")
     \/ ~Absent /\ Goes(r, "put", "exists") /\ UNCHANGED record
  /\ UNCHANGED effect

PutPendingUnanswered(r) ==
  /\ Failures
  /\ pc[r] = "put"
  /\ Absent
  /\ Pending(r)
  /\ UNCHANGED <<pc, effect>>

\* Altered: fn is not awaited.
ExecuteNotAwaited(r) ==
  /\ Goes(r, "fn", "complete")
  /\ UNCHANGED <<record, effect>>

Execute(r) ==
  /\ Goes(r, "fn", "complete")
  /\ effect' = effect \union {r}
  /\ UNCHANGED record

\* attribute_exists(pk) AND attribute_exists(sk): whoever made the record.
PutCompleted(r) ==
  /\ \/ /\ record # None
        /\ record' = [record EXCEPT !.state = "completed"]
        /\ Goes(r, "complete", "returned")
     \/ record = None /\ Goes(r, "complete", "failed") /\ UNCHANGED record
  /\ UNCHANGED effect

PutCompletedUnanswered(r) ==
  /\ Failures
  /\ pc[r] = "complete"
  /\ record # None
  /\ record' = [record EXCEPT !.state = "completed"]
  /\ UNCHANGED <<pc, effect>>

\* fn throws, a request to DynamoDB fails for good, or the Lambda is gone.
\* The record stays as it is.
Fail(r) ==
  /\ Failures
  /\ pc[r] \in {"put"} \union Executing
  /\ pc' = [pc EXCEPT ![r] = "failed"]
  /\ UNCHANGED <<record, effect>>

\* DynamoDB deletes the record some time after its TTL, which is taken to be
\* longer than the run that made the record: five minutes unless told otherwise.
Expire ==
  /\ record # None
  /\ pc[record.by] \notin {"put"} \union Executing
  /\ record' = None
  /\ UNCHANGED <<pc, effect>>

Step(r) ==
  \/ Get(r) \/ PutPending(r) \/ PutPendingUnanswered(r) \/ Execute(r)
  \/ PutCompleted(r) \/ PutCompletedUnanswered(r) \/ Fail(r)

Next == Expire \/ \E r \in Runs : Step(r)

Spec == Init /\ [][Next]_vars

(***************************************************************************)
(* Properties                                                              *)
(***************************************************************************)
\* However many repetitions arrive at once, one at a time executes fn, and
\* the record in the table is its own: putPending's condition decides, not
\* the read before it.
OneExecuting ==
  \A r \in Runs : pc[r] \in Executing => record # None /\ record.by = r

\* A repetition is told "already processed" only of an fn that had its effect,
\* the one of the run that made the record.
CompletedHadEffect ==
  record # None /\ record.state = "completed" => record.by \in effect

=============================================================================
