------------------------------- MODULE Outbox -------------------------------
(***************************************************************************)
(* The outbox of the services: OutboxRepository.save inserts an event in a *)
(* DynamoDB table, the table's stream invokes outboxStreamHandler with     *)
(* batches of inserted records, and the handler publishes them one by one  *)
(* to EventBridge, where rules route them by source and detail type.       *)
(*                                                                         *)
(* All records have the partition key 'OUTBOX', so the stream is one       *)
(* sequence.  The event source mapping (an external service) invokes the   *)
(* handler with the records from its position on, and moves past a batch   *)
(* when the invocation returns; if the invocation dies, it is repeated     *)
(* with the same position.  Nothing else reads the table: pullPending,     *)
(* markAsProcessed and markFailed have no caller.                          *)
(***************************************************************************)
EXTENDS Naturals, Sequences, FiniteSets

CONSTANTS
  Events,     \* domain events; each stands for its own event type
  BatchSize,  \* batch_size of the event source mapping
  MaxFaults,  \* bound: invocations that die and answers that get lost
  NoBatch

ASSUME OutboxAssumption ==
  /\ BatchSize \in Nat \ {0}
  /\ MaxFaults \in Nat
  /\ "Outbox" \notin Events
  /\ NoBatch \notin [next : Nat, last : Nat]

VARIABLES
  stream,    \* images of the inserted records, oldest first
  position,  \* records the event source mapping is past
  batch,     \* the running invocation: next record to publish, last record
  bus,       \* entries EventBridge has accepted, oldest first
  failed,    \* events an invocation gave up on: counted and logged, no more
  faults

vars == <<stream, position, batch, bus, failed, faults>>

\* The stored item: a row kind, the event's own type, and a payload as a map.
Image(e) == [type |-> "Outbox", eventType |-> e, payload |-> "M"]

\* convertDynamoDbRecord and toEventBridgeEntry: which attribute becomes the
\* detail type, and a payload that is read only if it is stored as a string.
Entry(image) ==
  [detailType |-> image.type,
   detail     |-> IF image.payload = "S" THEN "payload" ELSE "empty",
   of         |-> image.eventType]

Saved == {stream[k].eventType : k \in DOMAIN stream}
Published == {bus[k].of : k \in DOMAIN bus}

Init ==
  /\ stream = <<>>
  /\ position = 0
  /\ batch = NoBatch
  /\ bus = <<>>
  /\ failed = {}
  /\ faults = 0

(***************************************************************************)
(* A service saves an event.  The put is conditional: a second save of the *)
(* same event is a ConflictError and changes nothing.                      *)
(***************************************************************************)
Save(e) ==
  /\ e \notin Saved
  /\ stream' = Append(stream, Image(e))
  /\ UNCHANGED <<position, batch, bus, failed, faults>>

\* Altered: an invocation waits for a full batch.
OfferedFull(last) == last <= Len(stream) /\ last = position + BatchSize

\* The handler is invoked with the records from the position to some last one.
Offered(last) == last \in position + 1 .. Len(stream) /\ last <= position + BatchSize

Invoke ==
  /\ batch = NoBatch
  /\ \E last \in DOMAIN stream :
       /\ Offered(last)
       /\ batch' = [next |-> position + 1, last |-> last]
  /\ UNCHANGED <<stream, position, bus, failed, faults>>

\* Its clients cannot be set up: the error is returned, not thrown, and the
\* mapping moves past the batch.
SetUpFails ==
  /\ batch = NoBatch
  /\ \E last \in DOMAIN stream :
       /\ Offered(last)
       /\ failed' = failed \cup {stream[k].eventType : k \in position + 1 .. last}
       /\ position' = last
  /\ UNCHANGED <<stream, batch, bus, faults>>

\* Altered: the records of a batch in the opposite order.
CurrentFromEnd == stream[position + 1 + batch.last - batch.next]

\* processStreamRecords: one record at a time, in the order of the batch.
Publishing == batch # NoBatch /\ batch.next <= batch.last
Current == stream[batch.next]
NextRecord == batch' = [batch EXCEPT !.next = @ + 1]

Publish ==
  /\ Publishing
  /\ bus' = Append(bus, Entry(Current))
  /\ NextRecord
  /\ UNCHANGED <<stream, position, failed, faults>>

\* putEvents is carried out, its answer is lost, and the SDK sends it again.
PublishUnanswered ==
  /\ Publishing
  /\ faults < MaxFaults
  /\ faults' = faults + 1
  /\ bus' = Append(bus, Entry(Current))
  /\ UNCHANGED <<stream, position, batch, failed>>

\* putEvents fails or reports a failed entry: caught, counted and skipped.
PublishFails ==
  /\ Publishing
  /\ failed' = failed \cup {Current.eventType}
  /\ NextRecord
  /\ UNCHANGED <<stream, position, bus, faults>>

\* Altered: the position moves one record too far.
ReturnPast ==
  /\ batch # NoBatch
  /\ batch.next > batch.last
  /\ position' = batch.last + 1
  /\ batch' = NoBatch
  /\ UNCHANGED <<stream, bus, failed, faults>>

\* Altered: the handler throws if a record failed, and all are repeated.
ReturnOrThrow ==
  /\ batch # NoBatch
  /\ batch.next > batch.last
  /\ position' = IF failed = {} THEN batch.last ELSE position
  /\ batch' = NoBatch
  /\ UNCHANGED <<stream, bus, failed, faults>>

\* All records done: status 200, whatever failedCount is.
Return ==
  /\ batch # NoBatch
  /\ batch.next > batch.last
  /\ position' = batch.last
  /\ batch' = NoBatch
  /\ UNCHANGED <<stream, bus, failed, faults>>

\* Altered: a batch that timed out counts as done.
DieDone ==
  /\ batch # NoBatch
  /\ faults < MaxFaults
  /\ faults' = faults + 1
  /\ position' = batch.last
  /\ batch' = NoBatch
  /\ UNCHANGED <<stream, bus, failed>>

\* The invocation times out or crashes: the mapping repeats the batch.
Die ==
  /\ batch # NoBatch
  /\ faults < MaxFaults
  /\ faults' = faults + 1
  /\ batch' = NoBatch
  /\ UNCHANGED <<stream, position, bus, failed>>

Handle == Publish \/ PublishUnanswered \/ PublishFails \/ Return

Next ==
  \/ \E e \in Events : Save(e)
  \/ Invoke
  \/ SetUpFails
  \/ Handle
  \/ Die

Spec == Init /\ [][Next]_vars

\* The mapping keeps polling, and an invocation runs on until it returns or
\* dies; that faults stop is the bound MaxFaults, not fairness.
FairSpec == Spec /\ WF_vars(Invoke) /\ WF_vars(Handle)

(***************************************************************************)
(* Properties                                                              *)
(***************************************************************************)
(* Types of the six variables. *)
TypeOK ==
  /\ stream \in Seq({Image(e) : e \in Events})
  /\ position \in 0 .. Len(stream)
  /\ batch \in {NoBatch} \cup [next : 1 .. Len(stream) + 1, last : 1 .. Len(stream)]
  /\ bus \in Seq({Entry(Image(e)) : e \in Events})
  /\ failed \subseteq Events
  /\ faults \in 0 .. MaxFaults

(* The stream never moves past a record that was neither published nor     *)
(* reported as failed, through batches that are repeated and cut short.    *)
NoneSkipped ==
  \A k \in 1 .. position : stream[k].eventType \in Published \cup failed

(* Events reach the bus in the order they were saved, but for those that   *)
(* failed: what was saved before has its first publication before.         *)
InOrder ==
  \A k \in DOMAIN bus :
    \A earlier \in DOMAIN stream :
      \/ bus[k].of \in {stream[l].eventType : l \in 1 .. earlier}
      \/ stream[earlier].eventType \in failed
      \/ \E j \in 1 .. k - 1 : bus[j].of = stream[earlier].eventType

(* An event is published once, and once more for each fault at most: no    *)
(* duplicates without an invocation that died or an answer that was lost.  *)
DuplicatesNeedFaults ==
  \A e \in Events : Cardinality({k \in DOMAIN bus : bus[k].of = e}) <= 1 + faults

(* A saved event is published, unless its publication was reported failed: *)
(* no batch is left behind.                                                *)
EverySavedHandled ==
  \A e \in Events : e \in Saved ~> e \in Published \cup failed

(* What is published is the event that was saved: its type as the detail   *)
(* type, which is what the consumers' rules match, and its payload.        *)
PublishedAsSaved ==
  \A k \in DOMAIN bus : bus[k].detailType = bus[k].of /\ bus[k].detail = "payload"

=============================================================================
