---------------------------- MODULE Notification ----------------------------
(***************************************************************************)
(* The notifications of one event: EventBridge delivers the event to       *)
(* EventBridgeHandler at least once, ProcessNotificationUseCase makes a    *)
(* row for it, sends it and records the outcome; SendNotificationUseCase   *)
(* does the same for a caller that names the event, without asking whether *)
(* it was processed; RetryNotificationUseCase sends a row again.           *)
(*                                                                         *)
(* Every strategy turns an event into one request (or none, and then there *)
(* is nothing to model), so a process makes one row, named after itself.   *)
(* Events do not interact.  No row becomes DELIVERED or BOUNCED: nothing   *)
(* calls markAsDelivered and markAsBounced.                                *)
(***************************************************************************)
EXTENDS Naturals, FiniteSets

CONSTANTS
  Deliveries,  \* invocations of the handler with the event
  Directs,     \* calls of sendNotification for the event
  Retries,     \* calls of retryNotification
  MaxRetries,  \* the rows' maxRetries
  MaxFaults    \* bound: crashes, lost answers and failing database calls

ASSUME NotificationAssumption ==
  /\ MaxRetries \in Nat
  /\ MaxFaults \in Nat
  /\ Deliveries \cap Retries = {}
  /\ Directs \cap Retries = {}
  /\ Deliveries \cap Directs = {}

Rows == Deliveries \cup Directs
Processes == Rows \cup Retries

VARIABLES
  row,      \* the notification rows
  sent,     \* messages the provider accepted for each row
  proc,     \* each process: its step, its row, the retryCount of its copy
  overlap,  \* whether processes run at the same time; never changes
  faults

vars == <<row, sent, proc, overlap, faults>>

NoRow == [status |-> "none", retryCount |-> 0]
Steps == {"find", "create", "send", "markSent", "markFailed"}
Ends == {"success", "failure", "refused", "lost"}

Running(p) == proc[p].step \in Steps

\* The process goes on to a step, or ends and forgets its copy.
Goto(p, step) ==
  proc' = [proc EXCEPT ![p] =
             IF step \in Ends THEN [step |-> step, row |-> p, count |-> 0]
                              ELSE [@ EXCEPT !.step = step]]
Exists(r) == row[r].status # "none"

Init ==
  /\ row = [r \in Rows |-> NoRow]
  /\ sent = [r \in Rows |-> 0]
  /\ overlap \in BOOLEAN
  /\ faults = 0
  /\ proc = [p \in Processes |-> [step |-> "idle", row |-> p, count |-> 0]]

MayBegin(p) ==
  /\ proc[p].step = "idle"
  /\ overlap \/ \A q \in Processes : ~Running(q)

Begin(p) ==
  /\ p \in Rows
  /\ MayBegin(p)
  /\ Goto(p, IF p \in Directs THEN "create" ELSE "find")
  /\ UNCHANGED <<row, sent, overlap, faults>>

\* A retry names a row; without one, it is refused (notificationNotFound).
BeginRetry(t) ==
  /\ t \in Retries
  /\ MayBegin(t)
  /\ \E r \in Rows :
       /\ Exists(r)
       /\ proc' = [proc EXCEPT ![t].step = "find", ![t].row = r]
  /\ UNCHANGED <<row, sent, overlap, faults>>

\* checkIdempotency: any row of the event refuses it (eventAlreadyProcessed),
\* whatever became of that row.
AlreadyProcessed == \E r \in Rows : Exists(r)

Find(d) ==
  /\ d \in Deliveries
  /\ proc[d].step = "find"
  /\ Goto(d, IF AlreadyProcessed THEN "refused" ELSE "create")
  /\ UNCHANGED <<row, sent, overlap, faults>>

Create(p) ==
  /\ proc[p].step = "create"
  /\ row' = [row EXCEPT ![p] = [status |-> "PENDING", retryCount |-> 0]]
  /\ Goto(p, "send")
  /\ UNCHANGED <<sent, overlap, faults>>

\* Altered: the limit itself is let through.
RetriesLeftOrAt(r) == row[r].retryCount <= MaxRetries

RetriesLeft(r) == row[r].retryCount < MaxRetries

\* A retry goes on with a copy that has one retry more; the row keeps what it
\* has until the outcome.
Copy(t, r) ==
  proc' = [proc EXCEPT ![t] = [step |-> "send", row |-> r, count |-> row[r].retryCount + 1]]

\* Altered: a SENT row is retried like the others.
RetryFindUnchecked(t) ==
  /\ t \in Retries
  /\ proc[t].step = "find"
  /\ LET r == proc[t].row IN
     IF RetriesLeft(r) THEN Copy(t, r) ELSE Goto(t, "refused")
  /\ UNCHANGED <<row, sent, overlap, faults>>

RetryFind(t) ==
  /\ t \in Retries
  /\ proc[t].step = "find"
  /\ LET r == proc[t].row IN
     CASE row[r].status = "SENT" -> Goto(t, "success")
       [] row[r].status # "SENT" /\ RetriesLeft(r) -> Copy(t, r)
       [] OTHER -> Goto(t, "refused")
  /\ UNCHANGED <<row, sent, overlap, faults>>

\* The provider accepts the message.
Send(p) ==
  /\ proc[p].step = "send"
  /\ sent' = [sent EXCEPT ![proc[p].row] = @ + 1]
  /\ Goto(p, "markSent")
  /\ UNCHANGED <<row, overlap, faults>>

\* Altered: the provider's answer is not awaited.
SendFailsUnseen(p) ==
  /\ proc[p].step = "send"
  /\ Goto(p, "markSent")
  /\ UNCHANGED <<row, sent, overlap, faults>>

\* Altered: the error leaves the use case before the row is marked.
SendFailsUnmarked(p) ==
  /\ proc[p].step = "send"
  /\ Goto(p, "failure")
  /\ UNCHANGED <<row, sent, overlap, faults>>

\* It refuses it, or the channel is disabled.
SendFails(p) ==
  /\ proc[p].step = "send"
  /\ Goto(p, "markFailed")
  /\ UNCHANGED <<row, sent, overlap, faults>>

\* Altered: the update puts an undefined status.
MarkSentBlank(p) ==
  /\ proc[p].step = "markSent"
  /\ row' = [row EXCEPT ![proc[p].row].status = "undefined"]
  /\ Goto(p, "success")
  /\ UNCHANGED <<sent, overlap, faults>>

\* markAsSent on the process's own copy, then update of the whole row.
MarkSent(p) ==
  /\ proc[p].step = "markSent"
  /\ row' = [row EXCEPT ![proc[p].row] =
                [status |-> "SENT", retryCount |-> proc[p].count]]
  /\ Goto(p, "success")
  /\ UNCHANGED <<sent, overlap, faults>>

\* The catch of send and update alike: markAsFailed counts one more.
MarkFailed(p) ==
  /\ proc[p].step = "markFailed"
  /\ row' = [row EXCEPT ![proc[p].row] =
                [status |-> "FAILED", retryCount |-> proc[p].count + 1]]
  /\ Goto(p, "failure")
  /\ UNCHANGED <<sent, overlap, faults>>

(***************************************************************************)
(* Faults.                                                                 *)
(***************************************************************************)
Fault ==
  /\ faults < MaxFaults
  /\ faults' = faults + 1
  /\ UNCHANGED overlap

\* A call to the database fails.  A failing find or a failing final update
\* ends the process; a failing insert is caught by the loop over the requests,
\* and the invocation returns as if done; a failing markAsSent update is
\* caught with the send's errors.
CallFails(p) ==
  /\ Fault
  /\ proc[p].step \in {"find", "create", "markSent", "markFailed"}
  /\ Goto(p, IF proc[p].step = "markSent" THEN "markFailed" ELSE "lost")
  /\ UNCHANGED <<row, sent>>

\* A call is carried out and its answer lost.
CreateUnanswered(p) ==
  /\ Fault
  /\ proc[p].step = "create"
  /\ row' = [row EXCEPT ![p] = [status |-> "PENDING", retryCount |-> 0]]
  /\ Goto(p, "lost")
  /\ UNCHANGED sent

SendUnanswered(p) ==
  /\ Fault
  /\ proc[p].step = "send"
  /\ sent' = [sent EXCEPT ![proc[p].row] = @ + 1]
  /\ Goto(p, "markFailed")
  /\ UNCHANGED row

MarkSentUnanswered(p) ==
  /\ Fault
  /\ proc[p].step = "markSent"
  /\ row' = [row EXCEPT ![proc[p].row] =
                [status |-> "SENT", retryCount |-> proc[p].count]]
  /\ Goto(p, "markFailed")
  /\ UNCHANGED sent

Crash(p) ==
  /\ Fault
  /\ Running(p)
  /\ Goto(p, "lost")
  /\ UNCHANGED <<row, sent>>

Step(p) ==
  \/ Find(p)
  \/ RetryFind(p)
  \/ Create(p)
  \/ Send(p)
  \/ SendFails(p)
  \/ MarkSent(p)
  \/ MarkFailed(p)

Next ==
  \E p \in Processes :
    \/ Begin(p)
    \/ BeginRetry(p)
    \/ Step(p)
    \/ CallFails(p)
    \/ CreateUnanswered(p)
    \/ SendUnanswered(p)
    \/ MarkSentUnanswered(p)
    \/ Crash(p)

Spec == Init /\ [][Next]_vars

(***************************************************************************)
(* Properties                                                              *)
(***************************************************************************)
(* Types of the five variables. *)
TypeOK ==
  /\ row \in [Rows -> [status : {"none", "PENDING", "SENT", "FAILED"}, retryCount : Nat]]
  /\ sent \in [Rows -> Nat]
  /\ proc \in [Processes -> [step : {"idle"} \cup Steps \cup Ends, row : Processes, count : Nat]]
  /\ overlap \in BOOLEAN
  /\ faults \in 0 .. MaxFaults

(* A row that says SENT was accepted by the provider at least once, though *)
(* processes that overlap on it write copies they made before.             *)
SentWasAccepted == \A r \in Rows : row[r].status = "SENT" => sent[r] > 0

(* No row ever counts more than one retry over its limit, though a failed  *)
(* retry counts twice (once when it starts, once when it fails) and        *)
(* overlapping retries all pass the check.                                 *)
RetryCountBounded == \A r \in Rows : row[r].retryCount <= MaxRetries + 1

(* Without overlaps, a row's message is sent again only because a crash, a *)
(* lost answer or a failed call hid that it was sent.                      *)
ResentOnlyAfterFault == ~overlap => \A r \in Rows : sent[r] <= 1 + faults

(* A row is still PENDING after its process has ended only if that process *)
(* crashed or could not reach the database.                                *)
PendingIsUnfinished ==
  \A r \in Rows : row[r].status = "PENDING" => Running(r) \/ proc[r].step = "lost"

=============================================================================
