------------------------- MODULE Notification_proofs -------------------------
(***************************************************************************)
(* For any number of deliveries, direct sends and retries of one event,    *)
(* overlapping or in turn, and any number of faults: what is marked SENT   *)
(* was accepted, the retries are bounded, a row is left PENDING only by a  *)
(* process that was lost, and in turn only a fault makes a message go      *)
(* twice.                                                                  *)
(***************************************************************************)
EXTENDS Notification, TLAPS

(***************************************************************************)
(* The inductive invariant                                                 *)
(***************************************************************************)
At(p, steps) == proc[p].step \in steps

\* A delivery or a direct send keeps to its own row, which is there from its
\* create on; a retry has found a row.
KeepsToItsRow(p) ==
  /\ p \in Rows => proc[p].row = p
  /\ p \in Retries => proc[p].step # "create"
  /\ p \in Retries /\ At(p, {"find"}) => proc[p].row \in Rows /\ Exists(proc[p].row)
  /\ At(p, {"send", "markSent", "markFailed"}) => proc[p].row \in Rows /\ Exists(proc[p].row)

NoRowYet(r) == At(r, {"idle", "find", "create", "refused"}) => ~Exists(r)

\* The copy a process writes has a count within the limit.
CountWithin(p) == proc[p].count <= MaxRetries

MarksWhatWasSent(p) == At(p, {"markSent"}) => sent[proc[p].row] > 0

Alone == \A p, q \in Processes : Running(p) /\ Running(q) => p = q

\* In turn, each sending but one is paid for by a fault; unless the row says
\* SENT or is about to, every one is.
Paid(r) ==
  /\ sent[r] <= 1 + faults
  /\ \/ row[r].status = "SENT"
     \/ \E p \in Processes : At(p, {"markSent"}) /\ proc[p].row = r
     \/ sent[r] <= faults
  /\ \A p \in Processes :
       At(p, {"send", "markFailed"}) /\ proc[p].row = r => sent[r] <= faults

InTurn == ~overlap => Alone /\ \A r \in Rows : Paid(r)

NotificationInv ==
  /\ TypeOK
  /\ \A p \in Processes : KeepsToItsRow(p) /\ CountWithin(p) /\ MarksWhatWasSent(p)
  /\ \A r \in Rows : NoRowYet(r)
  /\ SentWasAccepted
  /\ RetryCountBounded
  /\ PendingIsUnfinished
  /\ InTurn

LEMMA InitNotification == Init => NotificationInv
PROOF
<1> SUFFICES ASSUME Init PROVE NotificationInv
    OBVIOUS
<1>1. /\ row = [r \in Rows |-> NoRow] /\ sent = [r \in Rows |-> 0]
      /\ overlap \in BOOLEAN /\ faults = 0
      /\ proc = [p \in Processes |-> [step |-> "idle", row |-> p, count |-> 0]]
      BY DEF Init
<1>2. TypeOK
      BY <1>1, NotificationAssumption DEF TypeOK, NoRow
<1>3. \A p \in Processes : KeepsToItsRow(p) /\ CountWithin(p) /\ MarksWhatWasSent(p) /\ ~Running(p)
      BY <1>1, NotificationAssumption
      DEF KeepsToItsRow, CountWithin, MarksWhatWasSent, At, Running, Steps, Processes
<1>4. \A r \in Rows : NoRowYet(r) /\ Paid(r)
      BY <1>1 DEF NoRowYet, Paid, Exists, NoRow, At
<1> QED
    BY <1>1, <1>2, <1>3, <1>4, NotificationAssumption
    DEF NotificationInv, SentWasAccepted, RetryCountBounded, PendingIsUnfinished, InTurn, Alone, NoRow

(***************************************************************************)
(* One process's step                                                      *)
(***************************************************************************)
\* What Goto leaves of a process.
LEMMA GotoStep ==
  ASSUME TypeOK, NEW p \in Processes, NEW step \in Steps \cup Ends, Goto(p, step)
  PROVE  /\ proc' \in [Processes -> [step : {"idle"} \cup Steps \cup Ends, row : Processes, count : Nat]]
         /\ \A q \in Processes \ {p} : proc'[q] = proc[q]
         /\ proc'[p].step = step
         /\ step \in Ends => proc'[p].row = p /\ proc'[p].count = 0
         /\ step \notin Ends => proc'[p].row = proc[p].row /\ proc'[p].count = proc[p].count
PROOF
<1>1. proc \in [Processes -> [step : {"idle"} \cup Steps \cup Ends, row : Processes, count : Nat]]
      BY DEF TypeOK
<1>2. CASE step \in Ends
  <2>1. proc' = [proc EXCEPT ![p] = [step |-> step, row |-> p, count |-> 0]]
        BY <1>2 DEF Goto
  <2> QED
      BY <1>1, <1>2, <2>1
<1>3. CASE step \notin Ends
  <2>1. proc' = [proc EXCEPT ![p] = [proc[p] EXCEPT !.step = step]]
        BY <1>3 DEF Goto
  <2> QED
      BY <1>1, <1>3, <2>1
<1> QED
    BY <1>2, <1>3

\* The outcomes of one process's step that keep everything but InTurn.
Effect(p) ==
  /\ TypeOK'
  /\ \A q \in Processes \ {p} : proc'[q] = proc[q]
  /\ \A r \in Rows : sent'[r] >= sent[r]
  /\ \A r \in Rows :
       \/ row'[r] = row[r]
       \/ /\ Exists(r) /\ row'[r].status = "SENT" /\ sent[r] > 0
          /\ row'[r].retryCount <= MaxRetries
       \/ /\ Exists(r) /\ row'[r].status = "FAILED"
          /\ row'[r].retryCount <= MaxRetries + 1
       \/ r = p /\ row'[r] = [status |-> "PENDING", retryCount |-> 0]
  /\ KeepsToItsRow(p)' /\ CountWithin(p)' /\ MarksWhatWasSent(p)'
  /\ p \in Rows => NoRowYet(p)'
  /\ p \in Rows /\ row'[p].status = "PENDING" => Running(p)' \/ proc'[p].step = "lost"

LEMMA EffectKeeps ==
  ASSUME NotificationInv, NEW p \in Processes, Effect(p)
  PROVE  /\ TypeOK'
         /\ \A q \in Processes : KeepsToItsRow(q)' /\ CountWithin(q)' /\ MarksWhatWasSent(q)'
         /\ \A r \in Rows : NoRowYet(r)'
         /\ SentWasAccepted'
         /\ RetryCountBounded'
         /\ PendingIsUnfinished'
PROOF
<1>1. /\ row \in [Rows -> [status : {"none", "PENDING", "SENT", "FAILED"}, retryCount : Nat]]
      /\ row' \in [Rows -> [status : {"none", "PENDING", "SENT", "FAILED"}, retryCount : Nat]]
      /\ sent \in [Rows -> Nat] /\ sent' \in [Rows -> Nat]
      /\ MaxRetries \in Nat
      BY NotificationAssumption DEF NotificationInv, TypeOK, Effect
<1>2. \A r \in Rows : Exists(r) => Exists(r)'
      BY DEF Effect, Exists
<1>3. \A r \in Rows : r # p /\ ~Exists(r) => ~Exists(r)'
      BY DEF Effect, Exists
<1>4. ASSUME NEW q \in Processes
      PROVE  KeepsToItsRow(q)' /\ CountWithin(q)' /\ MarksWhatWasSent(q)'
  <2>1. CASE q = p
        BY <2>1 DEF Effect
  <2>2. CASE q # p
    <3>1. proc'[q] = proc[q] /\ KeepsToItsRow(q) /\ CountWithin(q) /\ MarksWhatWasSent(q)
          BY <2>2 DEF Effect, NotificationInv
    <3>2. KeepsToItsRow(q)'
          BY <1>2, <3>1 DEF KeepsToItsRow, At
    <3>3. CountWithin(q)'
          BY <3>1 DEF CountWithin
    <3>4. MarksWhatWasSent(q)'
      <4> SUFFICES ASSUME proc[q].step = "markSent" PROVE sent'[proc[q].row] > 0
          BY <3>1 DEF MarksWhatWasSent, At
      <4>1. proc[q].row \in Rows /\ sent[proc[q].row] > 0
            BY <3>1 DEF MarksWhatWasSent, KeepsToItsRow, At
      <4>2. sent'[proc[q].row] >= sent[proc[q].row]
            BY <4>1 DEF Effect
      <4> QED
          BY <1>1, <4>1, <4>2
    <3> QED
        BY <3>2, <3>3, <3>4
  <2> QED
      BY <2>1, <2>2
<1>5. ASSUME NEW r \in Rows
      PROVE  NoRowYet(r)'
  <2>1. CASE r = p
        BY <2>1 DEF Effect
  <2>2. CASE r # p
    <3>1. proc'[r] = proc[r] /\ NoRowYet(r)
          BY <2>2 DEF Effect, NotificationInv, Processes
    <3> QED
        BY <1>3, <2>2, <3>1 DEF NoRowYet, At
  <2> QED
      BY <2>1, <2>2
<1>6. SentWasAccepted'
  <2> SUFFICES ASSUME NEW r \in Rows, row'[r].status = "SENT" PROVE sent'[r] > 0
      BY DEF SentWasAccepted
  <2>1. sent'[r] >= sent[r] /\ sent[r] > 0
        BY DEF Effect, NotificationInv, SentWasAccepted
  <2> QED
      BY <1>1, <2>1
<1>7. RetryCountBounded'
  <2> SUFFICES ASSUME NEW r \in Rows PROVE row'[r].retryCount <= MaxRetries + 1
      BY DEF RetryCountBounded
  <2>1. row[r].retryCount <= MaxRetries + 1
        BY DEF NotificationInv, RetryCountBounded
  <2>2. row'[r].retryCount \in Nat
        BY <1>1
  <2> QED
      BY <1>1, <2>1, <2>2 DEF Effect
<1>8. PendingIsUnfinished'
  <2> SUFFICES ASSUME NEW r \in Rows, row'[r].status = "PENDING"
               PROVE  Running(r)' \/ proc'[r].step = "lost"
      BY DEF PendingIsUnfinished
  <2>1. CASE r = p
        BY <2>1 DEF Effect
  <2>2. CASE r # p
    <3>1. row'[r] = row[r] /\ proc'[r] = proc[r]
          BY <2>2 DEF Effect, Processes
    <3> QED
        BY <3>1 DEF NotificationInv, PendingIsUnfinished, Running
  <2> QED
      BY <2>1, <2>2
<1> QED
    BY <1>4, <1>5, <1>6, <1>7, <1>8 DEF Effect

\* Every disjunct of Next is such a step.
LEMMA StepEffect ==
  ASSUME NotificationInv, NEW p \in Processes,
         \/ Begin(p) \/ BeginRetry(p) \/ Step(p) \/ CallFails(p) \/ CreateUnanswered(p)
         \/ SendUnanswered(p) \/ MarkSentUnanswered(p) \/ Crash(p)
  PROVE  Effect(p)
PROOF
<1> USE DEF Exists, At, KeepsToItsRow, CountWithin, MarksWhatWasSent, NoRowYet, Steps, Ends, Running
<1>1. /\ row \in [Rows -> [status : {"none", "PENDING", "SENT", "FAILED"}, retryCount : Nat]]
      /\ sent \in [Rows -> Nat]
      /\ proc \in [Processes -> [step : {"idle"} \cup Steps \cup Ends, row : Processes, count : Nat]]
      /\ overlap \in BOOLEAN /\ faults \in 0 .. MaxFaults
      /\ MaxRetries \in Nat /\ MaxFaults \in Nat
      BY NotificationAssumption DEF NotificationInv, TypeOK
<1>2. /\ KeepsToItsRow(p) /\ CountWithin(p) /\ MarksWhatWasSent(p)
      /\ p \in Rows => NoRowYet(p)
      /\ p \in Rows /\ row[p].status = "PENDING" => Running(p) \/ proc[p].step = "lost"
      BY DEF NotificationInv, PendingIsUnfinished
<1>3. Rows \cap Retries = {} /\ (p \in Rows \/ p \in Retries)
      BY NotificationAssumption DEF Rows, Processes
<1>4. ASSUME NEW step \in Steps \cup Ends, Goto(p, step)
      PROVE  /\ proc' \in [Processes -> [step : {"idle"} \cup Steps \cup Ends, row : Processes, count : Nat]]
             /\ \A q \in Processes \ {p} : proc'[q] = proc[q]
             /\ proc'[p].step = step
             /\ step \in Ends => proc'[p].row = p /\ proc'[p].count = 0
             /\ step \notin Ends => proc'[p].row = proc[p].row /\ proc'[p].count = proc[p].count
      BY <1>4, GotoStep DEF NotificationInv
<1>5. CASE Begin(p)
  <2>1. PICK step \in {"create", "find"} : Goto(p, step)
        BY <1>5 DEF Begin
  <2>2. p \in Rows /\ proc[p].step = "idle" /\ UNCHANGED <<row, sent, overlap, faults>>
        BY <1>5 DEF Begin, MayBegin
  <2> QED
      BY <1>1, <1>2, <1>3, <1>4, <2>1, <2>2 DEF Effect, TypeOK
<1>6. CASE BeginRetry(p)
  <2>1. PICK r \in Rows : Exists(r) /\ proc' = [proc EXCEPT ![p].step = "find", ![p].row = r]
        BY <1>6 DEF BeginRetry
  <2>2. p \in Retries /\ UNCHANGED <<row, sent, overlap, faults>>
        BY <1>6 DEF BeginRetry
  <2>3. /\ proc' \in [Processes -> [step : {"idle"} \cup Steps \cup Ends, row : Processes, count : Nat]]
        /\ \A q \in Processes \ {p} : proc'[q] = proc[q]
        /\ proc'[p].step = "find" /\ proc'[p].row = r /\ proc'[p].count = proc[p].count
        BY <1>1, <2>1 DEF Processes
  <2> QED
      BY <1>1, <1>2, <1>3, <2>1, <2>2, <2>3 DEF Effect, TypeOK
<1>7. CASE Find(p)
  <2>1. PICK step \in {"refused", "create"} : Goto(p, step)
        BY <1>7 DEF Find
  <2>2. p \in Rows /\ proc[p].step = "find" /\ UNCHANGED <<row, sent, overlap, faults>>
        BY <1>7 DEF Find, Rows
  <2> QED
      BY <1>1, <1>2, <1>3, <1>4, <2>1, <2>2 DEF Effect, TypeOK
<1>8. CASE RetryFind(p)
  <2>1. p \in Retries /\ proc[p].step = "find" /\ UNCHANGED <<row, sent, overlap, faults>>
        BY <1>8 DEF RetryFind
  <2>2. CASE \E step \in {"success", "refused"} : Goto(p, step)
        BY <1>1, <1>2, <1>3, <1>4, <2>1, <2>2 DEF Effect, TypeOK
  <2>3. CASE Copy(p, proc[p].row) /\ RetriesLeft(proc[p].row)
    <3>1. proc[p].row \in Rows /\ row[proc[p].row].retryCount \in Nat
          BY <1>1, <1>2, <2>1
    <3>2. PICK n \in Nat :
            /\ n <= MaxRetries
            /\ proc' = [proc EXCEPT ![p] = [step |-> "send", row |-> proc[p].row, count |-> n]]
      <4>1. PICK n : n = row[proc[p].row].retryCount + 1
            OBVIOUS
      <4>2. n \in Nat /\ n <= MaxRetries
            BY <1>1, <2>3, <3>1, <4>1 DEF RetriesLeft
      <4> QED
          BY <2>3, <4>1, <4>2 DEF Copy
    <3>3. /\ proc' \in [Processes -> [step : {"idle"} \cup Steps \cup Ends, row : Processes, count : Nat]]
          /\ \A q \in Processes \ {p} : proc'[q] = proc[q]
          /\ proc'[p].step = "send" /\ proc'[p].row = proc[p].row /\ proc'[p].count = n
          BY <1>1, <3>1, <3>2
    <3> QED
        BY <1>1, <1>2, <1>3, <2>1, <3>1, <3>2, <3>3 DEF Effect, TypeOK
  <2> QED
      BY <1>8, <2>2, <2>3 DEF RetryFind
<1>9. CASE \/ Create(p) \/ CreateUnanswered(p)
  <2>1. PICK step \in {"send", "lost"} : Goto(p, step)
        BY <1>9 DEF Create, CreateUnanswered
  <2>2. /\ proc[p].step = "create" /\ UNCHANGED <<sent, overlap>> /\ faults' \in 0 .. MaxFaults
        /\ row' = [row EXCEPT ![p] = [status |-> "PENDING", retryCount |-> 0]]
        BY <1>1, <1>9 DEF Create, CreateUnanswered, Fault
  <2>3. p \in Rows /\ proc[p].row = p
        BY <1>2, <1>3, <2>2
  <2> QED
      BY <1>1, <1>2, <1>3, <1>4, <2>1, <2>2, <2>3 DEF Effect, TypeOK
<1>10. CASE \/ Send(p) \/ SendUnanswered(p)
  <2>1. PICK step \in {"markSent", "markFailed"} : Goto(p, step)
        BY <1>10 DEF Send, SendUnanswered
  <2>2. /\ proc[p].step = "send" /\ UNCHANGED <<row, overlap>> /\ faults' \in 0 .. MaxFaults
        /\ sent' = [sent EXCEPT ![proc[p].row] = @ + 1]
        BY <1>1, <1>10 DEF Send, SendUnanswered, Fault
  <2>3. proc[p].row \in Rows
        BY <1>2, <2>2
  <2> QED
      BY <1>1, <1>2, <1>3, <1>4, <2>1, <2>2, <2>3 DEF Effect, TypeOK
<1>11. CASE SendFails(p)
  <2>1. /\ proc[p].step = "send" /\ UNCHANGED <<row, sent, overlap, faults>>
        /\ Goto(p, "markFailed")
        BY <1>11 DEF SendFails
  <2> QED
      BY <1>1, <1>2, <1>3, <1>4, <2>1 DEF Effect, TypeOK
<1>12. CASE \/ MarkSent(p) \/ MarkSentUnanswered(p)
  <2>1. PICK step \in {"success", "markFailed"} : Goto(p, step)
        BY <1>12 DEF MarkSent, MarkSentUnanswered
  <2>2. /\ proc[p].step = "markSent" /\ UNCHANGED <<sent, overlap>> /\ faults' \in 0 .. MaxFaults
        /\ row' = [row EXCEPT ![proc[p].row] = [status |-> "SENT", retryCount |-> proc[p].count]]
        BY <1>1, <1>12 DEF MarkSent, MarkSentUnanswered, Fault
  <2>3. proc[p].row \in Rows /\ proc[p].count \in Nat
        BY <1>1, <1>2, <2>2
  <2> QED
      BY <1>1, <1>2, <1>3, <1>4, <2>1, <2>2, <2>3 DEF Effect, TypeOK
<1>13. CASE MarkFailed(p)
  <2>1. /\ proc[p].step = "markFailed" /\ UNCHANGED <<sent, overlap, faults>>
        /\ Goto(p, "failure")
        /\ row' = [row EXCEPT ![proc[p].row] = [status |-> "FAILED", retryCount |-> proc[p].count + 1]]
        BY <1>13 DEF MarkFailed
  <2>2. proc[p].row \in Rows /\ proc[p].count + 1 \in Nat
        BY <1>1, <1>2, <2>1
  <2> QED
      BY <1>1, <1>2, <1>3, <1>4, <2>1, <2>2 DEF Effect, TypeOK
<1>14. CASE \/ CallFails(p) \/ Crash(p)
  <2>1. PICK step \in {"markFailed", "lost"} :
          /\ Goto(p, step)
          /\ step = "markFailed" => proc[p].step = "markSent"
        BY <1>14 DEF CallFails, Crash
  <2>2. /\ proc[p].step # "idle" /\ UNCHANGED <<row, sent, overlap>> /\ faults' \in 0 .. MaxFaults
        BY <1>1, <1>14 DEF CallFails, Crash, Fault
  <2> QED
      BY <1>1, <1>2, <1>3, <1>4, <2>1, <2>2 DEF Effect, TypeOK
<1> QED
    BY <1>5, <1>6, <1>7, <1>8, <1>9, <1>10, <1>11, <1>12, <1>13, <1>14 DEF Step

(***************************************************************************)
(* In turn                                                                 *)
(***************************************************************************)
\* While no process but p runs, what a row owes depends on p alone.
PaidBy(p, r) ==
  /\ sent[r] <= 1 + faults
  /\ \/ row[r].status = "SENT"
     \/ At(p, {"markSent"}) /\ proc[p].row = r
     \/ sent[r] <= faults
  /\ At(p, {"send", "markFailed"}) /\ proc[p].row = r => sent[r] <= faults

LEMMA PaidAlone ==
  ASSUME NEW p \in Processes, \A q \in Processes \ {p} : ~Running(q), NEW r
  PROVE  Paid(r) <=> PaidBy(p, r)
PROOF
<1>1. \A q \in Processes \ {p} : ~At(q, {"send", "markSent", "markFailed"})
      BY DEF Running, Steps, At
<1> QED
    BY <1>1 DEF Paid, PaidBy, At

LEMMA InTurnStep ==
  ASSUME NotificationInv, NEW p \in Processes, Effect(p), ~overlap,
         \/ Begin(p) \/ BeginRetry(p) \/ Step(p) \/ CallFails(p) \/ CreateUnanswered(p)
         \/ SendUnanswered(p) \/ MarkSentUnanswered(p) \/ Crash(p)
  PROVE  Alone' /\ \A r \in Rows : Paid(r)'
PROOF
<1>1. \A q \in Processes \ {p} : ~Running(q)
  <2>1. CASE Begin(p) \/ BeginRetry(p)
        BY <2>1 DEF Begin, BeginRetry, MayBegin
  <2>2. CASE Running(p)
        BY <2>2 DEF NotificationInv, InTurn, Alone
  <2>3. ~(Begin(p) \/ BeginRetry(p)) => Running(p)
        BY DEF Step, Find, RetryFind, Create, Send, SendFails, MarkSent, MarkFailed, CallFails,
               CreateUnanswered, SendUnanswered, MarkSentUnanswered, Crash, Running, Steps
  <2> QED
      BY <2>1, <2>2, <2>3
<1>2. \A q \in Processes \ {p} : proc'[q] = proc[q] /\ ~Running(q)'
      BY <1>1 DEF Effect, Running
<1>3. Alone'
      BY <1>2 DEF Alone
<1>4. /\ row \in [Rows -> [status : {"none", "PENDING", "SENT", "FAILED"}, retryCount : Nat]]
      /\ sent \in [Rows -> Nat] /\ faults \in Nat
      /\ proc \in [Processes -> [step : {"idle"} \cup Steps \cup Ends, row : Processes, count : Nat]]
      BY NotificationAssumption DEF NotificationInv, TypeOK
<1>5. \A r \in Rows : PaidBy(p, r)
      BY <1>1, PaidAlone DEF NotificationInv, InTurn
<1>6. /\ KeepsToItsRow(p) /\ (p \in Rows => NoRowYet(p))
      /\ Rows \cap Retries = {} /\ (p \in Rows \/ p \in Retries)
      BY NotificationAssumption DEF NotificationInv, Rows, Processes
<1>7. ASSUME NEW step \in Steps \cup Ends, Goto(p, step)
      PROVE  /\ proc'[p].step = step
             /\ step \notin Ends => proc'[p].row = proc[p].row
      BY <1>7, GotoStep DEF NotificationInv
<1> SUFFICES ASSUME NEW r \in Rows PROVE PaidBy(p, r)'
  <2>1. \A q \in Processes \ {p} : ~At(q, {"send", "markSent", "markFailed"})'
        BY <1>2 DEF Running, Steps, At
  <2> QED
      BY <1>3, <2>1 DEF Paid, PaidBy, At
<1> USE DEF PaidBy, At, Steps, Ends
\* Processes that begin, look, or are refused leave the rows as they are.
<1>8. ASSUME UNCHANGED <<row, sent>>, faults' >= faults, faults' \in Nat,
             proc[p].step # "markSent", proc'[p].step \notin {"send", "markFailed"}
      PROVE  PaidBy(p, r)'
      BY <1>4, <1>5, <1>8
<1>9. CASE Begin(p)
  <2>1. PICK step \in {"create", "find"} : Goto(p, step)
        BY <1>9 DEF Begin
  <2> QED
      BY <1>4, <1>7, <1>8, <1>9, <2>1 DEF Begin, MayBegin
<1>10. CASE BeginRetry(p)
  <2>1. PICK s \in Rows : proc' = [proc EXCEPT ![p].step = "find", ![p].row = s]
        BY <1>10 DEF BeginRetry
  <2>2. proc'[p].step = "find"
        BY <1>4, <2>1
  <2>3. proc[p].step = "idle" /\ UNCHANGED <<row, sent, faults>>
        BY <1>10 DEF BeginRetry, MayBegin
  <2> QED
      BY <1>4, <1>8, <2>2, <2>3
<1>11. CASE Find(p)
  <2>1. PICK step \in {"refused", "create"} : Goto(p, step)
        BY <1>11 DEF Find
  <2> QED
      BY <1>4, <1>7, <1>8, <1>11, <2>1 DEF Find
<1>12. CASE RetryFind(p)
  <2>1. proc[p].step = "find" /\ UNCHANGED <<row, sent, faults>>
        BY <1>12 DEF RetryFind
  <2>2. CASE \E step \in {"success", "refused"} : Goto(p, step)
        BY <1>4, <1>7, <1>8, <2>1, <2>2
  <2>3. CASE row[proc[p].row].status # "SENT" /\ Copy(p, proc[p].row)
    <3>1. proc'[p].step = "send" /\ proc'[p].row = proc[p].row
          BY <1>4, <2>3 DEF Copy
    <3> QED
        BY <1>4, <1>5, <2>1, <2>3, <3>1
  <2> QED
      BY <1>12, <2>2, <2>3 DEF RetryFind
\* The row is new: nothing was sent for it.
<1>13. CASE Create(p) \/ CreateUnanswered(p)
  <2>1. PICK step \in {"send", "lost"} : Goto(p, step)
        BY <1>13 DEF Create, CreateUnanswered
  <2>2. /\ proc[p].step = "create" /\ UNCHANGED sent /\ faults' \in {faults, faults + 1}
        /\ row' = [row EXCEPT ![p] = [status |-> "PENDING", retryCount |-> 0]]
        BY <1>13 DEF Create, CreateUnanswered, Fault
  <2>3. p \in Rows /\ row[p].status = "none"
        BY <1>6, <2>2 DEF KeepsToItsRow, NoRowYet, Exists
  <2>4. row'[r].status = IF r = p THEN "PENDING" ELSE row[r].status
        BY <1>4, <2>2
  <2>5. sent[r] <= 1 + faults /\ (row[r].status = "SENT" \/ sent[r] <= faults)
        BY <1>5, <2>2
  <2>6. proc'[p].step = "send" => proc'[p].row = p
        BY <1>6, <1>7, <2>1, <2>3 DEF KeepsToItsRow
  <2>7. proc'[p].step \in {"send", "lost"}
        BY <1>7, <2>1
  <2> QED
      BY <1>4, <2>2, <2>3, <2>4, <2>5, <2>6, <2>7
<1>14. CASE Send(p) \/ SendUnanswered(p)
  <2>1. \/ Goto(p, "markSent") /\ faults' = faults
        \/ Goto(p, "markFailed") /\ faults' = faults + 1
        BY <1>14 DEF Send, SendUnanswered, Fault
  <2>2. /\ proc[p].step = "send" /\ UNCHANGED row
        /\ sent' = [sent EXCEPT ![proc[p].row] = @ + 1]
        BY <1>14 DEF Send, SendUnanswered, Fault
  <2>3. sent' [r] = IF r = proc[p].row THEN sent[r] + 1 ELSE sent[r]
        BY <1>4, <2>2
  <2> QED
      BY <1>4, <1>5, <1>7, <2>1, <2>2, <2>3
<1>15. CASE SendFails(p)
  <2>1. /\ proc[p].step = "send" /\ UNCHANGED <<row, sent, faults>> /\ Goto(p, "markFailed")
        BY <1>15 DEF SendFails
  <2> QED
      BY <1>4, <1>5, <1>7, <2>1
<1>16. CASE MarkSent(p) \/ MarkSentUnanswered(p)
  <2>1. \/ Goto(p, "success") /\ faults' = faults
        \/ Goto(p, "markFailed") /\ faults' = faults + 1
        BY <1>16 DEF MarkSent, MarkSentUnanswered, Fault
  <2>2. /\ proc[p].step = "markSent" /\ UNCHANGED sent
        /\ row' = [row EXCEPT ![proc[p].row] = [status |-> "SENT", retryCount |-> proc[p].count]]
        BY <1>16 DEF MarkSent, MarkSentUnanswered, Fault
  <2>3. row'[r].status = IF r = proc[p].row THEN "SENT" ELSE row[r].status
        BY <1>4, <2>2
  <2> QED
      BY <1>4, <1>5, <1>7, <2>1, <2>2, <2>3
<1>17. CASE MarkFailed(p)
  <2>1. /\ proc[p].step = "markFailed" /\ UNCHANGED <<sent, faults>> /\ Goto(p, "failure")
        /\ row' = [row EXCEPT ![proc[p].row] = [status |-> "FAILED", retryCount |-> proc[p].count + 1]]
        BY <1>17 DEF MarkFailed
  <2>2. row'[r].status = IF r = proc[p].row THEN "FAILED" ELSE row[r].status
        BY <1>4, <2>1
  <2> QED
      BY <1>4, <1>5, <1>7, <2>1, <2>2
\* A fault pays for whatever the process forgets.
<1>18. CASE CallFails(p) \/ Crash(p)
  <2>1. PICK step \in {"markFailed", "lost"} :
          /\ Goto(p, step)
          /\ step = "markFailed" => proc[p].step = "markSent"
        BY <1>18 DEF CallFails, Crash
  <2>2. UNCHANGED <<row, sent>> /\ faults' = faults + 1
        BY <1>18 DEF CallFails, Crash, Fault
  <2> QED
      BY <1>4, <1>5, <1>7, <2>1, <2>2
<1> QED
    BY <1>9, <1>10, <1>11, <1>12, <1>13, <1>14, <1>15, <1>16, <1>17, <1>18 DEF Step

(***************************************************************************)
(* Every step                                                              *)
(***************************************************************************)
LEMMA NextNotification == NotificationInv /\ [Next]_vars => NotificationInv'
PROOF
<1> SUFFICES ASSUME NotificationInv, [Next]_vars PROVE NotificationInv'
    OBVIOUS
<1>1. CASE Next
  <2>1. PICK p \in Processes :
          \/ Begin(p) \/ BeginRetry(p) \/ Step(p) \/ CallFails(p) \/ CreateUnanswered(p)
          \/ SendUnanswered(p) \/ MarkSentUnanswered(p) \/ Crash(p)
        BY <1>1 DEF Next
  <2>2. Effect(p)
        BY <2>1, StepEffect
  <2>3. overlap' = overlap
        BY <2>1 DEF Begin, BeginRetry, Step, Find, RetryFind, Create, Send, SendFails, MarkSent, MarkFailed,
                    CallFails, CreateUnanswered, SendUnanswered, MarkSentUnanswered, Crash, Fault
  <2>4. InTurn'
        BY <2>1, <2>2, <2>3, InTurnStep DEF InTurn
  <2> QED
      BY <2>2, <2>4, EffectKeeps DEF NotificationInv
<1>2. CASE UNCHANGED vars
  <2> USE <1>2 DEF vars, NotificationInv
  <2>1. TypeOK'
        BY DEF TypeOK
  <2>2. /\ \A p \in Processes : KeepsToItsRow(p)' /\ CountWithin(p)' /\ MarksWhatWasSent(p)'
        /\ \A r \in Rows : NoRowYet(r)'
        BY DEF KeepsToItsRow, CountWithin, MarksWhatWasSent, NoRowYet, At, Exists
  <2>3. SentWasAccepted' /\ RetryCountBounded' /\ PendingIsUnfinished'
        BY DEF SentWasAccepted, RetryCountBounded, PendingIsUnfinished, Running
  <2>4. InTurn'
        BY DEF InTurn, Alone, Running, Paid, At
  <2> QED
      BY <2>1, <2>2, <2>3, <2>4
<1> QED
    BY <1>1, <1>2

(***************************************************************************)
(* Theorems                                                                *)
(***************************************************************************)
\* The invariant of every reachable state.
LEMMA Invariant == Spec => []NotificationInv
PROOF BY InitNotification, NextNotification, PTL DEF Spec

(* The rows, the counts of what was sent and the processes keep their      *)
(* shapes (the notification table and the three use cases).                *)
THEOREM TypeCorrect == Spec => []TypeOK
PROOF
<1>1. NotificationInv => TypeOK
      BY DEF NotificationInv
<1> QED
    BY Invariant, <1>1, PTL

(* A row that markAsSent made SENT was accepted by the provider, also when *)
(* overlapping retries write their older copies over it.                   *)
THEOREM SentIsTrue == Spec => []SentWasAccepted
PROOF
<1>1. NotificationInv => SentWasAccepted
      BY DEF NotificationInv
<1> QED
    BY Invariant, <1>1, PTL

(* However many retries overlap, all past the check against maxRetries, no *)
(* row counts more than one beyond it.                                     *)
THEOREM RetriesBounded == Spec => []RetryCountBounded
PROOF
<1>1. NotificationInv => RetryCountBounded
      BY DEF NotificationInv
<1> QED
    BY Invariant, <1>1, PTL

(* Every way through SendNotificationUseCase and ProcessNotificationUseCase *)
(* marks the row: only a process that was lost leaves it PENDING.          *)
THEOREM PendingExplained == Spec => []PendingIsUnfinished
PROOF
<1>1. NotificationInv => PendingIsUnfinished
      BY DEF NotificationInv
<1> QED
    BY Invariant, <1>1, PTL

(* Processes in turn: each sending of a row's message after the first is   *)
(* paid for by a fault of its own.                                         *)
THEOREM ResendingPaidFor == Spec => []ResentOnlyAfterFault
PROOF
<1>1. NotificationInv => ResentOnlyAfterFault
      BY DEF NotificationInv, InTurn, Paid, ResentOnlyAfterFault
<1> QED
    BY Invariant, <1>1, PTL

=============================================================================
