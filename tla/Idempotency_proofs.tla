------------------------- MODULE Idempotency_proofs -------------------------
(***************************************************************************)
(* At most one of any number of repetitions of a request executes fn at a  *)
(* time, and "already processed" is said of a processed request only.      *)
(***************************************************************************)
EXTENDS Idempotency, TLAPS

(***************************************************************************)
(* The inductive invariant                                                 *)
(*                                                                         *)
(* A run about to mark the record completed has had fn's effect; that the  *)
(* record it then marks is its own is OneExecuting.                        *)
(***************************************************************************)
EffectFirst == \A r \in Runs : pc[r] = "complete" => r \in effect

RunInv == TypeOK /\ OneExecuting /\ CompletedHadEffect /\ EffectFirst

LEMMA InitRun == Init => RunInv
PROOF BY DEF Init, RunInv, TypeOK, OneExecuting, CompletedHadEffect, EffectFirst, Executing

(***************************************************************************)
(* Types                                                                   *)
(***************************************************************************)
LEMMA NextRunType == TypeOK /\ [Next]_vars => TypeOK'
PROOF
<1> SUFFICES ASSUME TypeOK, [Next]_vars PROVE TypeOK'
    OBVIOUS
<1> USE DEF TypeOK
<1>1. ASSUME NEW r \in Runs, Step(r) PROVE TypeOK'
  <2> USE DEF Goes, Executing, Over, Conflict
  <2>1. CASE Get(r)
        BY <2>1 DEF Get
  <2>2. CASE PutPending(r)
        BY <2>2 DEF PutPending, Pending, Records
  <2>3. CASE PutPendingUnanswered(r)
        BY <2>3 DEF PutPendingUnanswered, Pending, Records
  <2>4. CASE Execute(r)
        BY <2>4 DEF Execute
  <2>5. CASE PutCompleted(r)
        BY <2>5 DEF PutCompleted, Records
  <2>6. CASE PutCompletedUnanswered(r)
        BY <2>6 DEF PutCompletedUnanswered, Records
  <2>7. CASE Fail(r)
        BY <2>7 DEF Fail
  <2> QED
      BY <1>1, <2>1, <2>2, <2>3, <2>4, <2>5, <2>6, <2>7 DEF Step
<1>2. CASE Expire
      BY <1>2 DEF Expire
<1>3. CASE UNCHANGED vars
      BY <1>3 DEF vars
<1> QED
    BY <1>1, <1>2, <1>3 DEF Next

(***************************************************************************)
(* The record                                                              *)
(***************************************************************************)
\* A run that finds no record is alone: its record stops nobody who executes.
LEMMA PendingStep ==
  ASSUME RunInv, NEW r \in Runs, Absent, Pending(r), UNCHANGED effect,
         \A q \in Runs \ {r} : pc'[q] = pc[q], pc'[r] # "complete"
  PROVE  OneExecuting' /\ CompletedHadEffect' /\ EffectFirst'
PROOF
<1>1. record' = [state |-> "pending", by |-> r] /\ record' # None
      BY IdempotencyAssumption DEF Pending, Records
<1>2. \A q \in Runs : pc[q] \notin Executing
      BY DEF RunInv, OneExecuting, Absent
<1>3. OneExecuting'
      BY <1>1, <1>2 DEF OneExecuting
<1>4. CompletedHadEffect'
      BY <1>1 DEF CompletedHadEffect
<1>5. EffectFirst'
      BY DEF RunInv, EffectFirst
<1> QED
    BY <1>3, <1>4, <1>5

\* Only the record's own run marks it completed, after fn's effect.
LEMMA CompletedStep ==
  ASSUME RunInv, NEW r \in Runs, pc[r] = "complete", record # None,
         record' = [record EXCEPT !.state = "completed"], UNCHANGED effect,
         \A q \in Runs \ {r} : pc'[q] = pc[q], pc'[r] \in {"complete", "returned"}
  PROVE  OneExecuting' /\ CompletedHadEffect' /\ EffectFirst'
PROOF
<1>1. record.by = r /\ r \in effect
      BY DEF RunInv, OneExecuting, EffectFirst, Executing
<1>2. record \in Records /\ record'.by = r /\ record' \in Records
      BY <1>1 DEF RunInv, TypeOK, Records
<1>3. record' # None
      BY <1>2, IdempotencyAssumption
<1>4. OneExecuting'
      BY <1>1, <1>2, <1>3 DEF RunInv, OneExecuting, Executing
<1>5. CompletedHadEffect'
      BY <1>1, <1>2 DEF CompletedHadEffect
<1>6. EffectFirst'
      BY <1>1 DEF RunInv, EffectFirst
<1> QED
    BY <1>4, <1>5, <1>6

(***************************************************************************)
(* Every step                                                              *)
(***************************************************************************)
LEMMA NextRun == RunInv /\ [Next]_vars => RunInv'
PROOF
<1> SUFFICES ASSUME RunInv, [Next]_vars PROVE RunInv'
    OBVIOUS
<1> DEFINE Kept == OneExecuting' /\ CompletedHadEffect' /\ EffectFirst'
<1>1. TypeOK'
      BY NextRunType DEF RunInv
<1>2. pc \in [Runs -> {"idle", "put"} \union Executing \union Over]
      BY DEF RunInv, TypeOK
<1>3. ASSUME NEW r \in Runs, Step(r) PROVE Kept
  <2>1. ASSUME pc' = [pc EXCEPT ![r] = "in_progress"] \/ pc' = [pc EXCEPT ![r] = "processed"]
               \/ pc' = [pc EXCEPT ![r] = "put"] \/ pc' = [pc EXCEPT ![r] = "exists"]
               \/ pc' = [pc EXCEPT ![r] = "failed"],
               UNCHANGED <<record, effect>>
        PROVE  Kept
    <3>1. /\ pc'[r] \notin Executing
          /\ \A q \in Runs : q # r => pc'[q] = pc[q]
          BY <1>2, <2>1 DEF Executing
    <3> QED
        BY <2>1, <3>1
        DEF RunInv, OneExecuting, CompletedHadEffect, EffectFirst, Executing
  <2>2. CASE Get(r)
        BY <2>1, <2>2 DEF Get, Goes
  <2>3. CASE PutPending(r)
    <3>1. CASE Absent /\ Pending(r) /\ Goes(r, "put", "fn")
          BY <1>2, <2>3, <3>1, PendingStep DEF PutPending, Goes
    <3>2. CASE ~Absent /\ Goes(r, "put", "exists") /\ UNCHANGED record
          BY <2>1, <2>3, <3>2 DEF PutPending, Goes
    <3> QED
        BY <2>3, <3>1, <3>2 DEF PutPending
  <2>4. CASE PutPendingUnanswered(r)
        BY <2>4, PendingStep DEF PutPendingUnanswered
  <2>5. CASE Execute(r)
    <3>1. /\ pc[r] \in Executing /\ pc'[r] = "complete" /\ r \in effect'
          /\ \A q \in Runs : q # r => pc'[q] = pc[q]
          /\ effect \subseteq effect' /\ record' = record
          BY <1>2, <2>5 DEF Execute, Goes, Executing
    <3> QED
        BY <3>1 DEF RunInv, OneExecuting, CompletedHadEffect, EffectFirst, Executing
  <2>6. CASE PutCompleted(r)
    <3>1. CASE record # None /\ Goes(r, "complete", "returned")
          BY <1>2, <2>6, <3>1, CompletedStep DEF PutCompleted, Goes
    <3>2. CASE record = None /\ Goes(r, "complete", "failed") /\ UNCHANGED record
          BY <2>1, <2>6, <3>2 DEF PutCompleted, Goes
    <3> QED
        BY <2>6, <3>1, <3>2 DEF PutCompleted
  <2>7. CASE PutCompletedUnanswered(r)
        BY <2>7, CompletedStep DEF PutCompletedUnanswered
  <2>8. CASE Fail(r)
        BY <2>1, <2>8 DEF Fail
  <2> QED
      BY <1>3, <2>2, <2>3, <2>4, <2>5, <2>6, <2>7, <2>8 DEF Step
<1>4. CASE Expire
  <2>1. \A q \in Runs : pc[q] \notin Executing
        BY <1>4 DEF Expire, RunInv, OneExecuting
  <2> QED
      BY <1>1, <1>4, <2>1
      DEF Expire, RunInv, OneExecuting, CompletedHadEffect, EffectFirst
<1>5. CASE UNCHANGED vars
      BY <1>1, <1>5 DEF vars, RunInv, OneExecuting, CompletedHadEffect, EffectFirst
<1> QED
    BY <1>1, <1>3, <1>4, <1>5 DEF Next, RunInv

(***************************************************************************)
(* The theorems                                                            *)
(***************************************************************************)
\* However many repetitions of a request there are, one at a time executes fn.
THEOREM OneRuns == Spec => []OneExecuting
PROOF
<1>1. RunInv => OneExecuting
      BY DEF RunInv
<1> QED
    BY InitRun, NextRun, <1>1, PTL DEF Spec

\* A record that says completed was made by a run whose fn had its effect.
THEOREM CompletedIsDone == Spec => []CompletedHadEffect
PROOF
<1>1. RunInv => CompletedHadEffect
      BY DEF RunInv
<1> QED
    BY InitRun, NextRun, <1>1, PTL DEF Spec

=============================================================================
