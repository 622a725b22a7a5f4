-------------------------- MODULE RateLimit_proofs --------------------------
(***************************************************************************)
(* No window lets more than maxRequests calls through, for any number of   *)
(* calls, any limit and however long the clock runs.                       *)
(***************************************************************************)
EXTENDS RateLimit, FiniteSetTheorems, TLAPS

(***************************************************************************)
(* The inductive invariant                                                 *)
(*                                                                         *)
(* EveryoneCounted says nothing of a window without a record.  As long as  *)
(* a call could still make that record, nobody has been admitted: the      *)
(* record has not been there yet.                                          *)
(***************************************************************************)
Reachable(w) == w >= now \/ InUse(w)

UnmadeAdmitsNobody ==
  \A w \in Windows : usage[w] = 0 /\ Reachable(w) => Admitted(w) = {}

LimitInv == TypeOK /\ WithinLimit /\ EveryoneCounted /\ UnmadeAdmitsNobody

(***************************************************************************)
(* Who has been admitted                                                   *)
(***************************************************************************)
\* The calls a window admitted are finitely many.
LEMMA AdmittedFinite ==
  \A w : IsFiniteSet(Admitted(w)) /\ Cardinality(Admitted(w)) \in Nat
PROOF
<1> SUFFICES ASSUME NEW w
             PROVE  IsFiniteSet(Admitted(w)) /\ Cardinality(Admitted(w)) \in Nat
    OBVIOUS
<1>1. Admitted(w) \in SUBSET Calls
      BY DEF Admitted
<1>2. IsFiniteSet(Admitted(w))
      BY <1>1, FS_Subset, RateLimitAssumption
<1> QED
    BY <1>2, FS_CardinalityType

\* A call that does not become admitted leaves every window's calls alone.
LEMMA NobodyAdmitted ==
  ASSUME TypeOK, NEW c \in Calls, ~At(c, "admitted"),
         NEW state, call' = [call EXCEPT ![c] = state], state.pc # "admitted"
  PROVE  \A w : Admitted(w)' = Admitted(w)
PROOF BY DEF TypeOK, Admitted, At, Window

\* Becoming something else is such a step, too.
LEMMA GoesOn ==
  ASSUME TypeOK, NEW c \in Calls, ~At(c, "admitted"),
         NEW step, Becomes(c, step), step # "admitted"
  PROVE  \A w : Admitted(w)' = Admitted(w)
PROOF BY DEF TypeOK, Admitted, At, Window, Becomes

\* A call that becomes admitted adds one to its own window.
LEMMA OneAdmitted ==
  ASSUME TypeOK, NEW c \in Calls, ~At(c, "admitted"), Becomes(c, "admitted"),
         NEW v, Window(c) = v
  PROVE  /\ Admitted(v)' = Admitted(v) \union {c}
         /\ Cardinality(Admitted(v)') = Cardinality(Admitted(v)) + 1
         /\ \A w : w # v => Admitted(w)' = Admitted(w)
PROOF
<1>1. Admitted(v)' = Admitted(v) \union {c}
      BY DEF TypeOK, Admitted, At, Window, Becomes
<1>2. c \notin Admitted(v)
      BY DEF Admitted
<1>3. \A w : w # v => Admitted(w)' = Admitted(w)
      BY DEF TypeOK, Admitted, At, Window, Becomes
<1> QED
    BY <1>1, <1>2, <1>3, AdmittedFinite, FS_AddElement

(***************************************************************************)
(* Types                                                                   *)
(***************************************************************************)
\* A call's record after it moved, and a counter after it grew.
LEMMA CallTyped ==
  ASSUME TypeOK, NEW c \in Calls,
         \/ \E step \in Waiting \union Answered : Becomes(c, step)
         \/ \E step \in Waiting : ReadsClock(c, step)
  PROVE  call' \in [Calls -> [pc : {"idle"} \union Waiting \union Answered, window : Windows]]
PROOF
<1>1. ASSUME NEW step \in Waiting \union Answered, Becomes(c, step)
      PROVE  call' \in [Calls -> [pc : {"idle"} \union Waiting \union Answered, window : Windows]]
      BY <1>1 DEF TypeOK, Becomes
<1>2. ASSUME NEW step \in Waiting, ReadsClock(c, step)
      PROVE  call' \in [Calls -> [pc : {"idle"} \union Waiting \union Answered, window : Windows]]
      BY <1>2 DEF TypeOK, ReadsClock
<1> QED
    BY <1>1, <1>2

LEMMA UsageTyped ==
  ASSUME TypeOK, NEW w \in Windows,
         \/ BelowLimit(w) /\ Add(w)
         \/ Insert(w)
  PROVE  usage' \in [Windows -> 0 .. MaxRequests]
PROOF BY RateLimitAssumption DEF TypeOK, BelowLimit, Add, Insert

LEMMA InitType == Init => TypeOK
PROOF BY RateLimitAssumption DEF Init, TypeOK, Windows

LEMMA NextType == TypeOK /\ [Next]_vars => TypeOK'
PROOF
<1> SUFFICES ASSUME TypeOK, [Next]_vars PROVE TypeOK'
    OBVIOUS
<1>1. ASSUME NEW c \in Calls, Step(c) PROVE TypeOK'
  <2>1. now \in Windows /\ Window(c) \in Windows
        BY DEF TypeOK, Window
  <2>2. CASE Increment(c)
        BY <2>2, CallTyped DEF Increment, Waiting, TypeOK
  <2>3. CASE Update(c)
    <3>1. usage' \in [Windows -> 0 .. MaxRequests]
          BY <2>1, <2>3, UsageTyped DEF Update, TypeOK
    <3> QED
        BY <2>1, <2>3, <3>1, CallTyped DEF Update, Waiting, Answered, TypeOK
  <2>4. CASE UpdateUnanswered(c)
        BY <2>1, <2>4, UsageTyped DEF UpdateUnanswered, TypeOK
  <2>5. CASE Create(c)
        BY <2>5, CallTyped DEF Create, Waiting, TypeOK
  <2>6. CASE Put(c)
    <3>1. usage' \in [Windows -> 0 .. MaxRequests]
          BY <2>1, <2>6, UsageTyped DEF Put, TypeOK
    <3> QED
        BY <2>1, <2>6, <3>1, CallTyped DEF Put, Waiting, Answered, TypeOK
  <2>7. CASE PutUnanswered(c)
        BY <2>1, <2>7, UsageTyped DEF PutUnanswered, TypeOK
  <2>8. CASE Fail(c)
        BY <2>8, CallTyped DEF Fail, Answered, TypeOK
  <2> QED
      BY <1>1, <2>2, <2>3, <2>4, <2>5, <2>6, <2>7, <2>8 DEF Step
<1>2. CASE Tick
      BY <1>2, RateLimitAssumption DEF Tick, TypeOK, Windows
<1>3. ASSUME NEW w \in Windows, Expire(w) PROVE TypeOK'
      BY <1>3, RateLimitAssumption DEF Expire, TypeOK
<1>4. CASE UNCHANGED vars
      BY <1>4 DEF vars, TypeOK
<1> QED
    BY <1>1, <1>2, <1>3, <1>4 DEF Next

(***************************************************************************)
(* The steps, by what they do to the record and to the calls               *)
(***************************************************************************)
\* Nobody is admitted, no record changes, and a call is under way to a window
\* that was reachable before: the clock was read, a request was refused, a call
\* failed, or time passed.
LEMMA QuietStep ==
  ASSUME LimitInv, TypeOK', UNCHANGED usage,
         \A w : Admitted(w)' = Admitted(w),
         \A w \in Windows : Reachable(w)' => Reachable(w)
  PROVE  LimitInv'
PROOF
<1>1. WithinLimit' /\ EveryoneCounted'
      BY DEF LimitInv, WithinLimit, EveryoneCounted
<1>2. UnmadeAdmitsNobody'
      BY DEF LimitInv, UnmadeAdmitsNobody
<1> QED
    BY <1>1, <1>2 DEF LimitInv

\* A call is admitted and its window's record counts it.
LEMMA AdmittingStep ==
  ASSUME LimitInv, TypeOK', NEW c \in Calls, ~At(c, "admitted"),
         Becomes(c, "admitted"), UNCHANGED now,
         NEW v \in Windows, Window(c) = v,
         \/ BelowLimit(v) /\ Add(v)
         \/ Admitted(v) = {} /\ Insert(v)
  PROVE  LimitInv'
PROOF
<1>1. /\ Cardinality(Admitted(v)') = Cardinality(Admitted(v)) + 1
      /\ \A w : w # v => Admitted(w)' = Admitted(w)
      BY OneAdmitted DEF LimitInv
<1>2. /\ Cardinality(Admitted(v)') <= usage'[v]
      /\ usage'[v] > 0
      /\ usage'[v] <= MaxRequests
      /\ \A w \in Windows : w # v => usage'[w] = usage[w]
  <2>1. Cardinality(Admitted(v)) \in Nat
        BY AdmittedFinite
  <2>2. CASE BelowLimit(v) /\ Add(v)
    <3>1. /\ usage[v] \in Nat /\ usage[v] > 0 /\ usage[v] < MaxRequests
          /\ Cardinality(Admitted(v)) <= usage[v]
          BY <2>2 DEF LimitInv, TypeOK, EveryoneCounted, BelowLimit
    <3>2. usage'[v] = usage[v] + 1 /\ \A w \in Windows : w # v => usage'[w] = usage[w]
          BY <2>2 DEF LimitInv, TypeOK, Add
    <3> QED
        BY <1>1, <2>1, <3>1, <3>2, RateLimitAssumption
  <2>3. CASE Admitted(v) = {} /\ Insert(v)
    <3>1. usage'[v] = 1 /\ \A w \in Windows : w # v => usage'[w] = usage[w]
          BY <2>3 DEF LimitInv, TypeOK, Insert
    <3>2. Cardinality(Admitted(v)') = 1
          BY <1>1, <2>3, FS_EmptySet
    <3> QED
        BY <3>1, <3>2, RateLimitAssumption
  <2> QED
      BY <2>2, <2>3
<1>3. Cardinality(Admitted(v)') \in Nat
      BY <1>1, AdmittedFinite
<1>4. WithinLimit'
  <2>1. Cardinality(Admitted(v)') <= MaxRequests
        BY <1>2, <1>3, RateLimitAssumption DEF TypeOK
  <2> QED
      BY <1>1, <2>1 DEF LimitInv, WithinLimit
<1>5. EveryoneCounted'
      BY <1>1, <1>2 DEF LimitInv, EveryoneCounted
<1>6. \A w \in Windows : Reachable(w)' => Reachable(w)
      BY DEF Reachable, InUse, Becomes, Window, LimitInv, TypeOK
<1>7. UnmadeAdmitsNobody'
      BY <1>1, <1>2, <1>6 DEF LimitInv, UnmadeAdmitsNobody
<1> QED
    BY <1>4, <1>5, <1>7 DEF LimitInv

\* The record counts a call that has had no answer and will ask again.
LEMMA UnansweredStep ==
  ASSUME LimitInv, TypeOK', NEW w \in Windows, UNCHANGED <<now, call>>,
         \/ BelowLimit(w) /\ Add(w)
         \/ Admitted(w) = {} /\ Insert(w)
  PROVE  LimitInv'
PROOF
<1>1. \A v : Admitted(v)' = Admitted(v) /\ Reachable(v)' = Reachable(v)
      BY DEF Admitted, At, Window, Reachable, InUse
<1>2. /\ Cardinality(Admitted(w)) <= usage'[w]
      /\ usage'[w] > 0
      /\ \A v \in Windows : v # w => usage'[v] = usage[v]
  <2>1. Cardinality(Admitted(w)) \in Nat
        BY AdmittedFinite
  <2>2. CASE BelowLimit(w) /\ Add(w)
        BY <2>1, <2>2, RateLimitAssumption
        DEF LimitInv, TypeOK, EveryoneCounted, BelowLimit, Add
  <2>3. CASE Admitted(w) = {} /\ Insert(w)
        BY <2>3, FS_EmptySet DEF LimitInv, TypeOK, Insert
  <2> QED
      BY <2>2, <2>3
<1>3. WithinLimit'
      BY <1>1 DEF LimitInv, WithinLimit
<1>4. EveryoneCounted'
      BY <1>1, <1>2 DEF LimitInv, EveryoneCounted
<1>5. UnmadeAdmitsNobody'
      BY <1>1, <1>2 DEF LimitInv, UnmadeAdmitsNobody
<1> QED
    BY <1>3, <1>4, <1>5 DEF LimitInv

\* The record of a window that no call can reach any more goes away.
LEMMA ExpireStep ==
  ASSUME LimitInv, TypeOK', NEW w \in Windows, Expire(w)
  PROVE  LimitInv'
PROOF
<1>1. \A v : Admitted(v)' = Admitted(v) /\ Reachable(v)' = Reachable(v)
      BY DEF Admitted, At, Window, Reachable, InUse, Expire
<1>2. ~Reachable(w)
      BY DEF Expire, Reachable, LimitInv, TypeOK, Windows
<1>3. usage'[w] = 0 /\ \A v \in Windows : v # w => usage'[v] = usage[v]
      BY DEF Expire, LimitInv, TypeOK
<1>4. WithinLimit' /\ EveryoneCounted' /\ UnmadeAdmitsNobody'
      BY <1>1, <1>2, <1>3
      DEF LimitInv, WithinLimit, EveryoneCounted, UnmadeAdmitsNobody
<1> QED
    BY <1>4 DEF LimitInv

(***************************************************************************)
(* Every step                                                              *)
(***************************************************************************)
\* A call moves to a request that nobody answers by admitting it; its window
\* is the one it had, or the one the clock shows.
LEMMA MovingStep ==
  ASSUME LimitInv, TypeOK', NEW c \in Calls, ~At(c, "admitted"),
         UNCHANGED <<now, usage>>,
         \/ \E step \in Waiting : ReadsClock(c, step)
         \/ \E step \in {"missed", "exists", "failed"} : Becomes(c, step)
  PROVE  LimitInv'
PROOF
<1>1. \A w : Admitted(w)' = Admitted(w)
  <2>1. ASSUME NEW step \in Waiting, ReadsClock(c, step)
        PROVE  \A w : Admitted(w)' = Admitted(w)
    <3>1. call' = [call EXCEPT ![c] = [pc |-> step, window |-> now]]
          BY <2>1 DEF ReadsClock
    <3>2. [pc |-> step, window |-> now].pc # "admitted"
          BY <2>1 DEF Waiting
    <3> QED
        BY <3>1, <3>2, NobodyAdmitted DEF LimitInv
  <2>2. ASSUME NEW step \in {"missed", "exists", "failed"}, Becomes(c, step)
        PROVE  \A w : Admitted(w)' = Admitted(w)
        BY <2>2, GoesOn DEF LimitInv
  <2> QED
      BY <2>1, <2>2
<1>2. \A w \in Windows : Reachable(w)' => Reachable(w)
      BY DEF Reachable, InUse, ReadsClock, Becomes, Window, LimitInv, TypeOK, Windows
<1> QED
    BY <1>1, <1>2, QuietStep

LEMMA InitLimit == Init => LimitInv
PROOF
<1> SUFFICES ASSUME Init PROVE LimitInv
    OBVIOUS
<1>1. TypeOK
      BY InitType
<1>2. \A w : Admitted(w) = {}
      BY DEF Init, Admitted, At
<1>3. \A w : Cardinality(Admitted(w)) = 0
      BY <1>2, FS_EmptySet
<1>4. WithinLimit /\ EveryoneCounted
      BY <1>3, RateLimitAssumption DEF WithinLimit, EveryoneCounted, Init
<1> QED
    BY <1>1, <1>2, <1>4 DEF LimitInv, UnmadeAdmitsNobody

LEMMA NextLimit == LimitInv /\ [Next]_vars => LimitInv'
PROOF
<1> SUFFICES ASSUME LimitInv, [Next]_vars PROVE LimitInv'
    OBVIOUS
<1>1. TypeOK'
      BY NextType DEF LimitInv
<1>2. ASSUME NEW c \in Calls, Step(c) PROVE LimitInv'
  <2>1. Window(c) \in Windows
        BY DEF LimitInv, TypeOK, Window
  <2>2. CASE Increment(c)
        BY <1>1, <2>2, MovingStep DEF Increment, At, Waiting
  <2>3. CASE Update(c)
    <3>1. ~At(c, "admitted")
          BY <2>3 DEF Update, At
    <3>2. CASE Becomes(c, "admitted") /\ BelowLimit(Window(c)) /\ Add(Window(c))
          BY <1>1, <2>1, <2>3, <3>1, <3>2, AdmittingStep DEF Update
    <3>3. CASE Becomes(c, "missed") /\ UNCHANGED usage
          BY <1>1, <2>3, <3>1, <3>3, MovingStep DEF Update
    <3> QED
        BY <2>3, <3>2, <3>3 DEF Update
  <2>4. CASE UpdateUnanswered(c)
        BY <1>1, <2>1, <2>4, UnansweredStep DEF UpdateUnanswered
  <2>5. CASE Create(c)
        BY <1>1, <2>5, MovingStep DEF Create, At, Waiting
  <2>6. ASSUME At(c, "put"), Missing(Window(c)) PROVE Admitted(Window(c)) = {}
    <3>1. Reachable(Window(c))
          BY <2>6 DEF Reachable, InUse, At
    <3> QED
        BY <2>1, <2>6, <3>1 DEF LimitInv, UnmadeAdmitsNobody, Missing
  <2>7. CASE Put(c)
    <3>1. ~At(c, "admitted")
          BY <2>7 DEF Put, At
    <3>2. CASE Becomes(c, "admitted") /\ Missing(Window(c)) /\ Insert(Window(c))
          BY <1>1, <2>1, <2>6, <2>7, <3>1, <3>2, AdmittingStep DEF Put
    <3>3. CASE Becomes(c, "exists") /\ UNCHANGED usage
          BY <1>1, <2>7, <3>1, <3>3, MovingStep DEF Put
    <3> QED
        BY <2>7, <3>2, <3>3 DEF Put
  <2>8. CASE PutUnanswered(c)
        BY <1>1, <2>1, <2>6, <2>8, UnansweredStep DEF PutUnanswered
  <2>9. CASE Fail(c)
        BY <1>1, <2>9, MovingStep DEF Fail, At, Waiting
  <2> QED
      BY <1>2, <2>2, <2>3, <2>4, <2>5, <2>7, <2>8, <2>9 DEF Step
<1>3. CASE Tick
  <2>1. \A w : Admitted(w)' = Admitted(w)
        BY <1>3 DEF Tick, Admitted, At, Window
  <2>2. \A w \in Windows : Reachable(w)' => Reachable(w)
        BY <1>3 DEF Tick, Reachable, InUse, Window, LimitInv, TypeOK, Windows
  <2> QED
      BY <1>1, <1>3, <2>1, <2>2, QuietStep DEF Tick
<1>4. ASSUME NEW w \in Windows, Expire(w) PROVE LimitInv'
      BY <1>1, <1>4, ExpireStep
<1>5. CASE UNCHANGED vars
      BY <1>5 DEF vars, LimitInv, TypeOK, WithinLimit, EveryoneCounted,
                  UnmadeAdmitsNobody, Reachable, InUse, Admitted, At, Window
<1> QED
    BY <1>2, <1>3, <1>4, <1>5 DEF Next

(***************************************************************************)
(* The theorems                                                            *)
(***************************************************************************)
\* Whatever the number of calls, the limit and the failures, no window lets
\* more than maxRequests calls through.
THEOREM LimitHolds == Spec => []WithinLimit
PROOF
<1>1. LimitInv => WithinLimit
      BY DEF LimitInv
<1> QED
    BY InitLimit, NextLimit, <1>1, PTL DEF Spec

\* A record counts every call its window admitted, as long as it is kept.
THEOREM CountIsComplete == Spec => []EveryoneCounted
PROOF
<1>1. LimitInv => EveryoneCounted
      BY DEF LimitInv
<1> QED
    BY InitLimit, NextLimit, <1>1, PTL DEF Spec

=============================================================================
