---------------------------- MODULE Accounts_proofs ----------------------------
(***************************************************************************)
(* For any number of sign-ins, changes of status or role and unlinkings,   *)
(* any roles and providers, and any number of faults: where the requests   *)
(* of a kind do not overlap, the user pool and the row agree about what    *)
(* that kind changes, and the last provider stays; where sign-ins do not   *)
(* overlap with changes of status (of role), blocked users are signed out  *)
(* (tokens issued since the last sign-out claim the row's role).           *)
(***************************************************************************)
EXTENDS Accounts, FiniteSetTheorems, TLAPS

(***************************************************************************)
(* The inductive invariant                                                 *)
(***************************************************************************)
Arguments == Statuses \cup Roles \cup Providers \cup {None, "renewal"}
Claimable == Roles \cup {"UNASSIGNED"}

RequestRow ==
  [kind : Kinds \cup {"none"}, step : Steps, to : Arguments,
   copy : UserRow \cup {None}, claim : Claimable \cup {None}]

Typed ==
  /\ row \in UserRow \cup {None}
  /\ accounts \subseteq Providers
  /\ row = None => accounts = {}
  /\ enabled \in BOOLEAN
  /\ attribute \in Roles \cup {None}
  /\ session \in BOOLEAN /\ (row = None => ~session)
  /\ tokens \subseteq Token
  /\ req \in [Requests -> RequestRow]
  /\ overlap \subseteq Kinds
  /\ unread \in 0 .. faults
  /\ faults \in 0 .. MaxFaults

In(r, steps) == req[r].step \in steps
IsA(r, kind) == req[r].kind = kind

\* A request's steps are those of its kind, and hold what they will write.
Fits(r) ==
  /\ In(r, {"pre_auth", "find_login", "upsert", "claims", "issue"}) => IsA(r, "sign_in")
  /\ In(r, {"access"}) => IsA(r, "status")
  /\ In(r, {"attribute"}) => IsA(r, "role")
  /\ In(r, {"sign_out", "find", "save"}) => IsA(r, "status") \/ IsA(r, "role")
  /\ In(r, {"count", "remove"}) => IsA(r, "unlink")
  /\ IsA(r, "status") => req[r].to \in Blocked \cup {"ACTIVE"}
  /\ IsA(r, "role") => req[r].to \in Roles
  /\ In(r, {"upsert", "save"}) => req[r].copy \in UserRow
  /\ In(r, {"issue"}) => req[r].claim \in Claimable
  /\ In(r, {"upsert", "claims", "issue", "access", "attribute", "sign_out", "find", "save"})
       => row # None

\* A request of a kind that does not overlap runs alone.
Apart ==
  \A q, r \in Requests :
    q # r /\ UnderWay(q) /\ UnderWay(r) => {req[q].kind, req[r].kind} \subseteq overlap

\* Sign-ins may overlap with changes of the kind.
Beside(kind) == {"sign_in", kind} \subseteq overlap

\* What a request will write back is what the row says still, unless it overlaps
\* with changes of it.
CopyIsCurrent(r) ==
  In(r, {"upsert", "save"}) =>
    /\ ~({req[r].kind, "status"} \subseteq overlap) => req[r].copy.status = row.status
    /\ ~({req[r].kind, "role"} \subseteq overlap) => req[r].copy.role = row.role

\* Between the pool's change and the row's, the pool says what the row will.
Applying(r, kind) == IsA(r, kind) /\ In(r, {"sign_out", "find", "save"})

AccessAgrees ==
  row # None /\ "status" \notin overlap /\ NoneBroken("status") =>
    /\ \A r \in Requests : Applying(r, "status") => (enabled <=> req[r].to \notin Blocked)
    /\ (\A r \in Requests : ~Applying(r, "status")) => (enabled <=> row.status \notin Blocked)

AttributeAgrees ==
  row # None /\ "role" \notin overlap /\ NoneBroken("role") =>
    /\ \A r \in Requests : Applying(r, "role") => attribute = req[r].to
    /\ (\A r \in Requests : ~Applying(r, "role")) => attribute = row.role

\* A sign-in that passed PreAuthentication is of a user who is not blocked; so is
\* one the pool let begin, while the pool knows who is blocked.
PassedIsOpen(r) ==
  row # None =>
    /\ ~Beside("status") /\ unread = 0 /\ In(r, {"find_login", "upsert", "claims", "issue"})
         => row.status \notin Blocked
    /\ "status" \notin overlap /\ NoneBroken("status")
         /\ In(r, {"pre_auth", "find_login", "upsert", "claims", "issue"})
         => row.status \notin Blocked

Guarded == unread = 0 \/ ("status" \notin overlap /\ NoneBroken("status"))

\* From the sign-out on, and until the change is written, the user is signed out.
SignedOut(r) ==
  /\ In(r, {"find", "save"})
  /\ \/ IsA(r, "status") /\ ~Beside("status") /\ req[r].to \in Blocked
     \/ IsA(r, "role") /\ ~Beside("role")
  => AllOut

\* So it is when a change will write back an old role or a blocked status.
StaleIsOut(r) ==
  "sign_in" \notin overlap /\ In(r, {"save"}) =>
    /\ Guarded /\ req[r].copy.status \in Blocked => AllOut
    /\ req[r].copy.role # row.role => AllOut

ClaimIsCurrent(r) ==
  ~Beside("role") /\ In(r, {"issue"}) =>
    req[r].claim = row.role \/ (unread > 0 /\ req[r].claim = "UNASSIGNED")

OthersLinked(r) ==
  "unlink" \notin overlap /\ In(r, {"remove"}) => Cardinality(accounts) > 1

EachRequest(r) ==
  /\ Fits(r)
  /\ CopyIsCurrent(r)
  /\ PassedIsOpen(r)
  /\ SignedOut(r)
  /\ StaleIsOut(r)
  /\ ClaimIsCurrent(r)
  /\ OthersLinked(r)

AccountsInv ==
  /\ Typed
  /\ Apart
  /\ \A r \in Requests : EachRequest(r)
  /\ AccessAgrees
  /\ AttributeAgrees
  /\ BlockedIsSignedOut
  /\ ClaimIsRole

LEMMA InitAccounts == Init => AccountsInv
PROOF
<1> SUFFICES ASSUME Init PROVE AccountsInv
    OBVIOUS
<1> DEFINE idle == [kind |-> "none", step |-> "idle", to |-> None, copy |-> None, claim |-> None]
<1>1. /\ row \in UserRow \cup {None} /\ session = FALSE /\ tokens = {} /\ overlap \in SUBSET Kinds
      /\ unread = 0 /\ faults = 0
      /\ accounts \subseteq Providers /\ (row = None => accounts = {})
      /\ enabled = (row = None \/ row.status \notin Blocked)
      /\ attribute = IF row = None THEN None ELSE row.role
      BY AccountsAssumption DEF Init, UserRow
<1>2. req = [r \in Requests |-> idle]
      BY DEF Init, Idle
<1>3. \A r \in Requests : req[r] = idle
      BY <1>2
<1>4. idle \in RequestRow
  <2>1. "idle" \in Steps
        BY DEF Steps
  <2> QED
      BY <2>1 DEF RequestRow, Arguments
<1>5. Typed
  <2>1. req \in [Requests -> RequestRow]
        BY <1>2, <1>4
  <2>2. attribute \in Roles \cup {None}
        BY <1>1 DEF UserRow
  <2>3. enabled \in BOOLEAN
        BY <1>1
  <2>4. session \in BOOLEAN /\ ~session
        BY <1>1
  <2> QED
      BY <1>1, <2>1, <2>2, <2>3, <2>4, AccountsAssumption DEF Typed
<1>6. \A r \in Requests : EachRequest(r) /\ ~UnderWay(r) /\ req[r].kind = "none"
      BY <1>3 DEF EachRequest, Fits, CopyIsCurrent, PassedIsOpen, SignedOut, StaleIsOut, ClaimIsCurrent,
                  OthersLinked, In, IsA, UnderWay
<1>8. AllOut
      BY <1>1 DEF AllOut
<1>9. BlockedIsSignedOut /\ ClaimIsRole
      BY <1>1, <1>8 DEF BlockedIsSignedOut, ClaimIsRole
<1>7. AccessAgrees /\ AttributeAgrees
      BY <1>1, <1>6 DEF AccessAgrees, AttributeAgrees, Applying, IsA
<1> QED
    BY <1>5, <1>6, <1>7, <1>8, <1>9 DEF AccountsInv, Apart

(***************************************************************************)
(* One request's step                                                      *)
(***************************************************************************)
\* What a step leaves of a request.
Moves(r, step, copy, claim) ==
  /\ req' \in [Requests -> RequestRow]
  /\ \A q \in Requests \ {r} : req'[q] = req[q]
  /\ req'[r].step = step /\ req'[r].copy = copy /\ req'[r].claim = claim
  /\ req'[r].kind = req[r].kind /\ req'[r].to = req[r].to
  /\ overlap' = overlap

LEMMA ContinueMoves ==
  ASSUME Typed, NEW r \in Requests, NEW step \in Steps, NEW copy \in UserRow \cup {None},
         NEW claim \in Claimable \cup {None}
  PROVE  /\ Continue(r, [req[r] EXCEPT !.step = step]) => Moves(r, step, req[r].copy, req[r].claim)
         /\ Continue(r, [req[r] EXCEPT !.step = step, !.copy = copy]) => Moves(r, step, copy, req[r].claim)
         /\ Continue(r, [req[r] EXCEPT !.step = step, !.claim = claim]) => Moves(r, step, req[r].copy, claim)
PROOF
<1>1. req \in [Requests -> RequestRow] /\ req[r] \in RequestRow
      BY DEF Typed
<1>2. ASSUME NEW record \in RequestRow, Continue(r, record)
      PROVE  /\ req' \in [Requests -> RequestRow]
             /\ \A q \in Requests \ {r} : req'[q] = req[q]
             /\ req'[r] = record
             /\ overlap' = overlap
      BY <1>1, <1>2 DEF Continue
<1>3. ASSUME Continue(r, [req[r] EXCEPT !.step = step])
      PROVE  Moves(r, step, req[r].copy, req[r].claim)
  <2> PICK record : record = [req[r] EXCEPT !.step = step]
      OBVIOUS
  <2>1. /\ record \in RequestRow /\ record.step = step
        /\ record.copy = req[r].copy /\ record.claim = req[r].claim
        /\ record.kind = req[r].kind /\ record.to = req[r].to
        BY <1>1 DEF RequestRow
  <2>2. Continue(r, record)
        BY <1>3
  <2> QED
      BY <1>2, <2>1, <2>2 DEF Moves
<1>4. ASSUME Continue(r, [req[r] EXCEPT !.step = step, !.copy = copy])
      PROVE  Moves(r, step, copy, req[r].claim)
  <2> PICK record : record = [req[r] EXCEPT !.step = step, !.copy = copy]
      OBVIOUS
  <2>1. /\ record \in RequestRow /\ record.step = step
        /\ record.copy = copy /\ record.claim = req[r].claim
        /\ record.kind = req[r].kind /\ record.to = req[r].to
        BY <1>1 DEF RequestRow
  <2>2. Continue(r, record)
        BY <1>4
  <2> QED
      BY <1>2, <2>1, <2>2 DEF Moves
<1>5. ASSUME Continue(r, [req[r] EXCEPT !.step = step, !.claim = claim])
      PROVE  Moves(r, step, req[r].copy, claim)
  <2> PICK record : record = [req[r] EXCEPT !.step = step, !.claim = claim]
      OBVIOUS
  <2>1. /\ record \in RequestRow /\ record.step = step
        /\ record.copy = req[r].copy /\ record.claim = claim
        /\ record.kind = req[r].kind /\ record.to = req[r].to
        BY <1>1 DEF RequestRow
  <2>2. Continue(r, record)
        BY <1>5
  <2> QED
      BY <1>2, <2>1, <2>2 DEF Moves
<1> QED
    BY <1>3, <1>4, <1>5

\* What a request's step does for the other requests and for itself.
Effect(r) ==
  /\ Typed'
  /\ overlap' = overlap /\ unread' >= unread
  /\ \A q \in Requests \ {r} : req'[q] = req[q]
  /\ row = None <=> row' = None
  /\ UnderWay(r) \/ UnderWay(r)'
  /\ req[r].step # "broken" /\ (UnderWay(r) => req'[r].kind = req[r].kind)
  /\ UnderWay(r)' => UnderWay(r) \/ \A q \in Requests : UnderWay(q) => {req'[r].kind, req[q].kind} \subseteq overlap
  /\ row # None /\ row'.status # row.status =>
       UnderWay(r) /\ ({req[r].kind, "status"} \subseteq overlap \/ (In(r, {"save"}) /\ IsA(r, "status")))
  /\ row # None /\ row'.role # row.role =>
       /\ UnderWay(r) /\ ({req[r].kind, "role"} \subseteq overlap \/ (In(r, {"save"}) /\ IsA(r, "role")))
       /\ "sign_in" \notin overlap => AllOut'
  /\ accounts' # accounts => In(r, {"remove"})
  /\ AllOut => AllOut' \/ (UnderWay(r) /\ IsA(r, "sign_in"))
  /\ enabled' # enabled => In(r, {"access"})
  /\ attribute' # attribute => In(r, {"attribute"})
  /\ EachRequest(r)'
  /\ BlockedIsSignedOut' /\ ClaimIsRole'
  /\ IsA(r, "status")' /\ row # None /\ "status" \notin overlap /\ NoneBroken("status")'
       => /\ Applying(r, "status")' => (enabled' <=> req'[r].to \notin Blocked)
          /\ ~Applying(r, "status")' => (enabled' <=> row'.status \notin Blocked)
  /\ IsA(r, "role")' /\ row # None /\ "role" \notin overlap /\ NoneBroken("role")'
       => /\ Applying(r, "role")' => attribute' = req'[r].to
          /\ ~Applying(r, "role")' => attribute' = row'.role

LEMMA EffectKeeps ==
  ASSUME AccountsInv, NEW r \in Requests, Effect(r)
  PROVE  AccountsInv'
PROOF
<1>1. Typed /\ Apart /\ Typed' /\ overlap' = overlap /\ unread \in Nat /\ unread' \in Nat /\ unread' >= unread
      BY AccountsAssumption DEF AccountsInv, Effect, Typed
<1>2. \A q \in Requests : EachRequest(q) /\ Fits(q)
      BY DEF AccountsInv, EachRequest
<1>3. \A q \in Requests \ {r} : req'[q] = req[q] /\ UnderWay(q)' = UnderWay(q)
      BY DEF Effect, UnderWay
<1>10. /\ unread' = 0 => unread = 0
       /\ NoneBroken("status")' => NoneBroken("status")
       /\ Guarded' => Guarded
  <2>1. unread' = 0 => unread = 0
        BY <1>1
  <2>2. NoneBroken("status")' => NoneBroken("status")
        BY <1>3 DEF Effect, NoneBroken
  <2> QED
      BY <1>1, <2>1, <2>2 DEF Guarded
\* Whatever else is under way overlaps this request.
<1>4. ASSUME NEW q \in Requests \ {r}, UnderWay(q)
      PROVE  {req'[r].kind, req[q].kind} \subseteq overlap
  <2>1. CASE UnderWay(r)
        BY <1>1, <1>4, <2>1 DEF Apart, Effect
  <2>2. CASE ~UnderWay(r)
        BY <1>4, <2>2 DEF Effect
  <2> QED
      BY <2>1, <2>2
<1>5. Apart'
  <2> SUFFICES ASSUME NEW p \in Requests, NEW q \in Requests, p # q, UnderWay(p)', UnderWay(q)'
               PROVE  {req'[p].kind, req'[q].kind} \subseteq overlap
      BY <1>1 DEF Apart
  <2>1. CASE p = r
        BY <1>3, <1>4, <2>1
  <2>2. CASE q = r
        BY <1>3, <1>4, <2>2
  <2>3. CASE p # r /\ q # r
        BY <1>1, <1>3, <2>3 DEF Apart
  <2> QED
      BY <2>1, <2>2, <2>3
<1>6. ASSUME NEW q \in Requests
      PROVE  EachRequest(q)'
  <2>1. CASE q = r
        BY <2>1 DEF Effect
  <2>2. CASE q # r
    <3> USE DEF In, IsA
    <3>1. /\ req'[q] = req[q] /\ EachRequest(q) /\ Fits(q) /\ Fits(r)
          /\ row = None <=> row' = None
          BY <1>2, <1>3, <2>2 DEF Effect
    <3>2. UnderWay(q) => {req[r].kind, req[q].kind} \subseteq overlap \/ ~UnderWay(r)
          BY <1>1, <2>2 DEF Apart
    <3>3. /\ In(q, {"pre_auth", "find_login", "upsert", "claims", "issue", "access", "attribute",
                    "sign_out", "find", "save", "count", "remove"}) => UnderWay(q)
          /\ In(r, {"save", "remove", "issue"}) => UnderWay(r)
          BY DEF UnderWay, Ended
    <3>4. Fits(q)'
          BY <3>1 DEF Fits
    <3>5. /\ UnderWay(q) /\ row # None /\ ~({req[q].kind, "status"} \subseteq overlap) => row'.status = row.status
          /\ UnderWay(q) /\ row # None /\ ~({req[q].kind, "role"} \subseteq overlap) => row'.role = row.role
          BY <3>2 DEF Effect
    <3>6. CopyIsCurrent(q)'
          BY <1>1, <3>1, <3>3, <3>5 DEF EachRequest, CopyIsCurrent, Fits
    <3>7. PassedIsOpen(q)'
          BY <1>1, <1>10, <3>1, <3>3, <3>5 DEF EachRequest, PassedIsOpen, Beside, Fits
    <3>8. SignedOut(q)' /\ StaleIsOut(q)'
      <4>1. UnderWay(q) /\ ~({"sign_in", req[q].kind} \subseteq overlap) /\ AllOut => AllOut'
            BY <3>2 DEF Effect
      <4>2. SignedOut(q)'
            BY <1>1, <3>1, <3>3, <4>1 DEF EachRequest, SignedOut, Beside
      <4>3. UnderWay(q) /\ row # None /\ "sign_in" \notin overlap /\ row'.role # row.role => AllOut'
            BY DEF Effect
      <4>4. StaleIsOut(q)'
            BY <1>1, <1>10, <3>1, <3>3, <4>1, <4>3 DEF EachRequest, StaleIsOut, Fits
      <4> QED
          BY <4>2, <4>4
    <3>9. ClaimIsCurrent(q)'
          BY <1>1, <3>1, <3>3, <3>5 DEF EachRequest, ClaimIsCurrent, Beside, Fits
    <3>10. OthersLinked(q)'
      <4>1. UnderWay(q) /\ "unlink" \notin overlap /\ IsA(q, "unlink") => accounts' = accounts
            BY <3>2, <3>3 DEF Effect
      <4> QED
          BY <1>1, <3>1, <3>3, <4>1 DEF EachRequest, OthersLinked, Fits
    <3> QED
        BY <3>4, <3>6, <3>7, <3>8, <3>9, <3>10 DEF EachRequest
  <2> QED
      BY <2>1, <2>2
<1>7. ASSUME NEW kind \in {"status", "role"}, kind \notin overlap, NoneBroken(kind)', row' # None
      PROVE  /\ row # None /\ NoneBroken(kind)
             /\ IsA(r, kind)' => \A q \in Requests \ {r} : ~Applying(q, kind)'
             /\ ~IsA(r, kind)' => /\ ~Applying(r, kind) /\ ~Applying(r, kind)'
                                  /\ \A q \in Requests \ {r} : Applying(q, kind)' <=> Applying(q, kind)
             /\ ~IsA(r, kind)' /\ kind = "status" => enabled' = enabled /\ row'.status = row.status
             /\ ~IsA(r, kind)' /\ kind = "role" => attribute' = attribute /\ row'.role = row.role
  <2> USE DEF In, IsA
  <2>1. row # None /\ NoneBroken(kind)
        BY <1>3, <1>7 DEF Effect, NoneBroken
  <2>2. ASSUME NEW q \in Requests \ {r}
        PROVE  /\ Applying(q, kind)' <=> Applying(q, kind)
               /\ IsA(r, kind)' => ~Applying(q, kind)
    <3>1. Applying(q, kind) => UnderWay(q) /\ req[q].kind = kind
          BY DEF Applying, UnderWay, Ended
    <3>2. Applying(q, kind)' <=> Applying(q, kind)
          BY <1>3 DEF Applying
    <3> QED
        BY <1>4, <1>7, <3>1, <3>2
  <2>3. ASSUME ~IsA(r, kind)'
        PROVE  /\ ~Applying(r, kind) /\ ~Applying(r, kind)'
               /\ kind = "status" => enabled' = enabled /\ row'.status = row.status
               /\ kind = "role" => attribute' = attribute /\ row'.role = row.role
    <3>1. UnderWay(r) => req[r].kind # kind
          BY <2>3 DEF Effect
    <3>2. In(r, {"sign_out", "find", "save", "access", "attribute"}) => UnderWay(r)
          BY DEF UnderWay, Ended
    <3>3. In(r, {"access"}) => IsA(r, "status")
          BY <1>2 DEF Fits
    <3>4. In(r, {"attribute"}) => IsA(r, "role")
          BY <1>2 DEF Fits
    <3> QED
        BY <1>7, <2>1, <2>3, <3>1, <3>2, <3>3, <3>4 DEF Effect, Applying
  <2> QED
      BY <2>1, <2>2, <2>3
<1>8. AccessAgrees'
  <2> SUFFICES ASSUME row' # None, "status" \notin overlap, NoneBroken("status")'
               PROVE  /\ \A q \in Requests : Applying(q, "status")' => (enabled' <=> req'[q].to \notin Blocked)
                      /\ (\A q \in Requests : ~Applying(q, "status")') => (enabled' <=> row'.status \notin Blocked)
      BY <1>1 DEF AccessAgrees
  <2>1. CASE IsA(r, "status")'
        BY <1>7, <2>1 DEF Effect
  <2>2. CASE ~IsA(r, "status")'
        BY <1>3, <1>7, <2>2 DEF AccountsInv, AccessAgrees
  <2> QED
      BY <2>1, <2>2
<1>9. AttributeAgrees'
  <2> SUFFICES ASSUME row' # None, "role" \notin overlap, NoneBroken("role")'
               PROVE  /\ \A q \in Requests : Applying(q, "role")' => attribute' = req'[q].to
                      /\ (\A q \in Requests : ~Applying(q, "role")') => attribute' = row'.role
      BY <1>1 DEF AttributeAgrees
  <2>1. CASE IsA(r, "role")'
        BY <1>7, <2>1 DEF Effect
  <2>2. CASE ~IsA(r, "role")'
        BY <1>3, <1>7, <2>2 DEF AccountsInv, AttributeAgrees
  <2> QED
      BY <2>1, <2>2
<1> QED
    BY <1>1, <1>5, <1>6, <1>8, <1>9 DEF Effect, AccountsInv

\* A request begins: nothing else changes, and what it may overlap, it does.
LEMMA BeginEffect ==
  ASSUME AccountsInv, NEW r \in Requests, NEW kind \in Kinds, NEW to \in Arguments,
         NEW step \in {"pre_auth", "claims", "access", "attribute", "count"},
         Begin(r, kind, to, step),
         step \in {"pre_auth", "claims"} => kind = "sign_in" /\ enabled,
         step = "claims" => session,
         step = "access" => kind = "status" /\ to \in Blocked \cup {"ACTIVE"} /\ row # None,
         step = "attribute" => kind = "role" /\ to \in Roles /\ row # None,
         step = "count" => kind = "unlink"
  PROVE  Effect(r)
PROOF
<1> PICK record : record = [[kind |-> "none", step |-> "idle", to |-> None, copy |-> None, claim |-> None]
                            EXCEPT !.kind = kind, !.to = to, !.step = step]
    OBVIOUS
<1>1. /\ record.kind = kind /\ record.to = to /\ record.step = step
      /\ record.copy = None /\ record.claim = None /\ record \in RequestRow
  <2>1. step \in Steps
        BY DEF Steps
  <2> QED
      BY <2>1 DEF RequestRow
<1>2. /\ Typed /\ Apart /\ BlockedIsSignedOut /\ ClaimIsRole /\ AccessAgrees /\ AttributeAgrees
      /\ req \in [Requests -> RequestRow] /\ unread \in Nat
      BY AccountsAssumption DEF AccountsInv, Typed
<1>3. /\ req' = [req EXCEPT ![r] = record]
      /\ req[r] = [kind |-> "none", step |-> "idle", to |-> None, copy |-> None, claim |-> None]
      /\ \A q \in Requests : UnderWay(q) => {kind, req[q].kind} \subseteq overlap
      /\ UNCHANGED <<row, accounts, enabled, attribute, session, tokens, overlap, unread, faults>>
      BY DEF Begin, Idle, pool
<1>4. /\ req' \in [Requests -> RequestRow] /\ req'[r] = record
      /\ \A q \in Requests \ {r} : req'[q] = req[q]
      BY <1>1, <1>2, <1>3
<1>5. req[r].step = "idle" /\ ~UnderWay(r) /\ UnderWay(r)'
      BY <1>1, <1>3, <1>4 DEF UnderWay, Ended
<1>6. Typed'
      BY <1>2, <1>3, <1>4 DEF Typed
<1>7. Fits(r)'
      BY <1>1, <1>2, <1>3, <1>4 DEF Fits, In, IsA, Typed
<1>12. /\ \A k : NoneBroken(k)' => NoneBroken(k)
       /\ Guarded' => Guarded
       /\ AllOut' = AllOut
  <2>1. ASSUME NEW k, NoneBroken(k)'
        PROVE  NoneBroken(k)
        BY <1>4, <1>5, <2>1 DEF NoneBroken
  <2> QED
      BY <1>3, <2>1 DEF Guarded, AllOut
<1>13. PassedIsOpen(r)'
  <2> SUFFICES ASSUME row # None, In(r, {"pre_auth", "claims"})', row.status \in Blocked
               PROVE  /\ ~Beside("status") /\ unread = 0 => step = "pre_auth"
                      /\ "status" \in overlap \/ ~NoneBroken("status")'
      BY <1>1, <1>3, <1>4 DEF PassedIsOpen, Beside, In
  <2>1. step \in {"pre_auth", "claims"} /\ kind = "sign_in" /\ enabled
        BY <1>1, <1>4 DEF In
  <2>2. ~Beside("status") /\ unread = 0 => step = "pre_auth"
    <3>1. step = "claims" /\ AllOut => FALSE
          BY DEF AllOut
    <3> QED
        BY <1>2, <2>1, <3>1 DEF BlockedIsSignedOut, Beside
  <2>3. ASSUME "status" \notin overlap, NoneBroken("status")'
        PROVE  FALSE
    <3>1. \A q \in Requests : ~Applying(q, "status")
          BY <1>3, <2>3 DEF Applying, In, IsA, UnderWay, Ended
    <3> QED
        BY <1>2, <1>12, <2>1, <2>3, <3>1 DEF AccessAgrees
  <2> QED
      BY <2>2, <2>3
<1>8. EachRequest(r)'
      BY <1>1, <1>4, <1>7, <1>13
      DEF EachRequest, CopyIsCurrent, SignedOut, StaleIsOut, ClaimIsCurrent, OthersLinked, In
<1>9. BlockedIsSignedOut' /\ ClaimIsRole'
  <2>1. BlockedIsSignedOut'
        BY <1>2, <1>3, <1>12 DEF BlockedIsSignedOut
  <2>2. ClaimIsRole'
        BY <1>2, <1>3 DEF ClaimIsRole
  <2> QED
      BY <2>1, <2>2
<1>10. ASSUME NEW k \in {"status", "role"}, IsA(r, k)', k \notin overlap, NoneBroken(k)'
       PROVE  /\ NoneBroken(k) /\ ~Applying(r, k)'
              /\ \A q \in Requests : ~Applying(q, k)
  <2>1. kind = k
        BY <1>1, <1>4, <1>10 DEF IsA
  <2>2. \A q \in Requests : ~UnderWay(q)
        BY <1>3, <1>10, <2>1
  <2>3. NoneBroken(k)
        BY <1>4, <1>5, <1>10 DEF NoneBroken, IsA
  <2> QED
      BY <1>1, <1>4, <2>2, <2>3 DEF Applying, In, UnderWay, Ended
<1>11. /\ IsA(r, "status")' /\ row # None /\ "status" \notin overlap /\ NoneBroken("status")'
            => ~Applying(r, "status")' /\ (enabled' <=> row'.status \notin Blocked)
       /\ IsA(r, "role")' /\ row # None /\ "role" \notin overlap /\ NoneBroken("role")'
            => ~Applying(r, "role")' /\ attribute' = row'.role
       BY <1>2, <1>3, <1>10 DEF AccessAgrees, AttributeAgrees
<1> QED
    BY <1>1, <1>2, <1>3, <1>4, <1>5, <1>6, <1>8, <1>9, <1>11, <1>12 DEF Effect

LEMMA BeginsEffect ==
  ASSUME AccountsInv, NEW r \in Requests, SignIn(r) \/ Renew(r) \/ SetStatus(r) \/ SetRole(r) \/ Unlink(r)
  PROVE  Effect(r)
PROOF
<1>1. /\ {"sign_in", "status", "role", "unlink"} \subseteq Kinds
      /\ None \in Arguments /\ "renewal" \in Arguments /\ Roles \subseteq Arguments /\ Providers \subseteq Arguments
      /\ Blocked \cup {"ACTIVE"} \subseteq Arguments
      BY DEF Kinds, Arguments, Blocked, Statuses
<1>2. CASE SignIn(r)
      BY <1>1, <1>2, BeginEffect DEF SignIn
<1>6. CASE Renew(r)
      BY <1>1, <1>6, BeginEffect DEF Renew
<1>3. CASE SetStatus(r)
  <2>1. PICK to \in Targets : row # None /\ Allowed(row, to) /\ Begin(r, "status", to, "access")
        BY <1>3 DEF SetStatus
  <2>2. row \in UserRow
        BY <2>1 DEF AccountsInv, Typed
  <2>3. to \in Blocked \cup {"ACTIVE"}
        BY <2>1, <2>2 DEF Allowed, ValidTransitions, UserRow, Statuses, Blocked
  <2> QED
      BY <1>1, <2>1, <2>3, BeginEffect
<1>4. CASE SetRole(r)
  <2>1. PICK to \in Roles : row # None /\ Begin(r, "role", to, "attribute")
        BY <1>4 DEF SetRole
  <2> QED
      BY <1>1, <2>1, BeginEffect
<1>5. CASE Unlink(r)
  <2>1. PICK p \in accounts : Begin(r, "unlink", p, "count")
        BY <1>5 DEF Unlink
  <2>2. p \in Arguments
        BY <1>1, <2>1 DEF AccountsInv, Typed
  <2> QED
      BY <1>1, <2>1, <2>2, BeginEffect
<1> QED
    BY <1>2, <1>3, <1>4, <1>5, <1>6

\* While a change is applied, what the pool was given is what is wanted.
LEMMA WhileApplying ==
  ASSUME AccountsInv, NEW r \in Requests, UnderWay(r), row # None,
         \A q \in Requests \ {r} : req'[q] = req[q]
  PROVE  /\ NoneBroken("status")' /\ "status" \notin overlap /\ Applying(r, "status")
              => (enabled <=> req[r].to \notin Blocked)
         /\ NoneBroken("role")' /\ "role" \notin overlap /\ Applying(r, "role")
              => attribute = req[r].to
PROOF
<1>1. ASSUME NEW kind, NoneBroken(kind)'
      PROVE  NoneBroken(kind)
      BY <1>1 DEF NoneBroken, UnderWay, Ended, IsA
<1> QED
    BY <1>1 DEF AccountsInv, AccessAgrees, AttributeAgrees

\* A request under way goes on.
LEMMA StepEffect ==
  ASSUME AccountsInv, NEW r \in Requests,
         \/ PreAuth(r) \/ PreAuthUnread(r) \/ FindLogin(r) \/ Upsert(r)
         \/ Claims(r) \/ ClaimsUnread(r) \/ Issue(r)
         \/ SetAccess(r) \/ SetAttribute(r) \/ SignOut(r) \/ Find(r) \/ Save(r)
         \/ Count(r) \/ Remove(r) \/ BreakOff(r)
  PROVE  Effect(r)
PROOF
<1> USE DEF In, IsA
<1>1. /\ Typed /\ Apart /\ BlockedIsSignedOut /\ ClaimIsRole
      /\ row \in UserRow \cup {None} /\ None \notin UserRow
      /\ enabled \in BOOLEAN /\ attribute \in Roles \cup {None}
      /\ session \in BOOLEAN /\ (row = None => ~session) /\ tokens \subseteq Token
      /\ accounts \subseteq Providers /\ (row = None => accounts = {})
      /\ req[r] \in RequestRow
      /\ unread \in Nat /\ faults \in Nat /\ unread <= faults /\ MaxFaults \in Nat /\ faults <= MaxFaults
      BY AccountsAssumption DEF AccountsInv, Typed
<1>2. /\ Fits(r) /\ CopyIsCurrent(r) /\ PassedIsOpen(r) /\ SignedOut(r)
      /\ StaleIsOut(r) /\ ClaimIsCurrent(r) /\ OthersLinked(r)
      BY DEF AccountsInv, EachRequest
<1>3. /\ req[r].step \in Steps /\ req[r].copy \in UserRow \cup {None}
      /\ req[r].claim \in Claimable \cup {None} /\ req[r].to \in Arguments
      BY <1>1 DEF RequestRow
\* The conditions every step of a request under way meets, and what is left.
<1>4. ASSUME NEW step, NEW copy, NEW claim, Moves(r, step, copy, claim),
             UnderWay(r), row' \in UserRow \cup {None}, row = None <=> row' = None,
             accounts' \subseteq Providers, row' = None => accounts' = {},
             enabled' \in BOOLEAN, attribute' \in Roles \cup {None},
             session' \in BOOLEAN, row' = None => ~session', tokens' \subseteq Token,
             unread' \in 0 .. faults', faults' \in 0 .. MaxFaults, unread' >= unread
      PROVE  /\ Typed' /\ overlap' = overlap /\ unread' >= unread
             /\ \A q \in Requests \ {r} : req'[q] = req[q]
             /\ req[r].step # "broken"
             /\ req'[r].kind = req[r].kind
             /\ req'[r].to = req[r].to /\ req'[r].step = step
             /\ req'[r].copy = copy /\ req'[r].claim = claim
      BY <1>1, <1>4 DEF Typed, Moves, UnderWay, Ended
<1> DEFINE Same == UNCHANGED <<row, accounts, enabled, attribute, session, tokens>>
<1>5. ASSUME NEW step \in Steps, NEW copy \in UserRow \cup {None}, NEW claim \in Claimable \cup {None}
      PROVE  /\ Continue(r, [req[r] EXCEPT !.step = step]) => Moves(r, step, req[r].copy, req[r].claim)
             /\ Continue(r, [req[r] EXCEPT !.step = step, !.copy = copy]) => Moves(r, step, copy, req[r].claim)
             /\ Continue(r, [req[r] EXCEPT !.step = step, !.claim = claim]) => Moves(r, step, req[r].copy, claim)
      BY <1>1, ContinueMoves
<1>6. /\ {"done", "refused", "broken", "idle", "pre_auth", "find_login", "upsert", "claims", "issue",
          "access", "attribute", "sign_out", "find", "save", "count", "remove"} \subseteq Steps
      /\ \A step \in {"pre_auth", "find_login", "upsert", "claims", "issue", "access", "attribute",
                      "sign_out", "find", "save", "count", "remove"} : At(r, step) => UnderWay(r)
      BY DEF Steps, Ended, At, UnderWay
\* Faults stay, and only issuing and signing out touch the session.
<1>24. ASSUME unread' >= unread, unread' \in Nat, overlap' = overlap,
              \A q \in Requests \ {r} : req'[q] = req[q],
              req[r].step # "broken"
       PROVE  /\ unread' = 0 => unread = 0
              /\ unread > 0 => unread' > 0
              /\ NoneBroken("status")' => NoneBroken("status")
              /\ Guarded' => Guarded
              /\ UNCHANGED <<session, tokens>> => AllOut' = AllOut
              /\ UNCHANGED <<row, session, tokens>> => BlockedIsSignedOut' /\ ClaimIsRole'
  <2>1. (unread' = 0 => unread = 0) /\ (unread > 0 => unread' > 0)
        BY <1>1, <1>24
  <2>2. NoneBroken("status")' => NoneBroken("status")
        BY <1>24 DEF NoneBroken
  <2>3. Guarded' => Guarded
        BY <1>24, <2>1, <2>2 DEF Guarded
  <2>4. UNCHANGED <<session, tokens>> => AllOut' = AllOut
        BY DEF AllOut
  <2>5. UNCHANGED <<row, session, tokens>> => BlockedIsSignedOut'
        BY <1>1, <1>24, <2>1, <2>2, <2>4 DEF BlockedIsSignedOut
  <2>6. UNCHANGED <<row, session, tokens>> => ClaimIsRole'
        BY <1>1, <1>24, <2>1 DEF ClaimIsRole
  <2> QED
      BY <2>1, <2>2, <2>3, <2>4, <2>5, <2>6
<1>25. ASSUME NEW step, NEW copy, NEW claim, Moves(r, step, copy, claim), UnderWay(r),
              unread' >= unread, unread' \in 0 .. faults', faults' \in 0 .. MaxFaults
       PROVE  /\ unread' = 0 => unread = 0
              /\ unread > 0 => unread' > 0
              /\ NoneBroken("status")' => NoneBroken("status")
  <2>1. unread' \in Nat
        BY <1>1, <1>25
  <2> QED
      BY <1>24, <1>25, <2>1 DEF Moves, UnderWay, Ended
\* A step that changes only the request, and counts its fault.
<1>7. ASSUME NEW step, NEW copy, NEW claim, Moves(r, step, copy, claim), UnderWay(r), Same,
             unread' \in 0 .. faults', faults' \in 0 .. MaxFaults, unread' >= unread,
             Fits(r)', CopyIsCurrent(r)', PassedIsOpen(r)', SignedOut(r)', StaleIsOut(r)', ClaimIsCurrent(r)',
             OthersLinked(r)',
             IsA(r, "status") \/ IsA(r, "role") =>
               step = "broken" \/ (In(r, {"sign_out", "find", "save"}) /\ step \in {"sign_out", "find", "save"})
      PROVE  Effect(r)
  <2>1. /\ Typed' /\ overlap' = overlap /\ unread' >= unread
        /\ \A q \in Requests \ {r} : req'[q] = req[q]
        /\ req[r].step # "broken"
        /\ req'[r].kind = req[r].kind
        /\ req'[r].to = req[r].to /\ req'[r].step = step
        BY <1>1, <1>4, <1>7
  <2>2. BlockedIsSignedOut' /\ ClaimIsRole' /\ AllOut' = AllOut
        BY <1>1, <1>7, <1>24, <2>1
  <2>3. EachRequest(r)'
        BY <1>7 DEF EachRequest
  <2>4. /\ NoneBroken("status")' /\ IsA(r, "status") /\ row # None /\ "status" \notin overlap
             => Applying(r, "status")' /\ (enabled' <=> req'[r].to \notin Blocked)
        /\ NoneBroken("role")' /\ IsA(r, "role") /\ row # None /\ "role" \notin overlap
             => Applying(r, "role")' /\ attribute' = req'[r].to
    <3>1. ASSUME NEW kind \in {"status", "role"}, NoneBroken(kind)', IsA(r, kind)
          PROVE  Applying(r, kind) /\ Applying(r, kind)'
      <4>1. step # "broken"
            BY <2>1, <3>1 DEF NoneBroken
      <4> QED
          BY <1>7, <2>1, <3>1, <4>1 DEF Applying
    <3> QED
        BY <1>7, <2>1, <3>1, WhileApplying
  <2> QED
      BY <1>7, <2>1, <2>2, <2>3, <2>4 DEF Effect
\* A request that breaks off leaves nothing but its fault.
<1>8. ASSUME Moves(r, "broken", req[r].copy, req[r].claim), UnderWay(r), Same,
              unread' = unread, faults' \in faults .. MaxFaults
       PROVE  Effect(r)
  <2> PICK step, copy, claim : step = "broken" /\ copy = req[r].copy /\ claim = req[r].claim
      OBVIOUS
  <2>1. Moves(r, step, copy, claim)
        BY <1>8
  <2>2. unread' \in 0 .. faults' /\ faults' \in 0 .. MaxFaults /\ unread' >= unread
        BY <1>1, <1>8
  <2>3. /\ Fits(r)' /\ CopyIsCurrent(r)' /\ SignedOut(r)' /\ StaleIsOut(r)' /\ ClaimIsCurrent(r)'
        /\ OthersLinked(r)' /\ PassedIsOpen(r)'
        BY <1>2, <1>8
        DEF Moves, Fits, CopyIsCurrent, SignedOut, StaleIsOut, ClaimIsCurrent, OthersLinked, PassedIsOpen
  <2>4. IsA(r, "status") \/ IsA(r, "role") =>
          step = "broken" \/ (In(r, {"sign_out", "find", "save"}) /\ step \in {"sign_out", "find", "save"})
        OBVIOUS
  <2> HIDE DEF Same, In, IsA
  <2>5. Same /\ UnderWay(r)
        BY <1>8
  <2> QED
      BY <1>7, <2>1, <2>2, <2>3, <2>4, <2>5
<1>9. CASE PreAuth(r)
  <2>1. PICK step \in {"find_login", "refused"} : /\ Goto(r, step)
                                                  /\ step = "find_login" => row = None \/ MaySignIn(row.status)
        BY <1>9 DEF PreAuth
  <2>2. Moves(r, step, req[r].copy, req[r].claim) /\ unread' = unread /\ faults' = faults
        BY <1>3, <1>5, <1>6, <2>1 DEF Goto, NoFault
  <2>3. At(r, "pre_auth") /\ Same /\ UnderWay(r) /\ IsA(r, "sign_in")
        BY <1>2, <1>6, <1>9 DEF PreAuth, pool, Fits, At
  <2>4. Fits(r)' /\ CopyIsCurrent(r)' /\ SignedOut(r)' /\ StaleIsOut(r)' /\ ClaimIsCurrent(r)' /\ OthersLinked(r)'
        BY <1>2, <2>1, <2>2, <2>3 DEF Moves, Fits, CopyIsCurrent, SignedOut, StaleIsOut, ClaimIsCurrent, OthersLinked
  <2>5. PassedIsOpen(r)'
        BY <1>2, <2>1, <2>2, <2>3 DEF Moves, PassedIsOpen, MaySignIn, Blocked
  <2> QED
      BY <1>1, <1>7, <2>1, <2>2, <2>3, <2>4, <2>5
<1>10. CASE PreAuthUnread(r)
  <2>1. Moves(r, "find_login", req[r].copy, req[r].claim)
        BY <1>3, <1>5, <1>6, <1>10 DEF PreAuthUnread
  <2>2. At(r, "pre_auth") /\ Same /\ UnderWay(r) /\ IsA(r, "sign_in")
        BY <1>2, <1>6, <1>10 DEF PreAuthUnread, pool, Fits, At
  <2>3. unread' = unread + 1 /\ faults' = faults + 1 /\ faults < MaxFaults
        BY <1>10 DEF PreAuthUnread, ReadFails
  <2>4. unread' \in 0 .. faults' /\ faults' \in 0 .. MaxFaults /\ unread' >= unread /\ unread' # 0
        BY <1>1, <2>3
  <2>5. Fits(r)' /\ CopyIsCurrent(r)' /\ SignedOut(r)' /\ StaleIsOut(r)' /\ ClaimIsCurrent(r)' /\ OthersLinked(r)'
        BY <1>2, <2>1, <2>2 DEF Moves, Fits, CopyIsCurrent, SignedOut, StaleIsOut, ClaimIsCurrent, OthersLinked
  <2>6. NoneBroken("status")' => NoneBroken("status")
        BY <1>25, <2>1, <2>2, <2>4
  <2>7. PassedIsOpen(r)'
        BY <1>2, <2>1, <2>2, <2>4, <2>6 DEF Moves, PassedIsOpen, At
  <2> QED
      BY <1>7, <2>1, <2>2, <2>4, <2>5, <2>7
<1>11. CASE FindLogin(r)
  <2>1. At(r, "find_login") /\ Same /\ UnderWay(r) /\ IsA(r, "sign_in") /\ unread' = unread /\ faults' = faults
        BY <1>2, <1>6, <1>11 DEF FindLogin, pool, Fits, At, Goto, NoFault
  <2>2. CASE row = None
    <3>1. Moves(r, "refused", req[r].copy, req[r].claim)
          BY <1>3, <1>5, <1>6, <1>11, <2>2 DEF FindLogin, Goto
    <3>2. /\ Fits(r)' /\ CopyIsCurrent(r)' /\ SignedOut(r)' /\ StaleIsOut(r)' /\ ClaimIsCurrent(r)' /\ OthersLinked(r)'
          /\ PassedIsOpen(r)'
          BY <1>2, <2>1, <3>1
          DEF Moves, Fits, CopyIsCurrent, SignedOut, StaleIsOut, ClaimIsCurrent, OthersLinked, PassedIsOpen
    <3> QED
        BY <1>1, <1>7, <2>1, <3>1, <3>2
  <2>3. CASE row # None
    <3> PICK copy \in UserRow : copy = row
        BY <1>1, <2>3
    <3>1. Moves(r, "upsert", copy, req[r].claim)
          BY <1>3, <1>5, <1>6, <1>11, <2>3 DEF FindLogin
    <3>2. /\ Fits(r)' /\ CopyIsCurrent(r)' /\ SignedOut(r)' /\ StaleIsOut(r)' /\ ClaimIsCurrent(r)' /\ OthersLinked(r)'
          /\ PassedIsOpen(r)'
          BY <1>1, <1>2, <1>25, <2>1, <2>3, <3>1
          DEF Moves, Beside, Fits, CopyIsCurrent, SignedOut, StaleIsOut, ClaimIsCurrent, OthersLinked, PassedIsOpen, At
    <3> QED
        BY <1>1, <1>7, <2>1, <3>1, <3>2
  <2> QED
      BY <2>2, <2>3
<1>12. CASE Upsert(r)
  <2>1. /\ Moves(r, "claims", req[r].copy, req[r].claim) /\ unread' = unread /\ faults' = faults
        BY <1>3, <1>5, <1>6, <1>12 DEF Upsert, Goto, NoFault
  <2>2. /\ UnderWay(r) /\ IsA(r, "sign_in") /\ In(r, {"upsert"}) /\ row # None
        /\ row' = req[r].copy /\ row' \in UserRow
        /\ UNCHANGED <<accounts, enabled, attribute, session, tokens>>
        BY <1>2, <1>6, <1>12 DEF Upsert, pool, Fits, At
  <2>3. /\ ~Beside("status") => row'.status = row.status
        /\ ~Beside("role") => row'.role = row.role
        BY <1>2, <2>2 DEF CopyIsCurrent, Beside
  <2>4. /\ Typed' /\ overlap' = overlap
        /\ \A q \in Requests \ {r} : req'[q] = req[q]
        /\ req'[r].kind = "sign_in" /\ req'[r].step = "claims"
        BY <1>1, <1>4, <2>1, <2>2
  <2>5. /\ Fits(r)' /\ CopyIsCurrent(r)' /\ SignedOut(r)' /\ StaleIsOut(r)' /\ ClaimIsCurrent(r)' /\ OthersLinked(r)'
        BY <1>1, <2>2, <2>4 DEF Fits, CopyIsCurrent, SignedOut, StaleIsOut, ClaimIsCurrent, OthersLinked
  <2>6. PassedIsOpen(r)'
        BY <1>2, <1>24, <2>1, <2>2, <2>3, <2>4, <1>1 DEF PassedIsOpen, Beside
  <2>7. BlockedIsSignedOut' /\ ClaimIsRole' /\ AllOut' = AllOut
    <3>1. Guarded' => Guarded
          BY <1>1, <1>24, <2>1, <2>4, <2>2 DEF UnderWay, Ended
    <3>2. AllOut' = AllOut
          BY <2>2 DEF AllOut
    <3>3. BlockedIsSignedOut'
          BY <1>1, <2>1, <2>2, <2>3, <2>4, <3>1, <3>2 DEF BlockedIsSignedOut, Beside, Guarded
    <3>4. ClaimIsRole'
          BY <1>1, <2>1, <2>2, <2>3, <2>4 DEF ClaimIsRole, Beside
    <3> QED
        BY <3>2, <3>3, <3>4
  <2> QED
      BY <1>1, <2>1, <2>2, <2>3, <2>4, <2>5, <2>6, <2>7 DEF Effect, EachRequest, Applying, Beside
<1>13. CASE Claims(r)
  <2>1. At(r, "claims") /\ Same /\ UnderWay(r) /\ IsA(r, "sign_in") /\ row \in UserRow /\ unread' = unread /\ faults' = faults
        BY <1>1, <1>2, <1>6, <1>13 DEF Claims, pool, Fits, At, NoFault
  <2> PICK claim \in Claimable : claim = row.role
      BY <2>1 DEF UserRow, Claimable
  <2>2. Moves(r, "issue", req[r].copy, claim)
        BY <1>3, <1>5, <1>6, <1>13 DEF Claims
  <2>3. /\ Fits(r)' /\ CopyIsCurrent(r)' /\ SignedOut(r)' /\ StaleIsOut(r)' /\ ClaimIsCurrent(r)' /\ OthersLinked(r)'
        /\ PassedIsOpen(r)'
        BY <1>1, <1>2, <1>25, <2>1, <2>2
        DEF Moves, Beside, Fits, CopyIsCurrent, SignedOut, StaleIsOut, ClaimIsCurrent, OthersLinked, PassedIsOpen, At
  <2> QED
      BY <1>1, <1>7, <2>1, <2>2, <2>3
<1>14. CASE ClaimsUnread(r)
  <2>1. At(r, "claims") /\ Same /\ UnderWay(r) /\ IsA(r, "sign_in") /\ row \in UserRow
        BY <1>1, <1>2, <1>6, <1>14 DEF ClaimsUnread, pool, Fits, At
  <2>2. unread' = unread + 1 /\ faults' = faults + 1 /\ faults < MaxFaults
        BY <1>14 DEF ClaimsUnread, ReadFails
  <2>3. unread' \in 0 .. faults' /\ faults' \in 0 .. MaxFaults /\ unread' >= unread /\ unread' # 0
        BY <1>1, <2>2
  <2>4. Moves(r, "issue", req[r].copy, "UNASSIGNED")
        BY <1>3, <1>5, <1>6, <1>14 DEF ClaimsUnread, Claimable
  <2>5. /\ Fits(r)' /\ CopyIsCurrent(r)' /\ SignedOut(r)' /\ StaleIsOut(r)' /\ ClaimIsCurrent(r)' /\ OthersLinked(r)'
        /\ PassedIsOpen(r)'
        BY <1>1, <1>2, <1>25, <2>1, <2>3, <2>4
        DEF Moves, Beside, Fits, CopyIsCurrent, SignedOut, StaleIsOut, ClaimIsCurrent, OthersLinked, PassedIsOpen, At, Claimable
  <2> QED
      BY <1>7, <2>1, <2>3, <2>4, <2>5
<1>15. CASE Issue(r)
  <2>1. /\ Moves(r, "done", req[r].copy, req[r].claim) /\ unread' = unread /\ faults' = faults
        BY <1>3, <1>5, <1>6, <1>15 DEF Issue, Goto, NoFault
  <2>2. /\ UnderWay(r) /\ IsA(r, "sign_in") /\ In(r, {"issue"}) /\ row # None
        /\ tokens' = tokens \cup {[claim |-> req[r].claim, out |-> FALSE]}
        /\ req[r].claim \in Claimable
        /\ UNCHANGED <<row, accounts, enabled, attribute>>
        BY <1>2, <1>6, <1>15 DEF Issue, Fits, At
  <2>3. tokens' \subseteq Token
    <3>1. \A c \in Claimable : [claim |-> c, out |-> FALSE] \in Token
          BY DEF Token, Claimable
    <3> QED
        BY <1>1, <2>2, <3>1
  <2>8. session' \in BOOLEAN
        BY <1>15 DEF Issue
  <2>4. /\ Typed' /\ overlap' = overlap
        /\ \A q \in Requests \ {r} : req'[q] = req[q]
        /\ req'[r].kind = "sign_in" /\ req'[r].step = "done"
        BY <1>1, <1>4, <2>1, <2>2, <2>3, <2>8
  <2>5. EachRequest(r)'
        BY <2>4 DEF EachRequest, Fits, CopyIsCurrent, PassedIsOpen, SignedOut, StaleIsOut, ClaimIsCurrent, OthersLinked
  <2>6. BlockedIsSignedOut'
        BY <1>1, <1>2, <1>24, <2>1, <2>2, <2>4 DEF BlockedIsSignedOut, PassedIsOpen, Beside
  <2>7. ClaimIsRole'
    <3>1. ASSUME NEW t \in tokens', ~({"sign_in", "role"} \subseteq overlap)
          PROVE  t.out \/ t.claim = row.role \/ (unread > 0 /\ t.claim = "UNASSIGNED")
      <4>1. CASE t \in tokens
            BY <1>1, <2>2, <3>1, <4>1 DEF ClaimIsRole
      <4>2. CASE t = [claim |-> req[r].claim, out |-> FALSE]
            BY <1>2, <2>2, <3>1, <4>2 DEF ClaimIsCurrent, Beside
      <4> QED
          BY <2>2, <3>1, <4>1, <4>2
    <3> QED
        BY <2>1, <2>2, <2>4, <3>1 DEF ClaimIsRole
  <2> QED
      BY <1>1, <2>1, <2>2, <2>4, <2>5, <2>6, <2>7 DEF Effect, Applying
<1>16. CASE SetAccess(r)
  <2> PICK step \in {"sign_out", "find"} : Goto(r, step) /\ (req[r].to \in Blocked => step = "sign_out")
      BY <1>16 DEF SetAccess
  <2>1. /\ Moves(r, step, req[r].copy, req[r].claim) /\ unread' = unread /\ faults' = faults
        BY <1>3, <1>5, <1>6 DEF Goto, NoFault
  <2>2. /\ UnderWay(r) /\ IsA(r, "status") /\ In(r, {"access"}) /\ row # None
        /\ req[r].to \in Blocked \cup {"ACTIVE"}
        /\ UNCHANGED <<row, accounts, attribute, session, tokens>>
        BY <1>2, <1>6, <1>16 DEF SetAccess, Fits, At
  <2>3. enabled' \in BOOLEAN /\ (enabled' <=> req[r].to \notin Blocked)
        BY <1>1, <1>16, <2>2 DEF SetAccess, Blocked
  <2>4. /\ Typed' /\ overlap' = overlap
        /\ \A q \in Requests \ {r} : req'[q] = req[q]
        /\ req'[r].kind = "status" /\ req'[r].step = step /\ req'[r].to = req[r].to
        BY <1>1, <1>4, <2>1, <2>2, <2>3
  <2>5. EachRequest(r)'
        BY <2>2, <2>4 DEF EachRequest, Fits, CopyIsCurrent, PassedIsOpen, SignedOut, StaleIsOut, ClaimIsCurrent, OthersLinked
  <2>6. BlockedIsSignedOut' /\ ClaimIsRole' /\ AllOut' = AllOut
        BY <1>1, <1>24, <2>1, <2>2, <2>4 DEF UnderWay, Ended
  <2> QED
      BY <1>1, <2>1, <2>2, <2>3, <2>4, <2>5, <2>6 DEF Effect, Applying
<1>17. CASE SetAttribute(r)
  <2>1. /\ Moves(r, "sign_out", req[r].copy, req[r].claim) /\ unread' = unread /\ faults' = faults
        BY <1>3, <1>5, <1>6, <1>17 DEF SetAttribute, Goto, NoFault
  <2>2. /\ UnderWay(r) /\ IsA(r, "role") /\ In(r, {"attribute"}) /\ row # None
        /\ req[r].to \in Roles /\ attribute' = req[r].to
        /\ UNCHANGED <<row, accounts, enabled, session, tokens>>
        BY <1>2, <1>6, <1>17 DEF SetAttribute, Fits, At
  <2>3. /\ Typed' /\ overlap' = overlap
        /\ \A q \in Requests \ {r} : req'[q] = req[q]
        /\ req'[r].kind = "role" /\ req'[r].step = "sign_out" /\ req'[r].to = req[r].to
        BY <1>1, <1>4, <2>1, <2>2
  <2>4. EachRequest(r)'
        BY <2>2, <2>3 DEF EachRequest, Fits, CopyIsCurrent, PassedIsOpen, SignedOut, StaleIsOut, ClaimIsCurrent, OthersLinked
  <2>5. BlockedIsSignedOut' /\ ClaimIsRole' /\ AllOut' = AllOut
        BY <1>1, <1>24, <2>1, <2>2, <2>3 DEF UnderWay, Ended
  <2> QED
      BY <1>1, <2>1, <2>2, <2>3, <2>4, <2>5 DEF Effect, Applying
<1>18. CASE SignOut(r)
  <2>1. /\ Moves(r, "find", req[r].copy, req[r].claim) /\ unread' = unread /\ faults' = faults
        BY <1>3, <1>5, <1>6, <1>18 DEF SignOut, Goto, NoFault
  <2>2. /\ UnderWay(r) /\ (IsA(r, "status") \/ IsA(r, "role")) /\ In(r, {"sign_out"}) /\ row # None
        /\ session' = FALSE /\ tokens' = {[t EXCEPT !.out = TRUE] : t \in tokens}
        /\ UNCHANGED <<row, accounts, enabled, attribute>>
        BY <1>2, <1>6, <1>18 DEF SignOut, Fits, At
  <2>8. tokens' \subseteq Token /\ \A t \in tokens' : t.out = TRUE
        BY <1>1, <2>2 DEF Token
  <2>10. session' \in BOOLEAN /\ ~session'
        BY <2>2
  <2>9. AllOut'
        BY <2>2, <2>8 DEF AllOut
  <2>3. /\ Typed' /\ overlap' = overlap
        /\ \A q \in Requests \ {r} : req'[q] = req[q]
        /\ req'[r].kind = req[r].kind /\ req'[r].step = "find" /\ req'[r].to = req[r].to
        BY <1>1, <1>4, <2>1, <2>2, <2>8, <2>10
  <2>4. EachRequest(r)'
    <3>1. Fits(r)'
          BY <1>2, <2>2, <2>3 DEF Fits
    <3>2. /\ CopyIsCurrent(r)' /\ PassedIsOpen(r)' /\ SignedOut(r)' /\ StaleIsOut(r)' /\ ClaimIsCurrent(r)'
          /\ OthersLinked(r)'
          BY <2>2, <2>3, <2>9 DEF CopyIsCurrent, PassedIsOpen, SignedOut, StaleIsOut, ClaimIsCurrent, OthersLinked
    <3> QED
        BY <3>1, <3>2 DEF EachRequest
  <2>5. BlockedIsSignedOut' /\ ClaimIsRole'
        BY <2>8, <2>9 DEF BlockedIsSignedOut, ClaimIsRole
  <2>6. Applying(r, "status")' = Applying(r, "status") /\ Applying(r, "role")' = Applying(r, "role")
        BY <2>2, <2>3 DEF Applying
  <2>7. /\ NoneBroken("status")' /\ IsA(r, "status") /\ "status" \notin overlap
             => Applying(r, "status")' /\ (enabled' <=> req'[r].to \notin Blocked)
        /\ NoneBroken("role")' /\ IsA(r, "role") /\ "role" \notin overlap
             => Applying(r, "role")' /\ attribute' = req'[r].to
        BY <2>2, <2>3, WhileApplying DEF Applying
  <2> QED
      BY <1>1, <2>1, <2>2, <2>3, <2>4, <2>5, <2>7, <2>9 DEF Effect
<1>19. CASE Find(r)
  <2>1. /\ At(r, "find") /\ Same /\ UnderWay(r) /\ (IsA(r, "status") \/ IsA(r, "role"))
        /\ row \in UserRow /\ unread' = unread /\ faults' = faults
        BY <1>1, <1>2, <1>6, <1>19 DEF Find, pool, Fits, At, Goto, NoFault
  <2>2. CASE Goto(r, "broken")
    <3>1. Moves(r, "broken", req[r].copy, req[r].claim)
          BY <1>3, <1>5, <1>6, <2>2 DEF Goto
    <3> QED
        BY <1>1, <1>8, <2>1, <3>1
  <2>3. CASE ~Goto(r, "broken")
    <3> PICK copy \in UserRow : copy = row
        BY <2>1
    <3>1. Moves(r, "save", copy, req[r].claim)
          BY <1>3, <1>5, <1>6, <1>19, <2>3 DEF Find
    <3>3. AllOut' = AllOut /\ (Guarded' => Guarded)
          BY <1>1, <1>24, <2>1, <3>1 DEF Moves, UnderWay, Ended
    <3>4. "sign_in" \notin overlap /\ Guarded /\ row.status \in Blocked => AllOut
          BY <1>1, <2>1 DEF BlockedIsSignedOut, Guarded
    <3>2. /\ Fits(r)' /\ CopyIsCurrent(r)' /\ SignedOut(r)' /\ StaleIsOut(r)' /\ ClaimIsCurrent(r)' /\ OthersLinked(r)'
          /\ PassedIsOpen(r)'
          BY <1>1, <1>2, <1>25, <2>1, <3>1, <3>3, <3>4
          DEF Moves, Beside, Fits, CopyIsCurrent, SignedOut, StaleIsOut, ClaimIsCurrent, OthersLinked, PassedIsOpen, At
    <3> QED
        BY <1>1, <1>7, <2>1, <3>1, <3>2 DEF At
  <2> QED
      BY <2>2, <2>3
<1>20. CASE Save(r)
  <2> PICK saved : saved = Saved(r)
      OBVIOUS
  <2>1. /\ UnderWay(r) /\ (IsA(r, "status") \/ IsA(r, "role")) /\ In(r, {"save"}) /\ row \in UserRow
        /\ req[r].copy \in UserRow
        /\ UNCHANGED <<accounts, enabled, attribute, session, tokens>> /\ unread' = unread /\ faults' = faults
        BY <1>1, <1>2, <1>6, <1>20 DEF Save, pool, Fits, At, Goto, NoFault
  <2>2. /\ saved \in UserRow
        /\ IsA(r, "role") => saved.role = req[r].to /\ saved.status = req[r].copy.status
        /\ IsA(r, "status") => saved.status = req[r].to /\ saved.role = req[r].copy.role
    <3>1. CASE IsA(r, "role")
      <4>1. saved = [req[r].copy EXCEPT !.role = req[r].to] /\ req[r].to \in Roles
            BY <1>2, <3>1 DEF Saved, Fits
      <4> QED
          BY <2>1, <3>1, <4>1 DEF UserRow
    <3>2. CASE IsA(r, "status")
      <4>1. saved = [req[r].copy EXCEPT !.status = req[r].to] /\ req[r].to \in Statuses
            BY <1>2, <3>2 DEF Saved, Fits, Blocked, Statuses
      <4> QED
          BY <2>1, <3>2, <4>1 DEF UserRow
    <3> QED
        BY <2>1, <3>1, <3>2
  <2>3. CASE saved.status = "DELETED"
    <3>1. Same /\ Moves(r, "broken", req[r].copy, req[r].claim)
          BY <1>3, <1>5, <1>6, <1>20, <2>1, <2>3 DEF Save, Goto
    <3> QED
        BY <1>1, <1>8, <2>1, <3>1
  <2>4. CASE saved.status # "DELETED"
    <3>1. row' = saved /\ Moves(r, "done", req[r].copy, req[r].claim)
          BY <1>3, <1>5, <1>6, <1>20, <2>4 DEF Save, Goto
    <3>2. /\ Typed' /\ overlap' = overlap
          /\ \A q \in Requests \ {r} : req'[q] = req[q]
          /\ req'[r].kind = req[r].kind /\ req'[r].step = "done" /\ req'[r].to = req[r].to
          BY <1>1, <1>4, <2>1, <2>2, <3>1
    <3>3. /\ IsA(r, "role") /\ ~({"role", "status"} \subseteq overlap) => row'.status = row.status
          /\ IsA(r, "status") /\ ~({"role", "status"} \subseteq overlap) => row'.role = row.role
          BY <1>2, <2>1, <2>2, <3>1 DEF CopyIsCurrent
    <3>9. AllOut' = AllOut /\ (Guarded' => Guarded)
          BY <1>1, <1>24, <2>1, <3>2 DEF UnderWay, Ended
    <3>10. "sign_in" \notin overlap /\ row'.role # row.role => AllOut
          BY <1>2, <2>1, <2>2, <3>1 DEF SignedOut, StaleIsOut, Beside
    <3>4. EachRequest(r)'
      <4>1. Fits(r)'
            BY <1>2, <3>2 DEF Fits
      <4>2. /\ CopyIsCurrent(r)' /\ PassedIsOpen(r)' /\ SignedOut(r)' /\ StaleIsOut(r)' /\ ClaimIsCurrent(r)'
            /\ OthersLinked(r)'
            BY <3>2 DEF CopyIsCurrent, PassedIsOpen, SignedOut, StaleIsOut, ClaimIsCurrent, OthersLinked
      <4> QED
          BY <4>1, <4>2 DEF EachRequest
    <3>5. BlockedIsSignedOut'
      <4> SUFFICES ASSUME saved.status \in Blocked, ~Beside("status"), Guarded
                   PROVE  AllOut
          BY <2>1, <3>1, <3>2, <3>9 DEF BlockedIsSignedOut, Beside, Guarded
      <4>1. CASE IsA(r, "status")
            BY <1>2, <2>1, <2>2, <4>1 DEF SignedOut
      <4>2. CASE IsA(r, "role") /\ "status" \notin overlap
            BY <1>1, <1>2, <2>1, <2>2, <4>2 DEF CopyIsCurrent, BlockedIsSignedOut, Guarded
      <4>3. CASE IsA(r, "role") /\ "sign_in" \notin overlap
            BY <1>2, <2>1, <2>2, <4>3 DEF StaleIsOut
      <4> QED
          BY <2>1, <4>1, <4>2, <4>3 DEF Beside
    <3>6. ClaimIsRole'
      <4> SUFFICES ASSUME ~Beside("role")
                   PROVE  AllOut \/ saved.role = row.role
          BY <1>1, <2>1, <3>1, <3>2, <3>9 DEF ClaimIsRole, Beside, AllOut
      <4>1. CASE IsA(r, "role")
            BY <1>2, <2>1, <4>1 DEF SignedOut
      <4>2. CASE IsA(r, "status")
            BY <1>2, <2>1, <2>2, <4>2 DEF CopyIsCurrent, StaleIsOut, Beside
      <4> QED
          BY <2>1, <4>1, <4>2
    <3>7. /\ NoneBroken("status")' /\ IsA(r, "status") /\ "status" \notin overlap
               => (enabled' <=> row'.status \notin Blocked)
          /\ NoneBroken("role")' /\ IsA(r, "role") /\ "role" \notin overlap
               => attribute' = row'.role
          BY <1>1, <2>1, <2>2, <3>1, <3>2, WhileApplying DEF Applying
    <3>8. ~Applying(r, "status")' /\ ~Applying(r, "role")'
          BY <3>2 DEF Applying
    <3> QED
        BY <1>1, <2>1, <2>2, <3>1, <3>2, <3>3, <3>4, <3>5, <3>6, <3>7, <3>8, <3>9, <3>10 DEF Effect
  <2> QED
      BY <2>3, <2>4
<1>21. CASE Count(r)
  <2>1. PICK step \in {"remove", "refused"} : Goto(r, step) /\ (step = "remove" => Cardinality(accounts) > 1)
        BY <1>21 DEF Count
  <2>2. Moves(r, step, req[r].copy, req[r].claim) /\ unread' = unread /\ faults' = faults
        BY <1>3, <1>5, <1>6, <2>1 DEF Goto, NoFault
  <2>3. At(r, "count") /\ Same /\ UnderWay(r) /\ IsA(r, "unlink")
        BY <1>2, <1>6, <1>21 DEF Count, pool, Fits, At
  <2>4. /\ Fits(r)' /\ CopyIsCurrent(r)' /\ SignedOut(r)' /\ StaleIsOut(r)' /\ ClaimIsCurrent(r)'
        /\ OthersLinked(r)' /\ PassedIsOpen(r)'
        BY <1>2, <2>1, <2>2, <2>3
        DEF Moves, Fits, CopyIsCurrent, SignedOut, StaleIsOut, ClaimIsCurrent, OthersLinked, PassedIsOpen
  <2> QED
      BY <1>1, <1>7, <2>2, <2>3, <2>4
<1>22. CASE Remove(r)
  <2>1. /\ Moves(r, "done", req[r].copy, req[r].claim) /\ unread' = unread /\ faults' = faults
        BY <1>3, <1>5, <1>6, <1>22 DEF Remove, Goto, NoFault
  <2>2. /\ UnderWay(r) /\ IsA(r, "unlink") /\ In(r, {"remove"})
        /\ accounts' \subseteq accounts
        /\ UNCHANGED <<row, enabled, attribute, session, tokens>>
        BY <1>2, <1>6, <1>22 DEF Remove, pool, Fits, At
  <2>3. /\ Typed' /\ overlap' = overlap
        /\ \A q \in Requests \ {r} : req'[q] = req[q]
        /\ req'[r].kind = "unlink" /\ req'[r].step = "done"
        BY <1>1, <1>4, <2>1, <2>2
  <2>4. EachRequest(r)'
        BY <2>3 DEF EachRequest, Fits, CopyIsCurrent, PassedIsOpen, SignedOut, StaleIsOut, ClaimIsCurrent, OthersLinked
  <2>5. BlockedIsSignedOut' /\ ClaimIsRole' /\ AllOut' = AllOut
        BY <1>1, <1>24, <2>1, <2>2, <2>3 DEF UnderWay, Ended
  <2> QED
      BY <1>1, <2>1, <2>2, <2>3, <2>4, <2>5 DEF Effect
<1>23. CASE BreakOff(r)
  <2>1. /\ Same /\ UnderWay(r) /\ unread' = unread
        /\ faults' = faults + 1 /\ faults < MaxFaults
        BY <1>23 DEF BreakOff, pool
  <2>2. Moves(r, "broken", req[r].copy, req[r].claim)
        BY <1>3, <1>5, <1>6, <1>23 DEF BreakOff
  <2> QED
      BY <1>1, <1>8, <2>1, <2>2
<1> QED
    BY <1>9, <1>10, <1>11, <1>12, <1>13, <1>14, <1>15, <1>16, <1>17, <1>18, <1>19, <1>20,
       <1>21, <1>22, <1>23

LEMMA NextAccounts == AccountsInv /\ [Next]_vars => AccountsInv'
PROOF
<1>1. ASSUME AccountsInv, Next, ~Expire
      PROVE  AccountsInv'
  <2>1. PICK r \in Requests : Trigger(r) \/ Administer(r) \/ UnlinkSteps(r) \/ BreakOff(r)
        BY <1>1 DEF Next
  <2>2. Effect(r)
        BY <1>1, <2>1, BeginsEffect, StepEffect DEF Trigger, Administer, UnlinkSteps
  <2> QED
      BY <1>1, <2>2, EffectKeeps
<1>3. ASSUME AccountsInv, Expire
      PROVE  AccountsInv'
  <2>1. PICK t \in tokens : tokens' = tokens \ {t}
        BY <1>3 DEF Expire
  <2>2. UNCHANGED <<row, accounts, enabled, attribute, session, req, overlap, unread, faults>>
        BY <1>3 DEF Expire
  <2>3. tokens' \subseteq tokens /\ (AllOut => AllOut')
        BY <2>1, <2>2 DEF AllOut
  <2>4. Typed' /\ Apart'
        BY <1>3, <2>2, <2>3 DEF AccountsInv, Typed, Apart, UnderWay
  <2>5. /\ \A kind : NoneBroken(kind)' = NoneBroken(kind)
        /\ Guarded' = Guarded
        BY <2>2 DEF NoneBroken, Guarded
  <2>6. ASSUME NEW r \in Requests
        PROVE  EachRequest(r)'
    <3>1. EachRequest(r)
          BY <1>3 DEF AccountsInv
    <3>2. Fits(r)' /\ CopyIsCurrent(r)' /\ ClaimIsCurrent(r)' /\ OthersLinked(r)'
          BY <2>2, <3>1 DEF EachRequest, Fits, CopyIsCurrent, ClaimIsCurrent, OthersLinked, Beside, In, IsA
    <3>3. PassedIsOpen(r)' /\ SignedOut(r)' /\ StaleIsOut(r)'
          BY <2>2, <2>3, <2>5, <3>1 DEF EachRequest, PassedIsOpen, SignedOut, StaleIsOut, Beside, In, IsA
    <3> QED
        BY <3>2, <3>3 DEF EachRequest
  <2>7. AccessAgrees' /\ AttributeAgrees'
        BY <1>3, <2>2 DEF AccountsInv, AccessAgrees, AttributeAgrees, NoneBroken, Applying, In, IsA
  <2>8. BlockedIsSignedOut'
        BY <1>3, <2>2, <2>3, <2>5 DEF AccountsInv, BlockedIsSignedOut
  <2>9. ClaimIsRole'
        BY <1>3, <2>2, <2>3 DEF AccountsInv, ClaimIsRole
  <2> QED
      BY <2>4, <2>6, <2>7, <2>8, <2>9 DEF AccountsInv
<1>2. ASSUME AccountsInv, UNCHANGED vars
      PROVE  AccountsInv'
  <2> USE <1>2 DEF vars, pool
  <2>1. Typed' /\ Apart'
        BY DEF AccountsInv, Typed, Apart, UnderWay
  <2>2. \A r \in Requests : EachRequest(r)'
        BY DEF AccountsInv, EachRequest, Fits, CopyIsCurrent, PassedIsOpen, SignedOut, StaleIsOut,
               ClaimIsCurrent, OthersLinked, Beside, Guarded, AllOut, NoneBroken, In, IsA
  <2>3. AccessAgrees' /\ AttributeAgrees'
        BY DEF AccountsInv, AccessAgrees, AttributeAgrees, NoneBroken, Applying, In, IsA
  <2>4. BlockedIsSignedOut' /\ ClaimIsRole'
        BY DEF AccountsInv, BlockedIsSignedOut, ClaimIsRole, AllOut, NoneBroken
  <2> QED
      BY <2>1, <2>2, <2>3, <2>4 DEF AccountsInv
<1> QED
    BY <1>1, <1>2, <1>3

LEMMA Invariant == Spec => []AccountsInv
PROOF
BY InitAccounts, NextAccounts, PTL DEF Spec

-----------------------------------------------------------------------------
\* The variables have their types: a sign-in or a change that is about to write
\* holds the row it read (upsertOnPostAuth, changeUserStatus, changeUserRole).
THEOREM TypeCorrect == Spec => []TypeOK
PROOF
<1>1. AccountsInv => TypeOK
  <2> SUFFICES ASSUME AccountsInv PROVE TypeOK
      OBVIOUS
  <2>1. \A r \in Requests : /\ req[r].kind \in Kinds \cup {"none"}
                            /\ req[r].step \in Steps
                            /\ At(r, "upsert") \/ At(r, "save") => req[r].copy \in UserRow
        BY DEF AccountsInv, Typed, RequestRow, EachRequest, Fits, In, At
  <2> QED
      BY <2>1 DEF AccountsInv, Typed, TypeOK, Claimable
<1> QED
    BY Invariant, <1>1, PTL

\* Status changes made one at a time and carried through leave exactly the
\* blocked users disabled in the pool, and such role changes leave the row's role
\* there, whatever else overlaps (changeUserStatus after executeCognitoActions).
THEOREM PoolAgrees == Spec => []PoolMatchesRow
PROOF
<1>1. AccountsInv => PoolMatchesRow
  <2> SUFFICES ASSUME AccountsInv, row # None
               PROVE  /\ "status" \notin overlap /\ Settled("status") => (enabled <=> row.status \notin Blocked)
                      /\ "role" \notin overlap /\ Settled("role") => attribute = row.role
      BY DEF PoolMatchesRow
  <2>1. ASSUME NEW kind, Settled(kind)
        PROVE  NoneBroken(kind) /\ \A r \in Requests : ~Applying(r, kind)
        BY <2>1 DEF Settled, NoneBroken, Applying, In, IsA
  <2> QED
      BY <2>1 DEF AccountsInv, AccessAgrees, AttributeAgrees
<1> QED
    BY Invariant, <1>1, PTL

\* A blocked user is signed out: nothing renews its tokens, and those still
\* accepted were issued before the sign-out.  For sign-ins that do not overlap with
\* changes of status, and, once a trigger could not read the row, for changes of
\* status made one at a time and carried through (the sign-out precedes the write,
\* PreAuthentication looks at the row, and the pool at its own entry).
THEOREM BlockedSignedOut == Spec => []BlockedIsSignedOut
PROOF
BY Invariant, PTL DEF AccountsInv

\* Tokens issued since the last sign-out claim the row's role, or none if a trigger
\* could not read the row, where sign-ins do not overlap with changes of role
\* (PreTokenGeneration reads the row; the sign-out precedes the write).
THEOREM ClaimsAreRoles == Spec => []ClaimIsRole
PROOF
BY Invariant, PTL DEF AccountsInv

\* Only an administrator's request changes a status or a role, though every
\* sign-in and every change of the other writes both back (toUpdateModel).
THEOREM AdminsChange == Spec => OnlyAdminsChange
PROOF
<1>1. AccountsInv /\ [Next]_vars =>
        [/\ row # None /\ "status" \notin overlap /\ row'.status # row.status
              => \E r \in Requests : At(r, "save") /\ req[r].kind = "status"
         /\ row # None /\ "role" \notin overlap /\ row'.role # row.role
              => \E r \in Requests : At(r, "save") /\ req[r].kind = "role"]_row
  <2> SUFFICES ASSUME AccountsInv, Next
               PROVE  /\ row # None /\ "status" \notin overlap /\ row'.status # row.status
                           => \E r \in Requests : At(r, "save") /\ req[r].kind = "status"
                      /\ row # None /\ "role" \notin overlap /\ row'.role # row.role
                           => \E r \in Requests : At(r, "save") /\ req[r].kind = "role"
      BY DEF vars
  <2>1. CASE Expire
        BY <2>1 DEF Expire
  <2>2. ASSUME NEW r \in Requests, Trigger(r) \/ Administer(r) \/ UnlinkSteps(r) \/ BreakOff(r)
        PROVE  /\ row # None /\ "status" \notin overlap /\ row'.status # row.status
                    => At(r, "save") /\ req[r].kind = "status"
               /\ row # None /\ "role" \notin overlap /\ row'.role # row.role
                    => At(r, "save") /\ req[r].kind = "role"
    <3>1. Effect(r)
          BY <2>2, BeginsEffect, StepEffect DEF Trigger, Administer, UnlinkSteps
    <3> QED
        BY <3>1 DEF Effect, In, IsA, At
  <2> QED
      BY <2>1, <2>2 DEF Next
<1> QED
    BY Invariant, <1>1, PTL DEF Spec, OnlyAdminsChange

\* Unlinkings that do not overlap leave the user a provider (shouldAllowUnlinking
\* counts what removeProviderLink deletes from).
THEOREM ProviderStays == Spec => LastProviderKept
PROOF
<1>1. AccountsInv /\ [Next]_vars => [accounts' = {} => "unlink" \in overlap]_accounts
  <2> SUFFICES ASSUME AccountsInv, Next, accounts' # accounts, accounts' = {}
               PROVE  "unlink" \in overlap
      BY DEF vars
  <2>1. PICK r \in Requests : Trigger(r) \/ Administer(r) \/ UnlinkSteps(r) \/ BreakOff(r)
        BY DEF Next, Expire
  <2>2. Effect(r)
        BY <2>1, BeginsEffect, StepEffect DEF Trigger, Administer, UnlinkSteps
  <2>3. In(r, {"remove"}) /\ OthersLinked(r)
        BY <2>2 DEF Effect, AccountsInv, EachRequest
  <2>4. Remove(r)
        BY <2>1, <2>3 DEF Trigger, Administer, UnlinkSteps, BreakOff, In, At, SignIn, Renew, SetStatus, SetRole,
           Unlink, Begin, Idle, PreAuth, PreAuthUnread, FindLogin, Upsert, Claims, ClaimsUnread, Issue,
           SetAccess, SetAttribute, SignOut, Find, Save, Count, pool
  <2>5. accounts \subseteq {req[r].to}
        BY <2>4 DEF Remove
  <2>6. Cardinality(accounts) <= 1
    <3>1. IsFiniteSet({req[r].to}) /\ Cardinality({req[r].to}) = 1
          BY FS_Singleton
    <3> QED
        BY <2>5, <3>1, FS_Subset
  <2>7. IsFiniteSet(accounts) /\ Cardinality(accounts) \in Nat
        BY AccountsAssumption, FS_Subset, FS_CardinalityType DEF AccountsInv, Typed
  <2> QED
      BY <2>3, <2>6, <2>7 DEF OthersLinked
<1> QED
    BY Invariant, <1>1, PTL DEF Spec, LastProviderKept

=============================================================================
