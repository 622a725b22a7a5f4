-------------------------- MODULE Invitation_proofs --------------------------
(***************************************************************************)
(* For any number of requests, tokens and reminders: a signing's mark is   *)
(* never lost; in turn, a token marks one signing; and the reminders stay  *)
(* within the limit, as often as requests can pass the gate together.      *)
(***************************************************************************)
EXTENDS Invitation, FiniteSetTheorems, TLAPS

(***************************************************************************)
(* The inductive invariant                                                 *)
(***************************************************************************)
ReqRow == [step : {"idle"} \cup Steps, token : 0 .. MaxTokens,
           copy : TokenRow, count : Nat, row : BOOLEAN]

At(r, steps) == req[r].step \in steps
Copying == {"issued", "view", "mark_write", "resend"}

HasToken(r) ==
  At(r, Copying \cup {"give", "mark_read", "marked", "publish"}) => req[r].token \in Tokens

\* What a request writes back was read from a token that had been issued.
CopiesAToken(r) == At(r, Copying) => req[r].copy.status # "none"

UnsignedYet(t) == ~Exists(t) => ~token[t].signed

Alone == \A q, r \in Requests : req[q] # Idle /\ req[r] # Idle => q = r

\* In turn: a copy is what the row is, and only an unused token is marked.
CopyIsCurrent(r) ==
  /\ At(r, Copying) => req[r].copy = token[req[r].token]
  /\ At(r, {"mark_write"}) => req[r].copy.status # "SIGNED"

\* In turn: a token that was used says so.
UseIsSeen(t) ==
  /\ uses[t] <= 1
  /\ uses[t] = 1 \/ token[t].signed => token[t].status = "SIGNED"

TokenInv ==
  /\ TypeOK
  /\ \A r \in Requests : HasToken(r) /\ CopiesAToken(r)
  /\ \A t \in Tokens : UnsignedYet(t)
  /\ ~overlap =>
       /\ Alone
       /\ \A r \in Requests : CopyIsCurrent(r)
       /\ \A t \in Tokens : UseIsSeen(t)

\* Requests that remind: before and after their reminder is recorded.
Before == {"record_read", "record_write"}
After == {"pick", "resend", "publish"}
Reminders == {r \in Requests : At(r, Before \cup After)}

\* c intervals have been used up by the reminders there were and will be:
\* in the running one, as many as can be under way at once.
Counted(c) ==
  /\ \A r \in Requests : At(r, {"record_write"}) => req[r].count >= c
  /\ IF tracking.running
       THEN /\ c < MaxReminders
            /\ tracking.count >= c + 1
            /\ mails + Cardinality(Reminders) <= AtOnce * c + AtOnce
       ELSE /\ c <= MaxReminders
            /\ tracking.count >= c
            /\ mails <= AtOnce * c
            /\ Reminders # {} => tracking.count < MaxReminders
            /\ \A r \in Requests : ~At(r, After)

RemindersInv ==
  /\ TokenInv
  /\ \E c \in Nat : Counted(c)

LEMMA InitInvitation == Init => RemindersInv
PROOF
<1> SUFFICES ASSUME Init PROVE RemindersInv
    OBVIOUS
<1>1. /\ token = [t \in Tokens |-> NoToken] /\ uses = [t \in Tokens |-> 0]
      /\ expired = {} /\ given = {} /\ signer = "PENDING"
      /\ tracking = [count |-> 0, running |-> FALSE]
      /\ req = [r \in Requests |-> Idle]
      /\ mails = 0 /\ overlap \in BOOLEAN /\ begun = 0 /\ faults = 0
      BY DEF Init
<1>2. NoToken \in TokenRow
      BY DEF NoToken, TokenRow, Statuses
<1>3. Idle \in ReqRow
      BY <1>2, InvitationAssumption DEF Idle, ReqRow
<1>4. TypeOK
  <2>1. token \in [Tokens -> TokenRow] /\ req \in [Requests -> ReqRow] /\ uses \in [Tokens -> Nat]
        BY <1>1, <1>2, <1>3
  <2> QED
      BY <1>1, <2>1, InvitationAssumption DEF TypeOK, ReqRow
<1>5. \A r \in Requests : req[r] = Idle /\ req[r].step = "idle"
      BY <1>1 DEF Idle
<1>6. \A t \in Tokens : UnsignedYet(t) /\ UseIsSeen(t)
      BY <1>1 DEF UnsignedYet, UseIsSeen, NoToken
<1>7. TokenInv
      BY <1>4, <1>5, <1>6
      DEF TokenInv, HasToken, CopiesAToken, Alone, CopyIsCurrent, At, Copying
<1>8. Reminders = {} /\ \A r \in Requests : ~At(r, {"record_write"}) /\ ~At(r, After)
      BY <1>5 DEF Reminders, At, Before, After
<1>9. AtOnce * 0 = 0
  <2>1. AtOnce \in Nat
        BY InvitationAssumption, FS_CardinalityType DEF AtOnce
  <2> QED
      BY <2>1
<1>10. Counted(0)
      BY <1>1, <1>8, <1>9, InvitationAssumption DEF Counted
<1> QED
    BY <1>7, <1>10 DEF RemindersInv

(***************************************************************************)
(* Operators                                                               *)
(***************************************************************************)
LEMMA WriteStep ==
  ASSUME TypeOK, NEW t \in Tokens, NEW copy \in TokenRow, Write(t, copy)
  PROVE  /\ token' \in [Tokens -> TokenRow]
         /\ \A u \in Tokens \ {t} : token'[u] = token[u]
         /\ token'[t].status = copy.status
         /\ token'[t].resend = copy.resend
         /\ token'[t].signed = (copy.signed \/ token[t].signed)
PROOF
<1>1. token \in [Tokens -> TokenRow]
      BY DEF TypeOK
<1>2. PICK written : written = [copy EXCEPT !.signed = copy.signed \/ token[t].signed]
      OBVIOUS
<1>3. token' = [token EXCEPT ![t] = written]
      BY <1>2 DEF Write
<1>4. copy.signed \in BOOLEAN /\ token[t].signed \in BOOLEAN
      BY <1>1 DEF TokenRow
<1>5. /\ written \in TokenRow /\ written.status = copy.status /\ written.resend = copy.resend
      /\ written.signed = (copy.signed \/ token[t].signed)
      BY <1>2, <1>4 DEF TokenRow
<1> QED
    BY <1>1, <1>3, <1>5

\* A request moves to a record: one that continues, or one that begins.
LEMMA MoveStep ==
  ASSUME TypeOK, NEW r \in Requests, NEW record \in ReqRow,
         req' = [req EXCEPT ![r] = record]
  PROVE  /\ req' \in [Requests -> ReqRow]
         /\ req'[r] = record
         /\ \A q \in Requests \ {r} : req'[q] = req[q]
PROOF
<1>1. req \in [Requests -> ReqRow]
      BY DEF TypeOK, ReqRow
<1> QED
    BY <1>1

\* The row of a request that has ended, or has not begun.
LEMMA IdleRow == Idle \in ReqRow /\ NoToken \in TokenRow /\ Idle.step = "idle"
PROOF
<1>1. NoToken \in TokenRow
      BY DEF NoToken, TokenRow, Statuses
<1> QED
    BY <1>1, InvitationAssumption DEF Idle, ReqRow

(***************************************************************************)
(* One request's step                                                      *)
(***************************************************************************)
\* The outcomes of one request's step that keep TokenInv.
Effect(r) ==
  /\ TypeOK' /\ overlap' = overlap
  /\ \A q \in Requests \ {r} : req'[q] = req[q]
  /\ HasToken(r)' /\ CopiesAToken(r)'
  /\ \A t \in Tokens :
       \/ token'[t] = token[t]
       \/ token'[t].status # "none" /\ (token[t].signed => token'[t].signed)
  /\ ~overlap =>
       /\ req[r] = Idle => \A q \in Requests : req[q] = Idle
       /\ CopyIsCurrent(r)'
       /\ \A t \in Tokens : UseIsSeen(t)'

LEMMA EffectKeeps ==
  ASSUME TokenInv, NEW r \in Requests, Effect(r)
  PROVE  TokenInv'
PROOF
<1>1. \A q \in Requests \ {r} : req'[q] = req[q]
      BY DEF Effect
<1>2. \A q \in Requests : HasToken(q)' /\ CopiesAToken(q)'
      BY <1>1 DEF Effect, TokenInv, HasToken, CopiesAToken, At
<1>3. \A t \in Tokens : UnsignedYet(t)'
      BY DEF Effect, TokenInv, UnsignedYet, Exists
<1>4. ASSUME ~overlap
      PROVE  Alone' /\ \A q \in Requests : CopyIsCurrent(q)'
  <2>1. \A q \in Requests \ {r} : req'[q] = Idle
        BY <1>1, <1>4 DEF Effect, TokenInv, Alone
  <2>2. \A q \in Requests \ {r} : CopyIsCurrent(q)'
        BY <2>1 DEF CopyIsCurrent, At, Copying, Idle
  <2> QED
      BY <1>4, <2>1, <2>2 DEF Effect, Alone
<1> QED
    BY <1>2, <1>3, <1>4 DEF Effect, TokenInv

\* Steps that change no token, and no copy but by dropping or keeping it.
LEMMA QuietStep ==
  ASSUME TokenInv, NEW r \in Requests, UNCHANGED <<token, uses, overlap>>, TypeOK',
         \A q \in Requests \ {r} : req'[q] = req[q],
         ~overlap /\ req[r] = Idle => \A q \in Requests : req[q] = Idle,
         HasToken(r)',
         At(r, Copying)' =>
           /\ req'[r].copy.status # "none"
           /\ ~overlap => req'[r].copy = token[req'[r].token]
           /\ ~overlap /\ req'[r].step = "mark_write" => req'[r].copy.status # "SIGNED"
  PROVE  Effect(r)
PROOF
<1>1. CopiesAToken(r)' /\ (~overlap => CopyIsCurrent(r)')
      BY DEF CopiesAToken, CopyIsCurrent, At, Copying
<1>2. ~overlap => \A t \in Tokens : UseIsSeen(t)'
      BY DEF TokenInv, UseIsSeen
<1> QED
    BY <1>1, <1>2 DEF Effect

\* Steps that write a copy to its token, and leave the request without one or
\* publishing; only a mark changes what the token says of its use.
LEMMA CopyStep ==
  ASSUME TokenInv, NEW r \in Requests, NEW copy \in TokenRow,
         At(r, Copying), Write(req[r].token, copy),
         UNCHANGED overlap, TypeOK',
         \A q \in Requests \ {r} : req'[q] = req[q],
         HasToken(r)', ~At(r, Copying)',
         copy.status # "none",
         \/ /\ UNCHANGED uses
            /\ copy.signed = req[r].copy.signed
            /\ req[r].copy.status = "SIGNED" => copy.status = "SIGNED"
         \/ /\ req[r].step = "mark_write" /\ copy.status = "SIGNED"
            /\ uses' = [uses EXCEPT ![req[r].token] = @ + 1]
  PROVE  Effect(r)
PROOF
<1> PICK t \in Tokens : t = req[r].token
    BY DEF TokenInv, HasToken, At
<1>1. /\ \A u \in Tokens \ {t} : token'[u] = token[u]
      /\ token'[t].status = copy.status
      /\ token'[t].signed = (copy.signed \/ token[t].signed)
      BY WriteStep DEF TokenInv
<1>2. CopiesAToken(r)' /\ CopyIsCurrent(r)'
      BY DEF CopiesAToken, CopyIsCurrent, At, Copying
<1>3. req[r] # Idle
      BY DEF Idle, At, Copying
<1>4. ASSUME ~overlap, NEW u \in Tokens
      PROVE  UseIsSeen(u)'
  <2>1. UseIsSeen(u) /\ uses \in [Tokens -> Nat]
        BY <1>4 DEF TokenInv, TypeOK
  <2>2. CASE u # t
    <3>1. token'[u] = token[u] /\ uses'[u] = uses[u]
          BY <1>1, <2>1, <2>2
    <3> QED
        BY <2>1, <3>1 DEF UseIsSeen
  <2>3. CASE u = t
    <3>1. req[r].copy = token[t] /\ (req[r].step = "mark_write" => token[t].status # "SIGNED")
          BY <1>4 DEF TokenInv, CopyIsCurrent, At
    <3>2. token'[t].signed => copy.signed \/ token[t].signed
          BY <1>1
    <3>3. CASE UNCHANGED uses /\ copy.signed = req[r].copy.signed
               /\ (req[r].copy.status = "SIGNED" => copy.status = "SIGNED")
          BY <1>1, <2>1, <2>3, <3>1, <3>2, <3>3 DEF UseIsSeen
    <3>4. CASE req[r].step = "mark_write" /\ copy.status = "SIGNED"
               /\ uses' = [uses EXCEPT ![req[r].token] = @ + 1]
      <4>1. uses[t] = 0
            BY <2>1, <2>3, <3>1, <3>4 DEF UseIsSeen
      <4> QED
          BY <1>1, <2>1, <2>3, <3>4, <4>1 DEF UseIsSeen
    <3> QED
        BY <3>3, <3>4
  <2> QED
      BY <2>2, <2>3
<1> QED
    BY <1>1, <1>2, <1>3, <1>4 DEF Effect

LEMMA IssuingEffect ==
  ASSUME TokenInv, NEW r \in Requests, Issuing(r)
  PROVE  Effect(r)
PROOF
<1> USE DEF rows, told
<1>1. /\ req \in [Requests -> ReqRow] /\ token \in [Tokens -> TokenRow] /\ given \subseteq Tokens
      /\ uses \in [Tokens -> Nat] /\ begun \in Nat /\ MaxBegun \in Nat
      BY InvitationAssumption DEF TokenInv, TypeOK, ReqRow
<1>2. CASE Issue(r)
  <2>1. PICK t, new :
          /\ t \in Tokens /\ ~Exists(t)
          /\ new = [NoToken EXCEPT !.status = "ACTIVE"]
          /\ Begin(r, [Idle EXCEPT !.step = "issued", !.token = t, !.copy = new])
          /\ token' = [token EXCEPT ![t] = new]
          /\ UNCHANGED <<tracking, signer, told>>
        BY <1>2 DEF Issue
  <2> t \in Tokens
      BY <2>1
  <2>2. new = [status |-> "ACTIVE", resend |-> 0, signed |-> FALSE] /\ new \in TokenRow
        BY <2>1 DEF NoToken, TokenRow, Statuses
  <2> PICK record : record = [Idle EXCEPT !.step = "issued", !.token = t, !.copy = new]
      OBVIOUS
  <2>3. /\ record \in ReqRow
        /\ record.step = "issued" /\ record.token = t /\ record.copy = new
    <3>1. "issued" \in Steps
          BY DEF Steps
    <3>2. t \in 0 .. MaxTokens
          BY InvitationAssumption DEF Tokens
    <3> QED
        BY <2>2, <3>1, <3>2, IdleRow DEF ReqRow
  <2>4. /\ req' = [req EXCEPT ![r] = record]
        /\ req[r] = Idle /\ (overlap \/ req = [q \in Requests |-> Idle])
        /\ begun < MaxBegun /\ begun' = begun + 1 /\ UNCHANGED <<expired, overlap, faults>>
        BY <2>1, <2>3 DEF Begin
  <2>5. /\ req' \in [Requests -> ReqRow] /\ req'[r] = record
        /\ \A q \in Requests \ {r} : req'[q] = req[q]
        BY <1>1, <2>3, <2>4
  <2>6. /\ token' \in [Tokens -> TokenRow] /\ token'[t] = new
        /\ \A u \in Tokens \ {t} : token'[u] = token[u]
        BY <1>1, <2>1, <2>2
  <2>7. begun' \in 0 .. MaxBegun
        BY <1>1, <2>4
  <2>8. TypeOK'
        BY <2>1, <2>4, <2>5, <2>6, <2>7 DEF TokenInv, TypeOK, ReqRow
  <2>9. HasToken(r)' /\ CopiesAToken(r)' /\ CopyIsCurrent(r)'
    <3>1. HasToken(r)'
          BY <2>3, <2>5 DEF HasToken
    <3>2. CopiesAToken(r)'
          BY <2>2, <2>3, <2>5 DEF CopiesAToken
    <3>3. CopyIsCurrent(r)'
          BY <2>2, <2>3, <2>5, <2>6 DEF CopyIsCurrent, At
    <3> QED
        BY <3>1, <3>2, <3>3
  <2>10. \A u \in Tokens : /\ token'[u] = token[u] \/ token'[u].status # "none"
                           /\ token[u].signed => token'[u].signed
        BY <2>1, <2>2, <2>6 DEF TokenInv, UnsignedYet
  <2>11. ASSUME ~overlap, NEW u \in Tokens
         PROVE  UseIsSeen(u)'
    <3>1. UseIsSeen(u) /\ uses[u] \in Nat /\ uses' = uses
          BY <1>1, <2>1, <2>11 DEF TokenInv
    <3> QED
        BY <2>1, <2>2, <2>6, <3>1 DEF UseIsSeen, Exists
  <2> QED
      BY <2>4, <2>5, <2>8, <2>9, <2>10, <2>11 DEF Effect
<1>3. CASE IssueSent(r)
  <2> PICK copy : copy = [req[r].copy EXCEPT !.resend = req[r].copy.resend + 1]
      OBVIOUS
  <2> PICK record : record = [req[r] EXCEPT !.step = "give"]
      OBVIOUS
  <2>1. /\ req[r].step = "issued" /\ Write(req[r].token, copy) /\ req' = [req EXCEPT ![r] = record]
        /\ UNCHANGED <<tracking, signer, told, expired, overlap, begun, faults>>
        BY <1>3 DEF IssueSent, Goto, Continue
  <2>2. req[r].copy \in TokenRow /\ req[r].token \in Tokens /\ req[r].copy.status # "none"
        BY <1>1, <2>1 DEF ReqRow, TokenInv, HasToken, CopiesAToken, At, Copying
  <2>3. /\ copy \in TokenRow /\ copy.status = req[r].copy.status
        /\ copy.signed = req[r].copy.signed
        BY <2>2 DEF TokenRow
  <2>4. record \in ReqRow /\ record.step = "give" /\ record.token = req[r].token
        BY <1>1 DEF ReqRow, Steps
  <2>5. /\ req' \in [Requests -> ReqRow] /\ req'[r] = record
        /\ \A q \in Requests \ {r} : req'[q] = req[q]
        BY <1>1, <2>1, <2>4
  <2>6. TypeOK'
        BY <2>1, <2>2, <2>3, <2>5, WriteStep DEF TokenInv, TypeOK, ReqRow
  <2>7. HasToken(r)' /\ ~At(r, Copying)' /\ At(r, Copying)
        BY <2>1, <2>2, <2>4, <2>5 DEF HasToken, At, Copying
  <2> QED
      BY <2>1, <2>2, <2>3, <2>5, <2>6, <2>7, CopyStep
<1>4. CASE Give(r)
  <2>1. /\ req[r].step = "give" /\ given' = given \cup {req[r].token} /\ req' = [req EXCEPT ![r] = Idle]
        /\ UNCHANGED <<token, tracking, signer, mails, uses, expired, overlap, begun, faults>>
        BY <1>4 DEF Give, End, Continue
  <2>2. req[r].token \in Tokens /\ req[r] # Idle
        BY <2>1 DEF TokenInv, HasToken, At, Idle
  <2>3. /\ req' \in [Requests -> ReqRow] /\ req'[r] = Idle /\ Idle.step = "idle"
        /\ \A q \in Requests \ {r} : req'[q] = req[q]
    <3>1. Idle \in ReqRow /\ Idle.step = "idle"
          BY InvitationAssumption DEF Idle, NoToken, ReqRow, TokenRow, Statuses
    <3> QED
        BY <1>1, <2>1, <3>1
  <2>4. TypeOK'
        BY <1>1, <2>1, <2>2, <2>3 DEF TokenInv, TypeOK, ReqRow
  <2> QED
      BY <2>1, <2>2, <2>3, <2>4, QuietStep DEF HasToken, At, Copying
<1> QED
    BY <1>2, <1>3, <1>4 DEF Issuing

LEMMA ViewingEffect ==
  ASSUME TokenInv, NEW r \in Requests, Viewing(r)
  PROVE  Effect(r)
PROOF
<1> USE DEF rows, told
<1>1. /\ req \in [Requests -> ReqRow] /\ token \in [Tokens -> TokenRow] /\ given \subseteq Tokens
      /\ begun \in Nat /\ MaxBegun \in Nat
      BY InvitationAssumption DEF TokenInv, TypeOK, ReqRow
<1>2. CASE View(r)
  <2> PICK t \in given :
        /\ Valid(t)
        /\ Begin(r, [Idle EXCEPT !.step = "view", !.token = t, !.copy = token[t]])
        /\ UNCHANGED <<rows, told>>
      BY <1>2 DEF View
  <2> PICK record : record = [Idle EXCEPT !.step = "view", !.token = t, !.copy = token[t]]
      OBVIOUS
  <2>1. t \in Tokens /\ token[t] \in TokenRow /\ token[t].status # "none"
        BY <1>1 DEF Valid, Exists
  <2>2. record \in ReqRow /\ record.step = "view" /\ record.token = t /\ record.copy = token[t]
    <3>1. "view" \in Steps
          BY DEF Steps
    <3>2. t \in 0 .. MaxTokens
          BY <2>1, InvitationAssumption DEF Tokens
    <3> QED
        BY <2>1, <3>1, <3>2, IdleRow DEF ReqRow
  <2>3. /\ req' = [req EXCEPT ![r] = record]
        /\ req[r] = Idle /\ (overlap \/ req = [q \in Requests |-> Idle])
        /\ begun < MaxBegun /\ begun' = begun + 1 /\ UNCHANGED <<expired, overlap, faults>>
        BY DEF Begin
  <2>4. /\ req' \in [Requests -> ReqRow] /\ req'[r] = record
        /\ \A q \in Requests \ {r} : req'[q] = req[q]
        BY <1>1, <2>2, <2>3
  <2>5. begun' \in 0 .. MaxBegun
        BY <1>1, <2>3
  <2>6. TypeOK'
        BY <2>3, <2>4, <2>5 DEF TokenInv, TypeOK, ReqRow
  <2> QED
      BY <2>1, <2>2, <2>3, <2>4, <2>6, QuietStep DEF HasToken
<1>3. CASE ViewWrite(r)
  <2> PICK copy : copy = [req[r].copy EXCEPT !.status = IF req[r].copy.status = "ACTIVE" THEN "VIEWED" ELSE req[r].copy.status]
      OBVIOUS
  <2>1. /\ req[r].step = "view" /\ Write(req[r].token, copy) /\ req' = [req EXCEPT ![r] = Idle]
        /\ UNCHANGED <<tracking, signer, told, expired, overlap, begun, faults>>
        BY <1>3 DEF ViewWrite, End, Continue
  <2>2. req[r].copy \in TokenRow /\ req[r].token \in Tokens /\ req[r].copy.status # "none"
        BY <1>1, <2>1 DEF ReqRow, TokenInv, HasToken, CopiesAToken, At, Copying
  <2>3. /\ copy \in TokenRow /\ copy.status # "none"
        /\ req[r].copy.status = "SIGNED" => copy.status = "SIGNED"
        /\ copy.signed = req[r].copy.signed
        BY <2>2 DEF TokenRow, Statuses
  <2>4. /\ req' \in [Requests -> ReqRow] /\ req'[r] = Idle
        /\ \A q \in Requests \ {r} : req'[q] = req[q]
        BY <1>1, <2>1, IdleRow
  <2>5. TypeOK'
        BY <2>1, <2>2, <2>3, <2>4, WriteStep DEF TokenInv, TypeOK, ReqRow
  <2>6. HasToken(r)' /\ ~At(r, Copying)' /\ At(r, Copying)
        BY <2>1, <2>4, IdleRow DEF HasToken, At, Copying
  <2> QED
      BY <2>1, <2>2, <2>3, <2>4, <2>5, <2>6, CopyStep
<1> QED
    BY <1>2, <1>3 DEF Viewing

LEMMA SigningEffect ==
  ASSUME TokenInv, NEW r \in Requests, Signing(r)
  PROVE  Effect(r)
PROOF
<1> USE DEF rows, told
<1>1. /\ req \in [Requests -> ReqRow] /\ token \in [Tokens -> TokenRow] /\ given \subseteq Tokens
      /\ uses \in [Tokens -> Nat] /\ begun \in Nat /\ MaxBegun \in Nat
      BY InvitationAssumption DEF TokenInv, TypeOK, ReqRow
\* A request goes on to a step, or ends.
<1>2. ASSUME Marked(r), HasToken(r), req[r].token \in Tokens
      PROVE  /\ req' \in [Requests -> ReqRow]
             /\ \A q \in Requests \ {r} : req'[q] = req[q]
             /\ ~At(r, Copying)' /\ HasToken(r)'
             /\ UNCHANGED <<expired, overlap, begun, faults>>
  <2>1. CASE req[r].row
    <3> PICK record : record = [req[r] EXCEPT !.step = "marked"]
        OBVIOUS
    <3>1. record \in ReqRow /\ record.step = "marked" /\ record.token = req[r].token
          BY <1>1 DEF ReqRow, Steps
    <3>2. req' = [req EXCEPT ![r] = record] /\ UNCHANGED <<expired, overlap, begun, faults>>
          BY <1>2, <2>1 DEF Marked, Goto, Continue
    <3>3. /\ req' \in [Requests -> ReqRow] /\ req'[r] = record
          /\ \A q \in Requests \ {r} : req'[q] = req[q]
          BY <1>1, <3>1, <3>2
    <3> QED
        BY <1>2, <3>1, <3>2, <3>3 DEF HasToken, At, Copying
  <2>2. CASE ~req[r].row
    <3>1. req' = [req EXCEPT ![r] = Idle] /\ UNCHANGED <<expired, overlap, begun, faults>>
          BY <1>2, <2>2 DEF Marked, End, Continue
    <3>2. /\ req' \in [Requests -> ReqRow] /\ req'[r] = Idle
          /\ \A q \in Requests \ {r} : req'[q] = req[q]
          BY <1>1, <3>1, IdleRow
    <3> QED
        BY <3>1, <3>2, IdleRow DEF HasToken, At, Copying
  <2> QED
      BY <2>1, <2>2
<1>3. CASE Sign(r)
  <2> PICK t \in given :
        /\ Begin(r, [Idle EXCEPT !.step = "mark_read", !.token = t, !.row = TRUE])
        /\ UNCHANGED <<rows, told>>
      BY <1>3 DEF Sign
  <2> PICK record : record = [Idle EXCEPT !.step = "mark_read", !.token = t, !.row = TRUE]
      OBVIOUS
  <2>1. t \in Tokens
        BY <1>1
  <2>2. record \in ReqRow /\ record.step = "mark_read" /\ record.token = t
    <3>1. "mark_read" \in Steps
          BY DEF Steps
    <3>2. t \in 0 .. MaxTokens
          BY <2>1, InvitationAssumption DEF Tokens
    <3> QED
        BY <2>1, <3>1, <3>2, IdleRow DEF ReqRow
  <2>3. /\ req' = [req EXCEPT ![r] = record]
        /\ req[r] = Idle /\ (overlap \/ req = [q \in Requests |-> Idle])
        /\ begun < MaxBegun /\ begun' = begun + 1 /\ UNCHANGED <<expired, overlap, faults>>
        BY DEF Begin
  <2>4. /\ req' \in [Requests -> ReqRow] /\ req'[r] = record
        /\ \A q \in Requests \ {r} : req'[q] = req[q]
        BY <1>1, <2>2, <2>3
  <2>5. begun' \in 0 .. MaxBegun
        BY <1>1, <2>3
  <2>6. TypeOK'
        BY <2>3, <2>4, <2>5 DEF TokenInv, TypeOK, ReqRow
  <2> QED
      BY <2>1, <2>2, <2>3, <2>4, <2>6, QuietStep DEF HasToken, At, Copying
<1>4. CASE MarkRead(r)
  <2> PICK t : t = req[r].token
      OBVIOUS
  <2>1. req[r].step = "mark_read" /\ UNCHANGED <<rows, told>> /\ t \in Tokens /\ req[r] # Idle
        BY <1>4, IdleRow DEF MarkRead, TokenInv, HasToken, At
  <2>2. CASE Valid(t) /\ Continue(r, [req[r] EXCEPT !.step = "mark_write", !.copy = token[t]])
    <3> PICK record : record = [req[r] EXCEPT !.step = "mark_write", !.copy = token[t]]
        OBVIOUS
    <3>1. token[t] \in TokenRow /\ token[t].status # "none" /\ token[t].status # "SIGNED"
          BY <1>1, <2>1, <2>2 DEF Valid, Exists
    <3>2. /\ record \in ReqRow /\ record.step = "mark_write"
          /\ record.token = t /\ record.copy = token[t]
      <4>1. "mark_write" \in Steps
            BY DEF Steps
      <4> QED
          BY <1>1, <3>1, <4>1 DEF ReqRow
    <3>3. req' = [req EXCEPT ![r] = record] /\ UNCHANGED <<expired, overlap, begun, faults>>
          BY <2>2 DEF Continue
    <3>4. /\ req' \in [Requests -> ReqRow] /\ req'[r] = record
          /\ \A q \in Requests \ {r} : req'[q] = req[q]
          BY <1>1, <3>2, <3>3
    <3>5. TypeOK'
          BY <2>1, <3>3, <3>4 DEF TokenInv, TypeOK, ReqRow
    <3> QED
        BY <2>1, <3>1, <3>2, <3>3, <3>4, <3>5, QuietStep DEF HasToken
  <2>3. CASE Marked(r)
    <3>1. HasToken(r)
          BY DEF TokenInv
    <3>2. TypeOK'
          BY <1>2, <2>1, <2>3, <3>1 DEF TokenInv, TypeOK, ReqRow
    <3> QED
        BY <1>2, <2>1, <2>3, <3>1, <3>2, QuietStep
  <2> QED
      BY <1>4, <2>2, <2>3 DEF MarkRead
<1>5. CASE MarkWrite(r)
  <2> PICK copy : copy = [req[r].copy EXCEPT !.status = "SIGNED", !.signed = TRUE]
      OBVIOUS
  <2>1. /\ req[r].step = "mark_write" /\ Write(req[r].token, copy) /\ Marked(r)
        /\ uses' = [uses EXCEPT ![req[r].token] = @ + 1]
        /\ UNCHANGED <<tracking, signer, given, mails>>
        BY <1>5 DEF MarkWrite
  <2>2. req[r].copy \in TokenRow /\ req[r].token \in Tokens /\ HasToken(r)
        BY <1>1, <2>1 DEF ReqRow, TokenInv, HasToken, At, Copying
  <2>3. copy \in TokenRow /\ copy.status = "SIGNED"
        BY <2>2 DEF TokenRow, Statuses
  <2>4. uses' \in [Tokens -> Nat]
        BY <1>1, <2>1, <2>2
  <2>5. /\ req' \in [Requests -> ReqRow]
        /\ \A q \in Requests \ {r} : req'[q] = req[q]
        /\ ~At(r, Copying)' /\ HasToken(r)'
        /\ UNCHANGED <<expired, overlap, begun, faults>>
        BY <1>2, <2>1, <2>2
  <2>6. TypeOK'
        BY <2>1, <2>2, <2>3, <2>4, <2>5, WriteStep DEF TokenInv, TypeOK, ReqRow
  <2>7. At(r, Copying)
        BY <2>1 DEF At, Copying
  <2> QED
      BY <2>1, <2>2, <2>3, <2>5, <2>6, <2>7, CopyStep
<1>6. CASE SignRow(r)
  <2>1. signer' \in {"SIGNED", signer} /\ UNCHANGED <<token, tracking, told>> /\ req[r].row
        BY <1>6 DEF SignRow
  <2>2. req[r] # Idle
        BY <2>1 DEF Idle
  <2>3. CASE End(r)
    <3>1. req' = [req EXCEPT ![r] = Idle] /\ UNCHANGED <<expired, overlap, begun, faults>>
          BY <2>3 DEF End, Continue
    <3>2. /\ req' \in [Requests -> ReqRow] /\ req'[r] = Idle
          /\ \A q \in Requests \ {r} : req'[q] = req[q]
          BY <1>1, <3>1, IdleRow
    <3>3. TypeOK'
          BY <2>1, <3>1, <3>2 DEF TokenInv, TypeOK, ReqRow
    <3> QED
        BY <2>1, <2>2, <3>1, <3>2, <3>3, IdleRow, QuietStep DEF HasToken, At, Copying
  <2>4. CASE Continue(r, [req[r] EXCEPT !.row = FALSE])
    <3> PICK record : record = [req[r] EXCEPT !.row = FALSE]
        OBVIOUS
    <3>1. /\ record \in ReqRow /\ record.step = req[r].step
          /\ record.token = req[r].token /\ record.copy = req[r].copy
          BY <1>1 DEF ReqRow
    <3>2. req' = [req EXCEPT ![r] = record] /\ UNCHANGED <<expired, overlap, begun, faults>>
          BY <2>4 DEF Continue
    <3>3. /\ req' \in [Requests -> ReqRow] /\ req'[r] = record
          /\ \A q \in Requests \ {r} : req'[q] = req[q]
          BY <1>1, <3>1, <3>2
    <3>4. TypeOK'
          BY <2>1, <3>2, <3>3 DEF TokenInv, TypeOK, ReqRow
    <3>5. HasToken(r) /\ CopiesAToken(r) /\ (~overlap => CopyIsCurrent(r))
          BY DEF TokenInv
    <3>6. /\ HasToken(r)'
          /\ At(r, Copying)' =>
               /\ req'[r].copy.status # "none"
               /\ ~overlap => req'[r].copy = token[req'[r].token]
               /\ ~overlap /\ req'[r].step = "mark_write" => req'[r].copy.status # "SIGNED"
          BY <3>1, <3>3, <3>5 DEF HasToken, CopiesAToken, CopyIsCurrent, At
    <3> QED
        BY <2>1, <2>2, <3>2, <3>3, <3>4, <3>6, QuietStep
  <2> QED
      BY <1>6, <2>3, <2>4 DEF SignRow
<1> QED
    BY <1>3, <1>4, <1>5, <1>6 DEF Signing

LEMMA RemindingEffect ==
  ASSUME TokenInv, NEW r \in Requests, Reminding(r)
  PROVE  Effect(r)
PROOF
<1> USE DEF rows, told
<1>1. /\ req \in [Requests -> ReqRow] /\ token \in [Tokens -> TokenRow]
      /\ tracking \in [count : Nat, running : BOOLEAN] /\ mails \in Nat
      /\ begun \in Nat /\ MaxBegun \in Nat
      BY InvitationAssumption DEF TokenInv, TypeOK, ReqRow
<1>2. CASE Remind(r)
  <2> PICK record : record = [Idle EXCEPT !.step = "record_read"]
      OBVIOUS
  <2>1. record \in ReqRow /\ record.step = "record_read"
        BY IdleRow DEF ReqRow, Steps
  <2>2. /\ req' = [req EXCEPT ![r] = record] /\ UNCHANGED <<rows, told>>
        /\ req[r] = Idle /\ (overlap \/ req = [q \in Requests |-> Idle])
        /\ begun < MaxBegun /\ begun' = begun + 1 /\ UNCHANGED <<expired, overlap, faults>>
        BY <1>2 DEF Remind, Begin
  <2>3. /\ req' \in [Requests -> ReqRow] /\ req'[r] = record
        /\ \A q \in Requests \ {r} : req'[q] = req[q]
        BY <1>1, <2>1, <2>2
  <2>4. begun' \in 0 .. MaxBegun
        BY <1>1, <2>2
  <2>5. TypeOK'
        BY <2>2, <2>3, <2>4 DEF TokenInv, TypeOK, ReqRow
  <2> QED
      BY <2>1, <2>2, <2>3, <2>5, QuietStep DEF HasToken, At, Copying
<1>3. CASE RecordRead(r)
  <2> PICK record : record = [req[r] EXCEPT !.step = "record_write", !.count = tracking.count]
      OBVIOUS
  <2>1. record \in ReqRow /\ record.step = "record_write"
        BY <1>1 DEF ReqRow, Steps
  <2>2. /\ req' = [req EXCEPT ![r] = record] /\ UNCHANGED <<rows, told, expired, overlap, begun, faults>>
        /\ req[r].step = "record_read"
        BY <1>3 DEF RecordRead, Continue
  <2>3. /\ req' \in [Requests -> ReqRow] /\ req'[r] = record
        /\ \A q \in Requests \ {r} : req'[q] = req[q]
        BY <1>1, <2>1, <2>2
  <2>4. TypeOK'
        BY <2>2, <2>3 DEF TokenInv, TypeOK, ReqRow
  <2> QED
      BY <2>1, <2>2, <2>3, <2>4, IdleRow, QuietStep DEF HasToken, At, Copying
<1>4. CASE RecordWrite(r)
  <2> PICK record : record = [req[r] EXCEPT !.step = "pick"]
      OBVIOUS
  <2>1. record \in ReqRow /\ record.step = "pick" /\ req[r].count \in Nat
        BY <1>1 DEF ReqRow, Steps
  <2>2. /\ req' = [req EXCEPT ![r] = record]
        /\ UNCHANGED <<token, signer, told, expired, overlap, begun, faults>>
        /\ tracking' = [count |-> req[r].count + 1, running |-> TRUE]
        /\ req[r].step = "record_write"
        BY <1>4 DEF RecordWrite, Goto, Continue
  <2>3. /\ req' \in [Requests -> ReqRow] /\ req'[r] = record
        /\ \A q \in Requests \ {r} : req'[q] = req[q]
        BY <1>1, <2>1, <2>2
  <2>4. tracking' \in [count : Nat, running : BOOLEAN]
        BY <2>1, <2>2
  <2>5. TypeOK'
        BY <2>2, <2>3, <2>4 DEF TokenInv, TypeOK, ReqRow
  <2> QED
      BY <2>1, <2>2, <2>3, <2>5, IdleRow, QuietStep DEF HasToken, At, Copying
<1>5. CASE Pick(r)
  <2>1. UNCHANGED <<rows, told>> /\ req[r].step = "pick"
        BY <1>5 DEF Pick
  <2>2. CASE End(r)
    <3>1. req' = [req EXCEPT ![r] = Idle] /\ UNCHANGED <<expired, overlap, begun, faults>>
          BY <2>2 DEF End, Continue
    <3>2. /\ req' \in [Requests -> ReqRow] /\ req'[r] = Idle
          /\ \A q \in Requests \ {r} : req'[q] = req[q]
          BY <1>1, <3>1, IdleRow
    <3>3. TypeOK'
          BY <2>1, <3>1, <3>2 DEF TokenInv, TypeOK, ReqRow
    <3> QED
        BY <2>1, <3>1, <3>2, <3>3, IdleRow, QuietStep DEF HasToken, At, Copying
  <2>3. ASSUME NEW t \in Tokens, Exists(t),
               Continue(r, [req[r] EXCEPT !.step = "resend", !.token = t, !.copy = token[t]])
        PROVE  Effect(r)
    <3> PICK record : record = [req[r] EXCEPT !.step = "resend", !.token = t, !.copy = token[t]]
        OBVIOUS
    <3>1. token[t] \in TokenRow /\ token[t].status # "none"
          BY <1>1, <2>3 DEF Exists
    <3>2. /\ record \in ReqRow /\ record.step = "resend"
          /\ record.token = t /\ record.copy = token[t]
      <4>1. "resend" \in Steps
            BY DEF Steps
      <4>2. t \in 0 .. MaxTokens
            BY InvitationAssumption DEF Tokens
      <4> QED
          BY <1>1, <3>1, <4>1, <4>2 DEF ReqRow
    <3>3. req' = [req EXCEPT ![r] = record] /\ UNCHANGED <<expired, overlap, begun, faults>>
          BY <2>3 DEF Continue
    <3>4. /\ req' \in [Requests -> ReqRow] /\ req'[r] = record
          /\ \A q \in Requests \ {r} : req'[q] = req[q]
          BY <1>1, <3>2, <3>3
    <3>5. TypeOK'
          BY <2>1, <3>3, <3>4 DEF TokenInv, TypeOK, ReqRow
    <3> QED
        BY <2>1, <3>1, <3>2, <3>3, <3>4, <3>5, IdleRow, QuietStep DEF HasToken
  <2> QED
      BY <1>5, <2>2, <2>3 DEF Pick
<1>6. CASE Resend(r)
  <2>1. req[r].step = "resend" /\ UNCHANGED <<tracking, signer, told>> /\ req[r].token \in Tokens
        BY <1>6 DEF Resend, TokenInv, HasToken, At, Copying
  <2>2. CASE Write(req[r].token, [req[r].copy EXCEPT !.resend = @ + 1]) /\ Goto(r, "publish")
    <3> PICK copy : copy = [req[r].copy EXCEPT !.resend = req[r].copy.resend + 1]
        OBVIOUS
    <3> PICK record : record = [req[r] EXCEPT !.step = "publish"]
        OBVIOUS
    <3>1. /\ Write(req[r].token, copy) /\ req' = [req EXCEPT ![r] = record]
          /\ UNCHANGED <<expired, overlap, begun, faults>>
          BY <2>2 DEF Goto, Continue
    <3>2. req[r].copy \in TokenRow /\ req[r].copy.status # "none"
          BY <1>1, <2>1 DEF ReqRow, TokenInv, CopiesAToken, At, Copying
    <3>3. /\ copy \in TokenRow /\ copy.status = req[r].copy.status
          /\ copy.signed = req[r].copy.signed
          BY <3>2 DEF TokenRow
    <3>4. record \in ReqRow /\ record.step = "publish" /\ record.token = req[r].token
          BY <1>1 DEF ReqRow, Steps
    <3>5. /\ req' \in [Requests -> ReqRow] /\ req'[r] = record
          /\ \A q \in Requests \ {r} : req'[q] = req[q]
          BY <1>1, <3>1, <3>4
    <3>6. TypeOK'
          BY <2>1, <3>1, <3>3, <3>5, WriteStep DEF TokenInv, TypeOK, ReqRow
    <3>7. HasToken(r)' /\ ~At(r, Copying)' /\ At(r, Copying)
          BY <2>1, <3>4, <3>5 DEF HasToken, At, Copying
    <3> QED
        BY <2>1, <3>1, <3>2, <3>3, <3>5, <3>6, <3>7, CopyStep
  <2>3. CASE End(r) /\ UNCHANGED token
    <3>1. req' = [req EXCEPT ![r] = Idle] /\ UNCHANGED <<expired, overlap, begun, faults>>
          BY <2>3 DEF End, Continue
    <3>2. /\ req' \in [Requests -> ReqRow] /\ req'[r] = Idle
          /\ \A q \in Requests \ {r} : req'[q] = req[q]
          BY <1>1, <3>1, IdleRow
    <3>3. TypeOK'
          BY <2>1, <2>3, <3>1, <3>2 DEF TokenInv, TypeOK, ReqRow
    <3> QED
        BY <2>1, <2>3, <3>1, <3>2, <3>3, IdleRow, QuietStep DEF HasToken, At, Copying
  <2> QED
      BY <1>6, <2>2, <2>3 DEF Resend
<1>7. CASE Publish(r)
  <2>1. /\ req[r].step = "publish" /\ mails' = mails + 1 /\ req' = [req EXCEPT ![r] = Idle]
        /\ UNCHANGED <<rows, given, uses, expired, overlap, begun, faults>>
        BY <1>7 DEF Publish, End, Continue
  <2>2. /\ req' \in [Requests -> ReqRow] /\ req'[r] = Idle
        /\ \A q \in Requests \ {r} : req'[q] = req[q]
        BY <1>1, <2>1, IdleRow
  <2>3. TypeOK'
        BY <1>1, <2>1, <2>2 DEF TokenInv, TypeOK, ReqRow
  <2> QED
      BY <2>1, <2>2, <2>3, IdleRow, QuietStep DEF HasToken, At, Copying
<1> QED
    BY <1>2, <1>3, <1>4, <1>5, <1>6, <1>7 DEF Reminding

LEMMA FailureEffect ==
  ASSUME TokenInv, NEW r \in Requests, BreakOff(r) \/ MarkFails(r)
  PROVE  Effect(r)
PROOF
<1> USE DEF rows, told
<1>1. /\ req \in [Requests -> ReqRow]
      /\ faults < MaxFaults /\ faults' = faults + 1 /\ faults' \in 0 .. MaxFaults
      /\ UNCHANGED <<rows, told, expired, overlap, begun>>
      BY InvitationAssumption DEF TokenInv, TypeOK, ReqRow, BreakOff, MarkFails
<1>2. req[r] # Idle
      BY DEF BreakOff, MarkFails, Idle, Steps
<1>3. ASSUME req' \in [Requests -> ReqRow] PROVE TypeOK'
      BY <1>1, <1>3 DEF TokenInv, TypeOK, ReqRow
<1>4. CASE BreakOff(r)
  <2>1. /\ req' \in [Requests -> ReqRow] /\ req'[r] = Idle
        /\ \A q \in Requests \ {r} : req'[q] = req[q]
        BY <1>1, <1>4, IdleRow DEF BreakOff
  <2> QED
      BY <1>1, <1>2, <1>3, <2>1, IdleRow, QuietStep DEF HasToken, At, Copying
<1>5. CASE MarkFails(r)
  <2> PICK record : record = [req[r] EXCEPT !.step = "marked"]
      OBVIOUS
  <2>1. record \in ReqRow /\ record.step = "marked" /\ record.token = req[r].token
        BY <1>1 DEF ReqRow, Steps
  <2>2. req' = [req EXCEPT ![r] = record] /\ req[r].step \in {"mark_read", "mark_write"}
        BY <1>5 DEF MarkFails
  <2>3. /\ req' \in [Requests -> ReqRow] /\ req'[r] = record
        /\ \A q \in Requests \ {r} : req'[q] = req[q]
        BY <1>1, <2>1, <2>2
  <2>4. HasToken(r)' /\ ~At(r, Copying)'
        BY <2>1, <2>2, <2>3 DEF TokenInv, HasToken, At, Copying
  <2> QED
      BY <1>1, <1>2, <1>3, <2>3, <2>4, QuietStep
<1> QED
    BY <1>4, <1>5

LEMMA RequestEffect ==
  ASSUME TokenInv, NEW r \in Requests,
         Issuing(r) \/ Viewing(r) \/ Signing(r) \/ Reminding(r) \/ BreakOff(r) \/ MarkFails(r)
  PROVE  Effect(r)
PROOF BY IssuingEffect, ViewingEffect, SigningEffect, RemindingEffect, FailureEffect

\* Time: the tokens and the requests stay as they are.
LEMMA TimeStep ==
  ASSUME TokenInv, Expire \/ Elapse \/ UNCHANGED vars
  PROVE  /\ TokenInv'
         /\ UNCHANGED <<token, req, uses, mails, overlap>>
PROOF
<1> USE DEF rows, told
<1>1. UNCHANGED <<token, signer, told, req, overlap, begun, faults>>
      BY DEF Expire, Elapse, vars
<1>2. TypeOK'
  <2>1. expired' \subseteq Tokens
        BY DEF TokenInv, TypeOK, Expire, Elapse, vars
  <2>2. tracking' \in [count : Nat, running : BOOLEAN]
    <3>1. tracking \in [count : Nat, running : BOOLEAN]
          BY DEF TokenInv, TypeOK
    <3>2. CASE Elapse
          BY <3>1, <3>2 DEF Elapse
    <3>3. CASE UNCHANGED tracking
          BY <3>1, <3>3
    <3> QED
        BY <3>2, <3>3 DEF Expire, vars
  <2> QED
      BY <1>1, <2>1, <2>2 DEF TokenInv, TypeOK
<1> QED
    BY <1>1, <1>2
    DEF TokenInv, HasToken, CopiesAToken, UnsignedYet, Alone, CopyIsCurrent, UseIsSeen, At, Exists

LEMMA NextToken == TokenInv /\ [Next]_vars => TokenInv'
PROOF
<1> SUFFICES ASSUME TokenInv, [Next]_vars PROVE TokenInv'
    OBVIOUS
<1>1. ASSUME NEW r \in Requests,
             Issuing(r) \/ Viewing(r) \/ Signing(r) \/ Reminding(r) \/ BreakOff(r) \/ MarkFails(r)
      PROVE  TokenInv'
      BY <1>1, RequestEffect, EffectKeeps
<1>2. CASE Expire \/ Elapse \/ UNCHANGED vars
      BY <1>2, TimeStep
<1> QED
    BY <1>1, <1>2 DEF Next

(***************************************************************************)
(* Counting the reminders                                                  *)
(***************************************************************************)
\* Never more requests remind than can be under way at once.
LEMMA RemindersAtOnce ==
  ASSUME TokenInv
  PROVE  /\ IsFiniteSet(Reminders) /\ Cardinality(Reminders) \in Nat
         /\ AtOnce \in Nat /\ Cardinality(Reminders) <= AtOnce
PROOF
<1>1. Reminders \in SUBSET Requests /\ IsFiniteSet(Requests)
      BY InvitationAssumption DEF Reminders
<1>2. IsFiniteSet(Reminders) /\ Cardinality(Reminders) <= Cardinality(Requests)
      BY <1>1, FS_Subset
<1>3. Cardinality(Reminders) \in Nat /\ Cardinality(Requests) \in Nat
      BY <1>1, <1>2, FS_CardinalityType
<1>4. CASE overlap
      BY <1>2, <1>3, <1>4 DEF AtOnce
<1>5. CASE ~overlap
  <2>1. \A q, r \in Reminders : q = r
    <3>1. \A q \in Reminders : q \in Requests /\ req[q] # Idle
          BY DEF Reminders, At, Before, After, Idle
    <3> QED
        BY <1>5, <3>1 DEF TokenInv, Alone
  <2>2. Cardinality(Reminders) <= 1
    <3>1. CASE Reminders = {}
          BY <3>1, FS_EmptySet
    <3>2. CASE Reminders # {}
      <4>1. PICK r : Reminders = {r}
            BY <2>1, <3>2
      <4> QED
          BY <4>1, FS_Singleton
    <3> QED
        BY <3>1, <3>2
  <2> QED
      BY <1>2, <1>3, <1>5, <2>2 DEF AtOnce
<1> QED
    BY <1>2, <1>3, <1>4, <1>5

LEMMA Products ==
  ASSUME NEW m \in Nat, NEW c \in Nat
  PROVE  /\ m * c \in Nat
         /\ m * (c + 1) = m * c + m
         /\ \A d \in Nat : c <= d => m * c <= m * d
PROOF
<1>1. m * c \in Nat /\ m * (c + 1) = m * c + m
      OBVIOUS
<1>2. ASSUME NEW d \in Nat, c <= d
      PROVE  m * c <= m * d
  <2>1. PICK k \in Nat : d = c + k
    <3>1. d - c \in Nat /\ d = c + (d - c)
          BY <1>2
    <3> QED
        BY <3>1
  <2>2. m * (c + k) = m * c + m * k /\ m * k \in Nat
        OBVIOUS
  <2> QED
      BY <1>1, <2>1, <2>2
<1> QED
    BY <1>1, <1>2

\* A request that reminds no further than before, or no longer, or never did.
Quiet(r) ==
  /\ UNCHANGED <<tracking, mails, overlap>>
  /\ \A q \in Requests \ {r} : req'[q] = req[q]
  /\ At(r, Before \cup After)' => At(r, Before \cup After)
  /\ At(r, After)' => At(r, After)
  /\ At(r, {"record_write"})' => At(r, {"record_write"}) /\ req'[r].count = req[r].count

LEMMA QuietCounted ==
  ASSUME TokenInv, NEW r \in Requests, Quiet(r), NEW c \in Nat, Counted(c)
  PROVE  Counted(c)'
PROOF
<1>1. Reminders' \in SUBSET Reminders
      BY DEF Quiet, Reminders, At
<1>2. /\ IsFiniteSet(Reminders) /\ Cardinality(Reminders) \in Nat
      /\ AtOnce \in Nat /\ AtOnce' = AtOnce
      BY RemindersAtOnce DEF Quiet, AtOnce
<1>3. Cardinality(Reminders') <= Cardinality(Reminders) /\ Cardinality(Reminders') \in Nat
      BY <1>1, <1>2, FS_Subset, FS_CardinalityType
<1>4. /\ \A q \in Requests : At(q, {"record_write"})' => req'[q].count >= c
      /\ (\A q \in Requests : ~At(q, After)) => \A q \in Requests : ~At(q, After)'
      BY DEF Quiet, Counted, At
<1>5. UNCHANGED <<tracking, mails>> /\ AtOnce * c \in Nat /\ mails \in Nat
      BY <1>2, Products DEF Quiet, TokenInv, TypeOK
<1>6. CASE tracking.running
  <2> PICK m : m = AtOnce * c
      OBVIOUS
  <2>1. /\ c < MaxReminders /\ tracking.count >= c + 1
        /\ mails + Cardinality(Reminders) <= m + AtOnce
        BY <1>6 DEF Counted
  <2>2. mails + Cardinality(Reminders') <= m + AtOnce
        BY <1>2, <1>3, <1>5, <2>1
  <2> QED
      BY <1>2, <1>4, <1>5, <1>6, <2>1, <2>2 DEF Counted
<1>7. CASE ~tracking.running
      BY <1>1, <1>2, <1>4, <1>5, <1>7 DEF Counted
<1> QED
    BY <1>6, <1>7

\* A request that only records that it reminds: no reminder more or less.
LEMMA RecordCounted ==
  ASSUME TokenInv, NEW r \in Requests, NEW c \in Nat, Counted(c),
         UNCHANGED <<mails, overlap>>, \A q \in Requests \ {r} : req'[q] = req[q],
         RecordRead(r) \/ RecordWrite(r)
  PROVE  Counted(c)'
PROOF
<1>1. /\ req \in [Requests -> ReqRow] /\ tracking \in [count : Nat, running : BOOLEAN]
      /\ mails \in Nat /\ MaxReminders \in Nat
      BY InvitationAssumption DEF TokenInv, TypeOK, ReqRow
<1>2. /\ Cardinality(Reminders) \in Nat /\ Cardinality(Reminders) <= AtOnce
      /\ AtOnce \in Nat /\ AtOnce' = AtOnce /\ AtOnce * c \in Nat
      BY RemindersAtOnce, Products DEF AtOnce
<1>3. CASE RecordRead(r)
  <2> PICK record : record = [req[r] EXCEPT !.step = "record_write", !.count = tracking.count]
      OBVIOUS
  <2>1. record.step = "record_write" /\ record.count = tracking.count
        BY <1>1 DEF ReqRow, Steps
  <2>2. req[r].step = "record_read" /\ req' = [req EXCEPT ![r] = record] /\ UNCHANGED tracking
        BY <1>3 DEF RecordRead, Continue, rows
  <2>3. req'[r] = record
        BY <1>1, <2>2
  <2>4. Reminders' = Reminders
        BY <2>1, <2>2, <2>3 DEF Reminders, At, Before
  <2>5. \A q \in Requests : At(q, {"record_write"})' => req'[q].count >= c
    <3>1. tracking.count >= c
          BY <1>1 DEF Counted
    <3> QED
        BY <2>1, <2>3, <3>1 DEF Counted, At
  <2>6. (\A q \in Requests : ~At(q, After)) => \A q \in Requests : ~At(q, After)'
        BY <2>1, <2>3 DEF At, After
  <2> QED
      BY <1>2, <2>2, <2>4, <2>5, <2>6 DEF Counted
<1>4. CASE RecordWrite(r)
  <2> PICK record : record = [req[r] EXCEPT !.step = "pick"]
      OBVIOUS
  <2>1. record.step = "pick" /\ req[r].count \in Nat
        BY <1>1 DEF ReqRow, Steps
  <2>2. /\ req[r].step = "record_write" /\ req' = [req EXCEPT ![r] = record]
        /\ tracking' = [count |-> req[r].count + 1, running |-> TRUE]
        BY <1>4 DEF RecordWrite, Goto, Continue
  <2>3. req'[r] = record
        BY <1>1, <2>2
  <2>4. Reminders' = Reminders /\ r \in Reminders
        BY <2>1, <2>2, <2>3 DEF Reminders, At, Before, After
  <2>5. \A q \in Requests : At(q, {"record_write"})' => req'[q].count >= c
        BY <2>1, <2>3 DEF Counted, At
  <2>6. req[r].count >= c
        BY <2>2 DEF Counted, At
  <2>7. tracking'.running /\ tracking'.count >= c + 1
        BY <2>1, <2>2, <2>6
  <2>8. c < MaxReminders /\ mails + Cardinality(Reminders) <= AtOnce * c + AtOnce
    <3>1. CASE tracking.running
          BY <3>1 DEF Counted
    <3>2. CASE ~tracking.running
      <4>1. tracking.count >= c /\ tracking.count < MaxReminders /\ mails <= AtOnce * c
            BY <2>4, <3>2 DEF Counted
      <4> PICK m : m = AtOnce * c
          OBVIOUS
      <4>2. mails <= m /\ m \in Nat
            BY <1>2, <4>1
      <4> QED
          BY <1>1, <1>2, <4>1, <4>2
    <3> QED
        BY <3>1, <3>2
  <2> QED
      BY <1>2, <2>4, <2>5, <2>7, <2>8 DEF Counted
<1> QED
    BY <1>3, <1>4

LEMMA RemindCounted ==
  ASSUME TokenInv, NEW r \in Requests, NEW c \in Nat, Counted(c),
         UNCHANGED overlap, \A q \in Requests \ {r} : req'[q] = req[q], Remind(r)
  PROVE  Counted(c)'
PROOF
<1>1. req \in [Requests -> ReqRow]
      BY DEF TokenInv, TypeOK, ReqRow
<1> PICK record : record = [Idle EXCEPT !.step = "record_read"]
    OBVIOUS
<1>2. record.step = "record_read"
      BY IdleRow DEF ReqRow
<1>3. req' = [req EXCEPT ![r] = record] /\ GateOpen /\ UNCHANGED <<tracking, mails>>
      BY DEF Remind, Begin, rows, told
<1>4. req'[r] = record
      BY <1>1, <1>3
<1>5. /\ \A q \in Requests : At(q, {"record_write"})' => req'[q].count >= c
      /\ (\A q \in Requests : ~At(q, After)) => \A q \in Requests : ~At(q, After)'
      BY <1>2, <1>4 DEF Counted, At, After
<1> QED
    BY <1>3, <1>5 DEF GateOpen, Counted, AtOnce

LEMMA PublishCounted ==
  ASSUME TokenInv, NEW r \in Requests, NEW c \in Nat, Counted(c),
         UNCHANGED overlap, \A q \in Requests \ {r} : req'[q] = req[q], Publish(r)
  PROVE  Counted(c)'
PROOF
<1>1. req \in [Requests -> ReqRow] /\ mails \in Nat
      BY DEF TokenInv, TypeOK, ReqRow
<1>2. /\ req[r].step = "publish" /\ req' = [req EXCEPT ![r] = Idle]
      /\ mails' = mails + 1 /\ UNCHANGED tracking
      BY DEF Publish, End, Continue, rows
<1>3. req'[r] = Idle /\ Idle.step = "idle"
      BY <1>1, <1>2, IdleRow
<1>4. r \in Reminders /\ Reminders' = Reminders \ {r}
      BY <1>2, <1>3 DEF Reminders, At, Before, After
<1>5. /\ IsFiniteSet(Reminders) /\ Cardinality(Reminders) \in Nat /\ AtOnce \in Nat
      /\ AtOnce' = AtOnce
      BY RemindersAtOnce DEF AtOnce
<1>6. Cardinality(Reminders') = Cardinality(Reminders) - 1
      BY <1>4, <1>5, FS_RemoveElement
<1>7. tracking.running
      BY <1>2 DEF Counted, At, After
<1>8. \A q \in Requests : At(q, {"record_write"})' => req'[q].count >= c
      BY <1>3 DEF Counted, At
<1> PICK m : m = AtOnce * c
    OBVIOUS
<1>9. mails + Cardinality(Reminders) <= m + AtOnce /\ m \in Nat
      BY <1>5, <1>7, Products DEF Counted
<1>10. mails' + Cardinality(Reminders') <= m + AtOnce
      BY <1>1, <1>2, <1>5, <1>6, <1>9
<1> QED
    BY <1>2, <1>5, <1>7, <1>8, <1>10 DEF Counted

\* When the interval is over, nobody reminds, and another one is used up.
LEMMA ElapseCounted ==
  ASSUME TokenInv, NEW c \in Nat, Counted(c), Elapse
  PROVE  Counted(c + 1)'
PROOF
<1>1. tracking \in [count : Nat, running : BOOLEAN] /\ mails \in Nat /\ MaxReminders \in Nat
      BY InvitationAssumption DEF TokenInv, TypeOK
<1>2. /\ tracking.running /\ tracking' = [tracking EXCEPT !.running = FALSE]
      /\ req = [q \in Requests |-> Idle] /\ UNCHANGED <<req, mails, overlap>>
      BY DEF Elapse, told
<1>3. tracking'.running = FALSE /\ tracking'.count = tracking.count
      BY <1>1, <1>2
<1>4. /\ Reminders = {} /\ Reminders' = {}
      /\ \A q \in Requests : ~At(q, {"record_write"})' /\ ~At(q, After)'
      BY <1>2, IdleRow DEF Reminders, At, Before, After
<1>5. AtOnce \in Nat /\ AtOnce' = AtOnce /\ Cardinality(Reminders) = 0
      BY <1>2, <1>4, RemindersAtOnce, FS_EmptySet DEF AtOnce
<1>6. c < MaxReminders /\ tracking.count >= c + 1 /\ mails + 0 <= AtOnce * c + AtOnce
      BY <1>2, <1>5 DEF Counted
<1>7. AtOnce * (c + 1) = AtOnce * c + AtOnce
      BY <1>5, Products
<1>8. mails <= AtOnce * (c + 1) /\ c + 1 <= MaxReminders
  <2> PICK m : m = AtOnce * (c + 1)
      OBVIOUS
  <2>1. mails + 0 <= m
        BY <1>6, <1>7
  <2> QED
      BY <1>1, <1>6, <2>1
<1> QED
    BY <1>2, <1>3, <1>4, <1>5, <1>6, <1>8 DEF Counted

\* The other steps are quiet.
LEMMA OthersQuiet ==
  ASSUME TokenInv, NEW r \in Requests, Effect(r),
         \/ Issuing(r) \/ Viewing(r) \/ Signing(r) \/ BreakOff(r) \/ MarkFails(r)
         \/ Pick(r) \/ Resend(r)
  PROVE  Quiet(r)
PROOF
<1> USE DEF At, Before, After
<1>1. req \in [Requests -> ReqRow] /\ Idle \in ReqRow /\ Idle.step = "idle"
      BY IdleRow DEF TokenInv, TypeOK, ReqRow
<1>2. UNCHANGED <<tracking, mails, overlap>> /\ \A q \in Requests \ {r} : req'[q] = req[q]
      BY DEF Effect, Issuing, Issue, IssueSent, Give, Viewing, View, ViewWrite, Signing, Sign, MarkRead,
             MarkWrite, SignRow, BreakOff, MarkFails, Pick, Resend, rows, told
<1>3. ASSUME req' = [req EXCEPT ![r] = Idle] PROVE Quiet(r)
      BY <1>1, <1>2, <1>3 DEF Quiet
<1>4. ASSUME End(r) PROVE Quiet(r)
      BY <1>3, <1>4 DEF End, Continue
<1>5. ASSUME NEW record, req' = [req EXCEPT ![r] = record],
             record.step \notin Before \cup After
      PROVE  Quiet(r)
      BY <1>1, <1>2, <1>5 DEF Quiet
<1>6. ASSUME NEW step \in {"give", "marked"}, req' = [req EXCEPT ![r].step = step]
      PROVE  Quiet(r)
  <2>1. req'[r].step = step
        BY <1>1, <1>6 DEF ReqRow
  <2> QED
      BY <1>2, <2>1 DEF Quiet
<1>7. ASSUME Marked(r) PROVE Quiet(r)
  <2>1. CASE End(r)
        BY <1>4, <2>1
  <2>2. CASE Goto(r, "marked")
    <3> PICK record : record = [req[r] EXCEPT !.step = "marked"]
        OBVIOUS
    <3>1. record.step = "marked" /\ req' = [req EXCEPT ![r] = record]
          BY <1>1, <2>2 DEF Goto, Continue, ReqRow
    <3> QED
        BY <1>5, <3>1
  <2> QED
      BY <1>7, <2>1, <2>2 DEF Marked
<1>8. CASE Issue(r)
  <2>1. PICK t, new : t \in Tokens /\ Begin(r, [Idle EXCEPT !.step = "issued", !.token = t, !.copy = new])
        BY <1>8 DEF Issue
  <2> t \in Tokens
      BY <2>1
  <2> PICK record : record = [Idle EXCEPT !.step = "issued", !.token = t, !.copy = new]
      OBVIOUS
  <2>2. record.step = "issued" /\ req' = [req EXCEPT ![r] = record]
        BY <1>1, <2>1 DEF Begin, ReqRow
  <2> QED
      BY <1>5, <2>2
<1>9. CASE IssueSent(r)
  <2> PICK record : record = [req[r] EXCEPT !.step = "give"]
      OBVIOUS
  <2>1. record.step = "give" /\ req' = [req EXCEPT ![r] = record]
        BY <1>1, <1>9 DEF IssueSent, Goto, Continue, ReqRow
  <2> QED
      BY <1>5, <2>1
<1>10. CASE Give(r) \/ ViewWrite(r)
      BY <1>4, <1>10 DEF Give, ViewWrite
<1>11. CASE View(r)
  <2>1. PICK t \in given : Begin(r, [Idle EXCEPT !.step = "view", !.token = t, !.copy = token[t]])
        BY <1>11 DEF View
  <2> PICK record : record = [Idle EXCEPT !.step = "view", !.token = t, !.copy = token[t]]
      OBVIOUS
  <2>2. record.step = "view" /\ req' = [req EXCEPT ![r] = record]
        BY <1>1, <2>1 DEF Begin, ReqRow
  <2> QED
      BY <1>5, <2>2
<1>12. CASE Sign(r)
  <2>1. PICK t \in given : Begin(r, [Idle EXCEPT !.step = "mark_read", !.token = t, !.row = TRUE])
        BY <1>12 DEF Sign
  <2> PICK record : record = [Idle EXCEPT !.step = "mark_read", !.token = t, !.row = TRUE]
      OBVIOUS
  <2>2. record.step = "mark_read" /\ req' = [req EXCEPT ![r] = record]
        BY <1>1, <2>1 DEF Begin, ReqRow
  <2> QED
      BY <1>5, <2>2
<1>13. CASE MarkRead(r)
  <2>1. CASE Marked(r)
        BY <1>7, <2>1
  <2>2. CASE Continue(r, [req[r] EXCEPT !.step = "mark_write", !.copy = token[req[r].token]])
    <3> PICK record : record = [req[r] EXCEPT !.step = "mark_write", !.copy = token[req[r].token]]
        OBVIOUS
    <3>1. record.step = "mark_write" /\ req' = [req EXCEPT ![r] = record]
          BY <1>1, <2>2 DEF Continue, ReqRow
    <3> QED
        BY <1>5, <3>1
  <2> QED
      BY <1>13, <2>1, <2>2 DEF MarkRead
<1>14. CASE MarkWrite(r)
      BY <1>7, <1>14 DEF MarkWrite
<1>15. CASE SignRow(r)
  <2>1. CASE End(r)
        BY <1>4, <2>1
  <2>2. CASE Continue(r, [req[r] EXCEPT !.row = FALSE])
    <3>1. req'[r].step = req[r].step /\ req'[r].count = req[r].count
          BY <1>1, <2>2 DEF Continue, ReqRow
    <3> QED
        BY <1>2, <3>1 DEF Quiet
  <2> QED
      BY <1>15, <2>1, <2>2 DEF SignRow
<1>16. CASE BreakOff(r)
      BY <1>3, <1>16 DEF BreakOff
<1>17. CASE MarkFails(r)
      BY <1>6, <1>17 DEF MarkFails
<1>18. ASSUME NEW record, req' = [req EXCEPT ![r] = record], record.step \in {"resend", "publish"},
              req[r].step \in {"pick", "resend"}
       PROVE  Quiet(r)
       BY <1>1, <1>2, <1>18 DEF Quiet
<1>19. CASE Pick(r)
  <2>1. CASE End(r)
        BY <1>4, <2>1
  <2>2. ASSUME NEW t \in Tokens,
               Continue(r, [req[r] EXCEPT !.step = "resend", !.token = t, !.copy = token[t]])
        PROVE  Quiet(r)
    <3> PICK record : record = [req[r] EXCEPT !.step = "resend", !.token = t, !.copy = token[t]]
        OBVIOUS
    <3>1. record.step = "resend" /\ req' = [req EXCEPT ![r] = record]
          BY <1>1, <2>2 DEF Continue, ReqRow
    <3> QED
        BY <1>18, <1>19, <3>1 DEF Pick
  <2> QED
      BY <1>19, <2>1, <2>2 DEF Pick
<1>20. CASE Resend(r)
  <2>1. CASE End(r)
        BY <1>4, <2>1
  <2>2. CASE Goto(r, "publish")
    <3> PICK record : record = [req[r] EXCEPT !.step = "publish"]
        OBVIOUS
    <3>1. record.step = "publish" /\ req' = [req EXCEPT ![r] = record]
          BY <1>1, <2>2 DEF Goto, Continue, ReqRow
    <3> QED
        BY <1>18, <1>20, <3>1 DEF Resend
  <2> QED
      BY <1>20, <2>1, <2>2 DEF Resend
<1> QED
    BY <1>8, <1>9, <1>10, <1>11, <1>12, <1>13, <1>14, <1>15, <1>16, <1>17, <1>19, <1>20
    DEF Issuing, Viewing, Signing

LEMMA NextInvitation == RemindersInv /\ [Next]_vars => RemindersInv'
PROOF
<1> SUFFICES ASSUME RemindersInv, [Next]_vars PROVE RemindersInv'
    OBVIOUS
<1>1. TokenInv /\ TokenInv'
      BY NextToken DEF RemindersInv
<1>2. PICK c \in Nat : Counted(c)
      BY DEF RemindersInv
<1>3. ASSUME NEW r \in Requests,
             Issuing(r) \/ Viewing(r) \/ Signing(r) \/ Reminding(r) \/ BreakOff(r) \/ MarkFails(r)
      PROVE  Counted(c)'
  <2>1. Effect(r)
        BY <1>1, <1>3, RequestEffect
  <2>2. UNCHANGED overlap /\ \A q \in Requests \ {r} : req'[q] = req[q]
        BY <2>1 DEF Effect
  <2>3. CASE RecordRead(r) \/ RecordWrite(r)
    <3>1. UNCHANGED mails
          BY <2>3 DEF RecordRead, RecordWrite, told
    <3> QED
        BY <1>1, <1>2, <2>2, <2>3, <3>1, RecordCounted
  <2>4. CASE Remind(r)
        BY <1>1, <1>2, <2>2, <2>4, RemindCounted
  <2>5. CASE Publish(r)
        BY <1>1, <1>2, <2>2, <2>5, PublishCounted
  <2>6. CASE \/ Issuing(r) \/ Viewing(r) \/ Signing(r) \/ BreakOff(r) \/ MarkFails(r)
             \/ Pick(r) \/ Resend(r)
        BY <1>1, <1>2, <2>1, <2>6, OthersQuiet, QuietCounted
  <2> QED
      BY <1>3, <2>3, <2>4, <2>5, <2>6 DEF Reminding
<1>4. CASE Elapse
      BY <1>1, <1>2, <1>4, ElapseCounted DEF RemindersInv
<1>5. CASE Expire \/ UNCHANGED vars
  <2>1. UNCHANGED <<req, mails, overlap, tracking>>
        BY <1>5 DEF Expire, vars, rows, told
  <2>2. Reminders' = Reminders /\ AtOnce' = AtOnce
        BY <2>1 DEF Reminders, AtOnce, At
  <2>3. Counted(c)'
        BY <1>2, <2>1, <2>2 DEF Counted, At
  <2> QED
      BY <1>1, <2>3 DEF RemindersInv
<1> QED
    BY <1>1, <1>3, <1>4, <1>5 DEF Next, RemindersInv

(***************************************************************************)
(* Theorems                                                                *)
(***************************************************************************)
\* The invariant of every reachable state.
LEMMA Invariant == Spec => []RemindersInv
PROOF BY InitInvitation, NextInvitation, PTL DEF Spec

(* The token rows, the tracking row and the requests keep their shapes     *)
(* (InvitationToken, SignerReminderTracking).                              *)
THEOREM TypeCorrect == Spec => []TypeOK
PROOF
<1>1. RemindersInv => TypeOK
      BY DEF RemindersInv, TokenInv
<1> QED
    BY Invariant, <1>1, PTL

(* Requests in turn: markTokenAsSigned marks a token once, and from then   *)
(* on the row says SIGNED, through every view and reminder.                *)
THEOREM TokenUsedOnce == Spec => []UsedOnce
PROOF
<1>1. RemindersInv => UsedOnce
      BY DEF RemindersInv, TokenInv, UseIsSeen, UsedOnce
<1> QED
    BY Invariant, <1>1, PTL

(* Overlapping or not, SendRemindersUseCase publishes no more reminders    *)
(* than the limit, for each request that can pass the gate with others.    *)
THEOREM RemindersLimited == Spec => []RemindersBounded
PROOF
<1>1. RemindersInv => RemindersBounded
  <2> SUFFICES ASSUME TokenInv, NEW c \in Nat, Counted(c) PROVE RemindersBounded
      BY DEF RemindersInv
  <2>1. /\ AtOnce \in Nat /\ mails \in Nat /\ MaxReminders \in Nat
        /\ Cardinality(Reminders) \in Nat
        BY RemindersAtOnce, InvitationAssumption DEF TokenInv, TypeOK
  <2>2. PICK d \in Nat : d <= MaxReminders /\ mails <= AtOnce * d
    <3>1. CASE tracking.running
      <4>1. c + 1 <= MaxReminders /\ mails + Cardinality(Reminders) <= AtOnce * c + AtOnce
            BY <2>1, <3>1 DEF Counted
      <4>2. AtOnce * (c + 1) = AtOnce * c + AtOnce
            BY <2>1, Products
      <4> PICK m : m = AtOnce * (c + 1)
          OBVIOUS
      <4>3. m \in Nat /\ mails <= m
            BY <2>1, <4>1, <4>2, Products
      <4> QED
          BY <4>1, <4>3
    <3>2. CASE ~tracking.running
          BY <3>2 DEF Counted
    <3> QED
        BY <3>1, <3>2
  <2>3. AtOnce * d \in Nat /\ AtOnce * d <= AtOnce * MaxReminders
        BY <2>1, <2>2, Products
  <2>4. AtOnce * MaxReminders = MaxReminders * AtOnce /\ MaxReminders * AtOnce \in Nat
        BY <2>1
  <2> QED
      BY <2>1, <2>2, <2>3, <2>4 DEF RemindersBounded
<1> QED
    BY Invariant, <1>1, PTL

(* No write of a stale copy, of a view, a reminder or another signing,     *)
(* takes away when a token was signed (InvitationTokenRepository.update).  *)
THEOREM SigningStays == Spec => SigningKept
PROOF
<1>1. RemindersInv /\ [Next]_vars => [\A t \in Tokens : token[t].signed => token'[t].signed]_vars
  <2> SUFFICES ASSUME TokenInv, Next, NEW t \in Tokens, token[t].signed
               PROVE  token'[t].signed
      BY DEF RemindersInv
  <2>1. ASSUME NEW r \in Requests,
               Issuing(r) \/ Viewing(r) \/ Signing(r) \/ Reminding(r) \/ BreakOff(r) \/ MarkFails(r)
        PROVE  token'[t].signed
        BY <2>1, RequestEffect DEF Effect
  <2>2. CASE Expire \/ Elapse
        BY <2>2, TimeStep
  <2> QED
      BY <2>1, <2>2 DEF Next
<1> QED
    BY Invariant, <1>1, PTL DEF Spec, SigningKept

=============================================================================
