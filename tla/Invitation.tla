------------------------------ MODULE Invitation ------------------------------
(***************************************************************************)
(* The invitation tokens of one external signer and the reminders that     *)
(* point at them.  Sending the envelope issues a token; opening the        *)
(* envelope with it marks it viewed; signing with it marks it signed,      *)
(* without waiting for that; a reminder is allowed by the signer's         *)
(* tracking row, recorded there, counted on the newest token and           *)
(* published.                                                              *)
(*                                                                         *)
(* Every change of a token writes the whole row a request read earlier.    *)
(* No token becomes EXPIRED or REVOKED: nothing sets these statuses.  The  *)
(* rest of a signing (Envelope) is one step here, which succeeds or fails. *)
(***************************************************************************)
EXTENDS Naturals, FiniteSets

CONSTANTS
  Requests,      \* requests that may be under way at once
  MaxTokens,     \* bound: tokens issued, numbered as they are created
  MaxReminders,  \* config.reminders.maxRemindersPerSigner
  MaxBegun,      \* bound: requests in all
  MaxFaults      \* bound: requests that break off

ASSUME InvitationAssumption ==
  /\ IsFiniteSet(Requests)
  /\ MaxTokens \in Nat
  /\ MaxReminders \in Nat
  /\ MaxBegun \in Nat
  /\ MaxFaults \in Nat

Tokens == 1 .. MaxTokens

VARIABLES
  token,     \* the token rows
  expired,   \* tokens whose expiresAt has passed
  given,     \* tokens whose secret the signer has
  tracking,  \* the tracking row: its count, and whether its interval is running
  signer,    \* the signer's status
  req,       \* the requests under way
  mails,     \* reminders published
  uses,      \* signings that marked each token
  overlap,   \* whether requests overlap; never changes
  begun, faults

rows == <<token, tracking, signer>>
told == <<given, mails, uses>>
vars == <<rows, told, expired, req, overlap, begun, faults>>

NoToken == [status |-> "none", resend |-> 0, signed |-> FALSE]
Idle == [step |-> "idle", token |-> 0, copy |-> NoToken, count |-> 0, row |-> FALSE]
Steps == {"issued", "give", "view", "mark_read", "mark_write", "marked", "record_read",
          "record_write", "pick", "resend", "publish"}

Init ==
  /\ token = [t \in Tokens |-> NoToken]
  /\ expired = {}
  /\ given = {}
  /\ tracking = [count |-> 0, running |-> FALSE]
  /\ signer = "PENDING"
  /\ req = [r \in Requests |-> Idle]
  /\ mails = 0
  /\ uses = [t \in Tokens |-> 0]
  /\ overlap \in BOOLEAN
  /\ begun = 0
  /\ faults = 0

Exists(t) == token[t].status # "none"

\* isExpired and isUsed of validateToken.
Valid(t) == Exists(t) /\ t \notin expired /\ token[t].status # "SIGNED"

Begin(r, record) ==
  /\ req[r] = Idle
  /\ begun < MaxBegun
  /\ overlap \/ req = [q \in Requests |-> Idle]
  /\ req' = [req EXCEPT ![r] = record]
  /\ begun' = begun + 1
  /\ UNCHANGED <<expired, overlap, faults>>

Continue(r, record) ==
  /\ req' = [req EXCEPT ![r] = record]
  /\ UNCHANGED <<expired, overlap, begun, faults>>

Goto(r, step) == Continue(r, [req[r] EXCEPT !.step = step])
End(r) == Continue(r, Idle)

\* The partial unique index: one ACTIVE token per signer.
IndexAllows(t, status) ==
  status = "ACTIVE" => \A u \in Tokens \ {t} : token[u].status # "ACTIVE"

\* Altered: undefined fields are written as nulls.
WriteNulls(t, copy) == token' = [token EXCEPT ![t] = copy]

\* update puts every defined field of the copy; a copy read before the token
\* was signed has no signedAt to put.
Write(t, copy) ==
  token' = [token EXCEPT ![t] = [copy EXCEPT !.signed = @ \/ token[t].signed]]

(***************************************************************************)
(* Sending: generateInvitationTokensForSigners.                            *)
(***************************************************************************)
Issue(r) ==
  \E t \in Tokens :
    /\ ~Exists(t)
    /\ \A u \in Tokens : u < t => Exists(u)
    /\ IndexAllows(t, "ACTIVE")
    /\ LET new == [NoToken EXCEPT !.status = "ACTIVE"] IN
       /\ Begin(r, [Idle EXCEPT !.step = "issued", !.token = t, !.copy = new])
       /\ token' = [token EXCEPT ![t] = new]
    /\ UNCHANGED <<tracking, signer, told>>

\* Altered: markAsSent sets a status of its own.
IssueSentStatus(r) ==
  /\ req[r].step = "issued"
  /\ Write(req[r].token, [req[r].copy EXCEPT !.status = "SENT"])
  /\ Goto(r, "give")
  /\ UNCHANGED <<tracking, signer, told>>

\* markAsSent on the row as created.
IssueSent(r) ==
  /\ req[r].step = "issued"
  /\ Write(req[r].token, [req[r].copy EXCEPT !.resend = @ + 1])
  /\ Goto(r, "give")
  /\ UNCHANGED <<tracking, signer, told>>

\* sendSignerInvitations, once every signer has a token.
Give(r) ==
  /\ req[r].step = "give"
  /\ given' = given \cup {req[r].token}
  /\ End(r)
  /\ UNCHANGED <<rows, mails, uses>>

(***************************************************************************)
(* Opening the envelope with a token: markTokenAsViewed.                   *)
(***************************************************************************)
View(r) ==
  \E t \in given :
    /\ Valid(t)
    /\ Begin(r, [Idle EXCEPT !.step = "view", !.token = t, !.copy = token[t]])
    /\ UNCHANGED <<rows, told>>

ViewWrite(r) ==
  /\ req[r].step = "view"
  /\ Write(req[r].token, [req[r].copy EXCEPT !.status = IF @ = "ACTIVE" THEN "VIEWED" ELSE @])
  /\ End(r)
  /\ UNCHANGED <<tracking, signer, told>>

(***************************************************************************)
(* Signing with a token.  validateAccessAndResolveSigner validates it and  *)
(* starts markTokenAsSigned, which validates it again, beside the signing. *)
(***************************************************************************)
Sign(r) ==
  \E t \in given :
    /\ Valid(t)
    /\ Begin(r, [Idle EXCEPT !.step = "mark_read", !.token = t, !.row = TRUE])
    /\ UNCHANGED <<rows, told>>

\* Where a signing stands once its mark has come to an end.
Marked(r) == IF req[r].row THEN Goto(r, "marked") ELSE End(r)

\* A refusal is swallowed.
MarkRead(r) ==
  LET t == req[r].token IN
  /\ req[r].step = "mark_read"
  /\ IF Valid(t)
       THEN Continue(r, [req[r] EXCEPT !.step = "mark_write", !.copy = token[t]])
       ELSE Marked(r)
  /\ UNCHANGED <<rows, told>>

\* Altered: the status is not set.
MarkWriteTimeOnly(r) ==
  LET t == req[r].token IN
  /\ req[r].step = "mark_write"
  /\ Write(t, [req[r].copy EXCEPT !.signed = TRUE])
  /\ uses' = [uses EXCEPT ![t] = @ + 1]
  /\ Marked(r)
  /\ UNCHANGED <<tracking, signer, given, mails>>

MarkWrite(r) ==
  LET t == req[r].token IN
  /\ req[r].step = "mark_write"
  /\ Write(t, [req[r].copy EXCEPT !.status = "SIGNED", !.signed = TRUE])
  /\ uses' = [uses EXCEPT ![t] = @ + 1]
  /\ Marked(r)
  /\ UNCHANGED <<tracking, signer, given, mails>>

\* The rest of the signing ends, well or not; the mark may still be to come.
SignRow(r) ==
  /\ req[r].row
  /\ signer' \in {"SIGNED", signer}
  /\ IF req[r].step = "marked" THEN End(r)
                               ELSE Continue(r, [req[r] EXCEPT !.row = FALSE])
  /\ UNCHANGED <<token, tracking, told>>

(***************************************************************************)
(* Reminding: SendRemindersUseCase for this signer.                        *)
(***************************************************************************)
\* Altered: the limit itself is let through.
GateOpenAtLimit == tracking.count <= MaxReminders /\ ~tracking.running

\* evaluateReminderGate.
GateOpen == tracking.count < MaxReminders /\ ~tracking.running

Remind(r) ==
  /\ signer = "PENDING"
  /\ GateOpen
  /\ Begin(r, [Idle EXCEPT !.step = "record_read"])
  /\ UNCHANGED <<rows, told>>

\* recordReminderSent reads the row again ...
RecordRead(r) ==
  /\ req[r].step = "record_read"
  /\ Continue(r, [req[r] EXCEPT !.step = "record_write", !.count = tracking.count])
  /\ UNCHANGED <<rows, told>>

\* ... and upserts it.
RecordWrite(r) ==
  /\ req[r].step = "record_write"
  /\ tracking' = [count |-> req[r].count + 1, running |-> TRUE]
  /\ Goto(r, "pick")
  /\ UNCHANGED <<token, signer, told>>

\* The newest token that has not expired, whatever its status; without one the
\* signer is skipped, though the reminder is recorded.
Pick(r) ==
  LET live == {t \in Tokens : Exists(t) /\ t \notin expired} IN
  /\ req[r].step = "pick"
  /\ \/ live = {} /\ End(r)
     \/ \E t \in live :
          /\ \A u \in live : u <= t
          /\ Continue(r, [req[r] EXCEPT !.step = "resend", !.token = t, !.copy = token[t]])
  /\ UNCHANGED <<rows, told>>

\* updateTokenSent; the index refuses a stale ACTIVE beside a newer token.
Resend(r) ==
  LET t == req[r].token IN
  /\ req[r].step = "resend"
  /\ IF IndexAllows(t, req[r].copy.status)
       THEN /\ Write(t, [req[r].copy EXCEPT !.resend = @ + 1])
            /\ Goto(r, "publish")
       ELSE End(r) /\ UNCHANGED token
  /\ UNCHANGED <<tracking, signer, told>>

\* publishReminder.
Publish(r) ==
  /\ req[r].step = "publish"
  /\ mails' = mails + 1
  /\ End(r)
  /\ UNCHANGED <<rows, given, uses>>

(***************************************************************************)
(* Time and failures.                                                      *)
(***************************************************************************)
Expire ==
  \E t \in Tokens \ expired :
    /\ Exists(t)
    /\ expired' = expired \cup {t}
    /\ UNCHANGED <<rows, told, req, overlap, begun, faults>>

\* minHoursBetweenReminders pass; no request lasts that long.
Elapse ==
  /\ tracking.running
  /\ req = [r \in Requests |-> Idle]
  /\ tracking' = [tracking EXCEPT !.running = FALSE]
  /\ UNCHANGED <<token, signer, told, expired, req, overlap, begun, faults>>

\* A request dies, or a call it awaits fails, or its invocation has answered
\* and the mark it left behind is never resumed.
BreakOff(r) ==
  /\ faults < MaxFaults
  /\ req[r].step \in Steps
  /\ req' = [req EXCEPT ![r] = Idle]
  /\ faults' = faults + 1
  /\ UNCHANGED <<rows, told, expired, overlap, begun>>

\* A call of the mark fails, which the signing does not see.
MarkFails(r) ==
  /\ faults < MaxFaults
  /\ req[r].row /\ req[r].step \in {"mark_read", "mark_write"}
  /\ req' = [req EXCEPT ![r].step = "marked"]
  /\ faults' = faults + 1
  /\ UNCHANGED <<rows, told, expired, overlap, begun>>

Issuing(r) == Issue(r) \/ IssueSent(r) \/ Give(r)
Viewing(r) == View(r) \/ ViewWrite(r)
Signing(r) == Sign(r) \/ MarkRead(r) \/ MarkWrite(r) \/ SignRow(r)
Reminding(r) ==
  \/ Remind(r)
  \/ RecordRead(r)
  \/ RecordWrite(r)
  \/ Pick(r)
  \/ Resend(r)
  \/ Publish(r)

Next ==
  \/ \E r \in Requests :
       \/ Issuing(r) \/ Viewing(r) \/ Signing(r) \/ Reminding(r)
       \/ BreakOff(r) \/ MarkFails(r)
  \/ Expire
  \/ Elapse

Spec == Init /\ [][Next]_vars

(***************************************************************************)
(* Properties                                                              *)
(***************************************************************************)
Statuses == {"none", "ACTIVE", "VIEWED", "SIGNED"}
TokenRow == [status : Statuses, resend : Nat, signed : BOOLEAN]

\* Requests that may do their work on one reading of a row.
AtOnce == IF overlap THEN Cardinality(Requests) ELSE 1

(* Types of the variables. *)
TypeOK ==
  /\ token \in [Tokens -> TokenRow]
  /\ expired \subseteq Tokens
  /\ given \subseteq Tokens
  /\ tracking \in [count : Nat, running : BOOLEAN]
  /\ signer \in {"PENDING", "SIGNED"}
  /\ req \in [Requests -> [step : {"idle"} \cup Steps, token : 0 .. MaxTokens,
                           copy : TokenRow, count : Nat, row : BOOLEAN]]
  /\ mails \in Nat
  /\ uses \in [Tokens -> Nat]
  /\ overlap \in BOOLEAN
  /\ begun \in 0 .. MaxBegun
  /\ faults \in 0 .. MaxFaults

(* In turn, a token marks one signing, and says SIGNED ever after: no view *)
(* and no reminder opens it again.                                         *)
UsedOnce ==
  ~overlap => \A t \in Tokens :
                uses[t] <= 1 /\ (token[t].signed => token[t].status = "SIGNED")

(* The signer gets no more reminders than configured, for each request that *)
(* can pass the gate with the others before one of them records itself: the *)
(* count loses increments, but every interval moves it on.                  *)
RemindersBounded == mails <= MaxReminders * AtOnce

(* When a token was signed is never lost, not even to a view or a reminder *)
(* that read it before it was.                                             *)
SigningKept == [][\A t \in Tokens : token[t].signed => token'[t].signed]_vars

=============================================================================
