------------------------------- MODULE Accounts -------------------------------
(***************************************************************************)
(* One user of auth-service: the User row, its OAuthAccount rows, and the  *)
(* user pool's entry, which the service changes without a transaction that *)
(* spans both.  Signing in runs the PreAuthentication, PostAuthentication  *)
(* and PreTokenGeneration triggers; administrators set statuses and roles; *)
(* the user unlinks providers.                                             *)
(*                                                                         *)
(* Every update of a User row writes status and role together, as the      *)
(* request read them.  The pool (external) lets only an enabled user sign  *)
(* in, or renew its tokens while its session lasts.                        *)
(*                                                                         *)
(* A token is verified where it is used, by its signature, issuer,         *)
(* audience and expiry alone: a sign-out ends the session, so that nothing *)
(* is renewed, and leaves the tokens issued before it good until they      *)
(* expire.                                                                 *)
(*                                                                         *)
(* Three paths change nothing that is modelled here.  Linking a provider   *)
(* from its endpoint looks up a user that does not exist; linking at       *)
(* sign-in sets updatedAt, which OAuthAccount has not, and its failure is  *)
(* only logged; PostConfirmation gives User.fromPersistence no id, so it   *)
(* creates nobody.  The MFA policy and the validation of inputs only       *)
(* refuse requests, which then need not be made.                           *)
(***************************************************************************)
EXTENDS Naturals, FiniteSets

CONSTANTS
  Requests,      \* the requests, each made at most once
  Providers,     \* the providers the user's accounts are with
  Roles,         \* roles the user may have or be given
  Seeds,         \* statuses of the row at the start
  Targets,       \* statuses administrators ask for
  AllowPending,  \* config.features.allowLoginWhenPendingVerification
  MaxFaults,     \* bound: failed reads and requests that break off
  None

Statuses == {"ACTIVE", "PENDING_VERIFICATION", "SUSPENDED", "INACTIVE", "DELETED"}
Blocked == {"SUSPENDED", "INACTIVE", "DELETED"}
Kinds == {"sign_in", "status", "role", "unlink"}

UserRow == [status : Statuses, role : Roles]
Token == [claim : Roles \cup {"UNASSIGNED"}, out : BOOLEAN]

ASSUME AccountsAssumption ==
  /\ IsFiniteSet(Providers)
  /\ Roles \subseteq {"UNASSIGNED", "CUSTOMER", "LAWYER", "ADMIN", "SUPER_ADMIN", "EXTERNAL_USER"}
  /\ Seeds \subseteq Statuses \ {"DELETED"}
  /\ Targets \subseteq Statuses
  /\ AllowPending \in BOOLEAN
  /\ MaxFaults \in Nat
  /\ None \notin UserRow

VARIABLES
  row,        \* the User row, or None
  accounts,   \* the providers with an OAuthAccount row
  enabled,    \* whether the pool's entry is enabled
  attribute,  \* custom:role of the pool's entry
  session,    \* whether the pool would renew the user's tokens
  tokens,     \* the tokens services accept: the custom:role claimed, and
              \* whether the user was signed out after the token was issued
  req,
  overlap,    \* kinds of which several requests may overlap; never changes
  unread,     \* failed reads that a trigger made up for
  faults

pool == <<enabled, attribute, session, tokens>>
vars == <<row, accounts, pool, req, overlap, unread, faults>>

Ended == {"done", "refused", "broken"}
Steps == Ended \cup {"idle", "pre_auth", "find_login", "upsert", "claims", "issue",
                     "access", "attribute", "sign_out", "find", "save", "count", "remove"}

Idle == [kind |-> "none", step |-> "idle", to |-> None, copy |-> None, claim |-> None]

\* Rows were loaded by other means: the service creates none.
Init ==
  /\ row \in [status : Seeds, role : Roles] \cup {None}
  /\ accounts \in IF row = None THEN {{}} ELSE SUBSET Providers
  /\ enabled = (row = None \/ row.status \notin Blocked)
  /\ attribute = IF row = None THEN None ELSE row.role
  /\ session = FALSE
  /\ tokens = {}
  /\ req = [r \in Requests |-> Idle]
  /\ overlap \in SUBSET Kinds
  /\ unread = 0
  /\ faults = 0

UnderWay(r) == req[r].step \notin Ended \cup {"idle"}

Begin(r, kind, to, step) ==
  /\ req[r] = Idle
  /\ \A q \in Requests : UnderWay(q) => {kind, req[q].kind} \subseteq overlap
  /\ req' = [req EXCEPT ![r] = [Idle EXCEPT !.kind = kind, !.to = to, !.step = step]]
  /\ UNCHANGED <<row, accounts, pool, overlap, unread, faults>>

At(r, step) == req[r].step = step

Continue(r, record) ==
  /\ req' = [req EXCEPT ![r] = record]
  /\ UNCHANGED overlap

NoFault == UNCHANGED <<unread, faults>>
Goto(r, step) == Continue(r, [req[r] EXCEPT !.step = step]) /\ NoFault

ReadFails ==
  /\ faults < MaxFaults
  /\ faults' = faults + 1
  /\ unread' = unread + 1

(***************************************************************************)
(* Signing in.                                                             *)
(***************************************************************************)
MaySignIn(status) == status = "ACTIVE" \/ (status = "PENDING_VERIFICATION" /\ AllowPending)

SignIn(r) == enabled /\ Begin(r, "sign_in", None, "pre_auth")

\* With a refresh token: only PreTokenGeneration runs, which does not look at
\* what triggered it.
Renew(r) == enabled /\ session /\ Begin(r, "sign_in", "renewal", "claims")

\* Altered: the account's status is not looked at.
PreAuthUnchecked(r) ==
  /\ At(r, "pre_auth")
  /\ Goto(r, "find_login")
  /\ UNCHANGED <<row, accounts, pool>>

\* An unknown user counts as ACTIVE.
PreAuth(r) ==
  /\ At(r, "pre_auth")
  /\ Goto(r, IF row = None \/ MaySignIn(row.status) THEN "find_login" ELSE "refused")
  /\ UNCHANGED <<row, accounts, pool>>

\* So does one whose row cannot be read.
PreAuthUnread(r) ==
  /\ At(r, "pre_auth")
  /\ Continue(r, [req[r] EXCEPT !.step = "find_login"])
  /\ ReadFails
  /\ UNCHANGED <<row, accounts, pool>>

\* Altered: every user is taken to exist.
FindLoginUnchecked(r) ==
  /\ At(r, "find_login")
  /\ Continue(r, [req[r] EXCEPT !.step = "upsert", !.copy = row])
  /\ NoFault
  /\ UNCHANGED <<row, accounts, pool>>

\* upsertOnPostAuth.  For an unknown user it hands value objects to
\* User.fromPersistence, whose own value objects accept only strings: the
\* sign-in fails before anything is created.
FindLogin(r) ==
  /\ At(r, "find_login")
  /\ IF row = None
     THEN Goto(r, "refused")
     ELSE Continue(r, [req[r] EXCEPT !.step = "upsert", !.copy = row]) /\ NoFault
  /\ UNCHANGED <<row, accounts, pool>>

\* Altered: a user who has signed in is active.
UpsertActive(r) ==
  /\ At(r, "upsert")
  /\ row' = [req[r].copy EXCEPT !.status = "ACTIVE"]
  /\ Goto(r, "claims")
  /\ UNCHANGED <<accounts, pool>>

\* The login time and the names, with the rest of the copy.
Upsert(r) ==
  /\ At(r, "upsert")
  /\ row' = req[r].copy
  /\ Goto(r, "claims")
  /\ UNCHANGED <<accounts, pool>>

\* Altered: the claim is the pool's attribute.
ClaimsOfPool(r) ==
  /\ At(r, "claims")
  /\ Continue(r, [req[r] EXCEPT !.step = "issue", !.claim = attribute])
  /\ NoFault
  /\ UNCHANGED <<row, accounts, pool>>

\* PreTokenGeneration reads the row again.
Claims(r) ==
  /\ At(r, "claims")
  /\ Continue(r, [req[r] EXCEPT !.step = "issue", !.claim = row.role])
  /\ NoFault
  /\ UNCHANGED <<row, accounts, pool>>

\* getDefaultClaims, when it cannot.
ClaimsUnread(r) ==
  /\ At(r, "claims")
  /\ Continue(r, [req[r] EXCEPT !.step = "issue", !.claim = "UNASSIGNED"])
  /\ ReadFails
  /\ UNCHANGED <<row, accounts, pool>>

\* The pool issues the tokens; a renewal does not bring back a session.
Issue(r) ==
  /\ At(r, "issue")
  /\ tokens' = tokens \cup {[claim |-> req[r].claim, out |-> FALSE]}
  /\ session' = (session \/ req[r].to # "renewal")
  /\ Goto(r, "done")
  /\ UNCHANGED <<row, accounts, enabled, attribute>>

(***************************************************************************)
(* Administration.                                                         *)
(***************************************************************************)
ValidTransitions ==
  [status \in Statuses |->
    CASE status = "PENDING_VERIFICATION" -> {"ACTIVE", "DELETED"}
      [] status = "DELETED" -> {}
      [] OTHER -> {"ACTIVE", "SUSPENDED", "INACTIVE", "DELETED"} \ {status}]

\* validateAdminPermissions, for an actor other than the user.
MayChangeStatus(actor, role) ==
  CASE role = "ADMIN" -> actor = "SUPER_ADMIN"
    [] role = "SUPER_ADMIN" -> actor # "ADMIN"
    [] OTHER -> TRUE

MayChangeRole(actor, role, new) ==
  actor = "ADMIN" => role \notin {"ADMIN", "SUPER_ADMIN"} /\ new # "SUPER_ADMIN"

RoleTransition(role, new) == new = "EXTERNAL_USER" => role = "UNASSIGNED"

\* validateTransition, validatePendingVerificationTransition.
Allowed(copy, to) ==
  /\ to \in ValidTransitions[copy.status]
  /\ to = "PENDING_VERIFICATION" => copy.role = "LAWYER"

SetStatus(r) ==
  \E to \in Targets, actor \in {"ADMIN", "SUPER_ADMIN"} :
    /\ row # None
    /\ MayChangeStatus(actor, row.role)
    /\ row.status # to
    /\ Allowed(row, to)
    /\ Begin(r, "status", to, "access")

\* Altered: a suspended user keeps its access to the pool.
SetAccessLater(r) ==
  /\ At(r, "access")
  /\ enabled' = (enabled \/ req[r].to = "ACTIVE")
  /\ Goto(r, IF req[r].to \in Blocked THEN "sign_out" ELSE "find")
  /\ UNCHANGED <<row, accounts, attribute, session, tokens>>

\* getStatusEffects: adminEnableUser or adminDisableUser.
SetAccess(r) ==
  /\ At(r, "access")
  /\ enabled' = IF req[r].to = "ACTIVE" THEN TRUE ELSE enabled /\ req[r].to \notin Blocked
  /\ Goto(r, IF req[r].to \in Blocked THEN "sign_out" ELSE "find")
  /\ UNCHANGED <<row, accounts, attribute, session, tokens>>

SetRole(r) ==
  \E to \in Roles, actor \in {"ADMIN", "SUPER_ADMIN"} :
    /\ row # None
    /\ MayChangeRole(actor, row.role, to)
    /\ row.role # to
    /\ RoleTransition(row.role, to)
    /\ Begin(r, "role", to, "attribute")

SetAttribute(r) ==
  /\ At(r, "attribute")
  /\ attribute' = req[r].to
  /\ Goto(r, "sign_out")
  /\ UNCHANGED <<row, accounts, enabled, session, tokens>>

\* adminUserGlobalSignOut: the tokens issued already stay what they are.
SignOut(r) ==
  /\ At(r, "sign_out")
  /\ session' = FALSE
  /\ tokens' = {[t EXCEPT !.out = TRUE] : t \in tokens}
  /\ Goto(r, "find")
  /\ UNCHANGED <<row, accounts, enabled, attribute>>

\* changeUserStatus and changeUserRole read the row again; only the former
\* validates it again.
Find(r) ==
  /\ At(r, "find")
  /\ IF req[r].kind = "status" /\ ~Allowed(row, req[r].to)
     THEN Goto(r, "broken")
     ELSE Continue(r, [req[r] EXCEPT !.step = "save", !.copy = row]) /\ NoFault
  /\ UNCHANGED <<row, accounts, pool>>

Saved(r) ==
  IF req[r].kind = "role" THEN [req[r].copy EXCEPT !.role = req[r].to]
  ELSE [req[r].copy EXCEPT !.status = req[r].to]

\* toUpdateModel leaves deletedAt out, so user_deleted_status_consistency_chk
\* refuses the status DELETED.
Save(r) ==
  /\ At(r, "save")
  /\ IF Saved(r).status = "DELETED"
     THEN Goto(r, "broken") /\ UNCHANGED row
     ELSE Goto(r, "done") /\ row' = Saved(r)
  /\ UNCHANGED <<accounts, pool>>

(***************************************************************************)
(* Unlinking a provider.                                                   *)
(***************************************************************************)
Unlink(r) ==
  \E p \in accounts : Begin(r, "unlink", p, "count")

\* Altered: any account may go.
CountUnchecked(r) ==
  /\ At(r, "count")
  /\ Goto(r, "remove")
  /\ UNCHANGED <<row, accounts, pool>>

\* shouldAllowUnlinking; adminUnlinkProviderForUser does nothing.
Count(r) ==
  /\ At(r, "count")
  /\ Goto(r, IF Cardinality(accounts) > 1 THEN "remove" ELSE "refused")
  /\ UNCHANGED <<row, accounts, pool>>

\* removeProviderLink finds the account again and deletes it.
Remove(r) ==
  /\ At(r, "remove")
  /\ accounts' = accounts \ {req[r].to}
  /\ Goto(r, "done")
  /\ UNCHANGED <<row, pool>>

\* A call to the pool or to the database fails, or the process ends.
BreakOff(r) ==
  /\ UnderWay(r)
  /\ faults < MaxFaults
  /\ faults' = faults + 1
  /\ Continue(r, [req[r] EXCEPT !.step = "broken"])
  /\ UNCHANGED <<row, accounts, pool, unread>>

Trigger(r) ==
  \/ SignIn(r) \/ Renew(r) \/ PreAuth(r) \/ PreAuthUnread(r) \/ FindLogin(r) \/ Upsert(r)
  \/ Claims(r) \/ ClaimsUnread(r) \/ Issue(r)

Administer(r) ==
  \/ SetStatus(r) \/ SetAccess(r)
  \/ SetRole(r) \/ SetAttribute(r)
  \/ SignOut(r) \/ Find(r) \/ Save(r)

UnlinkSteps(r) == Unlink(r) \/ Count(r) \/ Remove(r)

\* verifyJwt accepts a token until it expires, whatever became of its user.
Expire ==
  /\ \E t \in tokens : tokens' = tokens \ {t}
  /\ UNCHANGED <<row, accounts, enabled, attribute, session, req, overlap, unread, faults>>

Next ==
  \/ \E r \in Requests : Trigger(r) \/ Administer(r) \/ UnlinkSteps(r) \/ BreakOff(r)
  \/ Expire

Spec == Init /\ [][Next]_vars

-----------------------------------------------------------------------------
\* The variables have their types, and a request that will write holds a row.
TypeOK ==
  /\ row \in UserRow \cup {None}
  /\ accounts \subseteq Providers
  /\ row = None => accounts = {}
  /\ enabled \in BOOLEAN
  /\ attribute \in Roles \cup {None}
  /\ session \in BOOLEAN
  /\ tokens \subseteq Token
  /\ \A r \in Requests :
       /\ req[r].kind \in Kinds \cup {"none"}
       /\ req[r].step \in Steps
       /\ At(r, "upsert") \/ At(r, "save") => req[r].copy \in UserRow
  /\ overlap \subseteq Kinds
  /\ unread \in 0 .. faults
  /\ faults \in 0 .. MaxFaults

Settled(kind) ==
  \A r \in Requests : req[r].kind = kind => req[r].step \in {"done", "refused"}

\* The user pool and the row agree: whatever sign-ins, unlinkings and changes of
\* the other overlap, status changes made one at a time and carried through leave
\* exactly the blocked users disabled, and such role changes leave the row's role
\* in the pool.  A deletion is never carried through (executeCognitoActions comes
\* before changeUserStatus, which fails).
PoolMatchesRow ==
  row # None =>
    /\ "status" \notin overlap /\ Settled("status") => (enabled <=> row.status \notin Blocked)
    /\ "role" \notin overlap /\ Settled("role") => attribute = row.role

AllOut == ~session /\ \A t \in tokens : t.out

NoneBroken(kind) == \A r \in Requests : req[r].kind = kind => req[r].step # "broken"

\* A user whose row is blocked is signed out: nothing renews its tokens, and those
\* that services accept until they expire were all issued before the sign-out.
\* However status changes overlap and break off, for the sign-out precedes the
\* write and PreAuthentication looks at the row whatever the pool says; when a
\* trigger could not read the row, for status changes made one at a time and
\* carried through, since the pool then refuses what the trigger lets pass.
\* Sign-ins beside a status change are left out: one that has passed
\* PreAuthentication ends with a session though the user is blocked meanwhile.
BlockedIsSignedOut ==
  /\ row # None /\ row.status \in Blocked
  /\ ~({"sign_in", "status"} \subseteq overlap)
  /\ unread = 0 \/ ("status" \notin overlap /\ NoneBroken("status"))
  => AllOut

\* A token issued since the last sign-out claims the role of the row, or none if a
\* trigger could not read the row, though overlapping changes of the role write
\* each other's copies back and break off: the sign-out precedes the write.  An
\* older token claims an older role until it expires, and so may the token of a
\* sign-in beside a role change, which is left out.
ClaimIsRole ==
  row # None /\ ~({"sign_in", "role"} \subseteq overlap) =>
    \A t \in tokens :
      \/ t.out
      \/ t.claim = row.role
      \/ unread > 0 /\ t.claim = "UNASSIGNED"

\* Only an administrator's request for it changes a status or a role, though
\* every sign-in and every change of the other writes both.
OnlyAdminsChange ==
  [][/\ row # None /\ "status" \notin overlap /\ row'.status # row.status
        => \E r \in Requests : At(r, "save") /\ req[r].kind = "status"
     /\ row # None /\ "role" \notin overlap /\ row'.role # row.role
        => \E r \in Requests : At(r, "save") /\ req[r].kind = "role"]_row

\* One provider at least stays linked, when unlinkings do not overlap.
LastProviderKept ==
  [][accounts' = {} => "unlink" \in overlap]_accounts

=============================================================================
