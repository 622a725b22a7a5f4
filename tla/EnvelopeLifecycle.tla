------------------------- MODULE EnvelopeLifecycle --------------------------
(***************************************************************************)
(* What the signature-service promises about an envelope, as its users see *)
(* it: a status and the status of every participant, changed one at a time *)
(* by business operations.  No requests, no stale copies, no half-done     *)
(* work.  Envelope implements this when requests do not overlap.           *)
(***************************************************************************)
CONSTANT Participants

VARIABLES status, signer

Open == {"DRAFT", "READY_FOR_SIGNATURE"}

Is(s, value) == signer[s] = value

Init ==
  /\ status \in Open
  /\ signer \in [Participants -> {"ABSENT", "PENDING"}]

Become(s, value) == signer' = [signer EXCEPT ![s] = value] /\ UNCHANGED status

Move(value) == status' = value /\ UNCHANGED signer

Send == status = "DRAFT" /\ Move("READY_FOR_SIGNATURE")

Cancel == status \in Open /\ Move("CANCELLED")

\* Participants join and leave an open envelope; who has signed stays.
Join(s) == status \in Open /\ Is(s, "ABSENT") /\ Become(s, "PENDING")

Leave(s) ==
  /\ status \in Open
  /\ Is(s, "PENDING") \/ Is(s, "DECLINED")
  /\ Become(s, "REMOVED")

Sign(s) ==
  /\ status = "READY_FOR_SIGNATURE"
  /\ Is(s, "PENDING")
  /\ Become(s, "SIGNED")

Decline(s) ==
  /\ status # "COMPLETED"
  /\ Is(s, "PENDING")
  /\ Become(s, "DECLINED")

\* A decline closes the envelope, a cancelled one too.
Close ==
  /\ status # "COMPLETED"
  /\ \E s \in Participants : Is(s, "DECLINED")
  /\ Move("DECLINED")

\* Nobody who takes part is still pending or has declined.
Complete ==
  /\ status = "READY_FOR_SIGNATURE"
  /\ \A s \in Participants : ~Is(s, "PENDING") /\ ~Is(s, "DECLINED")
  /\ Move("COMPLETED")

Next ==
  \/ Send \/ Cancel \/ Close \/ Complete
  \/ \E s \in Participants : Join(s) \/ Leave(s) \/ Sign(s) \/ Decline(s)

Spec == Init /\ [][Next]_<<status, signer>>

=============================================================================
