---------------------------- MODULE MCInvitation ----------------------------
(* Instances of Invitation for TLC. *)
EXTENDS Invitation, TLC

RequestSymmetry == Permutations(Requests)

=============================================================================
