----------------------------- MODULE MCEnvelope -----------------------------
(* Instances of Envelope for TLC. *)
EXTENDS Envelope, TLC

CONSTANTS o, i1, i2, v1

RequestSymmetry == Permutations(Requests)

=============================================================================
