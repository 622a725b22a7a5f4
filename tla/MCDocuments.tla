------------------------------ MODULE MCDocuments -----------------------------
(* Instances of Documents for TLC. *)
EXTENDS Documents, TLC

RequestSymmetry == Permutations(Requests) \cup Permutations(Users)

=============================================================================
