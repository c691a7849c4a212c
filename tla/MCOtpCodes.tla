----------------------------- MODULE MCOtpCodes -----------------------------
(* The instances of OtpCodes that TLC checks. *)
EXTENDS OtpCodes, TLC

\* Rows, users and handlers are told apart by nothing but their identity.
Symmetry == Permutations(Id) \cup Permutations(User)
            \cup Permutations(Requester) \cup Permutations(Verifier)
=============================================================================
