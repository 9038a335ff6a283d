-------------------------- MODULE MCProtectedLoans --------------------------
(* Two borrowers share a Protector and two objects; two goroutines unwrap.   *)
EXTENDS ProtectedLoans, TLC

Symmetry == Permutations(Borrowers) \cup Permutations(Objects) \cup Permutations(Checkers)
=============================================================================
