--------------------------- MODULE MCTransactions ---------------------------
(***************************************************************************)
(* Instances of Transactions for TLC.                                      *)
(***************************************************************************)
EXTENDS Transactions, TLC

AllOfThem == AllFaults
Local == AllFaults \ {"stray"}

Symmetric == Permutations(Writers) \cup Permutations(Conns)
=============================================================================
