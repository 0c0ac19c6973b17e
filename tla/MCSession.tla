----------------------------- MODULE MCSession -----------------------------
(* Session for TLC: handles and writes are interchangeable. *)
EXTENDS Session, TLC

Symmetry == Permutations(Txns) \cup Permutations(Stmts) \cup Permutations(Writes)
=============================================================================
