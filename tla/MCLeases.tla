------------------------------ MODULE MCLeases ------------------------------
(* The lease table and its history on a small instance. *)
EXTENDS LeaseHistory, TLC

\* Nothing tells one address from another.
Symmetric == Permutations(Addresses)
=============================================================================
