----------------------------- MODULE MCInflight -----------------------------
(***************************************************************************)
(* Inflight with one request that answers in pieces and one that ends      *)
(* before it answers.                                                      *)
(***************************************************************************)
EXTENDS Inflight

Versions == [r \in Requests |-> IF r = "q1" THEN 3 ELSE 1]

=============================================================================
