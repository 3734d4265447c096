----------------------------- MODULE MCApiActions -----------------------------
(***************************************************************************)
(* Two requests on three findings: batches of two rows, so a request on    *)
(* three has a second batch.                                               *)
(***************************************************************************)
EXTENDS ApiActions, TLC

CONSTANTS f1, f2, f3, r1, r2

MCInputs ==
  r1 :> {[action |-> "Suppress", ids |-> <<f1, f2, f3>>],
         [action |-> "Remediate", ids |-> <<f1, f2>>]} @@
  r2 :> {[action |-> "Unsuppress", ids |-> <<f2>>],
         [action |-> "Unsuppress", ids |-> <<f2, f2>>],
         [action |-> "Remediate", ids |-> <<f2>>]}
=============================================================================
