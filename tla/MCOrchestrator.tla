--------------------------- MODULE MCOrchestrator ----------------------------
(***************************************************************************)
(* Instances of Orchestrator for TLC: one execution of one finding, and a  *)
(* custom action's execution of two findings.                              *)
(***************************************************************************)
EXTENDS Orchestrator, TLC

CONSTANTS e1, f1, f2

FindingsOfOne == e1 :> {f1}
FindingsOfAction == e1 :> {f1, f2}
FirstOfAll == e1 :> f1

Imported(workflow) == [trigger |-> "imported", workflow |-> workflow]
InputsNew == {Imported("NEW")}
InputsAction == {[trigger |-> "custom", workflow |-> "NEW"]}
InputsAll == {Imported("NEW"), Imported("NOTIFIED"), Imported("RESOLVED"),
              [trigger |-> "api", workflow |-> "NEW"], [trigger |-> "custom", workflow |-> "NOTIFIED"]}
=============================================================================
