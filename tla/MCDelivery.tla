----------------------------- MODULE MCDelivery ------------------------------
(* Small instances of the Delivery reducer for TLC.                         *)
EXTENDS DeliveryRefinement

CONSTANTS a1, a2

MCActivity == {a1, a2}
MCOneActivity == {a1}
MCSelection == {"guard", "post"}
MCModality == [s \in MCSelection |->
                 IF s = "guard" THEN "regression-guard" ELSE "postcondition"]
MCMandates == {[baseline |-> MCSelection, final |-> {"guard"}]}
MCDispositions == {"pass", "fail", "not-run"}
MCOneSelection == {"guard"}
MCOneModality == [s \in MCOneSelection |-> "regression-guard"]
MCOneMandate == {[baseline |-> MCOneSelection, final |-> MCOneSelection]}
MCPassing == {"pass"}
MCResource == {"operations", "agentAttempts"}
MCCharge == [op \in ProductiveOperations |->
               [r \in MCResource |->
                  IF r = "agentAttempts" /\ op = "integrate" THEN 0 ELSE 1]]
MCGrantable == {{"continue"}, {"continue", "integrate"}}
MCCeilings == {[r \in MCResource |-> n] : n \in {1, 2}}
==============================================================================
