-------------------------- MODULE MCRolloutServing --------------------------
(* Deployments for TLC.                                                      *)
EXTENDS RolloutServing

Deployment(standalone, hybrid, control, rebalance, partial, steps) ==
    [standalone |-> standalone, hybrid |-> hybrid, control |-> control,
     rebalance |-> rebalance, partial |-> partial, steps |-> steps]

(* Two steps suffice for a hybrid server to be removed, added again and     *)
(* removed once more.                                                       *)
All == {Deployment(1, 1, "separate", FALSE, TRUE, 2),
        Deployment(1, 1, "dynamic", TRUE, TRUE, 1),
        Deployment(0, 2, "dynamic", FALSE, TRUE, 1),
        Deployment(1, 1, "dynamic", FALSE, FALSE, 2)}

(* For variations of the run: one call is lost to a removed server, and the *)
(* validation on the trainer's side.                                        *)
Separate == {Deployment(1, 1, "separate", FALSE, TRUE, 1)}
Validating == {Deployment(1, 1, "validate", FALSE, TRUE, 1)}

=============================================================================
