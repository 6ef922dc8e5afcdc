------------------------------ MODULE PlanWalk ------------------------------
(***************************************************************************)
(* The abstract specification of a cap command: it does the steps of its   *)
(* plan, each once and in the order of DeployPlans, and may stop anywhere. *)
(***************************************************************************)
EXTENDS DeployPlans

VARIABLES cmd,   \* the command
          step   \* the step it did last, "start" before the first

Init == cmd \in CommandNames /\ step = "start"

Begin == step = "start" /\ step' = First[cmd]
Continue == step \in DOMAIN After[cmd] /\ step' = After[cmd][step]

Next == (Begin \/ Continue) /\ UNCHANGED cmd

Spec == Init /\ [][Next]_<<cmd, step>>
=============================================================================
