---------------------------- MODULE MCCooldowns ----------------------------
(* Small instances of Cooldowns for TLC; the two models are alike.  "plain" *)
(* has neither refused refreshes nor restarts, and need not save its        *)
(* records; the others have one of the two or both, and fewer executions or *)
(* less time.                                                               *)
EXTENDS Cooldowns, TLC

CONSTANTS m1, m2

VARIABLE instance

Instances == {"plain", "restart", "refused", "refusedRestart"}

MCInit == CooldownInit /\ instance \in Instances

MCNext ==
    /\ CooldownNext /\ UNCHANGED instance
    /\ instance # "plain" => now' < MaxTime
    /\ CASE instance = "plain" -> disk' = disk /\ restarts' = 0
         [] instance = "refused" -> seq' < MaxSeq /\ disk' = disk /\ restarts' = 0
         [] instance = "restart" -> seq' + restarts' < MaxSeq
         [] instance = "refusedRestart" -> seq' <= 1 /\ ~observed'
    /\ instance \in {"plain", "restart"} =>
           /\ ~terminal' /\ ~due'.refused
           /\ \A m \in Model : st'[m].error # "unauthorized"

MCSpec == MCInit /\ [][MCNext]_<<cooldownVars, instance>>

Symmetry == Permutations(Model)

=============================================================================
