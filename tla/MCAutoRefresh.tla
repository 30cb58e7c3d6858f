--------------------------- MODULE MCAutoRefresh ---------------------------
(* Instances of AutoRefresh for TLC, chosen at the start: the loop is       *)
(* replaced; or it is stopped, and there is one change of a credential or   *)
(* one failing refresh; or a credential is removed and registered again; or *)
(* the executor is registered late.                                         *)
EXTENDS AutoRefresh

VARIABLE instance

mcVars == <<instance, vars>>

MCInit ==
    /\ Init
    /\ instance \in {"replaced", "changed", "again", "executor"}
    /\ exec = (instance # "executor")
    /\ instance # "changed" => \A c \in Cred : auth[c].live

Events == CASE instance = "changed" -> 1
            [] instance = "again" -> 2
            [] OTHER -> 0

MCNext ==
    /\ UNCHANGED instance
    /\ \/ (instance = "replaced" \/ created = 0) /\ StartAutoRefresh
       \/ instance = "changed" /\ (StopAutoRefresh \/ Changing)
       \/ instance = "again" /\ \E c \in Cred : Remove(c) \/ Register(c)
       \/ instance = "executor" /\ RegisterExecutor
       \/ Proceed
    /\ ops' + failures' <= Events
    /\ failures' > 0 => instance = "changed"

MCSpec == MCInit /\ [][MCNext]_mcVars /\ Fairness
=============================================================================
