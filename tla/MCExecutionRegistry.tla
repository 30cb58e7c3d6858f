------------------------ MODULE MCExecutionRegistry ------------------------
(***************************************************************************)
(* Small instances of ExecutionRegistry.  One behaviour belongs to one      *)
(* instance, which says who is at work beside the requests: goroutines that *)
(* shut the registry down, one that waits for the dispatches under way, the *)
(* release sinks, or the publisher of snapshots.  An instance only keeps    *)
(* calls from being made; what has begun goes on as in the specification.   *)
(***************************************************************************)
EXTENDS ExecutionRegistry

VARIABLE instance

Quiet(T) == \A t \in T : pc[t] = "idle"
NoReleases == releaseSink = NoSink /\ \A id \in Ids : scope[id].group = Unaccounted
NoSnapshots == observedBarrier = 0 /\ freeze.revision = 0

Within ==
    CASE instance = "shutdown" -> Quiet(Waiters) /\ NoReleases /\ NoSnapshots /\ next <= 2
      [] instance = "waiting"  -> Quiet(Closers) /\ NoReleases /\ NoSnapshots /\ next <= 2
      [] instance = "release"  -> Quiet(Threads) /\ NoSnapshots
      [] instance = "barrier"  -> Quiet(Threads) /\ NoReleases

MCInit == Init /\ instance \in {"shutdown", "waiting", "release", "barrier"}
MCNext == Next /\ UNCHANGED instance /\ Within'

MCSpec == MCInit /\ [][MCNext]_<<vars, instance>> /\ Fairness
=============================================================================
