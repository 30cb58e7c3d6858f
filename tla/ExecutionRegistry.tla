-------------------------- MODULE ExecutionRegistry --------------------------
(***************************************************************************)
(* The registry of Home-dispatched executions                              *)
(* (sdk/cliproxy/executionregistry/{registry,observation}.go).             *)
(*                                                                         *)
(* One action is one critical section of Registry.mu, or one access to the *)
(* atomic lifecycle word Registry.state where the code makes it outside    *)
(* the mutex.  Every dispatch token is owned by one request, which installs*)
(* or ends it; Drain, WaitPending, Close, SetReleaseSink, ObserveBarrier   *)
(* and FreezeInFlight run in other goroutines at any moment.               *)
(***************************************************************************)
EXTENDS Integers, FiniteSets

CONSTANTS
    MaxDispatches,  \* bound on BeginDispatch: ids are 1..MaxDispatches
    MaxBarrier,     \* bound on the observation barrier revisions of Home
    MaxRevision,    \* bound on the snapshots FreezeInFlight takes
    Groups,         \* ReleaseGroup: credential and model of an accounted scope
    Unaccounted,    \* spec of a scope Home does not account
    Sinks,          \* release sinks the service may install
    NoSink,         \* releaseSink = nil
    Drainers,       \* goroutines that call Drain, once each
    Waiters,        \* goroutines that call WaitPending, once each
    Closers         \* goroutines that call Close, once each

ASSUME BoundsAssumption == MaxDispatches \in Nat /\ MaxBarrier \in Nat /\ MaxRevision \in Nat
ASSUME NullAssumption == Unaccounted \notin Groups /\ NoSink \notin Sinks
ASSUME ThreadsAssumption ==
    /\ Drainers \cap Waiters = {}
    /\ Drainers \cap Closers = {}
    /\ Waiters \cap Closers = {}

Ids == 1..MaxDispatches
Threads == Drainers \cup Waiters \cup Closers

VARIABLES
    state,                  \* "accepting", "draining" or "closed"
    next,                   \* last dispatch id handed out
    pending,                \* keys of Registry.pending
    scopes,                 \* keys of Registry.scopes
    scope,                  \* per id: the Scope object and where its owner is
    releaseSequences,       \* cumulative releases per group
    releaseSink,            \* current sink
    replay,                 \* what SetReleaseSink still has to replay
    delivered,              \* external: the highest sequence each sink was given
    observedBarrier, pendingBarrierSequence, publishedBarrier,
    freeze,                 \* the last snapshot: revision, barrier, executions
    barrierSequence,        \* history: next when each barrier was observed
    closeStarted, closeDone, \* Close's once-guard
    pc, todo, current, woken \* per goroutine: position, scopes left, scope it
                            \* waits for, whether the channel it holds is closed

registryVars == <<state, next, pending, scopes>>
releaseVars == <<releaseSequences, releaseSink, replay, delivered>>
barrierVars == <<observedBarrier, pendingBarrierSequence, publishedBarrier, freeze, barrierSequence>>
closeVars == <<closeStarted, closeDone>>
threadVars == <<closeVars, pc, todo, current, woken>>
vars == <<registryVars, scope, releaseVars, barrierVars, threadVars>>

(***************************************************************************)
(* A scope.  "resource" folds closeFn and closeDone together: none (both   *)
(* nil), bound (closeFn set), closing (closeDone open), closed.  "at" is   *)
(* the owner's position: absent, live, then the steps of EndWithRelease.   *)
(***************************************************************************)
ScopeAt == {"absent", "live", "inactive", "waiting", "closed", "marked", "delivered", "ended"}
Resource == {"none", "bound", "closing", "closed"}
Released == {"marked", "delivered", "ended"}

Scope == [at : ScopeAt, group : Groups \cup {Unaccounted}, active : BOOLEAN,
          resource : Resource, sink : Sinks \cup {NoSink}, seq : Nat]

NoScope == [at |-> "absent", group |-> Unaccounted, active |-> FALSE,
            resource |-> "none", sink |-> NoSink, seq |-> 0]

(* Mutant: a change that nobody is told about. *)
signalLockedLost == UNCHANGED woken

(* signalLocked closes the current channel: every goroutine that captured it may wake. *)
signalLocked == woken' = [t \in Threads |-> TRUE]

Goto(t, from, to) == pc[t] = from /\ pc' = [pc EXCEPT ![t] = to]

-----------------------------------------------------------------------------
(* The owner of a dispatch token. *)

TokenId == next + 1

BeginDispatch ==
    /\ state = "accepting"
    /\ next < MaxDispatches
    /\ next' = next + 1
    /\ pending' = pending \cup {TokenId}
    /\ UNCHANGED <<state, scopes, scope, releaseVars, barrierVars, threadVars>>

(* PendingDispatch.End; a token already ended or installed makes it a no-op (sync.Once). *)
EndPending(id) ==
    /\ id \in pending
    /\ pending' = pending \ {id}
    /\ signalLocked
    /\ UNCHANGED <<state, next, scopes, scope, releaseVars, barrierVars,
                   closeVars, pc, todo, current>>

Install(id, group) ==
    /\ id \in pending
    /\ state = "accepting"
    /\ pending' = pending \ {id}
    /\ scopes' = scopes \cup {id}
    /\ scope' = [scope EXCEPT ![id] = [NoScope EXCEPT !.at = "live", !.group = group, !.active = TRUE]]
    /\ signalLocked
    /\ UNCHANGED <<state, next, releaseVars, barrierVars, closeVars, pc, todo, current>>

(* Install on a registry that no longer accepts consumes the token. *)
InstallRejected(id) ==
    /\ id \in pending
    /\ state # "accepting"
    /\ pending' = pending \ {id}
    /\ signalLocked
    /\ UNCHANGED <<state, next, scopes, scope, releaseVars, barrierVars,
                   closeVars, pc, todo, current>>

(* Mutants: Bind ignores the registry's lifecycle; it accepts a scope whose end has begun. *)
BindableAnyState(id) == scope[id].active
BindableEnded(id) == state = "accepting" /\ scope[id].at # "absent"

Bindable(id) == state = "accepting" /\ scope[id].active

Bind(id) ==
    /\ Bindable(id)
    /\ scope[id].resource = "none"
    /\ scope' = [scope EXCEPT ![id].resource = "bound"]
    /\ UNCHANGED <<registryVars, releaseVars, barrierVars, threadVars>>

-----------------------------------------------------------------------------
(* EndWithRelease, step by step; sync.Once makes one goroutine run it. *)

EndInactive(id) ==
    /\ scope[id].at = "live"
    /\ scope' = [scope EXCEPT ![id].at = "inactive", ![id].active = FALSE]
    /\ UNCHANGED <<registryVars, releaseVars, barrierVars, threadVars>>

(* What startBoundResourceClose makes of the resource. *)
startBoundResourceClose(resource) == IF resource = "bound" THEN "closing" ELSE resource

EndStartClose(id) ==
    /\ scope[id].at = "inactive"
    /\ scope' = [scope EXCEPT ![id].resource = startBoundResourceClose(@),
                              ![id].at = IF scope[id].resource = "none" THEN "closed" ELSE "waiting"]
    /\ UNCHANGED <<registryVars, releaseVars, barrierVars, threadVars>>

EndWaitClose(id) ==
    /\ scope[id].at = "waiting"
    /\ scope[id].resource = "closed"
    /\ scope' = [scope EXCEPT ![id].at = "closed"]
    /\ UNCHANGED <<registryVars, releaseVars, barrierVars, threadVars>>

(* The goroutine that runs closeFn; its error is only logged. *)
closeResource(id) ==
    /\ scope[id].resource = "closing"
    /\ scope' = [scope EXCEPT ![id].resource = "closed"]
    /\ UNCHANGED <<registryVars, releaseVars, barrierVars, threadVars>>

(* Mutant: a second End of the scope marks it again. *)
ReleasableAgain(id) == scope[id].at \in {"closed", "marked"}

Releasable(id) == scope[id].at = "closed"

markReleasedLocked(id) ==
    /\ Releasable(id)
    /\ LET group == scope[id].group IN
       IF group = Unaccounted
       THEN /\ scope' = [scope EXCEPT ![id].at = "marked"]
            /\ UNCHANGED releaseSequences
       ELSE /\ releaseSequences' = [releaseSequences EXCEPT ![group] = @ + 1]
            /\ scope' = [scope EXCEPT ![id].at = "marked",
                                      ![id].sink = releaseSink,
                                      ![id].seq = releaseSequences[group] + 1]
    /\ UNCHANGED <<registryVars, releaseSink, replay, delivered, barrierVars, threadVars>>

(* A sink keeps the highest sequence it is given (releaseFlusher.MarkDirty). *)
Deliver(sink, group, seq) ==
    delivered' = [delivered EXCEPT ![sink][group] = IF seq > @ THEN seq ELSE @]

(* The sink is called with the sink and sequence captured under the mutex. *)
EndDeliver(id) ==
    /\ scope[id].at = "marked"
    /\ scope' = [scope EXCEPT ![id].at = "delivered"]
    /\ IF scope[id].sink # NoSink /\ scope[id].seq > 0
       THEN Deliver(scope[id].sink, scope[id].group, scope[id].seq)
       ELSE UNCHANGED delivered
    /\ UNCHANGED <<registryVars, releaseSequences, releaseSink, replay, barrierVars, threadVars>>

EndDelete(id) ==
    /\ scope[id].at = "delivered"
    /\ scope' = [scope EXCEPT ![id].at = "ended"]
    /\ scopes' = scopes \ {id}
    /\ signalLocked
    /\ UNCHANGED <<state, next, pending, releaseVars, barrierVars, closeVars, pc, todo, current>>

-----------------------------------------------------------------------------
(* SetReleaseSink: swap and copy the sequences under the mutex, replay outside it. *)

(* Mutant: the new sink is not told about earlier releases. *)
ReplayNothing(sink) == {}

ReplayGroups(sink) == IF sink = NoSink THEN {} ELSE {g \in Groups : releaseSequences[g] > 0}

SetReleaseSink(sink) ==
    /\ replay.todo = {}
    /\ releaseSink' = sink
    /\ replay' = [sink |-> sink, seqs |-> releaseSequences, todo |-> ReplayGroups(sink)]
    /\ UNCHANGED <<registryVars, scope, releaseSequences, delivered, barrierVars, threadVars>>

ReplayRelease(group) ==
    /\ group \in replay.todo
    /\ Deliver(replay.sink, group, replay.seqs[group])
    /\ replay' = [replay EXCEPT !.todo = @ \ {group}]
    /\ UNCHANGED <<registryVars, scope, releaseSequences, releaseSink, barrierVars, threadVars>>

-----------------------------------------------------------------------------
(* Observation barriers (observation.go). *)

ObserveBarrier(revision) ==
    /\ revision > observedBarrier
    /\ observedBarrier' = revision
    /\ pendingBarrierSequence' = next
    /\ barrierSequence' = [barrierSequence EXCEPT ![revision] = next]
    /\ UNCHANGED <<registryVars, scope, releaseVars, publishedBarrier, freeze, threadVars>>

(* Mutant: the barrier is published while older dispatches are unresolved. *)
BarrierAlwaysSettled == TRUE

BarrierSettled == \A id \in pending : id > pendingBarrierSequence

(* A snapshot carries the barrier unless a dispatch older than it is unresolved. *)
FreezeInFlight ==
    /\ freeze.revision < MaxRevision
    /\ publishedBarrier' =
          IF observedBarrier > publishedBarrier /\ BarrierSettled THEN observedBarrier ELSE publishedBarrier
    /\ freeze' = [revision |-> freeze.revision + 1, barrier |-> publishedBarrier', executions |-> scopes]
    /\ UNCHANGED <<registryVars, scope, releaseVars, observedBarrier,
                   pendingBarrierSequence, barrierSequence, threadVars>>

-----------------------------------------------------------------------------
(* Drain. *)

DrainStart(t) ==
    /\ state \in {"accepting", "draining"}
    /\ Goto(t, "idle", "snapshot")
    /\ state' = "draining"
    /\ UNCHANGED <<next, pending, scopes, scope, releaseVars, barrierVars,
                   closeVars, todo, current, woken>>

DrainRejected(t) ==
    /\ state = "closed"
    /\ Goto(t, "idle", "rejected")
    /\ UNCHANGED <<registryVars, scope, releaseVars, barrierVars, closeVars, todo, current, woken>>

SnapshotScopes(t) ==
    /\ Goto(t, "snapshot", "closing")
    /\ todo' = [todo EXCEPT ![t] = scopes]
    /\ UNCHANGED <<registryVars, scope, releaseVars, barrierVars, closeVars, current, woken>>

DrainCloseScope(t, id) ==
    /\ pc[t] = "closing"
    /\ id \in todo[t]
    /\ scope' = [scope EXCEPT ![id].resource = startBoundResourceClose(@)]
    /\ todo' = [todo EXCEPT ![t] = @ \ {id}]
    /\ UNCHANGED <<registryVars, releaseVars, barrierVars, closeVars, pc, current, woken>>

(* Mutant: Drain waits for the installed executions only. *)
EmptyOfScopes == scopes = {}

Empty == pending = {} /\ scopes = {}

(* One pass of the wait loop: captures the channel under the mutex, or finishes. *)
DrainCheck(t) ==
    /\ \/ pc[t] = "closing" /\ todo[t] = {}
       \/ pc[t] = "waiting" /\ woken[t]
    /\ IF Empty
       THEN /\ state' = "closed"
            /\ pc' = [pc EXCEPT ![t] = "drained"]
            /\ UNCHANGED woken
       ELSE /\ pc' = [pc EXCEPT ![t] = "waiting"]
            /\ woken' = [woken EXCEPT ![t] = FALSE]
            /\ UNCHANGED state
    /\ UNCHANGED <<next, pending, scopes, scope, releaseVars, barrierVars, closeVars, todo, current>>

(* ctx expired while waiting, in Drain or in WaitPending. *)
WaitTimeout(t) ==
    /\ Goto(t, "waiting", "timeout")
    /\ UNCHANGED <<registryVars, scope, releaseVars, barrierVars, closeVars, todo, current, woken>>

WaitPending(t) ==
    /\ \/ pc[t] = "idle"
       \/ pc[t] = "waiting" /\ woken[t]
    /\ IF pending = {}
       THEN pc' = [pc EXCEPT ![t] = "settled"] /\ UNCHANGED woken
       ELSE /\ pc' = [pc EXCEPT ![t] = "waiting"]
            /\ woken' = [woken EXCEPT ![t] = FALSE]
    /\ UNCHANGED <<registryVars, scope, releaseVars, barrierVars, closeVars, todo, current>>

-----------------------------------------------------------------------------
(* Close. *)

CloseEnter(t) ==
    /\ pc[t] = "idle"
    /\ \/ /\ closeStarted
          /\ pc' = [pc EXCEPT ![t] = "joining"]
          /\ UNCHANGED closeStarted
       \/ /\ ~closeStarted
          /\ state = "closed"
          /\ pc' = [pc EXCEPT ![t] = "returned"]
          /\ UNCHANGED closeStarted
       \/ /\ ~closeStarted
          /\ state # "closed"
          /\ closeStarted' = TRUE
          /\ pc' = [pc EXCEPT ![t] = "storing"]
    /\ UNCHANGED <<registryVars, scope, releaseVars, barrierVars, closeDone, todo, current, woken>>

CloseStore(t) ==
    /\ Goto(t, "storing", "snapshot")
    /\ state' = "closed"
    /\ UNCHANGED <<next, pending, scopes, scope, releaseVars, barrierVars,
                   closeVars, todo, current, woken>>

(* waitForBoundResourceClose on one scope after the other. *)
CloseScope(t, id) ==
    /\ Goto(t, "closing", "joinScope")
    /\ id \in todo[t]
    /\ scope' = [scope EXCEPT ![id].resource = startBoundResourceClose(@)]
    /\ todo' = [todo EXCEPT ![t] = @ \ {id}]
    /\ current' = [current EXCEPT ![t] = id]
    /\ UNCHANGED <<registryVars, releaseVars, barrierVars, closeVars, woken>>

(* Mutant: Close starts the resource's close but does not wait for it. *)
ResourceIgnored(id) == TRUE

ResourceGone(id) == scope[id].resource \in {"none", "closed"}

CloseJoinScope(t) ==
    /\ Goto(t, "joinScope", "closing")
    /\ ResourceGone(current[t])
    /\ UNCHANGED <<registryVars, scope, releaseVars, barrierVars, closeVars, todo, current, woken>>

(* Mutant: the channel later callers of Close wait on is never closed. *)
LeaveCloseDone == UNCHANGED closeDone

SignalCloseDone == closeDone' = TRUE

CloseFinish(t) ==
    /\ Goto(t, "closing", "returned")
    /\ todo[t] = {}
    /\ SignalCloseDone
    /\ UNCHANGED <<registryVars, scope, releaseVars, barrierVars, closeStarted, todo, current, woken>>

CloseJoin(t) ==
    /\ Goto(t, "joining", "returned")
    /\ closeDone
    /\ UNCHANGED <<registryVars, scope, releaseVars, barrierVars, closeVars, todo, current, woken>>

-----------------------------------------------------------------------------
Init ==
    /\ state = "accepting"
    /\ next = 0
    /\ pending = {}
    /\ scopes = {}
    /\ scope = [id \in Ids |-> NoScope]
    /\ releaseSequences = [g \in Groups |-> 0]
    /\ releaseSink = NoSink
    /\ replay = [sink |-> NoSink, seqs |-> [g \in Groups |-> 0], todo |-> {}]
    /\ delivered = [s \in Sinks |-> [g \in Groups |-> 0]]
    /\ observedBarrier = 0
    /\ pendingBarrierSequence = 0
    /\ publishedBarrier = 0
    /\ freeze = [revision |-> 0, barrier |-> 0, executions |-> {}]
    /\ barrierSequence = [b \in 0..MaxBarrier |-> 0]
    /\ closeStarted = FALSE
    /\ closeDone = FALSE
    /\ pc = [t \in Threads |-> "idle"]
    /\ todo = [t \in Threads |-> {}]
    /\ current = [t \in Threads |-> 0]
    /\ woken = [t \in Threads |-> FALSE]

(* What the owner of token id may do next; ResolvePending and EndStep are what it must do. *)
ResolvePending(id) ==
    \/ EndPending(id)
    \/ InstallRejected(id)
    \/ \E g \in Groups \cup {Unaccounted} : Install(id, g)

EndStep(id) ==
    \/ EndInactive(id)
    \/ EndStartClose(id)
    \/ EndWaitClose(id)
    \/ markReleasedLocked(id)
    \/ EndDeliver(id)
    \/ EndDelete(id)

Release ==
    \/ \E sink \in Sinks \cup {NoSink} : SetReleaseSink(sink)
    \/ \E g \in Groups : ReplayRelease(g)

Observe ==
    \/ \E revision \in 1..MaxBarrier : ObserveBarrier(revision)
    \/ FreezeInFlight

DrainStep(t) ==
    \/ DrainStart(t)
    \/ DrainRejected(t)
    \/ SnapshotScopes(t)
    \/ \E id \in Ids : DrainCloseScope(t, id)
    \/ DrainCheck(t)

CloseStep(t) ==
    \/ CloseEnter(t)
    \/ CloseStore(t)
    \/ SnapshotScopes(t)
    \/ \E id \in Ids : CloseScope(t, id)
    \/ CloseJoinScope(t)
    \/ CloseFinish(t)
    \/ CloseJoin(t)

Next ==
    \/ BeginDispatch
    \/ \E id \in Ids : ResolvePending(id) \/ Bind(id) \/ EndStep(id) \/ closeResource(id)
    \/ Release
    \/ Observe
    \/ \E t \in Drainers : DrainStep(t) \/ WaitTimeout(t)
    \/ \E t \in Waiters : WaitPending(t) \/ WaitTimeout(t)
    \/ \E t \in Closers : CloseStep(t)

Spec == Init /\ [][Next]_vars

(***************************************************************************)
(* The scheduler eventually runs every goroutine that can move.  A request *)
(* resolves its token (the Home call has a deadline) and ends its scope    *)
(* (its owner defers End, and closing the bound resource cancels what it   *)
(* waits for); closeFn returns.  Nothing forces a Drain or Close to be     *)
(* called, a timeout to fire, or a new dispatch to begin.                  *)
(***************************************************************************)
Fairness ==
    /\ \A id \in Ids : /\ WF_vars(ResolvePending(id))
                        /\ WF_vars(EndStep(id))
                        /\ WF_vars(closeResource(id))
    /\ \A t \in Drainers : WF_vars(pc[t] # "idle" /\ DrainStep(t))
    /\ \A t \in Closers : WF_vars(pc[t] # "idle" /\ CloseStep(t))

FairSpec == Spec /\ Fairness

-----------------------------------------------------------------------------
(* Properties. *)

ThreadPc == {"idle", "snapshot", "closing", "waiting", "drained", "timeout", "rejected",
             "settled", "joining", "storing", "joinScope", "returned"}

RegistryType ==
    /\ state \in {"accepting", "draining", "closed"}
    /\ next \in 0..MaxDispatches
    /\ pending \subseteq 1..next
    /\ scopes \subseteq 1..next

ScopeType == scope \in [Ids -> Scope]

ReleaseType ==
    /\ releaseSequences \in [Groups -> Nat]
    /\ releaseSink \in Sinks \cup {NoSink}
    /\ replay \in [sink : Sinks \cup {NoSink}, seqs : [Groups -> Nat], todo : SUBSET Groups]
    /\ delivered \in [Sinks -> [Groups -> Nat]]

BarrierType ==
    /\ observedBarrier \in 0..MaxBarrier
    /\ pendingBarrierSequence \in 0..next
    /\ publishedBarrier \in 0..MaxBarrier
    /\ freeze \in [revision : 0..MaxRevision, barrier : 0..MaxBarrier, executions : SUBSET Ids]
    /\ barrierSequence \in [0..MaxBarrier -> 0..next]

ThreadType ==
    /\ closeStarted \in BOOLEAN
    /\ closeDone \in BOOLEAN
    /\ pc \in [Threads -> ThreadPc]
    /\ todo \in [Threads -> SUBSET Ids]
    /\ current \in [Threads -> Ids \cup {0}]
    /\ woken \in [Threads -> BOOLEAN]

(* Every variable of the registry keeps its type. *)
TypeOK == RegistryType /\ ScopeType /\ ReleaseType /\ BarrierType /\ ThreadType

(* A Drain that returned nil leaves the registry empty and closed for good, *)
(* whatever raced it: no token is unresolved and no execution is left.      *)
DrainedIsEmpty ==
    \A t \in Drainers : pc[t] = "drained" => state = "closed" /\ pending = {} /\ scopes = {}

(* No execution slips past Drain: once it waits, every resource bound to a  *)
(* live execution is closing, so what the owner waits for gets cancelled.   *)
DrainCancelsAll ==
    \A t \in Drainers : pc[t] \in {"waiting", "drained", "timeout"} =>
        \A id \in scopes : scope[id].resource # "bound"

(* Close returns only when every resource ever bound has been closed.       *)
CloseClosesAll ==
    closeDone => \A id \in Ids : scope[id].resource \in {"none", "closed"}

(* Drain and Close leave nothing behind, together and with requests that    *)
(* still install, bind and end.                                             *)
ShutdownSafe == DrainedIsEmpty /\ DrainCancelsAll /\ CloseClosesAll

(* A concurrency slot is released to Home only after the resource that used *)
(* it is closed, also when Bind races the end of the scope.                 *)
ReleasedAfterClose ==
    \A id \in Ids : scope[id].at \in Released \cup {"closed"} =>
        scope[id].resource \in {"none", "closed"}

(* Every accounted execution is counted in its group's cumulative sequence  *)
(* exactly once, however many goroutines end scopes at the same time.       *)
AccountedOnce ==
    \A g \in Groups :
        releaseSequences[g] = Cardinality({id \in Ids : scope[id].group = g /\ scope[id].at \in Released})

(* The installed sink holds the latest sequence of a group unless somebody  *)
(* is still about to deliver it: a sink swapped in the middle of a release  *)
(* misses nothing.                                                          *)
SinkIsCurrent ==
    releaseSink # NoSink =>
        \A g \in Groups :
            \/ delivered[releaseSink][g] = releaseSequences[g]
            \/ g \in replay.todo /\ replay.seqs[g] = releaseSequences[g]
            \/ \E id \in Ids : /\ scope[id].at = "marked"
                              /\ scope[id].group = g
                              /\ scope[id].sink = releaseSink
                              /\ scope[id].seq = releaseSequences[g]

(* No release is counted twice, and none is kept from the sink.             *)
ReleasesAccounted == AccountedOnce /\ SinkIsCurrent

(* A snapshot that carries a barrier accounts for every dispatch begun      *)
(* before the barrier was observed: it lists the execution, or the dispatch *)
(* never became one, or the execution is over.  Home may free what is not   *)
(* listed.                                                                  *)
BarrierIsComplete ==
    \A id \in 1..barrierSequence[freeze.barrier] :
        \/ id \in freeze.executions
        \/ scope[id].at = "ended"
        \/ scope[id].at = "absent" /\ id \notin pending

(* A Drain whose context does not expire returns: no wake-up is lost.       *)
DrainReturns ==
    \A t \in Drainers : pc[t] = "snapshot" ~> pc[t] \in {"drained", "timeout"}

(* Every Close returns, the ones that join another Close too.               *)
CloseReturns ==
    \A t \in Closers : pc[t] # "idle" ~> pc[t] = "returned"

(* Shutting down ends: no wake-up of a Drain or a Close is lost.            *)
ShutdownReturns == DrainReturns /\ CloseReturns
=============================================================================
