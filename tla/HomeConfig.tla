----------------------------- MODULE HomeConfig -----------------------------
(***************************************************************************)
(* Configuration frames from Home (sdk/cliproxy/service_home.go).  Each    *)
(* lifetime of the connection to Home has a queue the subscriber's callback*)
(* fills and a worker that stages, commits and applies what it finds there *)
(* and publishes the lifetime's client after the first frame.  The         *)
(* supervisor (runHomeSubscriber) ends a lifetime and begins the next;     *)
(* startHomeSubscriber and Shutdown end the supervisor.                    *)
(*                                                                         *)
(* Home itself is external: frames are numbered in the order in which Home *)
(* issued them.  What happens to the execution registry and to the release *)
(* flusher between two lifetimes is the subject of HomeRelease.tla.        *)
(***************************************************************************)
EXTENDS Integers, Sequences

CONSTANTS
    MaxFrames,          \* bound on the frames Home issues
    MaxLifetimes,       \* bound on the lifetimes of the connection
    MaxStarts,          \* bound on the calls of startHomeSubscriber
    MaxFailures,        \* bound on failed stagings and finalizations
    MaxRuntimeFailures  \* bound on applyConfigRuntime failing under a live context

ASSUME BoundsAssumption ==
    \A b \in {MaxFrames, MaxLifetimes, MaxStarts, MaxFailures, MaxRuntimeFailures} : b \in Nat

Lifetimes == 1..MaxLifetimes
Frames == 1..MaxFrames
None == 0

VARIABLES
    received,       \* the newest frame handed to the callback
    queue, wake,    \* homeConfigWorkQueue of the current lifetime
    ready,          \* the channel onReady closes
    worker, frame,  \* per lifetime: where its worker is and the frame it holds
    published,      \* the lifetime's client has been published
    commitMu,       \* homeConfigCommitMu: the lifetime whose worker holds it
    cfg, committer, \* s.cfg, and the lifetime of the last commit
    applied,        \* the frame the running components were last given
    publisher, completion,
                    \* per lifetime: its in-flight publisher; supervisor.publisherDone
    svcClient, dispatch, current,
                    \* s.homeClient (with its registry and bundle), the manager's
                    \* bundle, home.Current: each the lifetime it belongs to
    closedClients,
    sup, lifetime,  \* runHomeSubscriber: its line and its current lifetime
    lifeDone, homeDone, runDone,
                    \* lifetimeCtx, homeCtx, the context of Run
    op, starts,     \* who holds homeLifecycleMu, and where
    failures, runtimeFailures

queueVars == <<received, queue, wake, ready>>
commitVars == <<commitMu, cfg, committer, applied>>
publishVars == <<published, svcClient, dispatch, current>>
publisherVars == <<publisher, completion>>
contextVars == <<lifeDone, homeDone, runDone>>
opVars == <<op, starts>>
boundVars == <<failures, runtimeFailures>>
workerVars == <<worker, frame>>
vars == <<queueVars, workerVars, commitVars, publishVars, publisherVars, closedClients,
          sup, lifetime, contextVars, opVars, boundVars>>

(* The contexts are nested: a lifetime ends with its subscriber, a subscriber with Run. *)
HomeCtxDone == homeDone \/ runDone
LifetimeCtxDone(l) == l # lifetime \/ lifeDone \/ HomeCtxDone

GoWorker(l, from, to) == worker[l] = from /\ worker' = [worker EXCEPT ![l] = to]
GoSup(from, to) == sup = from /\ sup' = to

-----------------------------------------------------------------------------
(* The subscriber: RunConfigSubscriberLifetime and its callback. *)

(* What the callback's first half leaves alone. *)
OnlyQueue == UNCHANGED <<ready, workerVars, commitVars, publishVars, publisherVars, closedClients,
                         lifetime, contextVars, opVars, boundVars>>

(* Mutant: the wake-up comes first and may be consumed before the frame is there. *)
enqueueAfterWake(half, n) ==
    IF half = "append" THEN wake' = TRUE /\ UNCHANGED queue
                       ELSE queue' = Append(queue, n) /\ UNCHANGED wake

(* The frame is appended under q.mu; the wake-up follows outside it. *)
enqueue(half, n) ==
    IF half = "append" THEN queue' = Append(queue, n) /\ UNCHANGED wake
                       ELSE wake' = TRUE /\ UNCHANGED queue

(* GET: the current configuration, which may be one the node has had before. *)
GetConfig ==
    /\ GoSup("get", "got")
    /\ \E n \in {received, received + 1} \cap Frames : received' = n /\ enqueue("append", n)
    /\ OnlyQueue

GotWake == GoSup("got", "subscribe") /\ enqueue("wake", received) /\ OnlyQueue /\ UNCHANGED received

(* SUBSCRIBE is acknowledged and the command connection answers: onReady. *)
Subscribed ==
    /\ GoSup("subscribe", "receive")
    /\ ready' = TRUE
    /\ UNCHANGED <<received, queue, wake, workerVars, commitVars, publishVars, publisherVars,
                   closedClients, lifetime, contextVars, opVars, boundVars>>

ReceiveFrame ==
    /\ GoSup("receive", "received")
    /\ received < MaxFrames
    /\ received' = received + 1
    /\ enqueue("append", received + 1)
    /\ OnlyQueue

ReceivedWake == GoSup("received", "receive") /\ enqueue("wake", received) /\ OnlyQueue /\ UNCHANGED received

Subscriber == GetConfig \/ GotWake \/ Subscribed \/ ReceiveFrame \/ ReceivedWake

-----------------------------------------------------------------------------
(* The worker: runHomeConfigWorkerWithSupervisor. *)

OnlyWorker == UNCHANGED <<received, ready, commitVars, publishVars, publisherVars, closedClients,
                          sup, lifetime, contextVars, opVars>>

Leave(l, from) ==
    /\ GoWorker(l, from, "gone")
    /\ UNCHANGED <<queueVars, frame, commitVars, publishVars, publisherVars, closedClients,
                   sup, lifetime, contextVars, opVars, boundVars>>

(* Mutant: the worker waits for onReady whatever happens to its lifetime. *)
NotReadyStays(l) == ready /\ LifetimeCtxDone(l) /\ Leave(l, "ready")

(* Both cases of the select may be ready: then either is taken. *)
NotReady(l) == LifetimeCtxDone(l) /\ Leave(l, "ready")

BecomeReady(l) ==
    /\ GoWorker(l, "ready", "dequeue")
    /\ ready
    /\ OnlyWorker /\ UNCHANGED <<queue, wake, frame, boundVars>>

(* Mutant: the newest frame is taken and the older ones stay. *)
TakeLast == [item |-> queue[Len(queue)], rest |-> SubSeq(queue, 1, Len(queue) - 1)]

TakeFirst == [item |-> queue[1], rest |-> Tail(queue)]

(* dequeue: the oldest frame, or wait for a wake-up or the end of the lifetime. *)
dequeue(l) ==
    /\ ~LifetimeCtxDone(l)
    /\ queue # <<>>
    /\ GoWorker(l, "dequeue", "stage")
    /\ frame' = [frame EXCEPT ![l] = TakeFirst.item]
    /\ queue' = TakeFirst.rest
    /\ OnlyWorker /\ UNCHANGED <<wake, boundVars>>

DequeueWait(l) ==
    /\ ~LifetimeCtxDone(l)
    /\ queue = <<>>
    /\ GoWorker(l, "dequeue", "wait")
    /\ OnlyWorker /\ UNCHANGED <<queue, wake, frame, boundVars>>

DequeueWoken(l) ==
    /\ GoWorker(l, "wait", "dequeue")
    /\ wake
    /\ wake' = FALSE
    /\ OnlyWorker /\ UNCHANGED <<queue, frame, boundVars>>

(* stageHomeOverlayWithClient: merge, synchronise plugins, fetch tasks. *)
StageOk(l) ==
    /\ ~LifetimeCtxDone(l)
    /\ GoWorker(l, "stage", "lock")
    /\ OnlyWorker /\ UNCHANGED <<queue, wake, frame, boundVars>>

StageFails(l) ==
    /\ ~LifetimeCtxDone(l)
    /\ failures < MaxFailures
    /\ failures' = failures + 1
    /\ GoWorker(l, "stage", "backoff")
    /\ OnlyWorker /\ UNCHANGED <<queue, wake, frame, runtimeFailures>>

(* Mutant: the retry takes the oldest waiting frame and drops the newer ones. *)
LatestFirst(l) == IF queue = <<>> THEN frame[l] ELSE queue[1]

(* tryDequeueLatest: the newest frame replaces the one that failed, the rest is dropped. *)
tryDequeueLatest(l) == IF queue = <<>> THEN frame[l] ELSE queue[Len(queue)]

StageRetry(l) ==
    /\ GoWorker(l, "backoff", "stage")
    /\ frame' = [frame EXCEPT ![l] = tryDequeueLatest(l)]
    /\ queue' = <<>>
    /\ OnlyWorker /\ UNCHANGED <<wake, boundVars>>

(* commitHomeConfig: the lifetime is checked under homeConfigCommitMu ... *)
CommitCheck(l) ==
    /\ commitMu = None
    /\ ~LifetimeCtxDone(l)
    /\ GoWorker(l, "lock", "commit")
    /\ commitMu' = l
    /\ UNCHANGED <<queueVars, frame, cfg, committer, applied, publishVars, publisherVars,
                   closedClients, sup, lifetime, contextVars, opVars, boundVars>>

CommitRefused(l) == commitMu = None /\ LifetimeCtxDone(l) /\ Leave(l, "lock")

(* ... and commitConfigUpdate stores the configuration without looking again. *)
CommitStore(l) ==
    /\ GoWorker(l, "commit", "runtime")
    /\ commitMu' = None
    /\ cfg' = frame[l]
    /\ committer' = l
    /\ UNCHANGED <<queueVars, frame, applied, publishVars, publisherVars, closedClients,
                   sup, lifetime, contextVars, opVars, boundVars>>

(* applyConfigRuntime, for a commit that is still the last one: with Home enabled nobody else *)
(* commits, as neither the watcher nor the management API is there.                          *)
ApplyRuntime(l) ==
    /\ ~LifetimeCtxDone(l)
    /\ committer = l
    /\ GoWorker(l, "runtime", "finalize")
    /\ applied' = frame[l]
    /\ UNCHANGED <<queueVars, frame, commitMu, cfg, committer, publishVars, publisherVars,
                   closedClients, sup, lifetime, contextVars, opVars, boundVars>>

(* The pprof server that has to stop does not within five seconds: the worker returns. *)
ApplyRuntimeFails(l) ==
    /\ runtimeFailures < MaxRuntimeFailures
    /\ runtimeFailures' = runtimeFailures + 1
    /\ GoWorker(l, "runtime", "gone")
    /\ OnlyWorker /\ UNCHANGED <<queue, wake, frame, failures>>

(* finalizeHomePluginWorkUntilDone: plugin statuses and deletions are reported to Home. *)
FinalizeOk(l) ==
    /\ ~LifetimeCtxDone(l)
    /\ GoWorker(l, "finalize", IF published THEN "dequeue" ELSE "publish")
    /\ OnlyWorker /\ UNCHANGED <<queue, wake, frame, boundVars>>

FinalizeFails(l) ==
    /\ ~LifetimeCtxDone(l)
    /\ failures < MaxFailures
    /\ failures' = failures + 1
    /\ GoWorker(l, "finalize", "refinalize")
    /\ OnlyWorker /\ UNCHANGED <<queue, wake, frame, runtimeFailures>>

FinalizeRetry(l) ==
    /\ GoWorker(l, "refinalize", "finalize")
    /\ OnlyWorker /\ UNCHANGED <<queue, wake, frame, boundVars>>

(* publish: the check of the contexts was FinalizeOk's; a cancellation may come in between. *)
Publish(l) ==
    /\ GoWorker(l, "publish", "announce")
    /\ published' = TRUE
    /\ svcClient' = l
    /\ dispatch' = l
    /\ current' = l
    /\ UNCHANGED <<queueVars, frame, commitVars, publisherVars, closedClients, sup, lifetime,
                   contextVars, opVars, boundVars>>

(* startHomeInFlightPublisher: the completion channel first, then the goroutine. *)
StartPublisher(l) ==
    /\ GoWorker(l, "announce", "dequeue")
    /\ completion' = l
    /\ publisher' = [publisher EXCEPT ![l] = "running"]
    /\ UNCHANGED <<queueVars, frame, commitVars, publishVars, closedClients, sup, lifetime,
                   contextVars, opVars, boundVars>>

(* Everywhere the worker looks at lifetimeCtx, it leaves when that is done. *)
Cancelled(l) ==
    /\ LifetimeCtxDone(l)
    /\ \E from \in {"dequeue", "wait", "stage", "backoff", "runtime", "finalize", "refinalize"} :
          Leave(l, from)

Worker(l) ==
    \/ NotReady(l) \/ BecomeReady(l) \/ dequeue(l) \/ DequeueWait(l) \/ DequeueWoken(l)
    \/ StageOk(l) \/ StageFails(l) \/ StageRetry(l)
    \/ CommitCheck(l) \/ CommitRefused(l) \/ CommitStore(l) \/ ApplyRuntime(l) \/ ApplyRuntimeFails(l)
    \/ FinalizeOk(l) \/ FinalizeFails(l) \/ FinalizeRetry(l) \/ Publish(l) \/ StartPublisher(l)
    \/ Cancelled(l)

PublisherEnds(l) ==
    /\ publisher[l] = "running"
    /\ LifetimeCtxDone(l)
    /\ publisher' = [publisher EXCEPT ![l] = "done"]
    /\ UNCHANGED <<queueVars, workerVars, commitVars, publishVars, completion, closedClients,
                   sup, lifetime, contextVars, opVars, boundVars>>

-----------------------------------------------------------------------------
(* The supervisor: runHomeSubscriber. *)

OnlySup == UNCHANGED <<queueVars, workerVars, commitVars, publishVars, publisherVars, closedClients,
                       lifetime, contextVars, opVars, boundVars>>

(* Mutant: the queue outlives the lifetime. *)
KeptQueue == UNCHANGED <<queue, wake>>

newHomeConfigWorkQueue == queue' = <<>> /\ wake' = FALSE

BeginLifetime ==
    /\ GoSup("loop", "get")
    /\ ~HomeCtxDone
    /\ lifetime < MaxLifetimes
    /\ lifetime' = lifetime + 1
    /\ lifeDone' = FALSE
    /\ completion' = None
    /\ newHomeConfigWorkQueue /\ ready' = FALSE /\ published' = FALSE
    /\ worker' = [worker EXCEPT ![lifetime + 1] = "ready"]
    /\ UNCHANGED <<received, frame, commitVars, svcClient, dispatch, current, publisher,
                   closedClients, homeDone, runDone, opVars, boundVars>>

(* The connection fails at any point (as long as another lifetime may follow it), or the     *)
(* subscriber is told to stop; lifetimeCancel.                                               *)
EndLifetime ==
    /\ sup \in {"get", "subscribe", "receive"}
    /\ HomeCtxDone \/ lifetime < MaxLifetimes
    /\ sup' = "join"
    /\ lifeDone' = TRUE
    /\ UNCHANGED <<queueVars, workerVars, commitVars, publishVars, publisherVars, closedClients,
                   lifetime, homeDone, runDone, opVars, boundVars>>

(* Mutant: the lifetime is taken down while its worker may still start things. *)
WorkerLeft == TRUE

WorkerGone == worker[lifetime] = "gone"

JoinWorker == GoSup("join", "joinPublisher") /\ WorkerGone /\ OnlySup

JoinPublisher ==
    /\ GoSup("joinPublisher", "detach")
    /\ completion # None => publisher[completion] = "done"
    /\ OnlySup

(* detachHomeSubscriberLifetime: the service's references under homeMu, ... *)
Detach ==
    /\ GoSup("detach", "clearBundle")
    /\ svcClient' = IF svcClient = lifetime THEN None ELSE svcClient
    /\ UNCHANGED <<queueVars, workerVars, commitVars, published, dispatch, current, publisherVars,
                   closedClients, lifetime, contextVars, opVars, boundVars>>

(* ... then the manager's bundle, ... *)
ClearHomeDispatchBundle ==
    /\ GoSup("clearBundle", "clearCurrent")
    /\ dispatch' = IF dispatch = lifetime THEN None ELSE dispatch
    /\ UNCHANGED <<queueVars, workerVars, commitVars, published, svcClient, current, publisherVars,
                   closedClients, lifetime, contextVars, opVars, boundVars>>

(* Mutant: the global client is only cleared when the subscriber stops for good. *)
StillCurrent(l) == IF current = l /\ HomeCtxDone THEN None ELSE current

(* ... and home.ClearCurrentIf. *)
CurrentCleared(l) == IF current = l THEN None ELSE current

ClearCurrent ==
    /\ GoSup("clearCurrent", "close")
    /\ current' = CurrentCleared(lifetime)
    /\ UNCHANGED <<queueVars, workerVars, commitVars, published, svcClient, dispatch, publisherVars,
                   closedClients, lifetime, contextVars, opVars, boundVars>>

(* The client is closed; the subscriber retries with a new lifetime, or it was told to stop. *)
CloseClient ==
    /\ sup = "close"
    /\ closedClients' = closedClients \cup {lifetime}
    /\ sup' = IF HomeCtxDone THEN "return" ELSE "settle"
    /\ UNCHANGED <<queueVars, workerVars, commitVars, publishVars, publisherVars, lifetime,
                   contextVars, opVars, boundVars>>

(* Issued dispatches settle, and the back-off of a lifetime that published nothing passes. *)
Settled == GoSup("settle", "loop") /\ OnlySup

(* They do not, or a registry does not drain: cancelServiceRun. *)
SettleFails ==
    /\ sup \in {"settle", "return"}
    /\ sup' = "return"
    /\ ~runDone /\ runDone' = TRUE
    /\ UNCHANGED <<queueVars, workerVars, commitVars, publishVars, publisherVars, closedClients,
                   lifetime, lifeDone, homeDone, opVars, boundVars>>

SettleStopped == GoSup("settle", "return") /\ HomeCtxDone /\ OnlySup
LoopStopped == GoSup("loop", "return") /\ HomeCtxDone /\ OnlySup

(* The deferred drain of the registry, and close(supervisor.done). *)
SupervisorReturns == GoSup("return", "done") /\ OnlySup

Supervisor ==
    \/ BeginLifetime \/ EndLifetime \/ JoinWorker \/ JoinPublisher \/ Detach
    \/ ClearHomeDispatchBundle \/ ClearCurrent \/ CloseClient \/ Settled \/ SettleFails
    \/ SettleStopped \/ LoopStopped \/ SupervisorReturns

-----------------------------------------------------------------------------
(* startHomeSubscriber and Shutdown, one at a time under homeLifecycleMu. *)

OnlyOp == UNCHANGED <<queueVars, workerVars, commitVars, publishVars, publisherVars, closedClients,
                      sup, lifetime, contextVars, boundVars>>
GoOp(from, to) == op = from /\ op' = to

startHomeSubscriber ==
    /\ starts < MaxStarts
    /\ starts' = starts + 1
    /\ GoOp("idle", IF sup = "none" THEN "drain" ELSE "startCancel")
    /\ OnlyOp

(* Shutdown cancels the context of Run before it takes the lock. *)
CancelRun ==
    /\ ~runDone
    /\ runDone' = TRUE
    /\ UNCHANGED <<queueVars, workerVars, commitVars, publishVars, publisherVars, closedClients,
                   sup, lifetime, lifeDone, homeDone, opVars, boundVars>>

Shutdown ==
    /\ runDone
    /\ GoOp("idle", IF sup = "none" THEN "stopClear" ELSE "stopCancel")
    /\ OnlyOp /\ UNCHANGED starts

(* Mutant: the supervisor is cancelled without homeConfigCommitMu. *)
CommitMuIgnored == TRUE

CommitMuFree == commitMu = None

CancelSupervisor ==
    /\ op \in {"startCancel", "stopCancel"}
    /\ CommitMuFree
    /\ homeDone' = TRUE
    /\ op' = IF op = "startCancel" THEN "startWait" ELSE "stopWait"
    /\ UNCHANGED <<queueVars, workerVars, commitVars, publishVars, publisherVars, closedClients,
                   sup, lifetime, lifeDone, runDone, starts, boundVars>>

(* Mutant: the wait for the supervisor gives up with the context of Run. *)
SupervisorDoneOrRun == sup = "done" \/ runDone

SupervisorDone == sup = "done"

AwaitSupervisor ==
    /\ SupervisorDone
    /\ \/ GoOp("startWait", "drain")
       \/ GoOp("stopWait", "stopClear")
    /\ OnlyOp /\ UNCHANGED starts

(* drainDetachedHomeLifetime, and a new generation unless Run has ended. *)
StartSupervisor ==
    /\ GoOp("drain", "idle")
    /\ svcClient' = None
    /\ dispatch' = IF dispatch = svcClient THEN None ELSE dispatch
    /\ current' = IF current = svcClient THEN None ELSE current
    /\ sup' = IF runDone THEN sup ELSE "loop"
    /\ homeDone' = IF runDone THEN homeDone ELSE FALSE
    /\ UNCHANGED <<queueVars, workerVars, commitVars, published, publisherVars, closedClients,
                   lifetime, lifeDone, runDone, starts, boundVars>>

ShutdownClear ==
    /\ GoOp("stopClear", "stopped")
    /\ svcClient' = None
    /\ dispatch' = IF dispatch = svcClient THEN None ELSE dispatch
    /\ current' = IF current = svcClient THEN None ELSE current
    /\ UNCHANGED <<queueVars, workerVars, commitVars, published, publisherVars, closedClients,
                   sup, lifetime, contextVars, starts, boundVars>>

Lifecycle ==
    \/ startHomeSubscriber \/ CancelRun \/ Shutdown \/ CancelSupervisor \/ AwaitSupervisor
    \/ StartSupervisor \/ ShutdownClear

-----------------------------------------------------------------------------
Init ==
    /\ received = 0 /\ queue = <<>> /\ wake = FALSE /\ ready = FALSE
    /\ worker = [l \in Lifetimes |-> "none"]
    /\ frame = [l \in Lifetimes |-> None]
    /\ published = FALSE /\ svcClient = None /\ dispatch = None /\ current = None
    /\ commitMu = None /\ cfg = 0 /\ committer = None /\ applied = 0
    /\ publisher = [l \in Lifetimes |-> "none"] /\ completion = None
    /\ closedClients = {}
    /\ sup = "none" /\ lifetime = 0
    /\ lifeDone = FALSE /\ homeDone = FALSE /\ runDone = FALSE
    /\ op = "idle" /\ starts = 0
    /\ failures = 0 /\ runtimeFailures = 0

Next ==
    \/ Subscriber \/ Supervisor \/ Lifecycle
    \/ \E l \in Lifetimes : Worker(l) \/ PublisherEnds(l)

(* Every goroutine keeps running.  Home is not obliged to send frames, connections are not   *)
(* obliged to fail, and nobody is obliged to start or to stop the service.                   *)
Fairness ==
    /\ WF_vars(GetConfig) /\ WF_vars(GotWake) /\ WF_vars(Subscribed) /\ WF_vars(ReceivedWake)
    /\ \A l \in Lifetimes : WF_vars(Worker(l)) /\ WF_vars(PublisherEnds(l))
    /\ WF_vars(Supervisor /\ (sup \notin {"get", "subscribe", "receive"} \/ HomeCtxDone))
    /\ WF_vars(CancelSupervisor) /\ WF_vars(AwaitSupervisor)
    /\ WF_vars(StartSupervisor) /\ WF_vars(ShutdownClear)

Spec == Init /\ [][Next]_vars /\ Fairness

-----------------------------------------------------------------------------
WorkerStates == {"none", "ready", "dequeue", "wait", "stage", "backoff", "lock", "commit", "runtime",
                 "finalize", "refinalize", "publish", "announce", "gone"}
SupStates == {"none", "loop", "get", "got", "subscribe", "receive", "received", "join",
              "joinPublisher", "detach", "clearBundle", "clearCurrent", "close", "settle", "return",
              "done"}
OpStates == {"idle", "startCancel", "startWait", "drain", "stopCancel", "stopWait", "stopClear", "stopped"}

QueueType ==
    /\ received \in 0..MaxFrames
    /\ queue \in Seq(Frames)
WorkerType ==
    /\ worker \in [Lifetimes -> WorkerStates]
    /\ frame \in [Lifetimes -> 0..MaxFrames]
    /\ commitMu \in 0..MaxLifetimes
    /\ cfg \in 0..MaxFrames /\ committer \in 0..MaxLifetimes /\ applied \in 0..MaxFrames
ClientType ==
    /\ publisher \in [Lifetimes -> {"none", "running", "done"}]
    /\ completion \in 0..MaxLifetimes
    /\ svcClient \in 0..MaxLifetimes /\ dispatch \in 0..MaxLifetimes /\ current \in 0..MaxLifetimes
    /\ closedClients \subseteq Lifetimes
SupType ==
    /\ sup \in SupStates /\ lifetime \in 0..MaxLifetimes
    /\ op \in OpStates /\ starts \in 0..MaxStarts
    /\ failures \in 0..MaxFailures /\ runtimeFailures \in 0..MaxRuntimeFailures
FlagType ==
    /\ wake \in BOOLEAN /\ ready \in BOOLEAN /\ published \in BOOLEAN
    /\ lifeDone \in BOOLEAN /\ homeDone \in BOOLEAN /\ runDone \in BOOLEAN

(* The types of all variables; the queue never holds one frame twice or out of order. *)
TypeOK ==
    /\ QueueType /\ WorkerType /\ ClientType /\ SupType /\ FlagType
    /\ \A i, j \in DOMAIN queue : i < j => queue[i] < queue[j]

(* Neither requests (through the manager's bundle) nor the integrations (through            *)
(* home.Current) nor the service itself ever hold a client that has been closed.             *)
NoClosedClient == {svcClient, dispatch, current} \cap closedClients = {}

(* An in-flight publisher never outlives its lifetime: none runs once the supervisor has     *)
(* begun to take the lifetime down or another lifetime has begun.                            *)
PublisherOwned ==
    \A l \in Lifetimes : publisher[l] = "running" =>
        l = lifetime /\ sup \in {"get", "got", "subscribe", "receive", "received", "join", "joinPublisher"}

(* When Shutdown has returned, no worker, publisher or commit of Home is left behind.        *)
StopsClean ==
    op = "stopped" =>
        /\ \A l \in Lifetimes : worker[l] \in {"none", "gone"} /\ publisher[l] # "running"
        /\ {svcClient, dispatch, current} = {None}
        /\ commitMu = None

(* What a lifetime owns (its client, worker and publisher) goes with it.                     *)
LifetimesOwn == TypeOK /\ NoClosedClient /\ PublisherOwned /\ StopsClean

(* Configurations are committed and applied in the order in which Home issued them, over     *)
(* failed stagings, reconnects and replaced subscribers.                                     *)
InOrder == cfg' >= cfg /\ applied' >= applied

(* Once startHomeSubscriber or Shutdown has cancelled a subscriber, its worker commits       *)
(* nothing more, although the store itself no longer looks at the context.                   *)
QuietAfterCancel == committer' # committer \/ cfg' # cfg => ~homeDone

(* Commits follow Home's order, and a cancelled subscriber makes none.                       *)
CommitsInOrder == [][InOrder /\ QuietAfterCancel]_vars

Serving == sup \in {"get", "got", "subscribe", "receive", "received"} /\ ~HomeCtxDone

(* Every frame a lifetime receives is applied, or a later one is, unless the lifetime ends.  *)
FrameSettled ==
    \A n \in Frames : (received = n /\ Serving) ~> (applied >= n \/ ~Serving)

(* The same, but for the lifetimes whose worker an unapplied configuration has ended.        *)
FrameSettledOrLost ==
    \A n \in Frames : (received = n /\ Serving) ~>
        \/ applied >= n \/ ~Serving
        \/ runtimeFailures > 0 /\ worker[lifetime] = "gone"

(* startHomeSubscriber and Shutdown return, whatever the worker is busy with.                *)
LifecycleReturns == op # "idle" ~> op \in {"idle", "stopped"}

=============================================================================
