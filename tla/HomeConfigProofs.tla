--------------------------- MODULE HomeConfigProofs ---------------------------
(***************************************************************************)
(* Theorems about the configuration worker of a connection to Home, for    *)
(* any number of frames, lifetimes, starts and failures.                   *)
(***************************************************************************)
EXTENDS HomeConfig, TLAPS

-----------------------------------------------------------------------------
(* The inductive invariant of ownership. *)

(* The worker of a lifetime may run, and the lifetime is not yet closed. *)
Alive == {"get", "got", "subscribe", "receive", "received", "join"}
Joining == Alive \cup {"joinPublisher"}
Detaching == Joining \cup {"detach"}
Clearing == Detaching \cup {"clearBundle"}
Unsetting == Clearing \cup {"clearCurrent"}
InLife == Unsetting \cup {"close"}

Working(w) == w \notin {"none", "gone"}
WorkersOwned == \A l \in Lifetimes : Working(worker[l]) => l = lifetime /\ sup \in Alive

Begun == sup \in InLife => lifetime # 0

(* The supervisor waits for the publisher it knows of. *)
PublishersOwned ==
    \A l \in Lifetimes : publisher[l] = "running" => l = lifetime /\ completion = l /\ sup \in Joining

(* Clients are handed out while the lifetime lives and taken back in turn. *)
ClientsOwned ==
    /\ svcClient # None => svcClient = lifetime /\ sup \in Detaching
    /\ dispatch # None => dispatch = lifetime /\ sup \in Clearing
    /\ current # None => current = lifetime /\ sup \in Unsetting
ClosedBefore == \A c \in closedClients : c <= lifetime /\ (c = lifetime => sup \notin InLife)

(* homeConfigCommitMu is held from the check to the store, and nobody cancels meanwhile. *)
CommitOwned ==
    /\ \A l \in Lifetimes : commitMu = l <=> worker[l] = "commit"
    /\ commitMu # None => ~homeDone

(* homeLifecycleMu is past the wait only when the supervisor has returned. *)
Stopped == op \in {"drain", "stopClear", "stopped"} => sup \in {"none", "done"}

Owned == WorkersOwned /\ Begun /\ PublishersOwned /\ ClientsOwned /\ ClosedBefore /\ CommitOwned /\ Stopped

(* The inductive invariant of order: what waits is no older than the frame   *)
(* in hand, which is no older than the configuration.                        *)
Staging(w) == w \in {"stage", "backoff", "lock", "commit"}
Fresh == sup = "get" => queue = <<>>
InHand ==
    \A l \in Lifetimes :
        /\ Staging(worker[l]) => /\ cfg <= frame[l] /\ frame[l] <= received
                                 /\ \A i \in DOMAIN queue : frame[l] <= queue[i]
        /\ worker[l] = "runtime" => frame[l] = cfg
Waiting == \A i \in DOMAIN queue : cfg <= queue[i] /\ queue[i] <= received
Ordered == applied <= cfg /\ cfg <= received /\ Fresh /\ InHand /\ Waiting

-----------------------------------------------------------------------------
(* Type correctness, one part of the state at a time. *)

(* The bounds are numbers. *)
LEMMA Bounds ==
    /\ MaxFrames \in Nat /\ MaxLifetimes \in Nat /\ MaxStarts \in Nat
    /\ MaxFailures \in Nat /\ MaxRuntimeFailures \in Nat
  BY BoundsAssumption

(* The initial states have their types. *)
LEMMA InitType == Init => TypeOK
<1> SUFFICES ASSUME Init PROVE TypeOK OBVIOUS
<1>1. QueueType BY Bounds DEF Init, QueueType
<1>2. WorkerType BY Bounds DEF Init, WorkerType, WorkerStates, None
<1>3. ClientType BY Bounds DEF Init, ClientType, None
<1>4. SupType BY Bounds DEF Init, SupType, SupStates, OpStates
<1>5. FlagType BY DEF Init, FlagType
<1>6. \A i, j \in DOMAIN queue : i < j => queue[i] < queue[j] BY DEF Init
<1> QED BY <1>1, <1>2, <1>3, <1>4, <1>5, <1>6 DEF TypeOK

(* A worker's move is one of its states. *)
LEMMA GoWorkerType ==
    ASSUME WorkerType, NEW l \in Lifetimes, NEW from, NEW to \in WorkerStates, GoWorker(l, from, to)
    PROVE  worker' \in [Lifetimes -> WorkerStates]
  BY DEF WorkerType, GoWorker

(* The supervisor, the contexts and the counters keep their types. *)
LEMMA SupTypeStep == ASSUME SupType, Next PROVE SupType'
<1> USE Bounds DEF SupType, SupStates, OpStates, contextVars, opVars, boundVars
<1>1. CASE Subscriber
  BY <1>1 DEF Subscriber, GetConfig, GotWake, Subscribed, ReceiveFrame, ReceivedWake, OnlyQueue, GoSup
<1>2. CASE BeginLifetime \/ EndLifetime \/ JoinWorker \/ JoinPublisher \/ Detach \/ ClearHomeDispatchBundle
  BY <1>2 DEF BeginLifetime, EndLifetime, JoinWorker, JoinPublisher, Detach, ClearHomeDispatchBundle,
       OnlySup, GoSup
<1>3. CASE \/ ClearCurrent \/ CloseClient \/ Settled \/ SettleFails \/ SettleStopped \/ LoopStopped
           \/ SupervisorReturns
  BY <1>3 DEF ClearCurrent, CloseClient, Settled, SettleFails, SettleStopped, LoopStopped,
       SupervisorReturns, OnlySup, GoSup
<1>4. CASE Lifecycle
  <2>1. CASE startHomeSubscriber BY <2>1 DEF startHomeSubscriber, OnlyOp, GoOp
  <2>2. CASE CancelRun \/ Shutdown BY <2>2 DEF CancelRun, Shutdown, OnlyOp, GoOp
  <2>3. CASE CancelSupervisor \/ AwaitSupervisor BY <2>3 DEF CancelSupervisor, AwaitSupervisor, OnlyOp, GoOp
  <2>4. CASE StartSupervisor \/ ShutdownClear BY <2>4 DEF StartSupervisor, ShutdownClear, GoOp
  <2> QED BY <1>4, <2>1, <2>2, <2>3, <2>4 DEF Lifecycle
<1>5. ASSUME NEW l \in Lifetimes, Worker(l) PROVE SupType'
  <2>1. CASE NotReady(l) \/ BecomeReady(l) \/ dequeue(l) \/ DequeueWait(l) \/ DequeueWoken(l)
    BY <2>1 DEF NotReady, BecomeReady, dequeue, DequeueWait, DequeueWoken, Leave, OnlyWorker
  <2>2. CASE StageOk(l) \/ StageFails(l) \/ StageRetry(l) \/ CommitCheck(l) \/ CommitRefused(l) \/ CommitStore(l)
    BY <2>2 DEF StageOk, StageFails, StageRetry, CommitCheck, CommitRefused, CommitStore, Leave, OnlyWorker
  <2>3. CASE ApplyRuntime(l) \/ ApplyRuntimeFails(l) \/ FinalizeOk(l) \/ FinalizeFails(l) \/ FinalizeRetry(l)
    BY <2>3 DEF ApplyRuntime, ApplyRuntimeFails, FinalizeOk, FinalizeFails, FinalizeRetry, OnlyWorker
  <2>4. CASE Publish(l) \/ StartPublisher(l) \/ Cancelled(l)
    BY <2>4 DEF Publish, StartPublisher, Cancelled, Leave
  <2> QED BY <1>5, <2>1, <2>2, <2>3, <2>4 DEF Worker
<1>6. ASSUME NEW l \in Lifetimes, PublisherEnds(l) PROVE SupType'
  BY <1>6 DEF PublisherEnds
<1> QED BY <1>1, <1>2, <1>3, <1>4, <1>5, <1>6 DEF Next, Supervisor

(* The clients and the publishers keep their types. *)
LEMMA ClientTypeStep == ASSUME ClientType, SupType, Begun, Next PROVE ClientType'
<1>1. None \in 0..MaxLifetimes /\ lifetime \in 0..MaxLifetimes /\ \A l \in Lifetimes : l \in 0..MaxLifetimes
  BY Bounds DEF None, Lifetimes, SupType
<1> USE DEF ClientType, publishVars, publisherVars
<1>2. CASE Subscriber
  BY <1>2 DEF Subscriber, GetConfig, GotWake, Subscribed, ReceiveFrame, ReceivedWake, OnlyQueue
<1>3. CASE BeginLifetime \/ EndLifetime \/ JoinWorker \/ JoinPublisher
  BY <1>3, <1>1 DEF BeginLifetime, EndLifetime, JoinWorker, JoinPublisher, OnlySup
<1>4. CASE Detach \/ ClearHomeDispatchBundle BY <1>1, <1>4 DEF Detach, ClearHomeDispatchBundle
<1>5. CASE CloseClient
  <2>1. lifetime \in Lifetimes BY <1>5, Bounds DEF CloseClient, Begun, InLife, Lifetimes, SupType
  <2> QED BY <1>5, <2>1 DEF CloseClient
<1>6. CASE ClearCurrent \/ Settled \/ SettleFails \/ SettleStopped \/ LoopStopped \/ SupervisorReturns
  BY <1>6, <1>1 DEF ClearCurrent, CurrentCleared, Settled, SettleFails, SettleStopped, LoopStopped,
       SupervisorReturns, OnlySup
<1>7. CASE Lifecycle
  <2>1. CASE startHomeSubscriber \/ CancelRun \/ Shutdown
    BY <2>1 DEF startHomeSubscriber, CancelRun, Shutdown, OnlyOp
  <2>2. CASE CancelSupervisor \/ AwaitSupervisor BY <2>2 DEF CancelSupervisor, AwaitSupervisor, OnlyOp
  <2>3. CASE StartSupervisor \/ ShutdownClear BY <1>1, <2>3 DEF StartSupervisor, ShutdownClear
  <2> QED BY <1>7, <2>1, <2>2, <2>3 DEF Lifecycle
<1>8. ASSUME NEW l \in Lifetimes, Worker(l) PROVE ClientType'
  <2>1. CASE NotReady(l) \/ BecomeReady(l) \/ dequeue(l) \/ DequeueWait(l) \/ DequeueWoken(l)
    BY <2>1 DEF NotReady, BecomeReady, dequeue, DequeueWait, DequeueWoken, Leave, OnlyWorker
  <2>2. CASE StageOk(l) \/ StageFails(l) \/ StageRetry(l) \/ CommitCheck(l) \/ CommitRefused(l) \/ CommitStore(l)
    BY <2>2 DEF StageOk, StageFails, StageRetry, CommitCheck, CommitRefused, CommitStore, Leave, OnlyWorker
  <2>3. CASE ApplyRuntime(l) \/ ApplyRuntimeFails(l) \/ FinalizeOk(l) \/ FinalizeFails(l) \/ FinalizeRetry(l)
    BY <2>3 DEF ApplyRuntime, ApplyRuntimeFails, FinalizeOk, FinalizeFails, FinalizeRetry, OnlyWorker
  <2>4. CASE Publish(l) \/ StartPublisher(l) \/ Cancelled(l)
    BY <1>8, <1>1, <2>4 DEF Publish, StartPublisher, Cancelled, Leave
  <2> QED BY <1>8, <2>1, <2>2, <2>3, <2>4 DEF Worker
<1>9. ASSUME NEW l \in Lifetimes, PublisherEnds(l) PROVE ClientType'
  BY <1>9 DEF PublisherEnds
<1> QED BY <1>2, <1>3, <1>6, <1>7, <1>8, <1>9, <1>5, <1>4 DEF Next, Supervisor

(* The flags are Booleans. *)
LEMMA FlagTypeStep == ASSUME FlagType, Next PROVE FlagType'
<1> USE DEF FlagType, contextVars, queueVars, publishVars
<1>1. CASE Subscriber
  BY <1>1 DEF Subscriber, GetConfig, GotWake, Subscribed, ReceiveFrame, ReceivedWake, OnlyQueue, enqueue
<1>2. CASE Supervisor
  BY <1>2 DEF Supervisor, BeginLifetime, newHomeConfigWorkQueue, EndLifetime, JoinWorker, JoinPublisher, Detach,
       ClearHomeDispatchBundle, ClearCurrent, CloseClient, Settled, SettleFails, SettleStopped, LoopStopped,
       SupervisorReturns, OnlySup
<1>3. CASE Lifecycle
  BY <1>3 DEF Lifecycle, startHomeSubscriber, CancelRun, Shutdown, CancelSupervisor, AwaitSupervisor,
       StartSupervisor, ShutdownClear, OnlyOp
<1>4. ASSUME NEW l \in Lifetimes, Worker(l) PROVE FlagType'
  BY <1>4, ZenonT(60) DEF Worker, NotReady, BecomeReady, dequeue, DequeueWait, DequeueWoken, StageOk, StageFails, StageRetry,
       CommitCheck, CommitRefused, CommitStore, ApplyRuntime, ApplyRuntimeFails, FinalizeOk, FinalizeFails,
       FinalizeRetry, Publish, StartPublisher, Cancelled, Leave, OnlyWorker
<1>5. ASSUME NEW l \in Lifetimes, PublisherEnds(l) PROVE FlagType' BY <1>5 DEF PublisherEnds
<1> QED BY <1>1, <1>2, <1>3, <1>4, <1>5 DEF Next

(* What the worker takes from the queue is a frame. *)
LEMMA QueueTakes ==
    ASSUME QueueType, queue # <<>>
    PROVE  /\ TakeFirst.item \in Frames /\ TakeFirst.item = queue[1]
           /\ TakeFirst.rest \in Seq(Frames)
           /\ Len(TakeFirst.rest) = Len(queue) - 1 /\ 1 \in DOMAIN queue
           /\ \A i \in DOMAIN TakeFirst.rest : i + 1 \in DOMAIN queue /\ TakeFirst.rest[i] = queue[i + 1]
           /\ Len(queue) \in DOMAIN queue /\ queue[Len(queue)] \in Frames
  BY DEF QueueType, TakeFirst

(* The workers, their frames and the configuration keep their types. *)
LEMMA WorkerTypeStep == ASSUME WorkerType, QueueType, SupType, Next PROVE WorkerType'
<1>1. /\ None \in 0..MaxLifetimes /\ \A l \in Lifetimes : l \in 0..MaxLifetimes
      /\ \A n \in Frames : n \in 0..MaxFrames
  BY Bounds DEF None, Lifetimes, Frames
<1>2. ASSUME UNCHANGED <<workerVars, commitVars>> PROVE WorkerType'
  BY <1>2 DEF WorkerType, workerVars, commitVars
<1>3. CASE Subscriber
  BY <1>2, <1>3 DEF Subscriber, GetConfig, GotWake, Subscribed, ReceiveFrame, ReceivedWake, OnlyQueue
<1>4. CASE BeginLifetime BY <1>4 DEF BeginLifetime, WorkerType, commitVars, WorkerStates
<1>5. CASE Supervisor /\ ~BeginLifetime
  BY <1>2, <1>5 DEF Supervisor, EndLifetime, JoinWorker, JoinPublisher, Detach, ClearHomeDispatchBundle,
       ClearCurrent, CloseClient, Settled, SettleFails, SettleStopped, LoopStopped, SupervisorReturns, OnlySup
<1>6. CASE Lifecycle
  BY <1>2, <1>6 DEF Lifecycle, startHomeSubscriber, CancelRun, Shutdown, CancelSupervisor, AwaitSupervisor,
       StartSupervisor, ShutdownClear, OnlyOp
<1>7. ASSUME NEW l \in Lifetimes, Worker(l) PROVE WorkerType'
  <2>1. ASSUME NEW from, NEW to \in WorkerStates, GoWorker(l, from, to), UNCHANGED <<frame, commitVars>>
        PROVE  WorkerType'
    BY <2>1, GoWorkerType DEF WorkerType, commitVars
  <2>2. {"dequeue", "wait", "stage", "backoff", "lock", "commit", "runtime", "finalize", "refinalize",
         "publish", "announce", "gone"} \subseteq WorkerStates BY DEF WorkerStates
  <2>3. CASE NotReady(l) \/ CommitRefused(l) \/ Cancelled(l)
    BY <2>1, <2>2, <2>3 DEF NotReady, CommitRefused, Cancelled, Leave
  <2>4. CASE BecomeReady(l) \/ DequeueWait(l) \/ DequeueWoken(l) \/ StageOk(l) \/ StageFails(l)
    BY <2>1, <2>2, <2>4 DEF BecomeReady, DequeueWait, DequeueWoken, StageOk, StageFails, OnlyWorker
  <2>5. CASE ApplyRuntimeFails(l) \/ FinalizeFails(l) \/ FinalizeRetry(l)
    BY <2>1, <2>2, <2>5 DEF ApplyRuntimeFails, FinalizeFails, FinalizeRetry, OnlyWorker
  <2>6. CASE FinalizeOk(l) BY <2>1, <2>2, <2>6 DEF FinalizeOk, OnlyWorker
  <2>7. CASE Publish(l) \/ StartPublisher(l) BY <2>1, <2>2, <2>7 DEF Publish, StartPublisher
  <2>8. CASE dequeue(l)
    <3>1. TakeFirst.item \in 0..MaxFrames BY <1>1, <2>8, QueueTakes DEF dequeue
    <3>2. worker' \in [Lifetimes -> WorkerStates] BY <2>2, <2>8, GoWorkerType DEF dequeue
    <3> QED BY <2>8, <3>1, <3>2 DEF dequeue, OnlyWorker, WorkerType, commitVars
  <2>9. CASE StageRetry(l)
    <3>1. tryDequeueLatest(l) \in 0..MaxFrames
      BY <1>1, QueueTakes DEF tryDequeueLatest, WorkerType
    <3>2. worker' \in [Lifetimes -> WorkerStates] BY <2>2, <2>9, GoWorkerType DEF StageRetry
    <3> QED BY <2>9, <3>1, <3>2 DEF StageRetry, OnlyWorker, WorkerType, commitVars
  <2>10. CASE CommitCheck(l)
    <3>1. worker' \in [Lifetimes -> WorkerStates] BY <2>2, <2>10, GoWorkerType DEF CommitCheck
    <3> QED BY <1>1, <2>10, <3>1 DEF CommitCheck, WorkerType
  <2>11. CASE CommitStore(l)
    <3>1. worker' \in [Lifetimes -> WorkerStates] BY <2>2, <2>11, GoWorkerType DEF CommitStore
    <3> QED BY <1>1, <2>11, <3>1 DEF CommitStore, WorkerType
  <2>12. CASE ApplyRuntime(l)
    <3>1. worker' \in [Lifetimes -> WorkerStates] BY <2>2, <2>12, GoWorkerType DEF ApplyRuntime
    <3> QED BY <1>1, <2>12, <3>1 DEF ApplyRuntime, WorkerType
  <2> QED BY <1>7, <2>3, <2>4, <2>5, <2>6, <2>7, <2>8, <2>9, <2>10, <2>11, <2>12 DEF Worker
<1>8. ASSUME NEW l \in Lifetimes, PublisherEnds(l) PROVE WorkerType'
  BY <1>2, <1>8 DEF PublisherEnds
<1> QED BY <1>3, <1>4, <1>5, <1>6, <1>7, <1>8 DEF Next

-----------------------------------------------------------------------------
(* Ownership. *)

(* At first there is no lifetime. *)
LEMMA OwnedInit == Init => Owned
<1> SUFFICES ASSUME Init PROVE Owned OBVIOUS
<1>1. WorkersOwned /\ PublishersOwned BY DEF Init, WorkersOwned, Working, PublishersOwned
<1>2. Begun /\ ClosedBefore
  BY DEF Init, Begun, ClosedBefore, InLife, Unsetting, Clearing, Detaching, Joining, Alive
<1>3. ClientsOwned /\ Stopped BY DEF Init, ClientsOwned, Stopped
<1>4. CommitOwned BY Bounds DEF Init, CommitOwned, Lifetimes, None
<1> QED BY <1>1, <1>2, <1>3, <1>4 DEF Owned

(* A supervisor that goes on within its lifetime without joining anybody owns what it owned. *)
LEMMA SupMoves ==
    ASSUME Owned, sup \in Alive, sup' \in Alive,
           UNCHANGED <<worker, lifetime, publisher, completion, svcClient, dispatch, current,
                       closedClients, commitMu, homeDone, op>>
    PROVE  Owned'
  BY DEF Owned, WorkersOwned, Begun, PublishersOwned, ClientsOwned, ClosedBefore, CommitOwned, Stopped,
         InLife, Unsetting, Clearing, Detaching, Joining, Alive

(* Supervisors outside a lifetime own nothing. *)
LEMMA SupRests ==
    ASSUME Owned, sup \notin InLife, sup' \notin InLife,
           sup \in {"none", "done"} => sup' \in {"none", "done"},
           UNCHANGED <<worker, lifetime, publisher, completion, svcClient, dispatch, current,
                       closedClients, commitMu, homeDone, op>>
    PROVE  Owned'
  BY DEF Owned, WorkersOwned, Begun, PublishersOwned, ClientsOwned, ClosedBefore, CommitOwned, Stopped,
         InLife, Unsetting, Clearing, Detaching, Joining, Alive

(* A step of a worker outside the commit and the publication. *)
LEMMA WorkerMoves ==
    ASSUME WorkerType, Owned, NEW l \in Lifetimes, NEW from, NEW to, GoWorker(l, from, to),
           Working(from), from # "commit", to # "commit",
           UNCHANGED <<sup, lifetime, publisher, completion, svcClient, dispatch, current,
                       closedClients, commitMu, homeDone, op>>
    PROVE  Owned'
<1>1. worker[l] = from /\ worker'[l] = to /\ \A k \in Lifetimes : k # l => worker'[k] = worker[k]
  BY DEF GoWorker, WorkerType
<1>2. WorkersOwned' BY <1>1 DEF Owned, WorkersOwned
<1>3. CommitOwned' BY <1>1 DEF Owned, CommitOwned
<1> QED BY <1>2, <1>3 DEF Owned, Begun, PublishersOwned, ClientsOwned, ClosedBefore, Stopped

(* Everything the workers do. *)
LEMMA WorkerOwned ==
    ASSUME TypeOK, Owned, NEW l \in Lifetimes, Worker(l) PROVE Owned'
<1> USE DEF workerVars, commitVars, publishVars, publisherVars, contextVars, opVars
<1>1. WorkerType /\ ClientType /\ SupType BY DEF TypeOK
<1>2. CASE NotReady(l) \/ CommitRefused(l) \/ Cancelled(l)
  BY <1>1, <1>2, WorkerMoves DEF NotReady, CommitRefused, Cancelled, Leave, Working
<1>3. CASE BecomeReady(l) \/ dequeue(l) \/ DequeueWait(l) \/ DequeueWoken(l)
  BY <1>1, <1>3, WorkerMoves DEF BecomeReady, dequeue, DequeueWait, DequeueWoken, OnlyWorker, Working
<1>4. CASE StageOk(l) \/ StageFails(l) \/ StageRetry(l)
  BY <1>1, <1>4, WorkerMoves DEF StageOk, StageFails, StageRetry, OnlyWorker, Working
<1>5. CASE ApplyRuntime(l) BY <1>1, <1>5, WorkerMoves DEF ApplyRuntime, Working
<1>6. CASE ApplyRuntimeFails(l) \/ FinalizeFails(l) \/ FinalizeRetry(l)
  BY <1>1, <1>6, WorkerMoves DEF ApplyRuntimeFails, FinalizeFails, FinalizeRetry, OnlyWorker, Working
<1>7. CASE FinalizeOk(l) BY <1>1, <1>7, WorkerMoves DEF FinalizeOk, OnlyWorker, Working
<1>8. CASE CommitCheck(l)
  <2>1. /\ worker[l] = "lock" /\ worker'[l] = "commit" /\ \A k \in Lifetimes : k # l => worker'[k] = worker[k]
        /\ commitMu = None /\ commitMu' = l /\ ~homeDone
        /\ UNCHANGED <<sup, lifetime, publisher, completion, svcClient, dispatch, current,
                       closedClients, homeDone, op>>
    BY <1>1, <1>8 DEF CommitCheck, GoWorker, WorkerType, LifetimeCtxDone, HomeCtxDone
  <2>2. \A k \in Lifetimes : worker[k] # "commit" BY <2>1, Bounds DEF Owned, CommitOwned, None, Lifetimes
  <2>3. CommitOwned' BY <2>1, <2>2 DEF CommitOwned
  <2>4. WorkersOwned' BY <2>1 DEF Owned, WorkersOwned, Working
  <2> QED BY <2>1, <2>3, <2>4 DEF Owned, Begun, PublishersOwned, ClientsOwned, ClosedBefore, Stopped
<1>9. CASE CommitStore(l)
  <2>1. /\ worker[l] = "commit" /\ worker'[l] = "runtime" /\ \A k \in Lifetimes : k # l => worker'[k] = worker[k]
        /\ commitMu' = None
        /\ UNCHANGED <<sup, lifetime, publisher, completion, svcClient, dispatch, current,
                       closedClients, homeDone, op>>
    BY <1>1, <1>9 DEF CommitStore, GoWorker, WorkerType
  <2>2. \A k \in Lifetimes : k # l => worker[k] # "commit" BY <2>1 DEF Owned, CommitOwned
  <2>3. CommitOwned' BY <2>1, <2>2, Bounds DEF CommitOwned, Lifetimes, None
  <2>4. WorkersOwned' BY <2>1 DEF Owned, WorkersOwned, Working
  <2> QED BY <2>1, <2>3, <2>4 DEF Owned, Begun, PublishersOwned, ClientsOwned, ClosedBefore, Stopped
<1>10. CASE Publish(l)
  <2>1. /\ worker[l] = "publish" /\ worker'[l] = "announce" /\ \A k \in Lifetimes : k # l => worker'[k] = worker[k]
        /\ svcClient' = l /\ dispatch' = l /\ current' = l
        /\ UNCHANGED <<sup, lifetime, publisher, completion, closedClients, commitMu, homeDone, op>>
    BY <1>1, <1>10 DEF Publish, GoWorker, WorkerType
  <2>2. l = lifetime /\ sup \in Alive BY <2>1 DEF Owned, WorkersOwned, Working
  <2>3. ClientsOwned' BY <2>1, <2>2 DEF ClientsOwned, Unsetting, Clearing, Detaching, Joining
  <2>4. WorkersOwned' /\ CommitOwned' BY <2>1, <2>2 DEF Owned, WorkersOwned, Working, CommitOwned
  <2> QED BY <2>1, <2>3, <2>4 DEF Owned, Begun, PublishersOwned, ClosedBefore, Stopped
<1>11. CASE StartPublisher(l)
  <2>1. /\ worker[l] = "announce" /\ worker'[l] = "dequeue" /\ \A k \in Lifetimes : k # l => worker'[k] = worker[k]
        /\ completion' = l /\ \A k \in Lifetimes : k # l => publisher'[k] = publisher[k]
        /\ UNCHANGED <<sup, lifetime, svcClient, dispatch, current, closedClients, commitMu, homeDone, op>>
    BY <1>1, <1>11 DEF StartPublisher, GoWorker, WorkerType, ClientType
  <2>2. l = lifetime /\ sup \in Alive BY <2>1 DEF Owned, WorkersOwned, Working
  <2>3. PublishersOwned' BY <2>1, <2>2 DEF Owned, PublishersOwned, Joining
  <2>4. WorkersOwned' /\ CommitOwned' BY <2>1, <2>2 DEF Owned, WorkersOwned, Working, CommitOwned
  <2> QED BY <2>1, <2>3, <2>4 DEF Owned, Begun, ClientsOwned, ClosedBefore, Stopped
<1> QED BY <1>2, <1>3, <1>4, <1>5, <1>6, <1>7, <1>8, <1>9, <1>10, <1>11 DEF Worker

(* Taking a lifetime down: first its worker, then its publisher, then its clients. *)
LEMMA SupervisorOwned == ASSUME TypeOK, Owned, Supervisor PROVE Owned'
<1> USE DEF workerVars, commitVars, publishVars, publisherVars, contextVars, opVars
<1>1. WorkerType /\ ClientType /\ SupType BY DEF TypeOK
<1>2. CASE BeginLifetime
  <2>1. /\ sup = "loop" /\ sup' = "get" /\ lifetime' = lifetime + 1 /\ lifetime + 1 \in Lifetimes
        /\ completion' = None
        /\ \A k \in Lifetimes : k # lifetime + 1 => worker'[k] = worker[k]
        /\ worker'[lifetime + 1] = "ready"
        /\ UNCHANGED <<publisher, svcClient, dispatch, current, closedClients, commitMu, homeDone, op>>
    BY <1>1, <1>2, Bounds DEF BeginLifetime, GoSup, WorkerType, SupType, Lifetimes
  <2>2. /\ \A k \in Lifetimes : ~Working(worker[k]) /\ publisher[k] # "running"
        /\ svcClient = None /\ dispatch = None /\ current = None
    BY <2>1 DEF Owned, WorkersOwned, PublishersOwned, ClientsOwned, Unsetting, Clearing, Detaching, Joining, Alive
  <2>3. WorkersOwned' /\ PublishersOwned' BY <2>1, <2>2 DEF WorkersOwned, PublishersOwned, Alive
  <2>4. CommitOwned' BY <2>1, <2>2 DEF Owned, CommitOwned, Working
  <2>5. ClientsOwned' /\ Stopped' BY <2>1, <2>2 DEF Owned, ClientsOwned, Stopped
  <2>6. Begun' /\ ClosedBefore'
    BY <1>1, <2>1, Bounds DEF Owned, Begun, ClosedBefore, SupType, ClientType, Lifetimes
  <2> QED BY <2>3, <2>4, <2>5, <2>6 DEF Owned
<1>3. CASE EndLifetime BY <1>3, SupMoves DEF EndLifetime, Alive
<1>4. CASE JoinWorker
  <2>1. /\ sup = "join" /\ sup' = "joinPublisher" /\ worker[lifetime] = "gone"
        /\ UNCHANGED <<worker, lifetime, publisher, completion, svcClient, dispatch, current,
                       closedClients, commitMu, homeDone, op>>
    BY <1>4 DEF JoinWorker, GoSup, WorkerGone, OnlySup
  <2>2. \A k \in Lifetimes : ~Working(worker[k]) BY <2>1 DEF Owned, WorkersOwned, Working
  <2>3. WorkersOwned' BY <2>1, <2>2 DEF WorkersOwned
  <2> QED BY <2>1, <2>3 DEF Owned, Begun, PublishersOwned, ClientsOwned, ClosedBefore, CommitOwned, Stopped,
                          InLife, Unsetting, Clearing, Detaching, Joining, Alive
<1>5. CASE JoinPublisher
  <2>1. /\ sup = "joinPublisher" /\ sup' = "detach" /\ (completion # None => publisher[completion] = "done")
        /\ UNCHANGED <<worker, lifetime, publisher, completion, svcClient, dispatch, current,
                       closedClients, commitMu, homeDone, op>>
    BY <1>5 DEF JoinPublisher, GoSup, OnlySup
  <2>2. \A k \in Lifetimes : publisher[k] # "running"
    BY <2>1, Bounds DEF Owned, PublishersOwned, None, Lifetimes
  <2>3. PublishersOwned' BY <2>1, <2>2 DEF PublishersOwned
  <2> QED BY <2>1, <2>3 DEF Owned, WorkersOwned, Begun, ClientsOwned, ClosedBefore, CommitOwned, Stopped,
                          InLife, Unsetting, Clearing, Detaching, Joining, Alive
<1>6. CASE Detach \/ ClearHomeDispatchBundle \/ ClearCurrent
  BY <1>6 DEF Detach, ClearHomeDispatchBundle, ClearCurrent, CurrentCleared, GoSup, Owned, WorkersOwned, Begun,
       PublishersOwned, ClientsOwned, ClosedBefore, CommitOwned, Stopped,
       InLife, Unsetting, Clearing, Detaching, Joining, Alive
<1>7. CASE CloseClient
  BY <1>1, <1>7 DEF CloseClient, SupType, Owned, WorkersOwned, Begun,
       PublishersOwned, ClientsOwned, ClosedBefore, CommitOwned, Stopped,
       InLife, Unsetting, Clearing, Detaching, Joining, Alive
<1>8. CASE Settled \/ SettleFails \/ SettleStopped \/ LoopStopped \/ SupervisorReturns
  BY <1>8, SupRests DEF Settled, SettleFails, SettleStopped, LoopStopped, SupervisorReturns, GoSup, OnlySup,
       InLife, Unsetting, Clearing, Detaching, Joining, Alive
<1> QED BY <1>2, <1>3, <1>4, <1>5, <1>6, <1>7, <1>8 DEF Supervisor

(* startHomeSubscriber and Shutdown. *)
LEMMA LifecycleOwned == ASSUME TypeOK, Owned, Lifecycle PROVE Owned'
<1> USE DEF workerVars, commitVars, publishVars, publisherVars, contextVars, opVars
<1>1. CASE startHomeSubscriber \/ Shutdown
  BY <1>1 DEF startHomeSubscriber, Shutdown, OnlyOp, GoOp, Owned, WorkersOwned, Begun, PublishersOwned,
       ClientsOwned, ClosedBefore, CommitOwned, Stopped
<1>2. CASE CancelRun
  BY <1>2 DEF CancelRun, Owned, WorkersOwned, Begun, PublishersOwned, ClientsOwned, ClosedBefore, CommitOwned,
       Stopped
<1>3. CASE CancelSupervisor
  BY <1>3 DEF CancelSupervisor, CommitMuFree, Owned, WorkersOwned, Begun, PublishersOwned, ClientsOwned,
       ClosedBefore, CommitOwned, Stopped
<1>4. CASE AwaitSupervisor
  BY <1>4 DEF AwaitSupervisor, SupervisorDone, OnlyOp, GoOp, Owned, WorkersOwned, Begun, PublishersOwned,
       ClientsOwned, ClosedBefore, CommitOwned, Stopped
<1>5. CASE StartSupervisor \/ ShutdownClear
  <2>1. /\ sup \in {"none", "done"} /\ sup' \notin InLife
        /\ op' = "idle" \/ (op' = "stopped" /\ sup' = sup)
        /\ svcClient' = None /\ dispatch' \in {None, dispatch} /\ current' \in {None, current}
        /\ ~homeDone' \/ homeDone' = homeDone
        /\ UNCHANGED <<worker, lifetime, publisher, completion, closedClients, commitMu>>
    BY <1>5 DEF StartSupervisor, ShutdownClear, GoOp, Owned, Stopped,
         InLife, Unsetting, Clearing, Detaching, Joining, Alive
  <2>2. /\ \A k \in Lifetimes : ~Working(worker[k]) /\ publisher[k] # "running"
        /\ dispatch = None /\ current = None
    BY <2>1 DEF Owned, WorkersOwned, PublishersOwned, ClientsOwned, Unsetting, Clearing, Detaching, Joining, Alive
  <2>3. WorkersOwned' /\ PublishersOwned' /\ ClientsOwned' BY <2>1, <2>2 DEF WorkersOwned, PublishersOwned, ClientsOwned
  <2>4. Begun' /\ ClosedBefore' BY <2>1 DEF Owned, Begun, ClosedBefore
  <2>5. CommitOwned' /\ Stopped' BY <2>1 DEF Owned, CommitOwned, Stopped
  <2> QED BY <2>3, <2>4, <2>5 DEF Owned
<1> QED BY <1>1, <1>2, <1>3, <1>4, <1>5 DEF Lifecycle

(* Every step keeps what belongs to a lifetime with it. *)
LEMMA OwnedStep == ASSUME TypeOK, Owned, Next PROVE Owned'
<1>1. CASE Subscriber
  BY <1>1, SupMoves DEF Subscriber, GetConfig, GotWake, Subscribed, ReceiveFrame, ReceivedWake, OnlyQueue, GoSup,
       Alive, workerVars, commitVars, publishVars, publisherVars, contextVars, opVars
<1>2. ASSUME NEW l \in Lifetimes, PublisherEnds(l) PROVE Owned'
  <2>1. /\ \A k \in Lifetimes : publisher'[k] = "running" => publisher[k] = "running"
        /\ UNCHANGED <<worker, lifetime, sup, completion, svcClient, dispatch, current,
                       closedClients, commitMu, homeDone, op>>
    BY <1>2 DEF TypeOK, ClientType, PublisherEnds, workerVars, commitVars, publishVars, contextVars, opVars
  <2>2. PublishersOwned' BY <2>1 DEF Owned, PublishersOwned
  <2> QED BY <2>1, <2>2 DEF Owned, WorkersOwned, Begun, ClientsOwned, ClosedBefore, CommitOwned, Stopped
<1> QED BY <1>1, <1>2, WorkerOwned, SupervisorOwned, LifecycleOwned DEF Next

-----------------------------------------------------------------------------
(* The order of the frames. *)
Sorted == \A i, j \in DOMAIN queue : i < j => queue[i] < queue[j]

(* The queue, and how its frames relate to the one in hand and the configuration. *)
OrderInv == QueueType /\ Sorted /\ Ordered

(* What a worker's step, or no step of the workers, leaves as it is. *)
LEMMA OrderStays ==
    ASSUME OrderInv, UNCHANGED <<received, queue, frame, cfg, applied>>, sup' = "get" => sup = "get",
           \A l \in Lifetimes : /\ Staging(worker'[l]) => Staging(worker[l])
                                /\ worker'[l] = "runtime" => worker[l] = "runtime"
    PROVE  OrderInv'
  BY DEF OrderInv, QueueType, Sorted, Ordered, Fresh, InHand, Waiting

(* A frame comes in: it is no older than any other. *)
LEMMA FrameArrives ==
    ASSUME OrderInv, WorkerType, NEW n \in Frames, n = received \/ n = received + 1,
           queue # <<>> => n = received + 1, sup' # "get",
           received' = n, queue' = Append(queue, n), UNCHANGED <<worker, frame, cfg, applied>>
    PROVE  OrderInv'
<1>1. received \in Nat /\ n \in Nat /\ received <= n /\ QueueType /\ n \in 0..MaxFrames
  BY Bounds DEF OrderInv, QueueType, Frames
<1>2. /\ queue' \in Seq(Frames) /\ Len(queue') = Len(queue) + 1 /\ DOMAIN queue' = 1..Len(queue) + 1
      /\ DOMAIN queue = 1..Len(queue) /\ Len(queue) \in Nat
      /\ \A i \in DOMAIN queue : queue'[i] = queue[i] /\ queue[i] \in Nat
      /\ queue'[Len(queue) + 1] = n
  <2>1. queue \in Seq(Frames) BY <1>1 DEF QueueType
  <2>2. /\ queue' \in Seq(Frames) /\ Len(queue') = Len(queue) + 1 /\ Len(queue) \in Nat
        /\ DOMAIN queue' = 1..Len(queue) + 1 /\ DOMAIN queue = 1..Len(queue)
    BY <2>1
  <2>3. /\ \A i \in DOMAIN queue : queue'[i] = queue[i] /\ queue[i] \in Frames
        /\ queue'[Len(queue) + 1] = n
    BY <2>1
  <2> QED BY <2>2, <2>3, Bounds DEF Frames
<1>3. \A i \in DOMAIN queue' : i \in DOMAIN queue \/ (i = Len(queue) + 1 /\ queue'[i] = n) BY <1>2
<1>4. cfg \in Nat /\ applied \in Nat /\ \A l \in Lifetimes : frame[l] \in Nat BY Bounds DEF WorkerType
<1>5. Sorted'
  <2> SUFFICES ASSUME NEW i \in DOMAIN queue', NEW j \in DOMAIN queue', i < j PROVE queue'[i] < queue'[j]
    BY DEF Sorted
  <2>1. i \in DOMAIN queue BY <1>2
  <2>2. CASE j \in DOMAIN queue BY <1>2, <2>1, <2>2 DEF OrderInv, Sorted
  <2>3. CASE j = Len(queue) + 1
    <3>1. queue[i] <= received /\ n = received + 1 BY <1>1, <1>2, <2>1 DEF OrderInv, Ordered, Waiting
    <3> QED BY <1>1, <1>2, <2>1, <2>3, <3>1
  <2> QED BY <1>2, <2>2, <2>3
<1>6. Waiting'
  <2>1. \A i \in DOMAIN queue : cfg <= queue[i] /\ queue[i] <= n
    BY <1>1, <1>2 DEF OrderInv, Ordered, Waiting
  <2>2. cfg <= n BY <1>1, <1>4 DEF OrderInv, Ordered
  <2> SUFFICES ASSUME NEW i \in DOMAIN queue' PROVE cfg <= queue'[i] /\ queue'[i] <= n BY DEF Waiting
  <2>3. CASE i \in DOMAIN queue BY <1>2, <2>1, <2>3
  <2>4. CASE queue'[i] = n BY <1>1, <2>2, <2>4
  <2> QED BY <1>3, <2>3, <2>4
<1>7. InHand'
  <2> SUFFICES ASSUME NEW l \in Lifetimes, Staging(worker[l])
               PROVE  cfg <= frame[l] /\ frame[l] <= n /\ \A i \in DOMAIN queue' : frame[l] <= queue'[i]
    BY DEF InHand, OrderInv, Ordered
  <2>1. cfg <= frame[l] /\ frame[l] <= received /\ \A i \in DOMAIN queue : frame[l] <= queue[i]
    BY DEF OrderInv, Ordered, InHand
  <2>2. frame[l] <= n BY <1>1, <1>4, <2>1
  <2> QED BY <1>2, <1>3, <2>1, <2>2
<1>8. cfg' <= received' /\ applied' <= cfg' /\ Fresh' BY <1>1, <1>4 DEF OrderInv, Ordered, Fresh
<1>9. QueueType' BY <1>1, <1>2 DEF QueueType
<1> QED BY <1>5, <1>6, <1>7, <1>8, <1>9 DEF OrderInv, Ordered

(* The subscriber hands over the frames in the order in which they come. *)
LEMMA SubscriberOrder == ASSUME TypeOK, OrderInv, Subscriber PROVE OrderInv'
<1> USE DEF workerVars, commitVars
<1>1. CASE GetConfig
  <2>1. PICK n \in {received, received + 1} \cap Frames : received' = n /\ enqueue("append", n)
    BY <1>1 DEF GetConfig
  <2>2. queue = <<>> /\ sup' # "get" /\ queue' = Append(queue, n)
    BY <1>1, <2>1 DEF GetConfig, GoSup, OrderInv, Ordered, Fresh, enqueue
  <2> QED BY <1>1, <2>1, <2>2, FrameArrives DEF GetConfig, OnlyQueue, TypeOK
<1>2. CASE ReceiveFrame
  <2>1. received + 1 \in Frames BY <1>2, Bounds DEF ReceiveFrame, Frames, TypeOK, QueueType
  <2>2. sup' # "get" /\ queue' = Append(queue, received + 1) /\ received' = received + 1
    BY <1>2 DEF ReceiveFrame, GoSup, enqueue
  <2> QED BY <1>2, <2>1, <2>2, FrameArrives DEF ReceiveFrame, OnlyQueue, TypeOK
<1>3. CASE GotWake \/ Subscribed \/ ReceivedWake
  BY <1>3, OrderStays DEF GotWake, Subscribed, ReceivedWake, enqueue, OnlyQueue, GoSup
<1> QED BY <1>1, <1>2, <1>3 DEF Subscriber

(* The supervisor gives each lifetime a queue of its own. *)
LEMMA SupervisorOrder == ASSUME TypeOK, Owned, OrderInv, Supervisor PROVE OrderInv'
<1> USE DEF queueVars, workerVars, commitVars
<1>1. CASE BeginLifetime
  <2>1. queue' = <<>> /\ UNCHANGED <<received, frame, cfg, applied>>
    BY <1>1 DEF BeginLifetime, newHomeConfigWorkQueue
  <2>2. \A l \in Lifetimes : worker'[l] \in {"ready", worker[l]}
    BY <1>1 DEF BeginLifetime, TypeOK, WorkerType
  <2>3. DOMAIN queue' = {} /\ queue' \in Seq(Frames) BY <2>1
  <2> QED BY <2>1, <2>2, <2>3 DEF OrderInv, QueueType, Sorted, Ordered, Fresh, InHand, Waiting, Staging
<1>2. CASE EndLifetime BY <1>2, OrderStays DEF EndLifetime
<1>3. CASE JoinWorker \/ JoinPublisher \/ Detach \/ ClearHomeDispatchBundle \/ ClearCurrent
  BY <1>3, OrderStays DEF JoinWorker, JoinPublisher, Detach, ClearHomeDispatchBundle, ClearCurrent, OnlySup, GoSup
<1>4. CASE CloseClient BY <1>4, OrderStays DEF CloseClient
<1>5. CASE Settled \/ SettleFails \/ SettleStopped \/ LoopStopped \/ SupervisorReturns
  BY <1>5, OrderStays DEF Settled, SettleFails, SettleStopped, LoopStopped, SupervisorReturns, OnlySup, GoSup
<1> QED BY <1>1, <1>2, <1>3, <1>4, <1>5 DEF Supervisor

(* The worker takes frames in order, and a retry drops what the newest replaces. *)
LEMMA WorkerOrder == ASSUME TypeOK, Owned, OrderInv, NEW l \in Lifetimes, Worker(l) PROVE OrderInv'
<1> USE DEF commitVars
<1>1. WorkerType /\ QueueType BY DEF TypeOK
<1>2. ASSUME NEW from, NEW to, GoWorker(l, from, to), Staging(to) => Staging(from), to # "runtime",
             UNCHANGED <<received, queue, frame, cfg, applied, sup>>
      PROVE  OrderInv'
  <2>1. worker[l] = from /\ worker'[l] = to /\ \A k \in Lifetimes : k # l => worker'[k] = worker[k]
    BY <1>1, <1>2 DEF GoWorker, WorkerType
  <2> QED BY <1>2, <2>1, OrderStays
<1>3. cfg \in Nat /\ applied \in Nat /\ received \in Nat /\ \A k \in Lifetimes : frame[k] \in Nat
  BY <1>1, Bounds DEF WorkerType, QueueType
<1>4. \A k \in Lifetimes : k # l => ~Working(worker[k])
  <2>1. Working(worker[l])
    BY DEF Worker, NotReady, BecomeReady, dequeue, DequeueWait, DequeueWoken, StageOk, StageFails, StageRetry,
         CommitCheck, CommitRefused, CommitStore, ApplyRuntime, ApplyRuntimeFails, FinalizeOk, FinalizeFails,
         FinalizeRetry, Publish, StartPublisher, Cancelled, Leave, GoWorker, Working
  <2> QED BY <2>1 DEF Owned, WorkersOwned
<1>5. CASE NotReady(l) \/ CommitRefused(l) \/ Cancelled(l)
  BY <1>2, <1>5 DEF NotReady, CommitRefused, Cancelled, Leave, Staging, queueVars
<1>6. CASE BecomeReady(l) \/ DequeueWait(l) \/ DequeueWoken(l)
  BY <1>2, <1>6 DEF BecomeReady, DequeueWait, DequeueWoken, OnlyWorker, Staging
<1>7. CASE StageOk(l) \/ StageFails(l) BY <1>2, <1>7 DEF StageOk, StageFails, OnlyWorker, Staging
<1>8. CASE CommitCheck(l) BY <1>2, <1>8 DEF CommitCheck, Staging, queueVars
<1>9. CASE ApplyRuntimeFails(l) \/ FinalizeFails(l) \/ FinalizeRetry(l)
  BY <1>2, <1>9 DEF ApplyRuntimeFails, FinalizeFails, FinalizeRetry, OnlyWorker, Staging
<1>10. CASE FinalizeOk(l) BY <1>2, <1>10 DEF FinalizeOk, OnlyWorker, Staging
<1>11. CASE Publish(l) \/ StartPublisher(l) BY <1>2, <1>11 DEF Publish, StartPublisher, Staging, queueVars
<1>12. CASE dequeue(l)
  <2>1. /\ queue # <<>> /\ queue' = TakeFirst.rest
        /\ worker'[l] = "stage" /\ frame'[l] = queue[1]
        /\ \A k \in Lifetimes : k # l => worker'[k] = worker[k] /\ frame'[k] = frame[k]
        /\ UNCHANGED <<received, cfg, applied, sup>>
    BY <1>1, <1>12, QueueTakes DEF dequeue, GoWorker, OnlyWorker, WorkerType
  <2>2. /\ queue' \in Seq(Frames) /\ 1 \in DOMAIN queue /\ queue[1] \in Nat
        /\ \A i \in DOMAIN queue' : /\ i \in Nat /\ i >= 1 /\ i + 1 \in DOMAIN queue
                                    /\ queue'[i] = queue[i + 1] /\ queue[i + 1] \in Nat
    <3>1. queue \in Seq(Frames) /\ \A i \in DOMAIN queue : queue[i] \in Nat BY <1>1, Bounds DEF QueueType, Frames
    <3>2. /\ queue' \in Seq(Frames) /\ 1 \in DOMAIN queue
          /\ \A i \in DOMAIN queue' : i + 1 \in DOMAIN queue /\ queue'[i] = queue[i + 1]
      BY <1>1, <2>1, QueueTakes
    <3>3. \A i \in DOMAIN queue' : i \in Nat /\ i >= 1 BY <3>2
    <3> QED BY <3>1, <3>2, <3>3
  <2>3. Sorted' BY <2>2 DEF OrderInv, Sorted
  <2>4. Waiting' BY <2>1, <2>2 DEF OrderInv, Ordered, Waiting
  <2>5. \A i \in DOMAIN queue' : queue[1] <= queue'[i]
    <3> TAKE i \in DOMAIN queue'
    <3>1. queue[1] < queue[i + 1] BY <2>2 DEF OrderInv, Sorted
    <3> QED BY <2>2, <3>1
  <2>6. cfg <= queue[1] /\ queue[1] <= received BY <2>2 DEF OrderInv, Ordered, Waiting
  <2>7. InHand' BY <1>4, <2>1, <2>5, <2>6 DEF InHand, Staging, Working
  <2>8. Fresh' BY <2>1 DEF OrderInv, Ordered, Fresh
  <2>9. QueueType' BY <1>1, <2>1, <2>2 DEF QueueType
  <2> QED BY <2>1, <2>3, <2>4, <2>7, <2>8, <2>9 DEF OrderInv, Ordered
<1>13. CASE StageRetry(l)
  <2>1. /\ worker[l] = "backoff" /\ queue' = <<>>
        /\ worker'[l] = "stage" /\ frame'[l] = tryDequeueLatest(l)
        /\ \A k \in Lifetimes : k # l => worker'[k] = worker[k] /\ frame'[k] = frame[k]
        /\ UNCHANGED <<received, cfg, applied, sup>>
    BY <1>1, <1>13 DEF StageRetry, GoWorker, OnlyWorker, WorkerType
  <2>2. DOMAIN queue' = {} /\ queue' \in Seq(Frames) BY <2>1
  <2>3. cfg <= frame[l] /\ frame[l] <= received BY <2>1 DEF OrderInv, Ordered, InHand, Staging
  <2>4. cfg <= tryDequeueLatest(l) /\ tryDequeueLatest(l) <= received
    BY <1>1, <2>3, QueueTakes DEF OrderInv, Ordered, Waiting, tryDequeueLatest
  <2>5. InHand' BY <1>4, <2>1, <2>2, <2>4 DEF InHand, Staging, Working
  <2> QED BY <1>1, <2>1, <2>2, <2>5 DEF OrderInv, QueueType, Sorted, Ordered, Fresh, Waiting
<1>14. CASE CommitStore(l)
  <2>1. /\ worker[l] = "commit" /\ worker'[l] = "runtime" /\ cfg' = frame[l]
        /\ \A k \in Lifetimes : k # l => worker'[k] = worker[k]
        /\ UNCHANGED <<received, queue, frame, applied, sup>>
    BY <1>1, <1>14 DEF CommitStore, GoWorker, WorkerType, queueVars
  <2>2. /\ cfg <= frame[l] /\ frame[l] <= received /\ \A i \in DOMAIN queue : frame[l] <= queue[i]
    BY <2>1 DEF OrderInv, Ordered, InHand, Staging
  <2>3. InHand' BY <1>4, <2>1 DEF InHand, Staging, Working
  <2>4. Waiting' BY <2>1, <2>2 DEF OrderInv, Ordered, Waiting
  <2>5. applied' <= cfg' /\ cfg' <= received' BY <1>3, <2>1, <2>2 DEF OrderInv, Ordered
  <2> QED BY <2>1, <2>3, <2>4, <2>5 DEF OrderInv, QueueType, Sorted, Ordered, Fresh
<1>15. CASE ApplyRuntime(l)
  <2>1. /\ worker[l] = "runtime" /\ worker'[l] = "finalize" /\ applied' = frame[l]
        /\ \A k \in Lifetimes : k # l => worker'[k] = worker[k]
        /\ UNCHANGED <<received, queue, frame, cfg, sup>>
    BY <1>1, <1>15 DEF ApplyRuntime, GoWorker, WorkerType, queueVars
  <2>2. frame[l] = cfg BY <2>1 DEF OrderInv, Ordered, InHand
  <2>3. InHand' BY <1>4, <2>1 DEF InHand, Staging, Working
  <2> QED BY <1>3, <2>1, <2>2, <2>3 DEF OrderInv, QueueType, Sorted, Ordered, Fresh, Waiting
<1> QED BY <1>5, <1>6, <1>7, <1>8, <1>9, <1>10, <1>11, <1>12, <1>13, <1>14, <1>15 DEF Worker

(* Every step keeps the frames in order. *)
LEMMA OrderStep == ASSUME TypeOK, Owned, OrderInv, Next PROVE OrderInv'
<1>1. CASE Lifecycle
  BY <1>1, OrderStays DEF Lifecycle, startHomeSubscriber, CancelRun, Shutdown, CancelSupervisor, AwaitSupervisor,
       StartSupervisor, ShutdownClear, OnlyOp, queueVars, workerVars, commitVars
<1>2. ASSUME NEW l \in Lifetimes, PublisherEnds(l) PROVE OrderInv'
  BY <1>2, OrderStays DEF PublisherEnds, queueVars, workerVars, commitVars
<1> QED BY <1>1, <1>2, SubscriberOrder, SupervisorOrder, WorkerOrder DEF Next

-----------------------------------------------------------------------------
(* The theorems. *)
WorkInv == TypeOK /\ Owned /\ Ordered

(* The invariant holds at first. *)
LEMMA WorkInit == Init => WorkInv
<1> SUFFICES ASSUME Init PROVE WorkInv OBVIOUS
<1>1. Ordered BY DEF Init, Ordered, Fresh, InHand, Staging, Waiting
<1> QED BY <1>1, InitType, OwnedInit DEF WorkInv

(* Every step keeps the invariant. *)
LEMMA WorkStep == ASSUME WorkInv, [Next]_vars PROVE WorkInv'
<1>1. TypeOK /\ Owned /\ Ordered BY DEF WorkInv
<1>2. CASE Next
  <2>1. OrderInv BY <1>1 DEF OrderInv, TypeOK, Sorted
  <2>2. OrderInv' BY <1>1, <1>2, <2>1, OrderStep
  <2>3. Owned' BY <1>1, <1>2, OwnedStep
  <2>4. WorkerType' /\ ClientType' /\ SupType' /\ FlagType'
    BY <1>1, <1>2, WorkerTypeStep, ClientTypeStep, SupTypeStep, FlagTypeStep DEF TypeOK, Owned
  <2> QED BY <2>2, <2>3, <2>4 DEF WorkInv, OrderInv, TypeOK, Sorted
<1>3. CASE UNCHANGED vars
  <2> USE <1>3 DEF vars, queueVars, workerVars, commitVars, publishVars, publisherVars, contextVars, opVars, boundVars
  <2>1. QueueType' /\ WorkerType' /\ ClientType' /\ SupType'
    BY <1>1 DEF TypeOK, QueueType, WorkerType, ClientType, SupType
  <2>2. FlagType' BY <1>1 DEF TypeOK, FlagType
  <2>3. \A i, j \in DOMAIN queue' : i < j => queue'[i] < queue'[j] BY <1>1 DEF TypeOK
  <2>4. TypeOK' BY <2>1, <2>2, <2>3 DEF TypeOK
  <2>5. Owned'
    BY <1>1 DEF Owned, WorkersOwned, Begun, PublishersOwned, ClientsOwned, ClosedBefore, CommitOwned, Stopped
  <2>6. Ordered' BY <1>1 DEF Ordered, Fresh, InHand, Waiting
  <2> QED BY <2>4, <2>5, <2>6 DEF WorkInv
<1> QED BY <1>2, <1>3

(* The invariant holds throughout. *)
LEMMA WorkHolds == Spec => []WorkInv
<1>1. Init => WorkInv BY WorkInit
<1>2. WorkInv /\ [Next]_vars => WorkInv' BY WorkStep
<1> QED BY <1>1, <1>2, PTL DEF Spec

(* Every step of the subscriber, the workers, the supervisor and the lifecycle *)
(* keeps the types, and the queue strictly in the order of the frames.         *)
THEOREM TypeCorrect == Spec => []TypeOK
<1>1. WorkInv => TypeOK BY DEF WorkInv
<1> QED BY <1>1, WorkHolds, PTL

(* What a lifetime of the connection owns goes with it: nobody is left with a  *)
(* closed client, no publisher outlives its lifetime, and after Shutdown no    *)
(* goroutine or client of Home is left.                                        *)
THEOREM OwnershipCorrect == Spec => []LifetimesOwn
<1>1. WorkInv => LifetimesOwn
  <2> SUFFICES ASSUME WorkInv PROVE LifetimesOwn OBVIOUS
  <2>1. TypeOK /\ Owned BY DEF WorkInv
  <2>2. NoClosedClient
    <3>1. \A c \in closedClients : c # None BY <2>1, Bounds DEF TypeOK, ClientType, Lifetimes, None
    <3>2. \A c \in closedClients : c # svcClient /\ c # dispatch /\ c # current
      BY <2>1, <3>1 DEF Owned, ClientsOwned, ClosedBefore, InLife, Unsetting, Clearing, Detaching, Joining, Alive
    <3> QED BY <3>2 DEF NoClosedClient
  <2>3. PublisherOwned BY <2>1 DEF Owned, PublishersOwned, PublisherOwned, Joining, Alive
  <2>4. StopsClean
    <3> SUFFICES ASSUME op = "stopped"
                 PROVE  /\ \A l \in Lifetimes : worker[l] \in {"none", "gone"} /\ publisher[l] # "running"
                        /\ {svcClient, dispatch, current} = {None}
                        /\ commitMu = None
      BY DEF StopsClean
    <3>1. sup \in {"none", "done"} BY <2>1 DEF Owned, Stopped
    <3>2. \A l \in Lifetimes : worker[l] \in {"none", "gone"} /\ publisher[l] # "running"
      BY <2>1, <3>1 DEF Owned, WorkersOwned, Working, PublishersOwned, Joining, Alive
    <3>3. svcClient = None /\ dispatch = None /\ current = None
      BY <2>1, <3>1 DEF Owned, ClientsOwned, Unsetting, Clearing, Detaching, Joining, Alive
    <3>4. commitMu = None
      <4>1. commitMu \in Lifetimes \cup {None} BY <2>1, Bounds DEF TypeOK, WorkerType, Lifetimes, None
      <4> QED BY <2>1, <3>2, <4>1 DEF Owned, CommitOwned
    <3> QED BY <3>2, <3>3, <3>4
  <2> QED BY <2>1, <2>2, <2>3, <2>4 DEF LifetimesOwn
<1> QED BY <1>1, WorkHolds, PTL

(* Whatever fails and whoever reconnects, configurations are committed and     *)
(* applied in the order in which Home issued them, and a subscriber that was   *)
(* cancelled commits nothing more.                                             *)
THEOREM CommitsCorrect == Spec => CommitsInOrder
<1>1. WorkInv /\ [Next]_vars => [InOrder /\ QuietAfterCancel]_vars
  <2> SUFFICES ASSUME WorkInv, Next PROVE InOrder /\ QuietAfterCancel OBVIOUS
  <2>1. TypeOK /\ Owned /\ Ordered BY DEF WorkInv
  <2>2. cfg \in Nat /\ applied \in Nat /\ \A l \in Lifetimes : frame[l] \in Nat
    BY <2>1, Bounds DEF TypeOK, WorkerType
  <2>3. ASSUME UNCHANGED <<cfg, committer, applied>> PROVE InOrder /\ QuietAfterCancel
    BY <2>2, <2>3 DEF InOrder, QuietAfterCancel
  <2> USE DEF commitVars
  <2>4. CASE Subscriber
    BY <2>3, <2>4 DEF Subscriber, GetConfig, GotWake, Subscribed, ReceiveFrame, ReceivedWake, OnlyQueue
  <2>5. CASE Supervisor
    BY <2>3, <2>5 DEF Supervisor, BeginLifetime, EndLifetime, JoinWorker, JoinPublisher, Detach,
         ClearHomeDispatchBundle, ClearCurrent, CloseClient, Settled, SettleFails, SettleStopped, LoopStopped,
         SupervisorReturns, OnlySup
  <2>6. CASE Lifecycle
    BY <2>3, <2>6 DEF Lifecycle, startHomeSubscriber, CancelRun, Shutdown, CancelSupervisor, AwaitSupervisor,
         StartSupervisor, ShutdownClear, OnlyOp
  <2>7. ASSUME NEW l \in Lifetimes, CommitStore(l) PROVE InOrder /\ QuietAfterCancel
    <3>1. worker[l] = "commit" /\ cfg' = frame[l] /\ applied' = applied BY <2>7 DEF CommitStore, GoWorker
    <3>2. cfg <= frame[l] BY <2>1, <3>1 DEF Ordered, InHand, Staging
    <3>3. ~homeDone
      <4>1. commitMu = l /\ l # None BY <2>1, <3>1, Bounds DEF Owned, CommitOwned, Lifetimes, None
      <4> QED BY <2>1, <4>1 DEF Owned, CommitOwned
    <3> QED BY <2>2, <3>1, <3>2, <3>3 DEF InOrder, QuietAfterCancel
  <2>8. ASSUME NEW l \in Lifetimes, ApplyRuntime(l) PROVE InOrder /\ QuietAfterCancel
    <3>1. worker[l] = "runtime" /\ applied' = frame[l] /\ UNCHANGED <<cfg, committer>>
      BY <2>8 DEF ApplyRuntime, GoWorker
    <3>2. applied <= frame[l] BY <2>1, <3>1 DEF Ordered, InHand
    <3> QED BY <2>2, <3>1, <3>2 DEF InOrder, QuietAfterCancel
  <2>9. ASSUME NEW l \in Lifetimes, Worker(l) \/ PublisherEnds(l), ~CommitStore(l), ~ApplyRuntime(l)
        PROVE  InOrder /\ QuietAfterCancel
    BY <2>3, <2>9 DEF Worker, NotReady, BecomeReady, dequeue, DequeueWait, DequeueWoken, StageOk, StageFails,
         StageRetry, CommitCheck, CommitRefused, ApplyRuntimeFails, FinalizeOk, FinalizeFails,
         FinalizeRetry, Publish, StartPublisher, Cancelled, Leave, OnlyWorker, PublisherEnds
  <2> QED BY <2>4, <2>5, <2>6, <2>7, <2>8, <2>9 DEF Next
<1>2. Spec => [][InOrder /\ QuietAfterCancel]_vars BY <1>1, WorkHolds, PTL DEF Spec
<1> QED BY <1>2 DEF CommitsInOrder

=============================================================================
