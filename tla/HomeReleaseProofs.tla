-------------------------- MODULE HomeReleaseProofs --------------------------
(***************************************************************************)
(* Theorems about cumulative releases, for any groups, executions and Home *)
(* lifetimes.                                                              *)
(***************************************************************************)
EXTENDS HomeRelease, TLAPS

-----------------------------------------------------------------------------
(* Type correctness, one part of the state at a time. *)

(* The initial states have their types. *)
LEMMA InitType == Init => TypeOK
<1> SUFFICES ASSUME Init PROVE TypeOK OBVIOUS
<1> USE BoundsAssumption DEF Init, Zero
<1>1. RegistryType BY DEF RegistryType
<1>2. FlusherType BY DEF FlusherType, NoTickets
<1>3. RunType BY DEF RunType, NoGroup
<1>4. SupervisorType
  <2>1. lifetimes \in 0..MaxLifetimes /\ incarnation \in Nat OBVIOUS
  <2> QED BY <2>1 DEF SupervisorType
<1> QED BY <1>1, <1>2, <1>3, <1>4 DEF TypeOK

(* The registry keeps its type. *)
LEMMA RegistryTypeStep == ASSUME TypeOK, Next PROVE RegistryType'
<1> USE BoundsAssumption DEF TypeOK, RegistryType, Zero
<1>1. CASE BeginDispatch
  BY <1>1 DEF BeginDispatch, OnlyRegistry, registryVars, flusherVars, signalVars, runVars,
     supervisorVars
<1>2. CASE ResolveDispatch
  BY <1>2 DEF ResolveDispatch, OnlyRegistry, registryVars, flusherVars, signalVars, runVars,
     supervisorVars
<1>3. ASSUME NEW g \in Groups, EndExecution(g) PROVE RegistryType'
  BY <1>3 DEF EndExecution, Endable, OnlyRegistry, registryVars, flusherVars, signalVars,
     runVars, supervisorVars
<1>4. ASSUME NEW g \in Groups, NEW seq \in 1..MaxDispatches, MarkDirty(g, seq) PROVE RegistryType'
  BY <1>4 DEF MarkDirty, AlreadyAcked, signal, registryVars, flusherVars, signalVars, runVars,
     supervisorVars
<1>5. CASE RunWake \/ RunForce \/ RunTimer \/ RecordAck \/ FlushEnd \/ RunExit
             \/ (\E g \in Groups : SendOk(g) \/ SendFails(g))
  BY <1>5 DEF RunWake, OnlyRun, RunForce, flushBegin, Dirty, RunTimer, SendOk, Receive,
     SendFails, RecordAck, AckedBySend, FlushEnd, RunExit, registryVars, flusherVars,
     signalVars, runVars, supervisorVars
<1>6. CASE StartLifetime \/ CancelHome \/ LifetimeFails \/ SettleFirst
             \/ SettleFirstExpires \/ CancelRelease \/ JoinRelease \/ Settle \/ KeepRegistry
  BY <1>6 DEF StartLifetime, SetSender, signal, GoSupervisor, CancelHome, LifetimeFails,
     OnlySupervisor, SettleFirst, SettleFirstExpires, CancelRelease, JoinRelease, Settle,
     KeepRegistry, registryVars, flusherVars, signalVars, runVars, supervisorVars
<1>7. CASE AbandonRegistry
  BY <1>7 DEF AbandonRegistry, GoSupervisor, OnlySupervisor, registryVars, flusherVars,
     signalVars, runVars, supervisorVars
<1>8. CASE ReplaceRegistry
  BY <1>8 DEF ReplaceRegistry, NewReleaseFlusher, GoSupervisor, registryVars, flusherVars,
     signalVars, runVars, supervisorVars
<1>9. CASE Abort \/ GiveUp \/ LoopEnds
  BY <1>9 DEF Abort, Leave, OnlySupervisor, GiveUp, LoopEnds, registryVars, flusherVars,
     signalVars, runVars, supervisorVars
<1>10. CASE StopLifetime \/ FinalDrained \/ Flushed \/ FinalExpires \/ FinalJoin
  BY <1>10 DEF StopLifetime, OnlySupervisor, FinalDrained, DrainReturns, GoSupervisor, Flushed,
     FinalCancel, FinalExpires, FinalJoin, registryVars, flusherVars, signalVars, runVars,
     supervisorVars
<1> QED BY <1>1, <1>2, <1>3, <1>4, <1>5, <1>6, <1>7, <1>8, <1>9, <1>10 DEF Next, Owner, Run, Supervise

(* The flusher keeps its type. *)
LEMMA FlusherTypeStep == ASSUME TypeOK, Next PROVE FlusherType'
<1> USE BoundsAssumption DEF TypeOK, RegistryType, FlusherType, RunType, Zero, NoTickets
<1>1. CASE BeginDispatch \/ ResolveDispatch \/ (\E g \in Groups : EndExecution(g))
  BY <1>1 DEF BeginDispatch, OnlyRegistry, ResolveDispatch, EndExecution, Endable, registryVars,
     flusherVars, signalVars, runVars, supervisorVars
<1>2. ASSUME NEW g \in Groups, NEW seq \in 1..MaxDispatches, MarkDirty(g, seq) PROVE FlusherType'
  BY <1>2 DEF MarkDirty, AlreadyAcked, signal, registryVars, flusherVars, signalVars, runVars,
     supervisorVars
<1>3. CASE RunWake \/ RunForce \/ RunTimer \/ FlushEnd \/ RunExit
  BY <1>3 DEF RunWake, OnlyRun, RunForce, flushBegin, Dirty, RunTimer, FlushEnd, RunExit,
     registryVars, flusherVars, signalVars, runVars, supervisorVars
<1>4. ASSUME NEW g \in Groups, SendOk(g) PROVE FlusherType'
  BY <1>4 DEF SendOk, Receive, OnlyRun, registryVars, flusherVars, signalVars, runVars,
     supervisorVars
<1>5. ASSUME NEW g \in Groups, SendFails(g) PROVE FlusherType'
  BY <1>5 DEF SendFails, Receive, OnlyRun, registryVars, flusherVars, signalVars, runVars,
     supervisorVars
<1>6. CASE RecordAck
  BY <1>6 DEF RecordAck, AckedBySend, OnlyRun, registryVars, flusherVars, signalVars, runVars,
     supervisorVars
<1>7. CASE StartLifetime \/ CancelHome \/ LifetimeFails \/ SettleFirst
             \/ SettleFirstExpires \/ CancelRelease \/ JoinRelease \/ Settle \/ KeepRegistry
  BY <1>7 DEF StartLifetime, SetSender, signal, GoSupervisor, CancelHome, LifetimeFails,
     OnlySupervisor, SettleFirst, SettleFirstExpires, CancelRelease, JoinRelease, Settle,
     KeepRegistry, registryVars, flusherVars, signalVars, runVars, supervisorVars
<1>8. CASE AbandonRegistry
  BY <1>8 DEF AbandonRegistry, GoSupervisor, OnlySupervisor, registryVars, flusherVars,
     signalVars, runVars, supervisorVars
<1>9. CASE ReplaceRegistry
  BY <1>9 DEF ReplaceRegistry, NewReleaseFlusher, GoSupervisor, registryVars, flusherVars,
     signalVars, runVars, supervisorVars
<1>10. CASE Abort \/ GiveUp \/ LoopEnds
  BY <1>10 DEF Abort, Leave, OnlySupervisor, GiveUp, LoopEnds, registryVars, flusherVars,
     signalVars, runVars, supervisorVars
<1>11. CASE StopLifetime \/ FinalDrained \/ Flushed \/ FinalExpires \/ FinalJoin
  BY <1>11 DEF StopLifetime, OnlySupervisor, FinalDrained, DrainReturns, GoSupervisor, Flushed,
     FinalCancel, FinalExpires, FinalJoin, registryVars, flusherVars, signalVars, runVars,
     supervisorVars
<1> QED BY <1>1, <1>2, <1>3, <1>4, <1>5, <1>6, <1>7, <1>8, <1>9, <1>10, <1>11 DEF Next, Owner, Run, Supervise

(* A run of the flusher keeps its type. *)
LEMMA RunTypeStep == ASSUME TypeOK, Next PROVE RunType'
<1> USE BoundsAssumption DEF TypeOK, FlusherType, RunType, Zero, NoGroup
<1>1. CASE UNCHANGED runVars BY <1>1 DEF runVars
<1>2. CASE RunWake
  BY <1>2 DEF RunWake, OnlyRun, registryVars, flusherVars, signalVars, runVars, supervisorVars
<1>3. CASE RunForce \/ RunTimer
  <2>1. ASSUME NEW g \in Groups
        PROVE  (IF sender # "nil" /\ Dirty(g) THEN latest[g] ELSE 0) \in Nat
    OBVIOUS
  <2>2. batch' \in [Groups -> Nat] BY <1>3, <2>1 DEF RunForce, RunTimer, flushBegin
  <2> QED BY <1>3, <2>2 DEF RunForce, RunTimer, flushBegin
<1>4. ASSUME NEW g \in Groups, SendOk(g) PROVE RunType'
  BY <1>4 DEF SendOk, Receive, OnlyRun, registryVars, flusherVars, signalVars, runVars,
     supervisorVars
<1>5. ASSUME NEW g \in Groups, SendFails(g) PROVE RunType'
  BY <1>5 DEF SendFails, Receive, OnlyRun, registryVars, flusherVars, signalVars, runVars,
     supervisorVars
<1>6. CASE RecordAck
  BY <1>6 DEF RecordAck, AckedBySend, OnlyRun, registryVars, flusherVars, signalVars, runVars,
     supervisorVars
<1>7. CASE FlushEnd \/ RunExit
  BY <1>7 DEF FlushEnd, OnlyRun, RunExit, registryVars, flusherVars, signalVars, runVars,
     supervisorVars
<1>8. CASE StartLifetime \/ CancelHome \/ LifetimeFails \/ SettleFirst
             \/ SettleFirstExpires \/ CancelRelease \/ JoinRelease \/ Settle \/ KeepRegistry
  BY <1>8, ZenonT(60) DEF StartLifetime, SetSender, signal, GoSupervisor, CancelHome, LifetimeFails,
     OnlySupervisor, SettleFirst, SettleFirstExpires, CancelRelease, JoinRelease, Settle,
     KeepRegistry, registryVars, flusherVars, signalVars, runVars, supervisorVars
<1>9. CASE AbandonRegistry \/ ReplaceRegistry \/ Abort \/ GiveUp \/ LoopEnds
  BY <1>9 DEF AbandonRegistry, GoSupervisor, OnlySupervisor, ReplaceRegistry, NewReleaseFlusher,
     Abort, Leave, GiveUp, LoopEnds, registryVars, flusherVars, signalVars, runVars,
     supervisorVars
<1>10. CASE StopLifetime \/ FinalDrained \/ Flushed \/ FinalExpires \/ FinalJoin
  BY <1>10, ZenonT(60) DEF StopLifetime, OnlySupervisor, FinalDrained, DrainReturns, GoSupervisor, Flushed,
     FinalCancel, FinalExpires, FinalJoin, registryVars, flusherVars, signalVars, runVars,
     supervisorVars
<1> QED BY <1>1, <1>2, <1>3, <1>4, <1>5, <1>6, <1>7, <1>8, <1>9, <1>10
        DEF Next, Owner, Run, Supervise, BeginDispatch, ResolveDispatch, EndExecution, MarkDirty,
            OnlyRegistry

(* The supervisor keeps its type. *)
LEMMA SupervisorTypeStep == ASSUME TypeOK, Next PROVE SupervisorType'
<1> USE BoundsAssumption DEF TypeOK, SupervisorType
<1>1. CASE BeginDispatch \/ ResolveDispatch \/ (\E g \in Groups : EndExecution(g))
             \/ (\E g \in Groups, seq \in 1..MaxDispatches : MarkDirty(g, seq))
  BY <1>1, ZenonT(60) DEF BeginDispatch, OnlyRegistry, ResolveDispatch, EndExecution, Endable, MarkDirty,
     AlreadyAcked, signal, registryVars, flusherVars, signalVars, runVars, supervisorVars
<1>2. CASE RunWake \/ RunForce \/ RunTimer \/ RecordAck \/ FlushEnd \/ RunExit
             \/ (\E g \in Groups : SendOk(g) \/ SendFails(g))
  BY <1>2 DEF RunWake, OnlyRun, RunForce, flushBegin, Dirty, RunTimer, SendOk, Receive,
     SendFails, RecordAck, AckedBySend, FlushEnd, RunExit, registryVars, flusherVars,
     signalVars, runVars, supervisorVars
<1>3. CASE StartLifetime
  BY <1>3 DEF StartLifetime, SetSender, signal, GoSupervisor, registryVars, flusherVars,
     signalVars, runVars, supervisorVars
<1>4. CASE CancelHome \/ LifetimeFails \/ SettleFirst \/ SettleFirstExpires
             \/ CancelRelease \/ JoinRelease \/ Settle \/ KeepRegistry
  BY <1>4 DEF CancelHome, LifetimeFails, GoSupervisor, OnlySupervisor, SettleFirst,
     SettleFirstExpires, CancelRelease, JoinRelease, Settle, KeepRegistry, registryVars,
     flusherVars, signalVars, runVars, supervisorVars
<1>5. CASE AbandonRegistry \/ ReplaceRegistry \/ Abort \/ GiveUp \/ LoopEnds
  BY <1>5 DEF AbandonRegistry, GoSupervisor, OnlySupervisor, ReplaceRegistry, NewReleaseFlusher,
     Abort, Leave, GiveUp, LoopEnds, registryVars, flusherVars, signalVars, runVars,
     supervisorVars
<1>6. CASE StopLifetime \/ FinalDrained \/ Flushed \/ FinalExpires \/ FinalJoin
  BY <1>6 DEF StopLifetime, OnlySupervisor, FinalDrained, DrainReturns, GoSupervisor, Flushed,
     FinalCancel, FinalExpires, FinalJoin, registryVars, flusherVars, signalVars, runVars,
     supervisorVars
<1> QED BY <1>1, <1>2, <1>3, <1>4, <1>5, <1>6 DEF Next, Owner, Run, Supervise

(* Type correctness: among the rest, an acknowledgement is recorded for a group. *)
THEOREM TypeCorrect == Spec => []TypeOK
<1>1. TypeOK /\ UNCHANGED vars => TypeOK'
  BY DEF TypeOK, RegistryType, FlusherType, RunType, SupervisorType, vars, registryVars,
         flusherVars, signalVars, runVars, supervisorVars
<1>2. TypeOK /\ [Next]_vars => TypeOK'
  BY <1>1, RegistryTypeStep, FlusherTypeStep, RunTypeStep, SupervisorTypeStep DEF TypeOK
<1> QED BY InitType, <1>2, PTL DEF Spec

-----------------------------------------------------------------------------
(* The inductive invariant. *)

(* Between lifetimes there is no Run goroutine, and without a flush under   *)
(* way there is no batch.                                                   *)
Idle ==
    /\ supervisor \in {"start", "settle", "unsettled", "decide", "unsafeDrain", "exit"}
       => run = "off"
    /\ run \in {"off", "select"} => \A g \in Groups : batch[g] = 0

(* A sequence is counted by the registry, marked, sent and acknowledged, in *)
(* this order; what was sent last is acknowledged next.                     *)
Pipeline ==
    /\ \A m \in marking : m[2] <= seqs[m[1]]
    /\ \A g \in Groups : /\ acked[g] <= latest[g] /\ batch[g] <= latest[g]
                         /\ latest[g] <= seqs[g]
                         /\ acked[g] <= received[g] /\ received[g] <= seqs[g]
    /\ run = "acking" => batch[current] <= received[current]

(* With a sink, the newest sequence of a group is known to the flusher or   *)
(* on its way to it.                                                        *)
Marked == sink => \A g \in Groups : latest[g] = seqs[g] \/ <<g, seqs[g]>> \in marking

(* The registry closes when it is drained, and only the last steps of a     *)
(* subscriber follow; until then the sink is taken away only for good.      *)
Stopping ==
    /\ regState = "closed" => Drained /\ supervisor \in {"finalFlush", "finalJoin", "exit"}
    /\ supervisor = "finalFlush" => regState = "closed"
    /\ ~sink => supervisor \in {"unsafeDrain", "exit"}
    /\ outcome = "flushed" => regState = "closed" /\ supervisor \in {"finalJoin", "exit"}

-----------------------------------------------------------------------------
(* Each part of the invariant is kept by every action. *)

(* A flusher that is not running has nothing under way. *)
LEMMA IdleStep == ASSUME TypeOK, Idle, Next PROVE Idle'
<1> USE BoundsAssumption DEF TypeOK, RunType, SupervisorType, Idle, Zero
<1>1. CASE BeginDispatch \/ ResolveDispatch \/ (\E g \in Groups : EndExecution(g))
             \/ (\E g \in Groups, seq \in 1..MaxDispatches : MarkDirty(g, seq))
  BY <1>1, ZenonT(60) DEF BeginDispatch, OnlyRegistry, ResolveDispatch, EndExecution, Endable, MarkDirty,
     AlreadyAcked, signal, registryVars, flusherVars, signalVars, runVars, supervisorVars
<1>2. CASE RunWake \/ RunForce \/ RunTimer \/ RecordAck \/ FlushEnd \/ RunExit
             \/ (\E g \in Groups : SendOk(g) \/ SendFails(g))
  BY <1>2 DEF RunWake, OnlyRun, RunForce, flushBegin, Dirty, RunTimer, SendOk, Receive,
     SendFails, RecordAck, AckedBySend, FlushEnd, RunExit, registryVars, flusherVars,
     signalVars, runVars, supervisorVars
<1>3. CASE StartLifetime \/ CancelHome \/ LifetimeFails \/ SettleFirst
             \/ SettleFirstExpires \/ CancelRelease \/ JoinRelease \/ Settle \/ KeepRegistry
  BY <1>3 DEF StartLifetime, SetSender, signal, GoSupervisor, CancelHome, LifetimeFails,
     OnlySupervisor, SettleFirst, SettleFirstExpires, CancelRelease, JoinRelease, Settle,
     KeepRegistry, registryVars, flusherVars, signalVars, runVars, supervisorVars
<1>4. CASE AbandonRegistry \/ ReplaceRegistry \/ Abort \/ GiveUp \/ LoopEnds
  BY <1>4 DEF AbandonRegistry, GoSupervisor, OnlySupervisor, ReplaceRegistry, NewReleaseFlusher,
     Abort, Leave, GiveUp, LoopEnds, registryVars, flusherVars, signalVars, runVars,
     supervisorVars
<1>5. CASE StopLifetime \/ FinalDrained \/ Flushed \/ FinalExpires \/ FinalJoin
  BY <1>5 DEF StopLifetime, OnlySupervisor, FinalDrained, DrainReturns, GoSupervisor, Flushed,
     FinalCancel, FinalExpires, FinalJoin, registryVars, flusherVars, signalVars, runVars,
     supervisorVars
<1> QED BY <1>1, <1>2, <1>3, <1>4, <1>5 DEF Next, Owner, Run, Supervise

(* Every step keeps the sequences of a group in their order. *)
LEMMA PipelineStep == ASSUME TypeOK, Idle, Pipeline, Next PROVE Pipeline'
<1> USE BoundsAssumption DEF TypeOK, RegistryType, FlusherType, RunType, Idle, Pipeline, Zero
<1>1. CASE BeginDispatch \/ ResolveDispatch
  BY <1>1 DEF BeginDispatch, OnlyRegistry, ResolveDispatch, registryVars, flusherVars,
     signalVars, runVars, supervisorVars
<1>2. ASSUME NEW g \in Groups, EndExecution(g) PROVE Pipeline'
  BY <1>2 DEF EndExecution, Endable, OnlyRegistry, registryVars, flusherVars, signalVars,
     runVars, supervisorVars
<1>3. ASSUME NEW g \in Groups, NEW seq \in 1..MaxDispatches, MarkDirty(g, seq) PROVE Pipeline'
  BY <1>3 DEF MarkDirty, AlreadyAcked, signal, registryVars, flusherVars, signalVars, runVars,
     supervisorVars
<1>4. CASE RunWake \/ FlushEnd \/ RunExit
  BY <1>4 DEF RunWake, OnlyRun, FlushEnd, RunExit, registryVars, flusherVars, signalVars,
     runVars, supervisorVars
<1>5. CASE RunForce \/ RunTimer
  BY <1>5 DEF RunForce, flushBegin, Dirty, OnlyRun, RunTimer, registryVars, flusherVars,
     signalVars, runVars, supervisorVars
<1>6. ASSUME NEW g \in Groups, SendOk(g) PROVE Pipeline'
  BY <1>6 DEF SendOk, Receive, OnlyRun, registryVars, flusherVars, signalVars, runVars,
     supervisorVars
<1>7. ASSUME NEW g \in Groups, SendFails(g) PROVE Pipeline'
  BY <1>7 DEF SendFails, Receive, OnlyRun, registryVars, flusherVars, signalVars, runVars,
     supervisorVars
<1>8. CASE RecordAck
  BY <1>8 DEF RecordAck, AckedBySend, OnlyRun, registryVars, flusherVars, signalVars, runVars,
     supervisorVars
<1>9. CASE StartLifetime \/ CancelHome \/ LifetimeFails \/ SettleFirst
             \/ SettleFirstExpires \/ CancelRelease \/ JoinRelease \/ Settle \/ KeepRegistry
  BY <1>9 DEF StartLifetime, SetSender, signal, GoSupervisor, CancelHome, LifetimeFails,
     OnlySupervisor, SettleFirst, SettleFirstExpires, CancelRelease, JoinRelease, Settle,
     KeepRegistry, registryVars, flusherVars, signalVars, runVars, supervisorVars
<1>10. CASE ReplaceRegistry
  BY <1>10 DEF ReplaceRegistry, NewReleaseFlusher, GoSupervisor, registryVars, flusherVars,
     signalVars, runVars, supervisorVars, Drained
<1>11. CASE AbandonRegistry \/ Abort \/ GiveUp \/ LoopEnds
  BY <1>11 DEF AbandonRegistry, GoSupervisor, OnlySupervisor, Abort, Leave, GiveUp, LoopEnds,
     registryVars, flusherVars, signalVars, runVars, supervisorVars
<1>12. CASE StopLifetime \/ FinalDrained \/ Flushed \/ FinalExpires \/ FinalJoin
  BY <1>12 DEF StopLifetime, OnlySupervisor, FinalDrained, DrainReturns, GoSupervisor, Flushed,
     FinalCancel, FinalExpires, FinalJoin, registryVars, flusherVars, signalVars, runVars,
     supervisorVars
<1> QED BY <1>1, <1>2, <1>3, <1>4, <1>5, <1>6, <1>7, <1>8, <1>9, <1>10, <1>11, <1>12 DEF Next, Owner, Run, Supervise

(* Every step keeps the newest sequence on its way. *)
LEMMA MarkedStep == ASSUME TypeOK, Pipeline, Marked, Next PROVE Marked'
<1> USE BoundsAssumption DEF TypeOK, RegistryType, FlusherType, Pipeline, Marked, Zero
<1>1. CASE BeginDispatch \/ ResolveDispatch
  BY <1>1 DEF BeginDispatch, OnlyRegistry, ResolveDispatch, registryVars, flusherVars,
     signalVars, runVars, supervisorVars
<1>2. ASSUME NEW g \in Groups, EndExecution(g) PROVE Marked'
  BY <1>2 DEF EndExecution, Endable, OnlyRegistry, registryVars, flusherVars, signalVars,
     runVars, supervisorVars
<1>3. ASSUME NEW g \in Groups, NEW seq \in 1..MaxDispatches, MarkDirty(g, seq) PROVE Marked'
  BY <1>3 DEF MarkDirty, AlreadyAcked, signal, registryVars, flusherVars, signalVars, runVars,
     supervisorVars
<1>4. CASE RunWake \/ RunForce \/ RunTimer \/ RecordAck \/ FlushEnd \/ RunExit
             \/ (\E g \in Groups : SendOk(g) \/ SendFails(g))
  BY <1>4 DEF RunWake, OnlyRun, RunForce, flushBegin, Dirty, RunTimer, SendOk, Receive,
     SendFails, RecordAck, AckedBySend, FlushEnd, RunExit, registryVars, flusherVars,
     signalVars, runVars, supervisorVars
<1>5. CASE StartLifetime \/ CancelHome \/ LifetimeFails \/ SettleFirst
             \/ SettleFirstExpires \/ CancelRelease \/ JoinRelease \/ Settle \/ KeepRegistry
  BY <1>5 DEF StartLifetime, SetSender, signal, GoSupervisor, CancelHome, LifetimeFails,
     OnlySupervisor, SettleFirst, SettleFirstExpires, CancelRelease, JoinRelease, Settle,
     KeepRegistry, registryVars, flusherVars, signalVars, runVars, supervisorVars
<1>6. CASE ReplaceRegistry
  BY <1>6 DEF ReplaceRegistry, NewReleaseFlusher, GoSupervisor, registryVars, flusherVars,
     signalVars, runVars, supervisorVars
<1>7. CASE AbandonRegistry \/ Abort \/ GiveUp \/ LoopEnds
  BY <1>7 DEF AbandonRegistry, GoSupervisor, OnlySupervisor, Abort, Leave, GiveUp, LoopEnds,
     registryVars, flusherVars, signalVars, runVars, supervisorVars
<1>8. CASE StopLifetime \/ FinalDrained \/ Flushed \/ FinalExpires \/ FinalJoin
  BY <1>8 DEF StopLifetime, OnlySupervisor, FinalDrained, DrainReturns, GoSupervisor, Flushed,
     FinalCancel, FinalExpires, FinalJoin, registryVars, flusherVars, signalVars, runVars,
     supervisorVars
<1> QED BY <1>1, <1>2, <1>3, <1>4, <1>5, <1>6, <1>7, <1>8 DEF Next, Owner, Run, Supervise

(* Every step keeps the order of the stop. *)
LEMMA StoppingStep == ASSUME TypeOK, Stopping, Next PROVE Stopping'
<1> USE BoundsAssumption DEF TypeOK, RegistryType, SupervisorType, Stopping, Drained, Zero
<1>1. CASE BeginDispatch
  BY <1>1 DEF BeginDispatch, OnlyRegistry, registryVars, flusherVars, signalVars, runVars,
     supervisorVars
<1>2. CASE ResolveDispatch
  BY <1>2 DEF ResolveDispatch, OnlyRegistry, registryVars, flusherVars, signalVars, runVars,
     supervisorVars
<1>3. ASSUME NEW g \in Groups, EndExecution(g) PROVE Stopping'
  BY <1>3 DEF EndExecution, Endable, OnlyRegistry, registryVars, flusherVars, signalVars,
     runVars, supervisorVars
<1>4. ASSUME NEW g \in Groups, NEW seq \in 1..MaxDispatches, MarkDirty(g, seq) PROVE Stopping'
  BY <1>4 DEF MarkDirty, AlreadyAcked, signal, registryVars, flusherVars, signalVars, runVars,
     supervisorVars
<1>5. CASE RunWake \/ RunForce \/ RunTimer \/ RecordAck \/ FlushEnd \/ RunExit
             \/ (\E g \in Groups : SendOk(g) \/ SendFails(g))
  BY <1>5 DEF RunWake, OnlyRun, RunForce, flushBegin, Dirty, RunTimer, SendOk, Receive,
     SendFails, RecordAck, AckedBySend, FlushEnd, RunExit, registryVars, flusherVars,
     signalVars, runVars, supervisorVars
<1>6. CASE StartLifetime \/ CancelHome \/ LifetimeFails \/ SettleFirst
             \/ SettleFirstExpires \/ CancelRelease \/ JoinRelease \/ Settle \/ KeepRegistry
  BY <1>6 DEF StartLifetime, SetSender, signal, GoSupervisor, CancelHome, LifetimeFails,
     OnlySupervisor, SettleFirst, SettleFirstExpires, CancelRelease, JoinRelease, Settle,
     KeepRegistry, registryVars, flusherVars, signalVars, runVars, supervisorVars
<1>7. CASE AbandonRegistry \/ ReplaceRegistry \/ Abort \/ GiveUp \/ LoopEnds
  BY <1>7 DEF AbandonRegistry, GoSupervisor, OnlySupervisor, ReplaceRegistry, NewReleaseFlusher,
     Abort, Leave, GiveUp, LoopEnds, registryVars, flusherVars, signalVars, runVars,
     supervisorVars
<1>8. CASE StopLifetime \/ FinalDrained \/ Flushed \/ FinalExpires \/ FinalJoin
  BY <1>8 DEF StopLifetime, OnlySupervisor, FinalDrained, DrainReturns, GoSupervisor, Flushed,
     FinalCancel, FinalExpires, FinalJoin, registryVars, flusherVars, signalVars, runVars,
     supervisorVars
<1> QED BY <1>1, <1>2, <1>3, <1>4, <1>5, <1>6, <1>7, <1>8 DEF Next, Owner, Run, Supervise

(* A ticket is answered with what became of it, after every step too. *)
LEMMA TicketsAreHonestStep == ASSUME TypeOK, Pipeline, TicketsAreHonest, Next PROVE TicketsAreHonest'
<1> USE BoundsAssumption DEF TypeOK, FlusherType, RunType, Pipeline, TicketsAreHonest, NoTickets
<1>1. CASE BeginDispatch \/ ResolveDispatch \/ (\E g \in Groups : EndExecution(g))
  BY <1>1 DEF BeginDispatch, OnlyRegistry, ResolveDispatch, EndExecution, Endable, registryVars,
     flusherVars, signalVars, runVars, supervisorVars
<1>2. ASSUME NEW g \in Groups, NEW seq \in 1..MaxDispatches,
             MarkDirty(g, seq)
      PROVE  TicketsAreHonest'
  BY <1>2 DEF MarkDirty, AlreadyAcked, signal, registryVars, flusherVars, signalVars, runVars,
     supervisorVars
<1>3. CASE RunWake \/ RunForce \/ RunTimer \/ FlushEnd \/ RunExit
  BY <1>3 DEF RunWake, OnlyRun, RunForce, flushBegin, Dirty, RunTimer, FlushEnd, RunExit,
     registryVars, flusherVars, signalVars, runVars, supervisorVars
<1>4. ASSUME NEW g \in Groups, SendOk(g) PROVE TicketsAreHonest'
  BY <1>4 DEF SendOk, Receive, OnlyRun, registryVars, flusherVars, signalVars, runVars,
     supervisorVars
<1>5. ASSUME NEW g \in Groups, SendFails(g) PROVE TicketsAreHonest'
  BY <1>5 DEF SendFails, Receive, OnlyRun, registryVars, flusherVars, signalVars, runVars,
     supervisorVars
<1>6. CASE RecordAck
  BY <1>6 DEF RecordAck, AckedBySend, OnlyRun, registryVars, flusherVars, signalVars, runVars,
     supervisorVars
<1>7. CASE StartLifetime \/ CancelHome \/ LifetimeFails \/ SettleFirst
             \/ SettleFirstExpires \/ CancelRelease \/ JoinRelease \/ Settle \/ KeepRegistry
  BY <1>7 DEF StartLifetime, SetSender, signal, GoSupervisor, CancelHome, LifetimeFails,
     OnlySupervisor, SettleFirst, SettleFirstExpires, CancelRelease, JoinRelease, Settle,
     KeepRegistry, registryVars, flusherVars, signalVars, runVars, supervisorVars
<1>8. CASE AbandonRegistry \/ ReplaceRegistry \/ Abort \/ GiveUp \/ LoopEnds
  BY <1>8 DEF AbandonRegistry, GoSupervisor, OnlySupervisor, ReplaceRegistry, NewReleaseFlusher,
     Abort, Leave, GiveUp, LoopEnds, registryVars, flusherVars, signalVars, runVars,
     supervisorVars
<1>9. CASE StopLifetime \/ FinalDrained \/ Flushed \/ FinalExpires \/ FinalJoin
  BY <1>9 DEF StopLifetime, OnlySupervisor, FinalDrained, DrainReturns, GoSupervisor, Flushed,
     FinalCancel, FinalExpires, FinalJoin, registryVars, flusherVars, signalVars, runVars,
     supervisorVars
<1> QED BY <1>1, <1>2, <1>3, <1>4, <1>5, <1>6, <1>7, <1>8, <1>9 DEF Next, Owner, Run, Supervise

(* No step leaves a ticket behind. *)
LEMMA NoStrandedTicketStep == ASSUME TypeOK, NoStrandedTicket, Next PROVE NoStrandedTicket'
<1> USE BoundsAssumption DEF TypeOK, FlusherType, RunType, NoStrandedTicket, NoTickets
<1>1. CASE BeginDispatch \/ ResolveDispatch \/ (\E g \in Groups : EndExecution(g))
  BY <1>1 DEF BeginDispatch, OnlyRegistry, ResolveDispatch, EndExecution, Endable, registryVars,
     flusherVars, signalVars, runVars, supervisorVars
<1>2. ASSUME NEW g \in Groups, NEW seq \in 1..MaxDispatches,
             MarkDirty(g, seq)
      PROVE  NoStrandedTicket'
  BY <1>2, SMTT(40) DEF MarkDirty, AlreadyAcked, signal, registryVars, flusherVars, signalVars, runVars,
     supervisorVars
<1>3. CASE RunWake \/ RunForce \/ RunTimer \/ FlushEnd \/ RunExit
  BY <1>3 DEF RunWake, OnlyRun, RunForce, flushBegin, Dirty, RunTimer, FlushEnd, RunExit,
     registryVars, flusherVars, signalVars, runVars, supervisorVars
<1>4. ASSUME NEW g \in Groups, SendOk(g) \/ SendFails(g) PROVE NoStrandedTicket'
  BY <1>4 DEF SendOk, Receive, OnlyRun, SendFails, registryVars, flusherVars, signalVars,
     runVars, supervisorVars
<1>5. CASE RecordAck
  BY <1>5 DEF RecordAck, AckedBySend, OnlyRun, registryVars, flusherVars, signalVars, runVars,
     supervisorVars
<1>6. CASE StartLifetime \/ CancelHome \/ LifetimeFails \/ SettleFirst
             \/ SettleFirstExpires \/ CancelRelease \/ JoinRelease \/ Settle \/ KeepRegistry
  BY <1>6 DEF StartLifetime, SetSender, signal, GoSupervisor, CancelHome, LifetimeFails,
     OnlySupervisor, SettleFirst, SettleFirstExpires, CancelRelease, JoinRelease, Settle,
     KeepRegistry, registryVars, flusherVars, signalVars, runVars, supervisorVars
<1>7. CASE AbandonRegistry \/ ReplaceRegistry \/ Abort \/ GiveUp \/ LoopEnds
  BY <1>7 DEF AbandonRegistry, GoSupervisor, OnlySupervisor, ReplaceRegistry, NewReleaseFlusher,
     Abort, Leave, GiveUp, LoopEnds, registryVars, flusherVars, signalVars, runVars,
     supervisorVars
<1>8. CASE StopLifetime \/ FinalDrained \/ Flushed \/ FinalExpires \/ FinalJoin
  BY <1>8 DEF StopLifetime, OnlySupervisor, FinalDrained, DrainReturns, GoSupervisor, Flushed,
     FinalCancel, FinalExpires, FinalJoin, registryVars, flusherVars, signalVars, runVars,
     supervisorVars
<1> QED BY <1>1, <1>2, <1>3, <1>4, <1>5, <1>6, <1>7, <1>8 DEF Next, Owner, Run, Supervise

(* Every step keeps the stop clean. *)
LEMMA CleanStopStep == ASSUME TypeOK, Pipeline, Pipeline', Marked, Stopping, CleanStop, Next PROVE CleanStop'
<1> USE BoundsAssumption DEF TypeOK, RegistryType, FlusherType, Pipeline, Marked, Stopping, Drained, CleanStop, Zero
<1>1. CASE BeginDispatch
  BY <1>1 DEF BeginDispatch, OnlyRegistry, registryVars, flusherVars, signalVars, runVars,
     supervisorVars
<1>2. CASE ResolveDispatch
  BY <1>2 DEF ResolveDispatch, OnlyRegistry, registryVars, flusherVars, signalVars, runVars,
     supervisorVars
<1>3. ASSUME NEW g \in Groups, EndExecution(g) PROVE CleanStop'
  BY <1>3 DEF EndExecution, Endable, OnlyRegistry, registryVars, flusherVars, signalVars,
     runVars, supervisorVars
<1>4. ASSUME NEW g \in Groups, NEW seq \in 1..MaxDispatches, MarkDirty(g, seq) PROVE CleanStop'
  BY <1>4 DEF MarkDirty, AlreadyAcked, signal, registryVars, flusherVars, signalVars, runVars,
     supervisorVars
<1>5. CASE RunWake \/ RunForce \/ RunTimer \/ RecordAck \/ FlushEnd \/ RunExit
  BY <1>5 DEF RunWake, OnlyRun, RunForce, flushBegin, Dirty, RunTimer, RecordAck, AckedBySend,
     FlushEnd, RunExit, registryVars, flusherVars, signalVars, runVars, supervisorVars
<1>6. ASSUME NEW g \in Groups, SendOk(g) \/ SendFails(g) PROVE CleanStop'
  <2>1. /\ UNCHANGED <<outcome, seqs>>
        /\ UNCHANGED received \/ received' = [received EXCEPT ![g] = IF batch[g] > @ THEN batch[g] ELSE @]
    BY <1>6 DEF SendOk, SendFails, Receive, OnlyRun, registryVars, supervisorVars
  <2>2. \A h \in Groups : received[h] <= received'[h] /\ received'[h] \in Nat
    BY <2>1 DEF RunType
  <2>3. \A h \in Groups : received'[h] <= seqs[h] BY <2>1
  <2> QED BY <2>1, <2>2, <2>3
<1>7. CASE StartLifetime \/ CancelHome \/ LifetimeFails \/ SettleFirst
             \/ SettleFirstExpires \/ CancelRelease \/ JoinRelease \/ Settle \/ KeepRegistry
  BY <1>7 DEF StartLifetime, SetSender, signal, GoSupervisor, CancelHome, LifetimeFails,
     OnlySupervisor, SettleFirst, SettleFirstExpires, CancelRelease, JoinRelease, Settle,
     KeepRegistry, registryVars, flusherVars, signalVars, runVars, supervisorVars
<1>8. CASE AbandonRegistry \/ ReplaceRegistry \/ Abort \/ GiveUp \/ LoopEnds
  BY <1>8 DEF AbandonRegistry, GoSupervisor, OnlySupervisor, ReplaceRegistry, NewReleaseFlusher,
     Abort, Leave, GiveUp, LoopEnds, registryVars, flusherVars, signalVars, runVars,
     supervisorVars
<1>9. CASE StopLifetime \/ FinalDrained \/ FinalExpires \/ FinalJoin
  BY <1>9 DEF StopLifetime, OnlySupervisor, FinalDrained, DrainReturns, GoSupervisor,
     FinalExpires, FinalCancel, FinalJoin, registryVars, flusherVars, signalVars, runVars,
     supervisorVars
<1>10. CASE Flushed
  <2>1. /\ supervisor = "finalFlush" /\ UNCHANGED <<received, seqs>>
        /\ \A g \in Groups : ~(latest[g] > acked[g])
    BY <1>10 DEF Flushed, FinalCancel, Dirty, registryVars
  <2>2. marking = {} /\ sink BY <2>1
  <2>3. \A g \in Groups : latest[g] = seqs[g] BY <2>2
  <2> QED BY <2>1, <2>3
<1> QED BY <1>1, <1>2, <1>3, <1>4, <1>5, <1>6, <1>7, <1>8, <1>9, <1>10 DEF Next, Owner, Run, Supervise

-----------------------------------------------------------------------------
(* Home never frees a slot whose execution has not ended: for any number of groups and *)
(* lifetimes, what was acknowledged was received, and what was received was counted.   *)
THEOREM ReleasesCorrect == Spec => []NeverOverReleases
<1>1. Init => Idle /\ Pipeline BY DEF Init, Idle, Pipeline, Zero
<1>2. TypeOK /\ Idle /\ Pipeline /\ [Next]_vars => Idle' /\ Pipeline'
  BY IdleStep, PipelineStep DEF Idle, Pipeline, vars, registryVars, flusherVars, runVars, supervisorVars
<1>3. Pipeline => NeverOverReleases BY DEF Pipeline, NeverOverReleases
<1> QED BY <1>1, <1>2, <1>3, TypeCorrect, PTL DEF Spec

(* A ticket closes when Home has its sequence and not before, and none is left behind. *)
THEOREM TicketsCorrect == Spec => []TicketsSettle
<1> DEFINE IInv == Idle /\ Pipeline /\ TicketsAreHonest /\ NoStrandedTicket
<1>1. Init => IInv
  BY DEF Init, Idle, Pipeline, TicketsAreHonest, NoStrandedTicket, Zero, NoTickets
<1>2. TypeOK /\ IInv /\ Next => IInv'
  BY IdleStep, PipelineStep, TicketsAreHonestStep, NoStrandedTicketStep
<1>3. IInv /\ UNCHANGED vars => IInv'
  BY DEF Idle, Pipeline, TicketsAreHonest, NoStrandedTicket, vars, registryVars, flusherVars,
         runVars, supervisorVars
<1>4. TypeOK /\ IInv => TicketsSettle BY DEF TicketsSettle
<1> HIDE DEF IInv
<1> QED BY <1>1, <1>2, <1>3, <1>4, TypeCorrect, PTL DEF Spec

(* A subscriber that reports a clean stop has told Home of every release there was. *)
THEOREM StopCorrect == Spec => []CleanStop
<1> DEFINE IInv == Idle /\ Pipeline /\ Marked /\ Stopping /\ CleanStop
<1>1. Init => IInv
  BY DEF Init, Idle, Pipeline, Marked, Stopping, CleanStop, Zero
<1>2. TypeOK /\ IInv /\ Next => IInv'
  BY IdleStep, PipelineStep, MarkedStep, StoppingStep, CleanStopStep
<1>3. IInv /\ UNCHANGED vars => IInv'
  BY DEF Idle, Pipeline, Marked, Stopping, Drained, CleanStop, vars, registryVars, flusherVars,
         runVars, supervisorVars
<1>4. IInv => CleanStop OBVIOUS
<1> HIDE DEF IInv
<1> QED BY <1>1, <1>2, <1>3, <1>4, TypeCorrect, PTL DEF Spec

=============================================================================
