---------------------- MODULE ExecutionRegistryProofs ----------------------
(***************************************************************************)
(* Theorems about the execution registry, for any number of dispatches,    *)
(* barriers, snapshots, groups, sinks and goroutines.                      *)
(***************************************************************************)
EXTENDS ExecutionRegistry, FiniteSetTheorems, TLAPS

-----------------------------------------------------------------------------
(* Type correctness, one part of the state at a time. *)

(* A step that leaves a part of the state alone keeps its type. *)
LEMMA Frame ==
    /\ RegistryType /\ UNCHANGED registryVars => RegistryType'
    /\ ScopeType /\ UNCHANGED scope => ScopeType'
    /\ ReleaseType /\ UNCHANGED releaseVars => ReleaseType'
    /\ BarrierType /\ UNCHANGED <<next, barrierVars>> => BarrierType'
    /\ ThreadType /\ UNCHANGED threadVars => ThreadType'
<1>1. RegistryType /\ UNCHANGED registryVars => RegistryType'
  BY DEF RegistryType, registryVars
<1>2. ScopeType /\ UNCHANGED scope => ScopeType'
  BY DEF ScopeType
<1>3. ReleaseType /\ UNCHANGED releaseVars => ReleaseType'
  BY DEF ReleaseType, releaseVars
<1>4. BarrierType /\ UNCHANGED <<next, barrierVars>> => BarrierType'
  BY DEF BarrierType, barrierVars
<1>5. ThreadType /\ UNCHANGED threadVars => ThreadType'
  BY DEF ThreadType, threadVars, closeVars
<1> QED BY <1>1, <1>2, <1>3, <1>4, <1>5

(* A step of a scope's owner, or the start of its close, yields a scope. *)
LEMMA ScopeStep ==
    ASSUME ScopeType, NEW id \in Ids,
           \/ Bind(id) \/ EndInactive(id) \/ EndStartClose(id) \/ EndWaitClose(id)
           \/ closeResource(id) \/ EndDeliver(id) \/ EndDelete(id)
           \/ \E t \in Threads : DrainCloseScope(t, id) \/ CloseScope(t, id)
    PROVE  ScopeType'
<1> USE DEF ScopeType, Scope
<1>1. CASE Bind(id)           BY <1>1 DEF Bind, Bindable, Resource
<1>2. CASE EndInactive(id)    BY <1>2, ZenonT(60) DEF EndInactive, ScopeAt
<1>3. CASE EndStartClose(id)  BY <1>3 DEF EndStartClose, startBoundResourceClose, ScopeAt, Resource
<1>4. CASE EndWaitClose(id)   BY <1>4 DEF EndWaitClose, ScopeAt
<1>5. CASE closeResource(id)  BY <1>5 DEF closeResource, Resource
<1>6. CASE EndDeliver(id)     BY <1>6 DEF EndDeliver, ScopeAt
<1>7. CASE EndDelete(id)      BY <1>7 DEF EndDelete, ScopeAt
<1>8. ASSUME NEW t \in Threads, DrainCloseScope(t, id) \/ CloseScope(t, id) PROVE ScopeType'
  BY <1>8 DEF DrainCloseScope, CloseScope, startBoundResourceClose, Resource
<1> QED BY <1>1, <1>2, <1>3, <1>4, <1>5, <1>6, <1>7, <1>8

(* Counting a release keeps the scope and the sequences well typed. *)
LEMMA MarkStep ==
    ASSUME ScopeType, ReleaseType, NEW id \in Ids, markReleasedLocked(id)
    PROVE  ScopeType' /\ ReleaseType'
<1>1. scope[id].group \in Groups \cup {Unaccounted}
  BY DEF ScopeType, Scope
<1>2. CASE scope[id].group = Unaccounted
  <2>1. ScopeType'
    BY <1>2 DEF markReleasedLocked, Releasable, ScopeType, Scope, ScopeAt
  <2> QED BY <1>2, <2>1 DEF markReleasedLocked, Releasable, ReleaseType
<1>3. CASE scope[id].group # Unaccounted
  <2>1. scope[id].group \in Groups
    BY <1>1, <1>3
  <2>2. releaseSequences[scope[id].group] + 1 \in Nat
    BY <2>1 DEF ReleaseType
  <2>3. ScopeType'
    BY <1>3, <2>2 DEF markReleasedLocked, Releasable, ScopeType, Scope, ScopeAt, ReleaseType
  <2>4. ReleaseType'
    BY <1>3, <2>1, <2>2 DEF markReleasedLocked, Releasable, ReleaseType
  <2> QED BY <2>3, <2>4
<1> QED BY <1>2, <1>3

(* Every operation of the registry keeps the types of its variables. *)
THEOREM TypeCorrect == Spec => []TypeOK
<1> USE BoundsAssumption
<1>1. Init => TypeOK
  <2> SUFFICES ASSUME Init PROVE TypeOK
    OBVIOUS
  <2>1. RegistryType
    BY DEF Init, RegistryType
  <2>2. ScopeType
    BY DEF Init, ScopeType, NoScope, Scope, ScopeAt, Resource
  <2>3. ReleaseType
    BY DEF Init, ReleaseType
  <2>4. BarrierType
    BY DEF Init, BarrierType, Ids
  <2>5. ThreadType
    BY DEF Init, ThreadType, ThreadPc
  <2> QED BY <2>1, <2>2, <2>3, <2>4, <2>5 DEF TypeOK
<1>2. TypeOK /\ [Next]_vars => TypeOK'
  <2> SUFFICES ASSUME TypeOK, [Next]_vars PROVE TypeOK'
    OBVIOUS
  <2>a. RegistryType /\ ScopeType /\ ReleaseType /\ BarrierType /\ ThreadType
    BY DEF TypeOK
  <2>b. 1..next \subseteq Ids
    BY <2>a DEF RegistryType, Ids
  <2>1. CASE BeginDispatch
    <3>1. RegistryType'
      BY <2>1, <2>a DEF BeginDispatch, TokenId, RegistryType
    <3>2. BarrierType'
      BY <2>1, <2>a DEF BeginDispatch, TokenId, BarrierType, barrierVars, RegistryType
    <3> QED BY <2>1, <2>a, <3>1, <3>2, Frame DEF BeginDispatch, TokenId, TypeOK
  <2>2. ASSUME NEW id \in Ids, EndPending(id) \/ InstallRejected(id) PROVE TypeOK'
    <3>1. RegistryType'
      BY <2>2, <2>a DEF EndPending, InstallRejected, RegistryType
    <3>2. ThreadType'
      BY <2>2, <2>a DEF EndPending, InstallRejected, signalLocked, ThreadType, closeVars
    <3> QED BY <2>2, <2>a, <3>1, <3>2, Frame DEF EndPending, InstallRejected, TypeOK
  <2>3. ASSUME NEW id \in Ids, NEW g \in Groups \cup {Unaccounted}, Install(id, g) PROVE TypeOK'
    <3>1. RegistryType'
      BY <2>3, <2>a DEF Install, RegistryType
    <3>2. ScopeType'
      <4>1. [NoScope EXCEPT !.at = "live", !.group = g, !.active = TRUE] \in Scope
        BY DEF NoScope, Scope, ScopeAt, Resource
      <4> QED BY <2>3, <2>a, <4>1 DEF Install, ScopeType
    <3>3. ThreadType'
      BY <2>3, <2>a DEF Install, signalLocked, ThreadType, closeVars
    <3> QED BY <2>3, <2>a, <3>1, <3>2, <3>3, Frame DEF Install, TypeOK
  <2>4. ASSUME NEW id \in Ids,
               Bind(id) \/ closeResource(id) \/ EndInactive(id) \/ EndStartClose(id) \/ EndWaitClose(id)
        PROVE TypeOK'
    <3>1. UNCHANGED <<registryVars, releaseVars, barrierVars, threadVars>>
      BY <2>4 DEF Bind, Bindable, closeResource, EndInactive, EndStartClose, EndWaitClose
    <3>2. ScopeType'
      BY <2>4, <2>a, ScopeStep
    <3> QED BY <2>a, <3>1, <3>2, Frame DEF TypeOK, registryVars
  <2>5. ASSUME NEW id \in Ids, markReleasedLocked(id) PROVE TypeOK'
    <3>1. ScopeType' /\ ReleaseType'
      BY <2>5, <2>a, MarkStep
    <3> QED BY <2>5, <2>a, <3>1, Frame DEF markReleasedLocked, Releasable, TypeOK, registryVars
  <2>6. ASSUME NEW id \in Ids, EndDeliver(id) PROVE TypeOK'
    <3>1. scope[id].seq \in Nat /\ scope[id].sink \in Sinks \cup {NoSink}
      BY <2>a DEF ScopeType, Scope
    <3>2. ReleaseType'
      <4>1. ASSUME NEW f \in [Groups -> Nat], NEW g
            PROVE [f EXCEPT ![g] = IF scope[id].seq > @ THEN scope[id].seq ELSE @] \in [Groups -> Nat]
        BY <3>1
      <4>2. delivered' \in [Sinks -> [Groups -> Nat]]
        BY <2>6, <2>a, <3>1, <4>1 DEF EndDeliver, Deliver, ReleaseType
      <4> QED BY <2>6, <2>a, <4>2 DEF EndDeliver, ReleaseType
    <3>3. ScopeType'
      BY <2>6, <2>a, ScopeStep
    <3> QED BY <2>6, <2>a, <3>2, <3>3, Frame DEF EndDeliver, TypeOK, registryVars
  <2>7. ASSUME NEW id \in Ids, EndDelete(id) PROVE TypeOK'
    <3>1. RegistryType'
      BY <2>7, <2>a DEF EndDelete, RegistryType
    <3>2. ThreadType'
      BY <2>7, <2>a DEF EndDelete, signalLocked, ThreadType, closeVars
    <3>3. ScopeType'
      BY <2>7, <2>a, ScopeStep
    <3> QED BY <2>7, <2>a, <3>1, <3>2, <3>3, Frame DEF EndDelete, TypeOK
  <2>8. ASSUME NEW sink \in Sinks \cup {NoSink}, SetReleaseSink(sink) PROVE TypeOK'
    <3>1. ReleaseType'
      BY <2>8, <2>a DEF SetReleaseSink, ReplayGroups, ReleaseType
    <3> QED BY <2>8, <2>a, <3>1, Frame DEF SetReleaseSink, ReplayGroups, TypeOK, registryVars
  <2>9. ASSUME NEW g \in Groups, ReplayRelease(g) PROVE TypeOK'
    <3>1. ReleaseType'
      BY <2>9, <2>a DEF ReplayRelease, Deliver, ReleaseType
    <3> QED BY <2>9, <2>a, <3>1, Frame DEF ReplayRelease, TypeOK, registryVars
  <2>10. ASSUME NEW revision \in 1..MaxBarrier, ObserveBarrier(revision) PROVE TypeOK'
    <3>1. BarrierType'
      BY <2>10, <2>a DEF ObserveBarrier, BarrierType, RegistryType, registryVars
    <3> QED BY <2>10, <2>a, <3>1, Frame DEF ObserveBarrier, TypeOK, registryVars
  <2>11. CASE FreezeInFlight
    <3>1. publishedBarrier' \in 0..MaxBarrier
      BY <2>11, <2>a DEF FreezeInFlight, BarrierSettled, BarrierType
    <3>2. freeze.revision + 1 \in 0..MaxRevision
      BY <2>11, <2>a DEF FreezeInFlight, BarrierSettled, BarrierType
    <3>3. scopes \in SUBSET Ids
      BY <2>a, <2>b DEF RegistryType
    <3>4. freeze' \in [revision : 0..MaxRevision, barrier : 0..MaxBarrier, executions : SUBSET Ids]
      BY <2>11, <3>1, <3>2, <3>3 DEF FreezeInFlight, BarrierSettled
    <3>5. BarrierType'
      BY <2>11, <2>a, <3>1, <3>4 DEF FreezeInFlight, BarrierSettled, BarrierType, registryVars
    <3> QED BY <2>11, <2>a, <3>5, Frame DEF FreezeInFlight, BarrierSettled, TypeOK
  <2>12. ASSUME NEW t \in Threads, DrainStart(t) \/ DrainRejected(t) \/ CloseStore(t) PROVE TypeOK'
    <3>1. RegistryType'
      BY <2>12, <2>a DEF DrainStart, DrainRejected, CloseStore, RegistryType, registryVars
    <3>2. ThreadType'
      BY <2>12, <2>a DEF DrainStart, DrainRejected, CloseStore, Goto, ThreadType, ThreadPc, closeVars
    <3> QED BY <2>12, <2>a, <3>1, <3>2, Frame DEF DrainStart, DrainRejected, CloseStore, TypeOK, registryVars
  <2>13. ASSUME NEW t \in Threads, SnapshotScopes(t) PROVE TypeOK'
    <3>1. scopes \in SUBSET Ids
      BY <2>a, <2>b DEF RegistryType
    <3>2. ThreadType'
      BY <2>13, <2>a, <3>1 DEF SnapshotScopes, Goto, ThreadType, ThreadPc, closeVars
    <3> QED BY <2>13, <2>a, <3>2, Frame DEF SnapshotScopes, TypeOK, registryVars
  <2>14. ASSUME NEW t \in Threads, DrainCheck(t) PROVE TypeOK'
    <3>1. RegistryType'
      BY <2>14, <2>a DEF DrainCheck, Empty, RegistryType
    <3>2. ThreadType'
      BY <2>14, <2>a DEF DrainCheck, Empty, ThreadType, ThreadPc, closeVars
    <3> QED BY <2>14, <2>a, <3>1, <3>2, Frame DEF DrainCheck, Empty, TypeOK
  <2>15. ASSUME NEW t \in Threads, NEW id \in Ids, DrainCloseScope(t, id) \/ CloseScope(t, id)
         PROVE TypeOK'
    <3>1. ScopeType'
      BY <2>15, <2>a, ScopeStep
    <3>2. ThreadType'
      BY <2>15, <2>a DEF DrainCloseScope, CloseScope, Goto, ThreadType, ThreadPc, closeVars
    <3> QED BY <2>15, <2>a, <3>1, <3>2, Frame DEF DrainCloseScope, CloseScope, TypeOK, registryVars
  <2>16. ASSUME NEW t \in Threads, WaitTimeout(t) \/ WaitPending(t) PROVE TypeOK'
    <3>1. ThreadType'
      BY <2>16, <2>a DEF WaitTimeout, WaitPending, Goto, ThreadType, ThreadPc, closeVars
    <3> QED BY <2>16, <2>a, <3>1, Frame DEF WaitTimeout, WaitPending, TypeOK, registryVars
  <2>17. ASSUME NEW t \in Threads,
                CloseEnter(t) \/ CloseJoinScope(t) \/ CloseFinish(t) \/ CloseJoin(t)
         PROVE TypeOK'
    <3>1. ThreadType'
      BY <2>17, <2>a DEF CloseEnter, CloseJoinScope, ResourceGone, CloseFinish, SignalCloseDone, CloseJoin, Goto, ThreadType, ThreadPc, closeVars
    <3> QED BY <2>17, <2>a, <3>1, Frame
            DEF CloseEnter, CloseJoinScope, ResourceGone, CloseFinish, SignalCloseDone, CloseJoin, TypeOK, registryVars
  <2>18. CASE UNCHANGED vars
    BY <2>18, <2>a, Frame DEF vars, TypeOK, registryVars
  <2> QED
    BY <2>1, <2>2, <2>3, <2>4, <2>5, <2>6, <2>7, <2>8, <2>9, <2>10, <2>11, <2>12, <2>13, <2>14,
       <2>15, <2>16, <2>17, <2>18
    DEF Next, ResolvePending, EndStep, Release, Observe, DrainStep, CloseStep, Threads
<1> QED BY <1>1, <1>2, PTL DEF Spec
-----------------------------------------------------------------------------
(***************************************************************************)
(* The life of a scope.  The maps and the scope objects agree: a token is  *)
(* pending before it has a scope, the scope is in the table from Install   *)
(* until its owner deletes it, only a scope whose end has not begun accepts*)
(* a resource, and past the close the resource is gone.                    *)
(***************************************************************************)
ScopeInv ==
    \A id \in Ids :
        /\ id \in scopes <=> scope[id].at \notin {"absent", "ended"}
        /\ id \in pending \/ id > next => scope[id].at = "absent"
        /\ scope[id].active => scope[id].at = "live"
        /\ scope[id].at = "absent" => scope[id].resource = "none"
        /\ scope[id].at \in Released \cup {"closed"} => scope[id].resource \in {"none", "closed"}

(* The steps of one scope preserve ScopeInv. *)
LEMMA ScopeInvStep ==
    ASSUME TypeOK, ScopeInv, [Next]_vars
    PROVE  ScopeInv'
<1> USE BoundsAssumption DEF ScopeInv, Released
<1>a. ScopeType /\ RegistryType
  BY DEF TypeOK
<1>1. CASE BeginDispatch
  <2>1. next + 1 \in Int /\ next \in Int /\ Ids \subseteq Int
    BY <1>a DEF RegistryType, Ids
  <2> QED BY <1>1, <1>a, <2>1 DEF BeginDispatch, TokenId, RegistryType
<1>2. ASSUME NEW id \in Ids, EndPending(id) \/ InstallRejected(id) PROVE ScopeInv'
  BY <1>2, <1>a DEF EndPending, InstallRejected
<1>3. ASSUME NEW id \in Ids, NEW g \in Groups \cup {Unaccounted}, Install(id, g) PROVE ScopeInv'
  <2>1. /\ scope'[id].at = "live" /\ scope'[id].resource = "none"
        /\ \A i \in Ids \ {id} : scope'[i] = scope[i]
    BY <1>3, <1>a DEF Install, NoScope, ScopeType
  <2>2. id <= next /\ next \in Int /\ Ids \subseteq Int
    BY <1>3, <1>a DEF Install, RegistryType, Ids
  <2> QED BY <1>3, <1>a, <2>1, <2>2 DEF Install
<1>4. ASSUME NEW id \in Ids, Bind(id) PROVE ScopeInv'
  <2>1. /\ scope'[id] = [scope[id] EXCEPT !.resource = "bound"]
        /\ \A i \in Ids \ {id} : scope'[i] = scope[i]
    BY <1>4, <1>a DEF Bind, Bindable, ScopeType
  <2>2. scope'[id].at = scope[id].at /\ scope'[id].active = scope[id].active /\ scope'[id].resource = "bound"
    BY <2>1, <1>a DEF ScopeType, Scope
  <2> QED BY <1>4, <2>1, <2>2 DEF Bind, Bindable, registryVars
<1>5. ASSUME NEW id \in Ids, EndInactive(id) PROVE ScopeInv'
  <2>1. /\ scope'[id].at = "inactive" /\ scope'[id].active = FALSE
        /\ scope'[id].resource = scope[id].resource
        /\ \A i \in Ids \ {id} : scope'[i] = scope[i]
    BY <1>5, <1>a DEF EndInactive, ScopeType, Scope
  <2> QED BY <1>5, <2>1 DEF EndInactive, registryVars
<1>6. ASSUME NEW id \in Ids, EndStartClose(id) PROVE ScopeInv'
  <2>1. /\ scope'[id].at = IF scope[id].resource = "none" THEN "closed" ELSE "waiting"
        /\ scope'[id].active = scope[id].active
        /\ scope'[id].resource = startBoundResourceClose(scope[id].resource)
        /\ \A i \in Ids \ {id} : scope'[i] = scope[i]
    BY <1>6, <1>a DEF EndStartClose, ScopeType, Scope
  <2>2. scope[id].at = "inactive" /\ ~scope[id].active /\ id \in scopes
    BY <1>6 DEF EndStartClose
  <2>3. UNCHANGED <<next, pending, scopes>>
    BY <1>6 DEF EndStartClose, registryVars
  <2>4. CASE scope[id].resource = "none"
    BY <2>1, <2>2, <2>3, <2>4 DEF startBoundResourceClose
  <2>5. CASE scope[id].resource # "none"
    BY <2>1, <2>2, <2>3, <2>5
  <2> QED BY <2>4, <2>5
<1>7. ASSUME NEW id \in Ids, EndWaitClose(id) PROVE ScopeInv'
  <2>1. /\ scope'[id].at = "closed" /\ scope'[id].active = scope[id].active
        /\ scope'[id].resource = scope[id].resource
        /\ \A i \in Ids \ {id} : scope'[i] = scope[i]
    BY <1>7, <1>a DEF EndWaitClose, ScopeType, Scope
  <2> QED BY <1>7, <2>1 DEF EndWaitClose, registryVars
<1>8. ASSUME NEW id \in Ids, closeResource(id) PROVE ScopeInv'
  <2>1. /\ scope'[id].at = scope[id].at /\ scope'[id].active = scope[id].active
        /\ scope'[id].resource = "closed"
        /\ \A i \in Ids \ {id} : scope'[i] = scope[i]
    BY <1>8, <1>a DEF closeResource, ScopeType, Scope
  <2> QED BY <1>8, <2>1 DEF closeResource, registryVars
<1>9. ASSUME NEW id \in Ids, markReleasedLocked(id) PROVE ScopeInv'
  <2>1. /\ scope'[id].at = "marked" /\ scope'[id].active = scope[id].active
        /\ scope'[id].resource = scope[id].resource
        /\ \A i \in Ids \ {id} : scope'[i] = scope[i]
    BY <1>9, <1>a DEF markReleasedLocked, Releasable, ScopeType, Scope
  <2> QED BY <1>9, <2>1 DEF markReleasedLocked, Releasable, registryVars
<1>10. ASSUME NEW id \in Ids, EndDeliver(id) PROVE ScopeInv'
  <2>1. /\ scope'[id].at = "delivered" /\ scope'[id].active = scope[id].active
        /\ scope'[id].resource = scope[id].resource
        /\ \A i \in Ids \ {id} : scope'[i] = scope[i]
    BY <1>10, <1>a DEF EndDeliver, ScopeType, Scope
  <2> QED BY <1>10, <2>1 DEF EndDeliver, registryVars
<1>11. ASSUME NEW id \in Ids, EndDelete(id) PROVE ScopeInv'
  <2>1. /\ scope'[id].at = "ended" /\ scope'[id].active = scope[id].active
        /\ scope'[id].resource = scope[id].resource
        /\ \A i \in Ids \ {id} : scope'[i] = scope[i]
    BY <1>11, <1>a DEF EndDelete, ScopeType, Scope
  <2> QED BY <1>11, <2>1 DEF EndDelete
<1>12. ASSUME NEW t \in Threads, NEW id \in Ids, DrainCloseScope(t, id) \/ CloseScope(t, id)
       PROVE ScopeInv'
  <2>1. /\ scope'[id].at = scope[id].at /\ scope'[id].active = scope[id].active
        /\ scope'[id].resource = startBoundResourceClose(scope[id].resource)
        /\ \A i \in Ids \ {id} : scope'[i] = scope[i]
    BY <1>12, <1>a DEF DrainCloseScope, CloseScope, ScopeType, Scope
  <2>2. UNCHANGED <<next, pending, scopes>>
    BY <1>12 DEF DrainCloseScope, CloseScope, registryVars
  <2> QED BY <2>1, <2>2 DEF startBoundResourceClose
<1>13. CASE UNCHANGED <<next, pending, scopes, scope>>
  BY <1>13
<1>14. CASE Release \/ Observe
  BY <1>13, <1>14 DEF Release, Observe, SetReleaseSink, ReplayGroups, ReplayRelease, ObserveBarrier, FreezeInFlight, BarrierSettled, registryVars
<1>15. ASSUME NEW t \in Threads,
              \/ DrainStart(t) \/ DrainRejected(t) \/ SnapshotScopes(t) \/ DrainCheck(t) \/ WaitTimeout(t)
              \/ WaitPending(t) \/ CloseEnter(t) \/ CloseStore(t) \/ CloseJoinScope(t) \/ CloseFinish(t)
              \/ CloseJoin(t)
       PROVE UNCHANGED <<next, pending, scopes, scope>>
  BY <1>15 DEF DrainStart, DrainRejected, SnapshotScopes, DrainCheck, Empty, WaitTimeout, WaitPending,
               CloseEnter, CloseStore, CloseJoinScope, ResourceGone, CloseFinish, SignalCloseDone, CloseJoin, registryVars
<1>16. CASE UNCHANGED vars
  BY <1>13, <1>16 DEF vars, registryVars
<1> QED
  BY <1>1, <1>2, <1>3, <1>4, <1>5, <1>6, <1>7, <1>8, <1>9, <1>10, <1>11, <1>12, <1>13, <1>14, <1>15, <1>16
  DEF Next, ResolvePending, EndStep, DrainStep, CloseStep, Threads

(* A slot is released only after the resource that used it is closed, also   *)
(* when Bind races EndWithRelease: Bind and the start of the end exclude     *)
(* each other through the registry mutex.                                    *)
THEOREM ReleaseAfterClose == Spec => []ReleasedAfterClose
<1>1. Init => ScopeInv
  BY DEF Init, ScopeInv, NoScope, Released
<1>2. TypeOK /\ ScopeInv /\ [Next]_vars => ScopeInv'
  BY ScopeInvStep
<1>3. ScopeInv => ReleasedAfterClose
  BY DEF ScopeInv, ReleasedAfterClose
<1> QED BY <1>1, <1>2, <1>3, TypeCorrect, PTL DEF Spec
-----------------------------------------------------------------------------
(* What the rest of the registry can rely on about any step. *)

(* A registry that stopped accepting only shrinks: no token, no execution    *)
(* and no resource is added, and closed is final.                            *)
LEMMA NotAccepting ==
    ASSUME TypeOK, [Next]_vars, state # "accepting"
    PROVE  /\ state' # "accepting"
           /\ state = "closed" => state' = "closed"
           /\ pending' \subseteq pending
           /\ scopes' \subseteq scopes
           /\ \A id \in Ids :
                 /\ scope'[id].resource = "bound" => scope[id].resource = "bound"
                 /\ scope'[id].resource \in {"bound", "closing"} => scope[id].resource \in {"bound", "closing"}
<1> DEFINE Shrinks ==
           /\ state' # "accepting"
           /\ state = "closed" => state' = "closed"
           /\ pending' \subseteq pending
           /\ scopes' \subseteq scopes
           /\ \A id \in Ids :
                 /\ scope'[id].resource = "bound" => scope[id].resource = "bound"
                 /\ scope'[id].resource \in {"bound", "closing"} => scope[id].resource \in {"bound", "closing"}
<1> SUFFICES Shrinks
  OBVIOUS
<1>a. ScopeType
  BY DEF TypeOK
<1>1. CASE BeginDispatch
  BY <1>1 DEF BeginDispatch, TokenId
<1>2. ASSUME NEW id \in Ids, EndPending(id) \/ InstallRejected(id) PROVE Shrinks
  BY <1>2 DEF EndPending, InstallRejected
<1>3. ASSUME NEW id \in Ids, Bind(id) \/ \E g \in Groups \cup {Unaccounted} : Install(id, g) PROVE Shrinks
  BY <1>3 DEF Bind, Bindable, Install
<1>4. ASSUME NEW id \in Ids, EndInactive(id) \/ EndWaitClose(id) \/ EndDeliver(id) PROVE Shrinks
  <2>1. \A i \in Ids : scope'[i].resource = scope[i].resource
    BY <1>4, <1>a DEF EndInactive, EndWaitClose, EndDeliver, ScopeType, Scope
  <2> QED BY <1>4, <2>1 DEF EndInactive, EndWaitClose, EndDeliver, registryVars
<1>5. ASSUME NEW id \in Ids, EndStartClose(id) PROVE Shrinks
  <2>1. \A i \in Ids : scope'[i].resource \in {scope[i].resource, startBoundResourceClose(scope[i].resource)}
    BY <1>5, <1>a DEF EndStartClose, ScopeType, Scope
  <2> QED BY <1>5, <2>1 DEF EndStartClose, startBoundResourceClose, registryVars
<1>6. ASSUME NEW id \in Ids, closeResource(id) PROVE Shrinks
  <2>1. \A i \in Ids : scope'[i].resource \in {scope[i].resource, "closed"}
    BY <1>6, <1>a DEF closeResource, ScopeType, Scope
  <2> QED BY <1>6, <2>1 DEF closeResource, registryVars
<1>7. ASSUME NEW id \in Ids, markReleasedLocked(id) PROVE Shrinks
  <2>1. \A i \in Ids : scope'[i].resource = scope[i].resource
    BY <1>7, <1>a DEF markReleasedLocked, Releasable, ScopeType, Scope
  <2> QED BY <1>7, <2>1 DEF markReleasedLocked, Releasable, registryVars
<1>8. ASSUME NEW id \in Ids, EndDelete(id) PROVE Shrinks
  <2>1. \A i \in Ids : scope'[i].resource = scope[i].resource
    BY <1>8, <1>a DEF EndDelete, ScopeType, Scope
  <2> QED BY <1>8, <2>1 DEF EndDelete
<1>9. ASSUME NEW t \in Threads, NEW id \in Ids, DrainCloseScope(t, id) \/ CloseScope(t, id) PROVE Shrinks
  <2>1. \A i \in Ids : scope'[i].resource \in {scope[i].resource, startBoundResourceClose(scope[i].resource)}
    BY <1>9, <1>a DEF DrainCloseScope, CloseScope, ScopeType, Scope
  <2> QED BY <1>9, <2>1 DEF DrainCloseScope, CloseScope, startBoundResourceClose, registryVars
<1>10. ASSUME NEW t \in Threads, DrainStart(t) \/ DrainCheck(t) \/ CloseStore(t) PROVE Shrinks
  BY <1>10 DEF DrainStart, DrainCheck, Empty, CloseStore
<1>11. CASE UNCHANGED <<registryVars, scope>>
  BY <1>11 DEF registryVars
<1>12. CASE Release \/ Observe
  BY <1>11, <1>12 DEF Release, Observe, SetReleaseSink, ReplayGroups, ReplayRelease, ObserveBarrier, FreezeInFlight, BarrierSettled
<1>13. ASSUME NEW t \in Threads,
              \/ DrainRejected(t) \/ SnapshotScopes(t) \/ WaitTimeout(t) \/ WaitPending(t)
              \/ CloseEnter(t) \/ CloseJoinScope(t) \/ CloseFinish(t) \/ CloseJoin(t)
       PROVE UNCHANGED <<registryVars, scope>>
  BY <1>13 DEF DrainRejected, SnapshotScopes, WaitTimeout, WaitPending,
               CloseEnter, CloseJoinScope, ResourceGone, CloseFinish, SignalCloseDone, CloseJoin
<1>14. CASE UNCHANGED vars
  BY <1>11, <1>14 DEF vars
<1> HIDE DEF Shrinks
<1> QED
  BY <1>1, <1>2, <1>3, <1>4, <1>5, <1>6, <1>7, <1>8, <1>9, <1>10, <1>11, <1>12, <1>13, <1>14
  DEF Next, ResolvePending, EndStep, DrainStep, CloseStep, Threads

(* The registers of a goroutine change by its own steps only. *)
LEMMA OwnSteps ==
    ASSUME TypeOK, [Next]_vars, NEW t \in Threads
    PROVE  \/ t \in Drainers /\ (DrainStep(t) \/ WaitTimeout(t))
           \/ t \in Waiters
           \/ t \in Closers /\ CloseStep(t)
           \/ pc'[t] = pc[t] /\ todo'[t] = todo[t] /\ current'[t] = current[t]
<1> DEFINE Kept(i) == pc'[i] = pc[i] /\ todo'[i] = todo[i] /\ current'[i] = current[i]
<1>a. ThreadType
  BY DEF TypeOK
<1>1. ASSUME NEW u \in Threads, u # t,
             \/ DrainStart(u) \/ DrainRejected(u) \/ SnapshotScopes(u) \/ WaitTimeout(u)
             \/ CloseStore(u) \/ CloseJoinScope(u) \/ CloseFinish(u) \/ CloseJoin(u)
      PROVE Kept(t)
  BY <1>1, <1>a DEF DrainStart, DrainRejected, SnapshotScopes, WaitTimeout, CloseStore, CloseJoinScope, ResourceGone,
                    CloseFinish, SignalCloseDone, CloseJoin, Goto, ThreadType
<1>2. ASSUME NEW u \in Threads, u # t, NEW id \in Ids, DrainCloseScope(u, id) \/ CloseScope(u, id)
      PROVE Kept(t)
  BY <1>2, <1>a DEF DrainCloseScope, CloseScope, Goto, ThreadType
<1>3. ASSUME NEW u \in Threads, u # t, DrainCheck(u) \/ WaitPending(u) \/ CloseEnter(u) PROVE Kept(t)
  BY <1>3, <1>a DEF DrainCheck, Empty, WaitPending, CloseEnter, ThreadType
<1>4. ASSUME BeginDispatch \/ Release \/ Observe PROVE UNCHANGED <<pc, todo, current>>
  BY <1>4 DEF BeginDispatch, TokenId, Release, Observe, SetReleaseSink, ReplayGroups, ReplayRelease, ObserveBarrier,
                    FreezeInFlight, BarrierSettled, threadVars
<1>5. ASSUME NEW id \in Ids, ResolvePending(id) PROVE UNCHANGED <<pc, todo, current>>
  BY <1>5 DEF ResolvePending, EndPending, Install, InstallRejected
<1>6. ASSUME NEW id \in Ids, EndStep(id) \/ Bind(id) \/ closeResource(id) PROVE UNCHANGED <<pc, todo, current>>
  BY <1>6 DEF Bind, Bindable, closeResource, EndStep, EndInactive, EndStartClose, EndWaitClose, markReleasedLocked, Releasable,
              EndDeliver, EndDelete, threadVars
<1>7. ASSUME UNCHANGED vars PROVE UNCHANGED <<pc, todo, current>>
  BY <1>7 DEF vars, threadVars
<1>8. ASSUME NEW u \in Drainers, DrainStep(u) \/ WaitTimeout(u), u # t PROVE Kept(t)
  BY <1>1, <1>2, <1>3, <1>8 DEF DrainStep, Threads
<1>9. ASSUME NEW u \in Closers, CloseStep(u), u # t PROVE Kept(t)
  BY <1>1, <1>2, <1>3, <1>9 DEF CloseStep, Threads
<1>10. ASSUME NEW u \in Waiters, WaitPending(u) \/ WaitTimeout(u), u # t PROVE Kept(t)
  BY <1>1, <1>3, <1>10 DEF Threads
<1> HIDE DEF Kept
<1>11. UNCHANGED <<pc, todo, current>> => Kept(t)
  BY DEF Kept
<1>12. \/ t \in Drainers /\ (DrainStep(t) \/ WaitTimeout(t))
       \/ t \in Waiters
       \/ t \in Closers /\ CloseStep(t)
       \/ Kept(t)
  BY <1>4, <1>5, <1>6, <1>7, <1>8, <1>9, <1>10, <1>11 DEF Next
<1> QED BY <1>12 DEF Kept

-----------------------------------------------------------------------------
(***************************************************************************)
(* Drain.  While its goroutine is past the switch to draining nothing can  *)
(* be bound any more, and the scopes it has still to close are exactly the *)
(* ones that may hold a bound resource.                                    *)
(***************************************************************************)
DrainInv ==
    \A t \in Drainers :
        /\ pc[t] \in {"idle", "snapshot", "closing", "waiting", "drained", "timeout", "rejected"}
        /\ pc[t] \notin {"idle", "rejected"} => state # "accepting"
        /\ pc[t] = "closing" => \A id \in scopes : scope[id].resource = "bound" => id \in todo[t]
        /\ pc[t] \in {"waiting", "drained", "timeout"} => \A id \in scopes : scope[id].resource # "bound"
        /\ pc[t] = "drained" => state = "closed" /\ pending = {} /\ scopes = {}

(* Every step preserves DrainInv. *)
LEMMA DrainInvStep ==
    ASSUME TypeOK, DrainInv, [Next]_vars
    PROVE  DrainInv'
<1> SUFFICES ASSUME NEW t \in Drainers
             PROVE  (/\ pc[t] \in {"idle", "snapshot", "closing", "waiting", "drained", "timeout", "rejected"}
                     /\ pc[t] \notin {"idle", "rejected"} => state # "accepting"
                     /\ pc[t] = "closing" => \A id \in scopes : scope[id].resource = "bound" => id \in todo[t]
                     /\ pc[t] \in {"waiting", "drained", "timeout"} =>
                            \A id \in scopes : scope[id].resource # "bound"
                     /\ pc[t] = "drained" => state = "closed" /\ pending = {} /\ scopes = {})'
  BY DEF DrainInv
<1> USE DEF DrainInv
<1>a. ThreadType /\ ScopeType /\ RegistryType /\ t \in Threads
  BY DEF TypeOK, Threads
<1>b. scopes \subseteq Ids
  BY <1>a, BoundsAssumption DEF RegistryType, Ids
<1>1. CASE DrainStart(t)
  BY <1>1, <1>a DEF DrainStart, Goto, ThreadType
<1>2. CASE DrainRejected(t)
  BY <1>2, <1>a DEF DrainRejected, Goto, ThreadType
<1>3. CASE SnapshotScopes(t)
  BY <1>3, <1>a DEF SnapshotScopes, Goto, ThreadType, registryVars
<1>4. ASSUME NEW id \in Ids, DrainCloseScope(t, id)
      PROVE  /\ pc'[t] = "closing" /\ state' # "accepting"
             /\ \A i \in scopes' : scope'[i].resource = "bound" => i \in todo'[t]
  <2>1. /\ scope'[id].resource = startBoundResourceClose(scope[id].resource)
        /\ \A i \in Ids \ {id} : scope'[i] = scope[i]
    BY <1>4, <1>a DEF DrainCloseScope, ScopeType, Scope
  <2>2. scope'[id].resource # "bound"
    BY <2>1 DEF startBoundResourceClose
  <2>3. todo'[t] = todo[t] \ {id}
    BY <1>4, <1>a DEF DrainCloseScope, ThreadType
  <2> QED BY <1>4, <1>a, <1>b, <2>1, <2>2, <2>3 DEF DrainCloseScope, registryVars, ThreadType
<1>5. CASE DrainCheck(t)
  BY <1>5, <1>a DEF DrainCheck, Empty, ThreadType
<1>6. CASE WaitTimeout(t)
  BY <1>6, <1>a DEF WaitTimeout, Goto, ThreadType, registryVars
<1>7. CASE pc'[t] = pc[t] /\ todo'[t] = todo[t]
  <2>1. CASE pc[t] \in {"idle", "rejected"}
    BY <1>7, <2>1
  <2>2. CASE pc[t] \notin {"idle", "rejected"}
    <3>1. state # "accepting"
      BY <2>2
    <3>2. /\ state' # "accepting" /\ (state = "closed" => state' = "closed")
          /\ pending' \subseteq pending /\ scopes' \subseteq scopes
          /\ \A id \in Ids : scope'[id].resource = "bound" => scope[id].resource = "bound"
      BY <3>1, NotAccepting
    <3> QED BY <1>7, <1>b, <2>2, <3>2
  <2> QED BY <2>1, <2>2
<1> QED
  BY <1>1, <1>2, <1>3, <1>4, <1>5, <1>6, <1>7, <1>a, OwnSteps, ThreadsAssumption DEF DrainStep

(* A Drain that returns nil leaves an empty, closed registry, and a Drain    *)
(* that waits has started the close of every resource of every execution     *)
(* left, whatever BeginDispatch, Install, Bind and Close raced with it.      *)
THEOREM DrainCorrect == Spec => [](DrainedIsEmpty /\ DrainCancelsAll)
<1>1. Init => DrainInv
  BY DEF Init, DrainInv, Threads
<1>2. TypeOK /\ DrainInv /\ [Next]_vars => DrainInv'
  BY DrainInvStep
<1>3. DrainInv => DrainedIsEmpty /\ DrainCancelsAll
  BY DEF DrainInv, DrainedIsEmpty, DrainCancelsAll
<1> QED BY <1>1, <1>2, <1>3, TypeCorrect, PTL DEF Spec
-----------------------------------------------------------------------------
(***************************************************************************)
(* Close.  After the switch to closed, every resource still open belongs to*)
(* a scope the goroutine has still to visit or is waiting for.             *)
(***************************************************************************)
CloseInv ==
    /\ \A t \in Closers :
          /\ pc[t] \in {"idle", "joining", "storing", "snapshot", "closing", "joinScope", "returned"}
          /\ pc[t] \in {"snapshot", "closing", "joinScope"} => state = "closed"
          /\ pc[t] = "closing" =>
                \A id \in Ids : scope[id].resource \in {"bound", "closing"} => id \in todo[t]
          /\ pc[t] = "joinScope" =>
                \A id \in Ids : scope[id].resource \in {"bound", "closing"} => id \in todo[t] \cup {current[t]}
    /\ closeDone => state = "closed" /\ \A id \in Ids : scope[id].resource \notin {"bound", "closing"}

(* Every step preserves CloseInv. *)
LEMMA CloseInvStep ==
    ASSUME TypeOK, ScopeInv, CloseInv, [Next]_vars
    PROVE  CloseInv'
<1> DEFINE Visits(t) ==
          /\ pc[t] \in {"idle", "joining", "storing", "snapshot", "closing", "joinScope", "returned"}
          /\ pc[t] \in {"snapshot", "closing", "joinScope"} => state = "closed"
          /\ pc[t] = "closing" =>
                \A id \in Ids : scope[id].resource \in {"bound", "closing"} => id \in todo[t]
          /\ pc[t] = "joinScope" =>
                \A id \in Ids : scope[id].resource \in {"bound", "closing"} => id \in todo[t] \cup {current[t]}
<1> DEFINE AllClosed == \A id \in Ids : scope[id].resource \notin {"bound", "closing"}
<1>a. ThreadType /\ ScopeType /\ RegistryType
  BY DEF TypeOK
<1>b. state = "closed" =>
        /\ state' = "closed"
        /\ \A id \in Ids : scope'[id].resource \in {"bound", "closing"} => scope[id].resource \in {"bound", "closing"}
  BY NotAccepting
<1>c. \A t \in Closers : Visits(t)
  BY DEF CloseInv
<1>d. closeDone => state = "closed" /\ AllClosed
  BY DEF CloseInv
<1>1. ASSUME NEW t \in Closers PROVE Visits(t)'
  <2>a. t \in Threads /\ t \notin Drainers /\ t \notin Waiters
    BY ThreadsAssumption DEF Threads
  <2>1. CASE CloseEnter(t)
    BY <2>1, <2>a, <1>a, <1>c DEF CloseEnter, ThreadType
  <2>2. CASE CloseStore(t)
    BY <2>2, <2>a, <1>a DEF CloseStore, Goto, ThreadType
  <2>3. CASE SnapshotScopes(t)
    <3>1. pc[t] = "snapshot" /\ pc'[t] = "closing" /\ todo'[t] = scopes
      BY <2>3, <2>a, <1>a DEF SnapshotScopes, Goto, ThreadType
    <3>2. \A id \in Ids : scope[id].resource \in {"bound", "closing"} => id \in scopes
      BY DEF ScopeInv, Released
    <3> QED BY <2>3, <3>1, <3>2, <1>c DEF SnapshotScopes, registryVars
  <2>4. ASSUME NEW id \in Ids, CloseScope(t, id) PROVE Visits(t)'
    <3>1. /\ pc[t] = "closing" /\ pc'[t] = "joinScope"
          /\ todo'[t] = todo[t] \ {id} /\ current'[t] = id
      BY <2>4, <2>a, <1>a DEF CloseScope, Goto, ThreadType
    <3> QED BY <3>1, <1>b, <1>c
  <2>5. CASE CloseJoinScope(t)
    <3>1. pc[t] = "joinScope" /\ pc'[t] = "closing" /\ todo'[t] = todo[t]
      BY <2>5, <2>a, <1>a DEF CloseJoinScope, ResourceGone, Goto, ThreadType
    <3> QED BY <2>5, <3>1, <1>c DEF CloseJoinScope, ResourceGone, registryVars
  <2>6. CASE CloseFinish(t) \/ CloseJoin(t)
    BY <2>6, <2>a, <1>a DEF CloseFinish, SignalCloseDone, CloseJoin, Goto, ThreadType
  <2>7. CASE pc'[t] = pc[t] /\ todo'[t] = todo[t] /\ current'[t] = current[t]
    BY <2>7, <1>b, <1>c
  <2> HIDE DEF Visits
  <2> QED BY <2>a, <2>1, <2>2, <2>3, <2>4, <2>5, <2>6, <2>7, OwnSteps DEF CloseStep
<1>2. ASSUME closeDone' PROVE (state = "closed" /\ AllClosed)'
  <2>1. CASE closeDone
    BY <2>1, <1>b, <1>d
  <2>2. CASE ~closeDone
    <3>1. PICK t \in Closers : CloseFinish(t)
      <4>1. ASSUME NEW u \in Threads, \/ DrainStart(u) \/ DrainRejected(u) \/ SnapshotScopes(u) \/ DrainCheck(u)
                                      \/ WaitTimeout(u) \/ WaitPending(u) \/ CloseEnter(u) \/ CloseStore(u)
                                      \/ CloseJoinScope(u) \/ CloseJoin(u)
            PROVE closeDone' = closeDone
        BY <4>1 DEF DrainStart, DrainRejected, SnapshotScopes, DrainCheck, Empty, WaitTimeout, WaitPending, CloseEnter,
                    CloseStore, CloseJoinScope, ResourceGone, CloseJoin, closeVars
      <4>2. ASSUME NEW u \in Threads, NEW id \in Ids, DrainCloseScope(u, id) \/ CloseScope(u, id)
            PROVE closeDone' = closeDone
        BY <4>2 DEF DrainCloseScope, CloseScope, closeVars
      <4>3. ASSUME BeginDispatch \/ Release \/ Observe \/ UNCHANGED vars PROVE closeDone' = closeDone
        BY <4>3 DEF BeginDispatch, TokenId, Release, Observe, SetReleaseSink, ReplayGroups, ReplayRelease, ObserveBarrier,
                    FreezeInFlight, BarrierSettled, vars, threadVars, closeVars
      <4>4. ASSUME NEW id \in Ids, ResolvePending(id) PROVE closeDone' = closeDone
        BY <4>4 DEF ResolvePending, EndPending, Install, InstallRejected, closeVars
      <4>5. ASSUME NEW id \in Ids, EndStep(id) \/ Bind(id) \/ closeResource(id) PROVE closeDone' = closeDone
        BY <4>5 DEF Bind, Bindable, closeResource, EndStep, EndInactive, EndStartClose, EndWaitClose, markReleasedLocked, Releasable,
                    EndDeliver, EndDelete, threadVars, closeVars
      <4> QED BY <1>2, <2>2, <4>1, <4>2, <4>3, <4>4, <4>5 DEF Next, DrainStep, CloseStep, Threads
    <3>2. state = "closed" /\ AllClosed
      BY <3>1, <1>c DEF CloseFinish, SignalCloseDone, Goto
    <3> QED BY <3>2, <1>b
  <2> QED BY <2>1, <2>2
<1> QED BY <1>1, <1>2 DEF CloseInv

(* When Close has returned to the caller that started it, no resource that   *)
(* was ever bound is still open.                                             *)
THEOREM CloseCorrect == Spec => []CloseClosesAll
<1>1. Init => ScopeInv /\ CloseInv
  BY DEF Init, ScopeInv, CloseInv, NoScope, Released, Threads
<1>2. TypeOK /\ ScopeInv /\ CloseInv /\ [Next]_vars => ScopeInv' /\ CloseInv'
  BY ScopeInvStep, CloseInvStep
<1>3. TypeOK /\ CloseInv => CloseClosesAll
  BY DEF TypeOK, ScopeType, Scope, Resource, CloseInv, CloseClosesAll
<1> QED BY <1>1, <1>2, <1>3, TypeCorrect, PTL DEF Spec

(* What Drain and Close promise holds together, whichever of them runs and  *)
(* whatever requests install, bind and end meanwhile.                       *)
THEOREM ShutdownCorrect == Spec => []ShutdownSafe
BY DrainCorrect, CloseCorrect, PTL DEF ShutdownSafe

-----------------------------------------------------------------------------
(***************************************************************************)
(* Barriers.  The published barrier trails the observed one, the sequence  *)
(* the registry keeps is the one of the last observed barrier, and a scope *)
(* once listed never goes back to being a mere token.                      *)
(***************************************************************************)
BarrierInv ==
    /\ freeze.barrier = publishedBarrier
    /\ publishedBarrier <= observedBarrier
    /\ pendingBarrierSequence = barrierSequence[observedBarrier]
    /\ \A id \in freeze.executions : scope[id].at # "absent"
    /\ BarrierIsComplete

(* An execution that ended, and a token that was consumed without becoming   *)
(* an execution, stay so.                                                    *)
LEMMA Settled ==
    ASSUME TypeOK, ScopeInv, [Next]_vars, NEW id \in Ids
    PROVE  /\ scope[id].at # "absent" => scope'[id].at # "absent"
           /\ scope[id].at = "ended" => scope'[id].at = "ended"
           /\ scope[id].at = "absent" /\ id \notin pending /\ id <= next =>
                 scope'[id].at = "absent" /\ id \notin pending'
<1> DEFINE Kept == /\ scope[id].at # "absent" => scope'[id].at # "absent"
                   /\ scope[id].at = "ended" => scope'[id].at = "ended"
                   /\ scope[id].at = "absent" /\ id \notin pending /\ id <= next =>
                         scope'[id].at = "absent" /\ id \notin pending'
<1> SUFFICES Kept
  OBVIOUS
<1>a. ScopeType /\ RegistryType
  BY DEF TypeOK
<1>b. next \in Int /\ Ids \subseteq Int
  BY <1>a, BoundsAssumption DEF RegistryType, Ids
<1>1. CASE BeginDispatch
  BY <1>1, <1>b DEF BeginDispatch, TokenId
<1>2. ASSUME NEW i \in Ids, EndPending(i) \/ InstallRejected(i) PROVE Kept
  BY <1>2 DEF EndPending, InstallRejected
<1>3. ASSUME NEW i \in Ids, NEW g \in Groups \cup {Unaccounted}, Install(i, g) PROVE Kept
  <2>1. scope'[i].at = "live" /\ \A j \in Ids \ {i} : scope'[j] = scope[j]
    BY <1>3, <1>a DEF Install, NoScope, ScopeType
  <2> QED BY <1>3, <2>1 DEF Install, ScopeInv
<1>4. ASSUME NEW i \in Ids, EndStep(i)
      PROVE  Kept
  <2>1. /\ scope[i].at \notin {"absent", "ended"}
        /\ scope'[i].at \notin {"absent"}
        /\ \A j \in Ids \ {i} : scope'[j] = scope[j]
    <3>1. CASE EndInactive(i)
      BY <3>1, <1>a DEF EndInactive, ScopeType, Scope
    <3>2. CASE EndStartClose(i)
      BY <3>2, <1>a DEF EndStartClose, ScopeType, Scope
    <3>3. CASE EndWaitClose(i)
      BY <3>3, <1>a DEF EndWaitClose, ScopeType, Scope
    <3>4. CASE markReleasedLocked(i)
      BY <3>4, <1>a DEF markReleasedLocked, Releasable, ScopeType, Scope
    <3>5. CASE EndDeliver(i)
      BY <3>5, <1>a DEF EndDeliver, ScopeType, Scope
    <3>6. CASE EndDelete(i)
      BY <3>6, <1>a DEF EndDelete, ScopeType, Scope
    <3> QED BY <1>4, <3>1, <3>2, <3>3, <3>4, <3>5, <3>6 DEF EndStep
  <2>2. UNCHANGED pending
    BY <1>4 DEF EndStep, EndInactive, EndStartClose, EndWaitClose, markReleasedLocked, Releasable, EndDeliver, EndDelete,
                registryVars
  <2> QED BY <2>1, <2>2
<1>5. ASSUME NEW i \in Ids, Bind(i) \/ closeResource(i) PROVE Kept
  <2>1. \A j \in Ids : scope'[j].at = scope[j].at
    BY <1>5, <1>a DEF Bind, Bindable, closeResource, ScopeType, Scope
  <2> QED BY <1>5, <2>1 DEF Bind, Bindable, closeResource, registryVars
<1>6. ASSUME NEW t \in Threads, NEW i \in Ids, DrainCloseScope(t, i) \/ CloseScope(t, i) PROVE Kept
  <2>1. \A j \in Ids : scope'[j].at = scope[j].at
    BY <1>6, <1>a DEF DrainCloseScope, CloseScope, ScopeType, Scope
  <2> QED BY <1>6, <2>1 DEF DrainCloseScope, CloseScope, registryVars
<1>7. CASE UNCHANGED <<pending, scope>>
  BY <1>7
<1>8. CASE Release \/ Observe \/ UNCHANGED vars
  BY <1>7, <1>8 DEF Release, Observe, SetReleaseSink, ReplayGroups, ReplayRelease, ObserveBarrier, FreezeInFlight, BarrierSettled, vars,
                    registryVars
<1>9. ASSUME NEW t \in Threads,
             \/ DrainStart(t) \/ DrainRejected(t) \/ SnapshotScopes(t) \/ DrainCheck(t) \/ WaitTimeout(t)
             \/ WaitPending(t) \/ CloseEnter(t) \/ CloseStore(t) \/ CloseJoinScope(t) \/ CloseFinish(t)
             \/ CloseJoin(t)
      PROVE UNCHANGED <<pending, scope>>
  BY <1>9 DEF DrainStart, DrainRejected, SnapshotScopes, DrainCheck, Empty, WaitTimeout, WaitPending,
              CloseEnter, CloseStore, CloseJoinScope, ResourceGone, CloseFinish, SignalCloseDone, CloseJoin, registryVars
<1> HIDE DEF Kept
<1> QED BY <1>1, <1>2, <1>3, <1>4, <1>5, <1>6, <1>7, <1>8, <1>9
        DEF Next, ResolvePending, DrainStep, CloseStep, Threads

(* Every step preserves BarrierInv. *)
LEMMA BarrierInvStep ==
    ASSUME TypeOK, ScopeInv, BarrierInv, [Next]_vars
    PROVE  BarrierInv'
<1> USE BoundsAssumption
<1>a. BarrierType /\ RegistryType
  BY DEF TypeOK
<1>b. barrierSequence[freeze.barrier] \in 0..next /\ freeze.barrier \in 0..MaxBarrier
  BY <1>a DEF BarrierType
<1>c. freeze.executions \subseteq Ids /\ next \in 0..MaxDispatches
  BY <1>a DEF BarrierType, RegistryType
<1>d. 1..barrierSequence[freeze.barrier] \subseteq Ids
  BY <1>b, <1>c DEF Ids
<1>1. CASE UNCHANGED barrierVars
  <2>1. \A id \in freeze.executions : scope'[id].at # "absent"
    BY <1>c, Settled DEF BarrierInv
  <2>2. ASSUME NEW id \in 1..barrierSequence[freeze.barrier]
        PROVE  \/ id \in freeze.executions
               \/ scope'[id].at = "ended"
               \/ scope'[id].at = "absent" /\ id \notin pending'
    <3>1. id \in Ids /\ id <= next
      BY <1>b, <1>c, <1>d
    <3> QED BY <3>1, Settled DEF BarrierInv, BarrierIsComplete
  <2> QED BY <1>1, <2>1, <2>2 DEF BarrierInv, BarrierIsComplete, barrierVars
<1>2. ASSUME NEW revision \in 1..MaxBarrier, ObserveBarrier(revision) PROVE BarrierInv'
  <2>1. barrierSequence'[freeze.barrier] = barrierSequence[freeze.barrier]
    BY <1>2, <1>a, <1>b DEF ObserveBarrier, BarrierInv, BarrierType
  <2>2. barrierSequence'[revision] = next /\ revision \in Int /\ observedBarrier \in Int /\ publishedBarrier \in Int
    BY <1>2, <1>a DEF ObserveBarrier, BarrierType
  <2> QED BY <1>2, <2>1, <2>2 DEF ObserveBarrier, BarrierInv, BarrierIsComplete, registryVars
<1>3. CASE FreezeInFlight
  <2>1. freeze'.barrier = publishedBarrier' /\ freeze'.executions = scopes
    BY <1>3 DEF FreezeInFlight, BarrierSettled
  <2>2. UNCHANGED <<scope, pending, scopes, observedBarrier, pendingBarrierSequence, barrierSequence>>
    BY <1>3 DEF FreezeInFlight, BarrierSettled, registryVars
  <2>3. scopes \subseteq Ids
    BY <1>a DEF RegistryType, Ids
  <2>4. CASE publishedBarrier' = publishedBarrier
    <3>1. ASSUME NEW id \in 1..barrierSequence[freeze.barrier]
          PROVE  id \in scopes \/ scope[id].at = "ended" \/ (scope[id].at = "absent" /\ id \notin pending)
      BY <1>d DEF BarrierInv, BarrierIsComplete, ScopeInv
    <3>2. freeze'.barrier = freeze.barrier
      BY <2>1, <2>4 DEF BarrierInv
    <3> QED BY <2>1, <2>2, <2>3, <2>4, <3>1, <3>2 DEF BarrierInv, BarrierIsComplete, ScopeInv
  <2>5. CASE publishedBarrier' # publishedBarrier
    <3>1. publishedBarrier' = observedBarrier /\ \A id \in pending : id > pendingBarrierSequence
      BY <1>3, <2>5 DEF FreezeInFlight, BarrierSettled
    <3>2. pendingBarrierSequence \in 0..next /\ observedBarrier \in Int
      BY <1>a DEF BarrierType
    <3>3. ASSUME NEW id \in 1..pendingBarrierSequence
          PROVE  id \in scopes \/ scope[id].at = "ended" \/ (scope[id].at = "absent" /\ id \notin pending)
      <4>1. id \in Ids /\ ~(id > pendingBarrierSequence)
        BY <1>c, <3>2 DEF Ids
      <4> QED BY <3>1, <4>1 DEF ScopeInv
    <3> QED BY <2>1, <2>2, <2>3, <3>1, <3>2, <3>3 DEF BarrierInv, BarrierIsComplete, ScopeInv
  <2> QED BY <2>4, <2>5
<1>4. ASSUME NEW id \in Ids, ResolvePending(id) \/ EndStep(id) \/ Bind(id) \/ closeResource(id)
      PROVE UNCHANGED barrierVars
  BY <1>4 DEF ResolvePending, EndPending, Install, InstallRejected, Bind, Bindable, closeResource, EndStep, EndInactive,
              EndStartClose, EndWaitClose, markReleasedLocked, Releasable, EndDeliver, EndDelete
<1>5. ASSUME NEW t \in Threads,
             \/ DrainStart(t) \/ DrainRejected(t) \/ SnapshotScopes(t) \/ DrainCheck(t) \/ WaitTimeout(t)
             \/ WaitPending(t) \/ CloseEnter(t) \/ CloseStore(t) \/ CloseJoinScope(t) \/ CloseFinish(t)
             \/ CloseJoin(t) \/ \E id \in Ids : DrainCloseScope(t, id) \/ CloseScope(t, id)
      PROVE UNCHANGED barrierVars
  BY <1>5 DEF DrainStart, DrainRejected, SnapshotScopes, DrainCheck, Empty, WaitTimeout, WaitPending,
              CloseEnter, CloseStore, CloseJoinScope, ResourceGone, CloseFinish, SignalCloseDone, CloseJoin, DrainCloseScope, CloseScope
<1>6. ASSUME BeginDispatch \/ Release \/ UNCHANGED vars PROVE UNCHANGED barrierVars
  BY <1>6 DEF BeginDispatch, TokenId, Release, SetReleaseSink, ReplayGroups, ReplayRelease, vars
<1> QED BY <1>1, <1>2, <1>3, <1>4, <1>5, <1>6 DEF Next, Observe, DrainStep, CloseStep, Threads

(* A snapshot sent to Home with a barrier accounts for every dispatch begun  *)
(* before that barrier was observed, however long its Home call took.        *)
THEOREM BarrierCorrect == Spec => []BarrierIsComplete
<1>1. Init => ScopeInv /\ BarrierInv
  BY BoundsAssumption DEF Init, ScopeInv, BarrierInv, BarrierIsComplete, NoScope, Released
<1>2. TypeOK /\ ScopeInv /\ BarrierInv /\ [Next]_vars => ScopeInv' /\ BarrierInv'
  BY ScopeInvStep, BarrierInvStep
<1>3. BarrierInv => BarrierIsComplete
  BY DEF BarrierInv
<1> QED BY <1>1, <1>2, <1>3, TypeCorrect, PTL DEF Spec
-----------------------------------------------------------------------------
(***************************************************************************)
(* Releases.  The sequence of a group counts the scopes marked in it, no   *)
(* sink and no replay is ahead of it, and a replay that is under way feeds *)
(* the installed sink.                                                     *)
(***************************************************************************)
Counted(g) == {id \in Ids : scope[id].group = g /\ scope[id].at \in Released}

NeverAhead ==
    /\ \A s \in Sinks, g \in Groups : delivered[s][g] <= releaseSequences[g]
    /\ \A g \in Groups : replay.seqs[g] <= releaseSequences[g]
    /\ \A id \in Ids : scope[id].at = "marked" /\ scope[id].group \in Groups =>
          scope[id].seq <= releaseSequences[scope[id].group]
    /\ replay.todo # {} => replay.sink = releaseSink

ReleaseInv == ReleasesAccounted /\ NeverAhead

(* A step that neither marks nor delivers: what was released stays as it was. *)
Unreleased ==
    /\ UNCHANGED releaseVars
    /\ \A id \in Ids :
          \/ scope[id].at \notin Released /\ scope'[id].at \notin Released
          \/ /\ scope[id].at \in Released /\ scope'[id].at \in Released
             /\ scope[id].at = "marked" <=> scope'[id].at = "marked"
             /\ scope'[id].group = scope[id].group
             /\ scope'[id].sink = scope[id].sink
             /\ scope'[id].seq = scope[id].seq

(* Such a step keeps the accounts. *)
LEMMA UnreleasedKeeps == ASSUME TypeOK, ReleaseInv, Unreleased PROVE ReleaseInv'
<1> USE DEF ReleaseInv, ReleasesAccounted, Unreleased, releaseVars
<1>1. AccountedOnce'
  <2>1. \A g \in Groups : {id \in Ids : scope'[id].group = g /\ scope'[id].at \in Released}
                          = {id \in Ids : scope[id].group = g /\ scope[id].at \in Released}
    OBVIOUS
  <2> QED BY <2>1 DEF AccountedOnce
<1>2. SinkIsCurrent'
  <2> SUFFICES ASSUME releaseSink # NoSink, NEW g \in Groups,
                      NEW id \in Ids, scope[id].at = "marked", scope[id].group = g,
                      scope[id].sink = releaseSink, scope[id].seq = releaseSequences[g]
               PROVE  /\ scope'[id].at = "marked" /\ scope'[id].group = g
                      /\ scope'[id].sink = releaseSink /\ scope'[id].seq = releaseSequences[g]
    BY DEF SinkIsCurrent
  <2> QED BY DEF Released
<1>3. NeverAhead'
  <2>1. ASSUME NEW id \in Ids, scope'[id].at = "marked", scope'[id].group \in Groups
        PROVE  scope'[id].seq <= releaseSequences[scope'[id].group]
    BY <2>1 DEF NeverAhead, Released
  <2> QED BY <2>1 DEF NeverAhead
<1> QED BY <1>1, <1>2, <1>3

(* Marking a scope counts it, once, and leaves its owner about to deliver. *)
LEMMA MarkAccounts ==
    ASSUME TypeOK, ReleaseInv, NEW id \in Ids, markReleasedLocked(id)
    PROVE  ReleaseInv'
<1>a. ScopeType /\ ReleaseType BY DEF TypeOK
<1>1. /\ scope[id].at = "closed" /\ scope'[id].at = "marked"
      /\ scope'[id].group = scope[id].group
      /\ \A i \in Ids \ {id} : scope'[i] = scope[i]
      /\ UNCHANGED <<releaseSink, replay, delivered>>
  BY <1>a DEF markReleasedLocked, Releasable, ScopeType, Scope
<1>2. \A i \in Ids \ {id} : scope'[i].at = scope[i].at /\ scope'[i].group = scope[i].group
  BY <1>1
<1>3. CASE scope[id].group = Unaccounted
  <2>1. UNCHANGED releaseSequences BY <1>3 DEF markReleasedLocked
  <2>2. AccountedOnce'
    <3>1. \A g \in Groups : Counted(g)' = Counted(g)
      BY <1>1, <1>2, <1>3, NullAssumption DEF Counted, Released
    <3> QED BY <2>1, <3>1 DEF ReleaseInv, ReleasesAccounted, AccountedOnce, Counted
  <2>3. SinkIsCurrent'
    <3> SUFFICES ASSUME releaseSink # NoSink, NEW g \in Groups
                 PROVE  \/ delivered[releaseSink][g] = releaseSequences[g]
                        \/ g \in replay.todo /\ replay.seqs[g] = releaseSequences[g]
                        \/ \E i \in Ids : /\ scope'[i].at = "marked" /\ scope'[i].group = g
                                          /\ scope'[i].sink = releaseSink
                                          /\ scope'[i].seq = releaseSequences[g]
      BY <1>1, <2>1 DEF SinkIsCurrent
    <3>1. ASSUME NEW i \in Ids, scope[i].at = "marked" PROVE scope'[i] = scope[i]
      BY <1>1, <3>1
    <3> QED BY <3>1 DEF ReleaseInv, ReleasesAccounted, SinkIsCurrent
  <2>4. NeverAhead'
    BY <1>1, <1>3, <2>1, NullAssumption DEF ReleaseInv, NeverAhead
  <2> QED BY <2>2, <2>3, <2>4 DEF ReleaseInv, ReleasesAccounted
<1>4. CASE scope[id].group # Unaccounted
  <2> DEFINE h == scope[id].group
  <2>1. /\ h \in Groups
        /\ releaseSequences' = [releaseSequences EXCEPT ![h] = @ + 1]
        /\ scope'[id].sink = releaseSink /\ scope'[id].seq = releaseSequences[h] + 1
    BY <1>4, <1>a DEF markReleasedLocked, ScopeType, Scope
  <2>2. /\ releaseSequences'[h] = releaseSequences[h] + 1
        /\ \A g \in Groups \ {h} : releaseSequences'[g] = releaseSequences[g]
        /\ \A g \in Groups : releaseSequences[g] \in Nat /\ releaseSequences'[g] \in Nat
    BY <1>a, <2>1 DEF ReleaseType
  <2>3. AccountedOnce'
    <3> SUFFICES ASSUME NEW g \in Groups PROVE releaseSequences'[g] = Cardinality(Counted(g)')
      BY DEF AccountedOnce, Counted
    <3>1. releaseSequences[g] = Cardinality(Counted(g))
      BY DEF ReleaseInv, ReleasesAccounted, AccountedOnce, Counted
    <3>2. CASE g = h
      <4>1. Counted(g)' = Counted(g) \cup {id} /\ id \notin Counted(g)
        BY <1>1, <1>2, <3>2 DEF Counted, Released
      <4>2. IsFiniteSet(Counted(g))
        <5>1. IsFiniteSet(Ids) BY FS_Interval, BoundsAssumption DEF Ids
        <5>2. Counted(g) \in SUBSET Ids BY DEF Counted
        <5> QED BY <5>1, <5>2, FS_Subset
      <4>3. Cardinality(Counted(g) \cup {id}) = Cardinality(Counted(g)) + 1
        BY <4>1, <4>2, FS_AddElement
      <4> QED BY <2>2, <3>1, <3>2, <4>1, <4>3
    <3>3. CASE g # h
      <4>1. Counted(g)' = Counted(g) BY <1>1, <1>2, <3>3 DEF Counted
      <4> QED BY <2>2, <3>1, <3>3, <4>1
    <3> QED BY <3>2, <3>3
  <2>4. SinkIsCurrent'
    <3> SUFFICES ASSUME releaseSink # NoSink, NEW g \in Groups
                 PROVE  \/ delivered[releaseSink][g] = releaseSequences'[g]
                        \/ g \in replay.todo /\ replay.seqs[g] = releaseSequences'[g]
                        \/ \E i \in Ids : /\ scope'[i].at = "marked" /\ scope'[i].group = g
                                          /\ scope'[i].sink = releaseSink
                                          /\ scope'[i].seq = releaseSequences'[g]
      BY <1>1 DEF SinkIsCurrent
    <3>1. CASE g = h BY <1>1, <2>1, <2>2, <3>1
    <3>2. CASE g # h
      <4>1. ASSUME NEW i \in Ids, scope[i].at = "marked" PROVE scope'[i] = scope[i]
        BY <1>1, <4>1
      <4> QED BY <2>2, <3>2, <4>1 DEF ReleaseInv, ReleasesAccounted, SinkIsCurrent
    <3> QED BY <3>1, <3>2
  <2>5. NeverAhead'
    <3>1. \A g \in Groups : releaseSequences[g] <= releaseSequences'[g] BY <2>2
    <3>2. ASSUME NEW s \in Sinks, NEW g \in Groups
          PROVE  delivered'[s][g] <= releaseSequences'[g]
      <4>1. delivered[s][g] \in Nat /\ delivered[s][g] <= releaseSequences[g]
        BY <1>a DEF ReleaseType, ReleaseInv, NeverAhead
      <4> QED BY <1>1, <2>2, <3>1, <4>1
    <3>3. ASSUME NEW g \in Groups PROVE replay'.seqs[g] <= releaseSequences'[g]
      <4>1. replay.seqs[g] \in Nat /\ replay.seqs[g] <= releaseSequences[g]
        BY <1>a DEF ReleaseType, ReleaseInv, NeverAhead
      <4> QED BY <1>1, <2>2, <3>1, <4>1
    <3>4. ASSUME NEW i \in Ids, scope'[i].at = "marked", scope'[i].group \in Groups
          PROVE  scope'[i].seq <= releaseSequences'[scope'[i].group]
      <4>1. CASE i = id BY <1>1, <2>1, <2>2, <4>1
      <4>2. CASE i # id
        <5>1. scope'[i] = scope[i] /\ scope[i].seq \in Nat BY <1>1, <1>a, <4>2 DEF ScopeType, Scope
        <5>2. scope[i].seq <= releaseSequences[scope[i].group]
          BY <3>4, <5>1 DEF ReleaseInv, NeverAhead
        <5> QED BY <2>2, <3>1, <3>4, <5>1, <5>2
      <4> QED BY <4>1, <4>2
    <3> QED BY <1>1, <3>2, <3>3, <3>4 DEF ReleaseInv, NeverAhead
  <2> QED BY <2>3, <2>4, <2>5 DEF ReleaseInv, ReleasesAccounted
<1> QED BY <1>3, <1>4

(* What a delivery leaves with a sink: the highest sequence it was given. *)
LEMMA DeliverMax ==
    ASSUME ReleaseType, NEW sink \in Sinks, NEW g \in Groups, NEW n \in Nat,
           Deliver(sink, g, n)
    PROVE  /\ delivered'[sink][g] = IF n > delivered[sink][g] THEN n ELSE delivered[sink][g]
           /\ \A s \in Sinks, h \in Groups :
                 s # sink \/ h # g => delivered'[s][h] = delivered[s][h]
  BY DEF ReleaseType, Deliver

(* A delivery that is not ahead of the group brings the sink no further. *)
LEMMA DeliverKeeps ==
    ASSUME ReleaseType, NeverAhead, NEW sink \in Sinks, NEW g \in Groups, NEW n \in Nat,
           n <= releaseSequences[g], Deliver(sink, g, n)
    PROVE  /\ \A s \in Sinks, h \in Groups :
                 /\ delivered'[s][h] <= releaseSequences[h]
                 /\ delivered[s][h] = releaseSequences[h] => delivered'[s][h] = delivered[s][h]
           /\ n = releaseSequences[g] => delivered'[sink][g] = releaseSequences[g]
<1>1. /\ delivered'[sink][g] = IF n > delivered[sink][g] THEN n ELSE delivered[sink][g]
      /\ \A s \in Sinks, h \in Groups :
            s # sink \/ h # g => delivered'[s][h] = delivered[s][h]
  BY DeliverMax
<1>2. /\ \A s \in Sinks, h \in Groups : delivered[s][h] \in Nat
      /\ \A h \in Groups : releaseSequences[h] \in Nat
  BY DEF ReleaseType
<1>3. \A s \in Sinks, h \in Groups : delivered[s][h] <= releaseSequences[h]
  BY DEF NeverAhead
<1> QED BY <1>1, <1>2, <1>3

(* The owner delivers what it marked: the sink it captured has it afterwards. *)
LEMMA DeliverAccounts ==
    ASSUME TypeOK, ReleaseInv, NEW id \in Ids, EndDeliver(id)
    PROVE  ReleaseInv'
<1>a. ScopeType /\ ReleaseType /\ NeverAhead BY DEF TypeOK, ReleaseInv
<1>1. /\ scope[id].at = "marked" /\ scope'[id].at = "delivered"
      /\ scope'[id].group = scope[id].group
      /\ \A i \in Ids \ {id} : scope'[i] = scope[i]
      /\ UNCHANGED <<releaseSequences, releaseSink, replay>>
      /\ scope[id].seq \in Nat /\ scope[id].sink \in Sinks \cup {NoSink}
  BY <1>a DEF EndDeliver, ScopeType, Scope
<1>2. \A s \in Sinks, g \in Groups :
         /\ delivered'[s][g] <= releaseSequences[g]
         /\ delivered[s][g] = releaseSequences[g] => delivered'[s][g] = delivered[s][g]
         /\ s = scope[id].sink /\ g = scope[id].group /\ scope[id].seq = releaseSequences[g] =>
               delivered'[s][g] = releaseSequences[g]
  <2>1. \A s \in Sinks, g \in Groups :
           /\ delivered[s][g] \in Nat /\ releaseSequences[g] \in Nat
           /\ delivered[s][g] <= releaseSequences[g]
    BY <1>a DEF ReleaseType, NeverAhead
  <2>2. CASE ~(scope[id].sink # NoSink /\ scope[id].seq > 0)
    <3>1. UNCHANGED delivered BY <2>2 DEF EndDeliver
    <3>2. ASSUME NEW s \in Sinks, NEW g \in Groups, s = scope[id].sink,
                 scope[id].seq = releaseSequences[g]
          PROVE  delivered[s][g] = releaseSequences[g]
      <4>1. s # NoSink BY NullAssumption
      <4>2. scope[id].seq = 0 BY <1>1, <2>2, <3>2, <4>1
      <4>3. releaseSequences[g] = 0 BY <3>2, <4>2
      <4>4. delivered[s][g] \in Nat /\ delivered[s][g] <= 0 BY <2>1, <4>3
      <4> QED BY <4>3, <4>4
    <3> QED BY <2>1, <3>1, <3>2
  <2>3. CASE scope[id].sink # NoSink /\ scope[id].seq > 0
    <3>1. /\ scope[id].sink \in Sinks
          /\ Deliver(scope[id].sink, scope[id].group, scope[id].seq)
      BY <1>1, <2>3 DEF EndDeliver
    <3>2. CASE scope[id].group \in Groups
      <4>1. scope[id].seq <= releaseSequences[scope[id].group]
        BY <1>1, <1>a, <3>2 DEF NeverAhead
      <4> QED BY <1>1, <1>a, <3>1, <3>2, <4>1, DeliverKeeps
    <3>3. CASE scope[id].group \notin Groups
      <4>1. \A s \in Sinks, g \in Groups : delivered'[s][g] = delivered[s][g]
        BY <1>a, <3>1, <3>3 DEF Deliver, ReleaseType
      <4> QED BY <2>1, <3>3, <4>1
    <3> QED BY <3>2, <3>3
  <2> QED BY <2>2, <2>3
<1>3. AccountedOnce'
  <2>1. \A g \in Groups : Counted(g)' = Counted(g) BY <1>1 DEF Counted, Released
  <2> QED BY <1>1, <2>1 DEF ReleaseInv, ReleasesAccounted, AccountedOnce, Counted
<1>4. SinkIsCurrent'
  <2> SUFFICES ASSUME releaseSink # NoSink, NEW g \in Groups
               PROVE  \/ delivered'[releaseSink][g] = releaseSequences[g]
                      \/ g \in replay.todo /\ replay.seqs[g] = releaseSequences[g]
                      \/ \E i \in Ids : /\ scope'[i].at = "marked" /\ scope'[i].group = g
                                        /\ scope'[i].sink = releaseSink
                                        /\ scope'[i].seq = releaseSequences[g]
    BY <1>1 DEF SinkIsCurrent
  <2>1. releaseSink \in Sinks BY <1>a DEF ReleaseType
  <2>2. CASE delivered[releaseSink][g] = releaseSequences[g] BY <1>2, <2>1, <2>2
  <2>3. ASSUME NEW i \in Ids, scope[i].at = "marked", scope[i].group = g,
               scope[i].sink = releaseSink, scope[i].seq = releaseSequences[g]
        PROVE  \/ delivered'[releaseSink][g] = releaseSequences[g]
               \/ scope'[i] = scope[i]
    BY <1>1, <1>2, <2>1, <2>3
  <2> QED BY <2>2, <2>3 DEF ReleaseInv, ReleasesAccounted, SinkIsCurrent
<1>5. NeverAhead'
  <2>1. \A i \in Ids : scope'[i].at = "marked" => scope'[i] = scope[i] BY <1>1
  <2> QED BY <1>1, <1>2, <1>a, <2>1 DEF NeverAhead
<1> QED BY <1>3, <1>4, <1>5 DEF ReleaseInv, ReleasesAccounted

(* A new sink is owed a replay of every group with a release, and so is current. *)
LEMMA SwapAccounts ==
    ASSUME TypeOK, ReleaseInv, NEW sink \in Sinks \cup {NoSink}, SetReleaseSink(sink)
    PROVE  ReleaseInv'
<1>a. ReleaseType /\ NeverAhead BY DEF TypeOK, ReleaseInv
<1>1. /\ releaseSink' = sink /\ UNCHANGED <<scope, releaseSequences, delivered>>
      /\ replay'.sink = sink /\ replay'.seqs = releaseSequences
      /\ replay'.todo = ReplayGroups(sink)
  BY DEF SetReleaseSink
<1>2. AccountedOnce'
  BY <1>1 DEF ReleaseInv, ReleasesAccounted, AccountedOnce
<1>3. SinkIsCurrent'
  <2> SUFFICES ASSUME sink # NoSink, NEW g \in Groups
               PROVE  \/ delivered[sink][g] = releaseSequences[g]
                      \/ g \in replay'.todo /\ replay'.seqs[g] = releaseSequences[g]
    BY <1>1 DEF SinkIsCurrent
  <2>1. /\ releaseSequences[g] \in Nat /\ delivered[sink][g] \in Nat
        /\ delivered[sink][g] <= releaseSequences[g]
    BY <1>a DEF ReleaseType, NeverAhead
  <2> QED BY <1>1, <2>1 DEF ReplayGroups
<1>4. NeverAhead'
  <2>1. \A g \in Groups : releaseSequences[g] <= releaseSequences[g]
    BY <1>a DEF ReleaseType
  <2> QED BY <1>1, <1>a, <2>1 DEF NeverAhead
<1> QED BY <1>2, <1>3, <1>4 DEF ReleaseInv, ReleasesAccounted

(* A replayed release reaches the installed sink, never above the group's sequence. *)
LEMMA ReplayAccounts ==
    ASSUME TypeOK, ReleaseInv, NEW g \in Groups, ReplayRelease(g)
    PROVE  ReleaseInv'
<1>a. ReleaseType /\ NeverAhead BY DEF TypeOK, ReleaseInv
<1>1. /\ g \in replay.todo /\ Deliver(replay.sink, g, replay.seqs[g])
      /\ UNCHANGED <<scope, releaseSequences, releaseSink>>
      /\ replay'.sink = replay.sink /\ replay'.seqs = replay.seqs
      /\ replay'.todo = replay.todo \ {g}
  BY <1>a DEF ReplayRelease, ReleaseType
<1>2. replay.sink = releaseSink /\ replay.seqs[g] \in Nat
      /\ replay.seqs[g] <= releaseSequences[g]
  BY <1>1, <1>a DEF NeverAhead, ReleaseType
<1>3. \A s \in Sinks, h \in Groups :
         /\ delivered'[s][h] <= releaseSequences[h]
         /\ delivered[s][h] = releaseSequences[h] => delivered'[s][h] = delivered[s][h]
         /\ s = releaseSink /\ h = g /\ replay.seqs[g] = releaseSequences[g] =>
               delivered'[s][h] = releaseSequences[h]
  <2>1. CASE replay.sink \in Sinks BY <1>1, <1>2, <1>a, <2>1, DeliverKeeps
  <2>2. CASE replay.sink \notin Sinks
    <3>1. UNCHANGED delivered BY <1>1, <1>a, <2>2 DEF Deliver, ReleaseType
    <3> QED BY <1>2, <1>a, <2>2, <3>1 DEF NeverAhead
  <2> QED BY <2>1, <2>2
<1>4. AccountedOnce'
  BY <1>1 DEF ReleaseInv, ReleasesAccounted, AccountedOnce
<1>5. SinkIsCurrent'
  <2> SUFFICES ASSUME releaseSink # NoSink, NEW h \in Groups
               PROVE  \/ delivered'[releaseSink][h] = releaseSequences[h]
                      \/ h \in replay'.todo /\ replay'.seqs[h] = releaseSequences[h]
                      \/ \E i \in Ids : /\ scope[i].at = "marked" /\ scope[i].group = h
                                        /\ scope[i].sink = releaseSink
                                        /\ scope[i].seq = releaseSequences[h]
    BY <1>1 DEF SinkIsCurrent
  <2>1. releaseSink \in Sinks BY <1>a DEF ReleaseType
  <2>2. CASE delivered[releaseSink][h] = releaseSequences[h] BY <1>3, <2>1, <2>2
  <2>3. CASE h \in replay.todo /\ replay.seqs[h] = releaseSequences[h]
    BY <1>1, <1>3, <2>1, <2>3
  <2> QED BY <2>2, <2>3 DEF ReleaseInv, ReleasesAccounted, SinkIsCurrent
<1>6. NeverAhead'
  BY <1>1, <1>2, <1>3, <1>a DEF NeverAhead
<1> QED BY <1>4, <1>5, <1>6 DEF ReleaseInv, ReleasesAccounted

(* Every other step leaves what was released alone. *)
LEMMA ReleaseInvStep ==
    ASSUME TypeOK, ScopeInv, ReleaseInv, [Next]_vars
    PROVE  ReleaseInv'
<1>a. ScopeType BY DEF TypeOK
<1>1. CASE UNCHANGED <<scope, releaseVars>>
  BY <1>1, UnreleasedKeeps DEF Unreleased
<1>2. ASSUME NEW id \in Ids, EndPending(id) \/ InstallRejected(id) PROVE ReleaseInv'
  BY <1>1, <1>2 DEF EndPending, InstallRejected
<1>3. ASSUME NEW id \in Ids, NEW g \in Groups \cup {Unaccounted}, Install(id, g)
      PROVE  ReleaseInv'
  <2>1. /\ scope[id].at = "absent" /\ scope'[id].at = "live"
        /\ \A i \in Ids \ {id} : scope'[i] = scope[i]
    BY <1>3, <1>a DEF Install, NoScope, ScopeType, ScopeInv
  <2>2. Unreleased BY <1>3, <2>1 DEF Install, Unreleased, Released
  <2> QED BY <2>2, UnreleasedKeeps
<1>4. ASSUME NEW id \in Ids,
             \/ Bind(id) \/ EndInactive(id) \/ EndStartClose(id) \/ EndWaitClose(id)
             \/ closeResource(id) \/ EndDelete(id)
             \/ \E t \in Threads : DrainCloseScope(t, id) \/ CloseScope(t, id)
      PROVE  ReleaseInv'
  <2>1. \A i \in Ids \ {id} : scope'[i] = scope[i]
    BY <1>4, <1>a DEF Bind, EndInactive, EndStartClose, EndWaitClose, closeResource, EndDelete,
                      DrainCloseScope, CloseScope, ScopeType
  <2>2. /\ scope'[id].group = scope[id].group
        /\ scope'[id].sink = scope[id].sink /\ scope'[id].seq = scope[id].seq
    BY <1>4, <1>a DEF Bind, EndInactive, EndStartClose, EndWaitClose, closeResource, EndDelete,
                      DrainCloseScope, CloseScope, ScopeType, Scope
  <2>3. /\ scope[id].at \in Released <=> scope'[id].at \in Released
        /\ scope[id].at = "marked" <=> scope'[id].at = "marked"
    <3>1. CASE Bind(id) \/ closeResource(id)
               \/ \E t \in Threads : DrainCloseScope(t, id) \/ CloseScope(t, id)
      <4>1. scope'[id].at = scope[id].at
        BY <1>a, <3>1 DEF Bind, closeResource, DrainCloseScope, CloseScope, ScopeType, Scope
      <4> QED BY <4>1
    <3>2. CASE EndInactive(id) \/ EndStartClose(id) \/ EndWaitClose(id)
      <4>1. /\ scope[id].at \in {"live", "inactive", "waiting"}
            /\ scope'[id].at \in {"inactive", "closed", "waiting"}
        BY <1>a, <3>2 DEF EndInactive, EndStartClose, EndWaitClose, ScopeType, Scope
      <4> QED BY <4>1 DEF Released
    <3>3. CASE EndDelete(id)
      <4>1. scope[id].at = "delivered" /\ scope'[id].at = "ended"
        BY <1>a, <3>3 DEF EndDelete, ScopeType, Scope
      <4> QED BY <4>1 DEF Released
    <3> QED BY <1>4, <3>1, <3>2, <3>3
  <2>4. UNCHANGED releaseVars
    BY <1>4 DEF Bind, EndInactive, EndStartClose, EndWaitClose, closeResource, EndDelete,
                DrainCloseScope, CloseScope
  <2>5. Unreleased BY <2>1, <2>2, <2>3, <2>4 DEF Unreleased
  <2> QED BY <2>5, UnreleasedKeeps
<1>5. ASSUME NEW id \in Ids, markReleasedLocked(id) \/ EndDeliver(id) PROVE ReleaseInv'
  BY <1>5, MarkAccounts, DeliverAccounts
<1>6. CASE Release BY <1>6, SwapAccounts, ReplayAccounts DEF Release
<1>7. CASE BeginDispatch \/ Observe \/ UNCHANGED vars
  BY <1>1, <1>7 DEF BeginDispatch, Observe, ObserveBarrier, FreezeInFlight, vars
<1>8. ASSUME NEW t \in Threads,
             \/ DrainStart(t) \/ DrainRejected(t) \/ SnapshotScopes(t) \/ DrainCheck(t)
             \/ WaitTimeout(t) \/ WaitPending(t) \/ CloseEnter(t) \/ CloseStore(t)
             \/ CloseJoinScope(t) \/ CloseFinish(t) \/ CloseJoin(t)
      PROVE  UNCHANGED <<scope, releaseVars>>
  BY <1>8 DEF DrainStart, DrainRejected, SnapshotScopes, DrainCheck, WaitTimeout, WaitPending,
              CloseEnter, CloseStore, CloseJoinScope, CloseFinish, CloseJoin
<1> QED BY <1>1, <1>2, <1>3, <1>4, <1>5, <1>6, <1>7, <1>8
        DEF Next, ResolvePending, EndStep, DrainStep, CloseStep, Threads

(* Every accounted execution is counted in its group exactly once, and the installed  *)
(* sink holds the last count or somebody is about to give it, however EndWithRelease, *)
(* SetReleaseSink and its replay interleave.                                          *)
THEOREM ReleasesCorrect == Spec => []ReleasesAccounted
<1>1. Init => ScopeInv /\ ReleaseInv
  <2> SUFFICES ASSUME Init PROVE ScopeInv /\ ReleaseInv OBVIOUS
  <2>1. ScopeInv BY DEF Init, ScopeInv, NoScope, Released
  <2>2. AccountedOnce
    <3>1. \A g \in Groups : Counted(g) = {} BY DEF Init, Counted, NoScope, Released
    <3> QED BY <3>1, FS_EmptySet DEF Init, AccountedOnce, Counted
  <2>3. SinkIsCurrent /\ NeverAhead BY DEF Init, SinkIsCurrent, NeverAhead, NoScope
  <2> QED BY <2>1, <2>2, <2>3 DEF ReleaseInv, ReleasesAccounted
<1>2. TypeOK /\ ScopeInv /\ ReleaseInv /\ [Next]_vars => ScopeInv' /\ ReleaseInv'
  BY ScopeInvStep, ReleaseInvStep
<1>3. ReleaseInv => ReleasesAccounted BY DEF ReleaseInv
<1> QED BY <1>1, <1>2, <1>3, TypeCorrect, PTL DEF Spec
=============================================================================
