----------------------------- MODULE HomeRelease -----------------------------
(***************************************************************************)
(* How concurrency slots get back to Home: the cumulative release flusher  *)
(* (internal/home/concurrency_release.go) under the supervisor that starts,*)
(* replaces and stops its Home lifetimes (runHomeSubscriber in             *)
(* sdk/cliproxy/service_home.go).  The execution registry is what          *)
(* ExecutionRegistry.tla specifies, reduced to what the flusher sees of it:*)
(* tokens, live executions, cumulative sequences and captured sink calls.  *)
(***************************************************************************)
EXTENDS Integers, FiniteSets

CONSTANTS
    Groups,         \* ReleaseGroup: credential and model
    MaxDispatches,  \* bound on the executions dispatched
    MaxLifetimes    \* bound on the Home connections of one subscriber

ASSUME BoundsAssumption == MaxDispatches \in Nat /\ MaxLifetimes \in Nat

VARIABLES
    regState, tokens, live, seqs, sink, marking,
                        \* registry: lifecycle, unresolved dispatches, executions
                        \* and cumulative sequence per group, whether a sink is
                        \* installed, MarkDirty calls captured but not yet made
    latest, acked, waiters, closed,
                        \* flusher: releaseState per group, tickets closed
    wake, force,        \* the two channels of capacity one
    run, cancelled, backingOff, timer, batch, current, failed,
                        \* the Run goroutine
    sender,             \* "nil", "open" or "closed": the client Run sends through
    received,           \* external: the highest sequence Home was given per group
    supervisor, homeDone, lifetimes, incarnation, dispatched, outcome

registryVars == <<regState, tokens, live, seqs, sink, marking, dispatched>>
flusherVars == <<latest, acked, waiters, closed>>
signalVars == <<wake, force>>
runVars == <<run, cancelled, backingOff, timer, batch, current, failed>>
supervisorVars == <<supervisor, homeDone, lifetimes, incarnation, outcome>>
vars == <<registryVars, flusherVars, signalVars, runVars, sender, received, supervisorVars>>

Zero == [g \in Groups |-> 0]
NoTickets == [g \in Groups |-> {}]
NoGroup == "none"
Drained == tokens = 0 /\ live = Zero /\ marking = {}
Dirty(g) == latest[g] > acked[g]
GoSupervisor(from, to) == supervisor = from /\ supervisor' = to

(* What the steps of the registry, of Run and of the supervisor leave alone. *)
OnlyRegistry == UNCHANGED <<flusherVars, signalVars, runVars, sender, received, supervisorVars>>
OnlyRun == UNCHANGED <<registryVars, sender, supervisorVars>>
OnlySupervisor ==
    UNCHANGED <<flusherVars, signalVars, runVars, sender, received, homeDone, lifetimes, incarnation>>

-----------------------------------------------------------------------------
(* The registry as the flusher and the supervisor see it. *)

(* A request that still holds the published bundle may begin a dispatch at any later time. *)
BeginDispatch ==
    /\ lifetimes > 0
    /\ regState = "accepting"
    /\ dispatched < MaxDispatches
    /\ dispatched' = dispatched + 1
    /\ tokens' = tokens + 1
    /\ OnlyRegistry /\ UNCHANGED <<regState, live, seqs, sink, marking>>

(* A token becomes an execution, or is consumed: PendingDispatch.End, or Install too late. *)
ResolveDispatch ==
    /\ tokens > 0
    /\ tokens' = tokens - 1
    /\ \/ UNCHANGED live
       \/ /\ regState = "accepting"
          /\ \E g \in Groups : live' = [live EXCEPT ![g] = @ + 1]
    /\ OnlyRegistry /\ UNCHANGED <<regState, seqs, sink, marking, dispatched>>

Endable(g) == live[g] > 0

(* markReleasedLocked: the sequence grows, the sink call is captured. *)
EndExecution(g) ==
    /\ Endable(g)
    /\ live' = [live EXCEPT ![g] = @ - 1]
    /\ seqs' = [seqs EXCEPT ![g] = @ + 1]
    /\ marking' = IF sink THEN marking \cup {<<g, seqs[g] + 1>>} ELSE marking
    /\ OnlyRegistry /\ UNCHANGED <<regState, tokens, sink, dispatched>>

-----------------------------------------------------------------------------
(* The flusher. *)

signal == wake' = TRUE

(* Mutant: a ticket is queued whatever Home has acknowledged. *)
AlreadyAckedNever(g, seq) == FALSE

AlreadyAcked(g, seq) == seq <= acked[g]

(* MarkDirty; calls for one group may arrive in any order. *)
MarkDirty(g, seq) ==
    /\ <<g, seq>> \in marking
    /\ marking' = marking \ {<<g, seq>>}
    /\ IF AlreadyAcked(g, seq)
       THEN /\ closed' = [closed EXCEPT ![g] = @ \cup {seq}]
            /\ UNCHANGED <<latest, waiters>>
       ELSE /\ waiters' = [waiters EXCEPT ![g] = @ \cup {seq}]
            /\ latest' = [latest EXCEPT ![g] = IF seq > @ THEN seq ELSE @]
            /\ UNCHANGED closed
    /\ signal
    /\ UNCHANGED <<regState, tokens, live, seqs, sink, dispatched, acked, force, runVars,
                   sender, received, supervisorVars>>

(* Run: a wake-up makes the timer due unless a failed flush backs off. *)
RunWake ==
    /\ run = "select"
    /\ wake
    /\ wake' = FALSE
    /\ timer' = IF backingOff THEN timer ELSE "due"
    /\ OnlyRun /\ UNCHANGED <<flusherVars, force, run, cancelled, backingOff, batch, current, failed, received>>

(* flush, first half: the sender and the dirty groups are read under the mutex. *)
flushBegin ==
    /\ run = "select"
    /\ run' = "sending"
    /\ batch' = [g \in Groups |-> IF sender # "nil" /\ Dirty(g) THEN latest[g] ELSE 0]
    /\ failed' = FALSE
    /\ OnlyRun /\ UNCHANGED <<flusherVars, wake, cancelled, backingOff, timer, current, received>>

RunForce == force /\ force' = FALSE /\ flushBegin

(* The timer fires, sooner when it is due than when it is delayed. *)
RunTimer == UNCHANGED force /\ flushBegin

(* external: Home keeps the highest sequence it is given. *)
Receive(g, seq) == received' = [received EXCEPT ![g] = IF seq > @ THEN seq ELSE @]

(* The frame reaches Home and the reply reaches Run, which still has to record it. *)
SendOk(g) ==
    /\ run = "sending"
    /\ batch[g] > 0
    /\ sender = "open"
    /\ Receive(g, batch[g])
    /\ run' = "acking"
    /\ current' = g
    /\ OnlyRun /\ UNCHANGED <<flusherVars, signalVars, cancelled, backingOff, timer, batch, failed>>

(* The send fails: the frame is lost, or only its reply is. *)
SendFails(g) ==
    /\ run = "sending"
    /\ batch[g] > 0
    /\ \/ UNCHANGED received
       \/ sender = "open" /\ Receive(g, batch[g])
    /\ batch' = [batch EXCEPT ![g] = 0]
    /\ failed' = TRUE
    /\ OnlyRun /\ UNCHANGED <<flusherVars, signalVars, run, cancelled, backingOff, timer, current>>

(* Mutant: the acknowledgement covers what became dirty during the send. *)
AckedByLatest == latest[current]

AckedBySend == batch[current]

(* flush, after a successful send: every ticket up to the acknowledged sequence closes. *)
RecordAck ==
    /\ run = "acking"
    /\ LET done == {seq \in waiters[current] : seq <= AckedBySend} IN
       IF AckedBySend > acked[current]
       THEN /\ acked' = [acked EXCEPT ![current] = AckedBySend]
            /\ closed' = [closed EXCEPT ![current] = @ \cup done]
            /\ waiters' = [waiters EXCEPT ![current] = @ \ done]
       ELSE UNCHANGED <<acked, closed, waiters>>
    /\ run' = "sending"
    /\ batch' = [batch EXCEPT ![current] = 0]
    /\ current' = NoGroup
    /\ OnlyRun /\ UNCHANGED <<latest, signalVars, cancelled, backingOff, timer, failed, received>>

(* The flush is over: nextDelay decides whether Run backs off, the timer restarts. *)
FlushEnd ==
    /\ run = "sending"
    /\ batch = Zero
    /\ run' = "select"
    /\ backingOff' = failed
    /\ timer' = "delayed"
    /\ OnlyRun /\ UNCHANGED <<flusherVars, signalVars, cancelled, batch, current, failed, received>>

RunExit ==
    /\ run = "select"
    /\ cancelled
    /\ run' = "off"
    /\ OnlyRun /\ UNCHANGED <<flusherVars, signalVars, cancelled, backingOff, timer, batch, current, failed, received>>

-----------------------------------------------------------------------------
(* The supervisor: runHomeSubscriber. *)

(* Mutant: the flusher keeps the sender of the lifetime before. *)
SetSenderOnce == sender' = IF sender = "nil" THEN "open" ELSE sender

SetSender == sender' = "open"

(* A lifetime begins: new client, SetConfigProvider, SetSender and a Run goroutine. *)
StartLifetime ==
    /\ GoSupervisor("start", "running")
    /\ ~homeDone
    /\ lifetimes < MaxLifetimes
    /\ lifetimes' = lifetimes + 1
    /\ SetSender
    /\ signal
    /\ run' = "select"
    /\ cancelled' = FALSE
    /\ backingOff' = FALSE
    /\ timer' = "due"
    /\ UNCHANGED <<registryVars, flusherVars, force, batch, current, failed, received,
                   homeDone, incarnation, outcome>>

(* homeCtx is cancelled by Stop or by a replaced subscriber. *)
CancelHome ==
    /\ ~homeDone
    /\ homeDone' = TRUE
    /\ UNCHANGED <<registryVars, flusherVars, signalVars, runVars, sender, received,
                   supervisor, lifetimes, incarnation, outcome>>

(* The subscription broke, or Home asked for a rebalance, which settles first. *)
LifetimeFails ==
    /\ ~homeDone
    /\ lifetimes < MaxLifetimes
    /\ GoSupervisor("running", "cancel") \/ GoSupervisor("running", "settleFirst")
    /\ OnlySupervisor /\ UNCHANGED <<registryVars, outcome>>

(* WaitPending on a planned rebalance, before the lifetime is torn down ... *)
SettleFirst ==
    /\ GoSupervisor("settleFirst", "cancelSettled")
    /\ tokens = 0
    /\ OnlySupervisor /\ UNCHANGED <<registryVars, outcome>>

(* ... and when it expires, which is looked at after the tear-down. *)
SettleFirstExpires ==
    /\ GoSupervisor("settleFirst", "cancelExpired")
    /\ OnlySupervisor /\ UNCHANGED <<registryVars, outcome>>

(* releaseCancel. *)
CancelRelease ==
    /\ ~homeDone
    /\ \/ GoSupervisor("cancel", "join")
       \/ GoSupervisor("cancelSettled", "joinSettled")
       \/ GoSupervisor("cancelExpired", "joinExpired")
    /\ cancelled' = TRUE
    /\ UNCHANGED <<registryVars, flusherVars, signalVars, run, backingOff, timer, batch, current, failed,
                   sender, received, homeDone, lifetimes, incarnation, outcome>>

(* Run has returned; client.Close fences the sender. *)
JoinRelease ==
    /\ \/ GoSupervisor("join", "settle")
       \/ GoSupervisor("joinSettled", "decide")
       \/ GoSupervisor("joinExpired", "unsettled")
    /\ run = "off"
    /\ sender' = "closed"
    /\ UNCHANGED <<registryVars, flusherVars, signalVars, runVars, received,
                   homeDone, lifetimes, incarnation, outcome>>

Settle ==
    /\ GoSupervisor("settle", "decide")
    /\ tokens = 0
    /\ OnlySupervisor /\ UNCHANGED <<registryVars, outcome>>

(* The takeover is safe: registry and flusher survive the reconnect. *)
KeepRegistry ==
    /\ GoSupervisor("decide", "start")
    /\ OnlySupervisor /\ UNCHANGED <<registryVars, outcome>>

(* The takeover is not safe: SetReleaseSink(nil), then Drain. *)
AbandonRegistry ==
    /\ GoSupervisor("decide", "unsafeDrain")
    /\ sink' = FALSE
    /\ regState' = "draining"
    /\ OnlySupervisor /\ UNCHANGED <<tokens, live, seqs, marking, dispatched, outcome>>

(* Mutant: the old flusher serves the new registry. *)
KeepFlusher == UNCHANGED <<flusherVars, signalVars, sender>>

NewReleaseFlusher ==
    /\ latest' = Zero /\ acked' = Zero
    /\ waiters' = NoTickets /\ closed' = NoTickets
    /\ wake' = FALSE /\ force' = FALSE
    /\ sender' = "nil"

(* Drained: a new registry and a new flusher; Home forgets the old membership. *)
ReplaceRegistry ==
    /\ GoSupervisor("unsafeDrain", "start")
    /\ Drained
    /\ regState' = "accepting"
    /\ sink' = TRUE
    /\ seqs' = Zero
    /\ NewReleaseFlusher
    /\ received' = Zero
    /\ incarnation' = incarnation + 1
    /\ UNCHANGED <<tokens, live, marking, dispatched, runVars, homeDone, lifetimes, outcome>>

(* The subscriber returns without a Flush; the deferred SetReleaseSink(nil) and Drain run. *)
Leave ==
    /\ supervisor' = "exit"
    /\ sink' = FALSE
    /\ regState' = "draining"
    /\ outcome' = "aborted"
    /\ OnlySupervisor /\ UNCHANGED <<tokens, live, seqs, marking, dispatched>>

(* Settling or draining took longer than the cancel bound. *)
Abort == supervisor \in {"settle", "unsafeDrain"} /\ Leave

GiveUp == supervisor = "unsettled" /\ Leave

(* homeCtx ended before the next lifetime began. *)
LoopEnds == supervisor = "start" /\ homeDone /\ Leave

(* The subscription ended for good, or homeCtx ended during the tear-down: Drain. *)
StopLifetime ==
    /\ \/ supervisor = "running"
       \/ homeDone /\ supervisor \in {"cancel", "cancelSettled", "cancelExpired"}
    /\ supervisor' = "finalDrain"
    /\ regState' = "draining"
    /\ OnlySupervisor /\ UNCHANGED <<tokens, live, seqs, sink, marking, dispatched, outcome>>

(* Mutant: Flush starts while executions are still ending. *)
DrainReturnsEarly == regState' = "closed"

DrainReturns == Drained /\ regState' = "closed"

(* Drain returned nil: Flush forces a flush, dropped when one is already forced. *)
FinalDrained ==
    /\ GoSupervisor("finalDrain", "finalFlush")
    /\ DrainReturns
    /\ force' = TRUE
    /\ UNCHANGED <<tokens, live, seqs, sink, marking, dispatched, flusherVars, wake, runVars,
                   sender, received, homeDone, lifetimes, incarnation, outcome>>

(* releaseCancel follows Drain and Flush, whatever they returned. *)
FinalCancel(result) ==
    /\ supervisor' = "finalJoin"
    /\ outcome' = result
    /\ cancelled' = TRUE
    /\ UNCHANGED <<registryVars, flusherVars, signalVars, run, backingOff, timer, batch, current, failed,
                   sender, received, homeDone, lifetimes, incarnation>>

(* Flush polls idle. *)
Flushed == supervisor = "finalFlush" /\ (\A g \in Groups : ~Dirty(g)) /\ FinalCancel("flushed")

(* Drain or Flush exceeds the cancel bound. *)
FinalExpires == supervisor \in {"finalDrain", "finalFlush"} /\ FinalCancel("expired")

(* Run has returned, the client is closed, the deferred SetReleaseSink(nil) runs. *)
FinalJoin ==
    /\ GoSupervisor("finalJoin", "exit")
    /\ run = "off"
    /\ sender' = "closed"
    /\ sink' = FALSE
    /\ UNCHANGED <<regState, tokens, live, seqs, marking, dispatched, flusherVars, signalVars, runVars, received,
                   homeDone, lifetimes, incarnation, outcome>>

-----------------------------------------------------------------------------
Init ==
    /\ regState = "accepting" /\ tokens = 0 /\ live = Zero /\ seqs = Zero
    /\ sink = TRUE /\ marking = {} /\ dispatched = 0
    /\ latest = Zero /\ acked = Zero
    /\ waiters = NoTickets /\ closed = NoTickets
    /\ wake = FALSE /\ force = FALSE
    /\ run = "off" /\ cancelled = FALSE /\ backingOff = FALSE /\ timer = "due"
    /\ batch = Zero /\ current = NoGroup /\ failed = FALSE
    /\ sender = "nil"
    /\ received = Zero
    /\ supervisor = "start" /\ homeDone = FALSE /\ lifetimes = 0 /\ incarnation = 1 /\ outcome = "none"

Owner ==
    \/ ResolveDispatch
    \/ \E g \in Groups : EndExecution(g)
    \/ \E g \in Groups, seq \in 1..MaxDispatches : MarkDirty(g, seq)

Run ==
    \/ RunWake
    \/ RunForce
    \/ RunTimer
    \/ \E g \in Groups : SendOk(g) \/ SendFails(g)
    \/ RecordAck
    \/ FlushEnd
    \/ RunExit

(* What the supervisor does once the code is on its way, timeouts aside. *)
Supervise ==
    \/ StartLifetime
    \/ SettleFirst \/ CancelRelease \/ JoinRelease \/ Settle
    \/ KeepRegistry \/ AbandonRegistry \/ ReplaceRegistry
    \/ FinalDrained \/ Flushed \/ FinalJoin
    \/ GiveUp \/ LoopEnds \/ (homeDone /\ StopLifetime)

Next ==
    \/ BeginDispatch
    \/ Owner
    \/ Run
    \/ Supervise
    \/ CancelHome \/ LifetimeFails \/ StopLifetime
    \/ Abort \/ SettleFirstExpires \/ FinalExpires

Spec == Init /\ [][Next]_vars

(***************************************************************************)
(* Goroutines that can move do; requests end; the timer of Run fires.  A   *)
(* send that is tried again and again gets through in the end (strong      *)
(* fairness: the connection is not dead for ever), and of the branches of  *)
(* Run's select the timer's is taken in the end.  Nothing forces a         *)
(* connection to break or a bound to expire.                               *)
(***************************************************************************)
Fairness ==
    /\ WF_vars(Owner)
    /\ \A g \in Groups : \A seq \in 1..MaxDispatches : WF_vars(MarkDirty(g, seq))
    /\ WF_vars(RecordAck) /\ WF_vars(FlushEnd) /\ WF_vars(RunExit)
    /\ SF_vars(RunTimer)
    /\ \A g \in Groups : SF_vars(SendOk(g)) /\ WF_vars(SendOk(g) \/ SendFails(g))
    /\ WF_vars(Supervise)

FairSpec == Spec /\ Fairness

-----------------------------------------------------------------------------
(* Properties. *)

RegistryType ==
    /\ regState \in {"accepting", "draining", "closed"}
    /\ tokens \in Nat /\ dispatched \in 0..MaxDispatches
    /\ live \in [Groups -> Nat] /\ seqs \in [Groups -> Nat]
    /\ sink \in BOOLEAN
    /\ marking \subseteq Groups \X Nat
FlusherType ==
    /\ latest \in [Groups -> Nat] /\ acked \in [Groups -> Nat] /\ received \in [Groups -> Nat]
    /\ waiters \in [Groups -> SUBSET Nat] /\ closed \in [Groups -> SUBSET Nat]
    /\ wake \in BOOLEAN /\ force \in BOOLEAN
    /\ sender \in {"nil", "open", "closed"}
RunType ==
    /\ run \in {"off", "select", "sending", "acking"}
    /\ cancelled \in BOOLEAN /\ backingOff \in BOOLEAN /\ failed \in BOOLEAN
    /\ timer \in {"due", "delayed"}
    /\ batch \in [Groups -> Nat]
    /\ current \in Groups \cup {NoGroup}
    /\ run = "acking" => current \in Groups
SupervisorType ==
    /\ supervisor \in {"start", "running", "settleFirst", "cancel", "cancelSettled",
                       "cancelExpired", "join", "joinSettled", "joinExpired", "settle",
                       "unsettled", "decide", "unsafeDrain", "finalDrain", "finalFlush",
                       "finalJoin", "exit"}
    /\ homeDone \in BOOLEAN
    /\ lifetimes \in 0..MaxLifetimes
    /\ incarnation \in Nat
    /\ outcome \in {"none", "aborted", "flushed", "expired"}

(* Every variable keeps its type. *)
TypeOK == RegistryType /\ FlusherType /\ RunType /\ SupervisorType

(* Home never frees a slot whose execution has not ended, over reconnects,   *)
(* lost replies and replaced registries: what it was told is at most what    *)
(* the registry counted, and the flusher never takes as acknowledged what    *)
(* Home was not told.                                                        *)
NeverOverReleases ==
    \A g \in Groups : acked[g] <= received[g] /\ received[g] <= seqs[g]

(* A ticket closes only when Home has its sequence.                          *)
TicketsAreHonest ==
    \A g \in Groups : \A seq \in closed[g] : seq <= received[g]

(* No ticket is stranded: one that waits is above what was acknowledged and  *)
(* not above the latest, so the acknowledgement that closes it is still due. *)
NoStrandedTicket ==
    \A g \in Groups : \A seq \in waiters[g] : acked[g] < seq /\ seq <= latest[g]

(* Every ticket is settled by the acknowledgement of its sequence, and only  *)
(* by that.                                                                  *)
TicketsSettle == TypeOK /\ TicketsAreHonest /\ NoStrandedTicket

(* A subscriber that stops without an error has told Home of every release.  *)
CleanStop ==
    outcome = "flushed" => \A g \in Groups : received[g] = seqs[g]

(* A release reaches Home over any number of reconnects, unless the registry *)
(* is replaced or the subscriber ends.                                       *)
ReleaseArrives ==
    \A g \in Groups : \A n \in 1..MaxDispatches : \A i \in 1..(MaxLifetimes + 1) :
        (seqs[g] >= n /\ incarnation = i) ~>
            (received[g] >= n \/ incarnation # i \/ outcome # "none" \/ regState # "accepting")
=============================================================================
