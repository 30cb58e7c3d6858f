-------------------------- MODULE AutoRefreshProofs --------------------------
(***************************************************************************)
(* Theorems about the job registry of the auto-refresh loop, for any       *)
(* number of credentials, loops and workers and any size of their queues.  *)
(***************************************************************************)
EXTENDS AutoRefresh, TLAPS

-----------------------------------------------------------------------------
(* The inductive invariant. *)

(* A loop that has ended was cancelled; one that has not been installed and *)
(* filled has neither started its goroutines nor any work.                  *)
Lifecycle ==
    /\ \A l \in Loops : Ended(l) => l \in cancelled
    /\ \A l \in Loops : l > created => loop[l].pc = "none"
    /\ caller.pc \in {"rebuildRead", "rebuildStore"} => loop[created].pc = "none"
    /\ \A w \in Workers : loop[w[1]].pc = "none" => worker[w].pc = "none"

(* Credential c is in the hands of loop l: it is being sent, is in the      *)
(* queue, or a worker has it, and may have begun to refresh it.             *)
Sending(l, c) == loop[l].pc = "send" /\ loop[l].cred = c
InQueue(l, c) == \E i \in 1 .. Len(jobs[l]) : jobs[l][i].cred = c
Has(w, c) == Working(w) /\ worker[w].cred = c
Begun(w) == worker[w].pc \in {"refresh", "exec"}

(* The job of c is under way; loop l, at its end, is done with c. *)
Running(c, l) == Registered(c, l) /\ refreshJobs[c].running
GivenBack(l, c) == loop[l].pc = "gone" \/ (loop[l].pc = "releasing" /\ c \notin loop[l].todo)

(* A loop has at most one job for a credential in hand. *)
Distinct ==
    \A l \in Loops : \A i, j \in 1 .. Len(jobs[l]) : jobs[l][i].cred = jobs[l][j].cred => i = j
Single ==
    /\ \A l \in Loops, c \in Cred : Sending(l, c) => ~InQueue(l, c)
    /\ \A w \in Workers, c \in Cred : Has(w, c) => ~Sending(w[1], c) /\ ~InQueue(w[1], c)
    /\ \A v, w \in Workers, c \in Cred : Has(v, c) /\ Has(w, c) /\ v[1] = w[1] => v = w

(* While a loop runs, what it has in hand is registered; afterwards, what   *)
(* its workers refresh is.                                                  *)
InHand ==
    /\ \A l \in Loops, c \in Cred :
           Sending(l, c) \/ (InQueue(l, c) /\ ~Ended(l)) => Registered(c, l)
    /\ \A w \in Workers, c \in Cred : Has(w, c) /\ ~Ended(w[1]) => Registered(c, w[1])
    /\ \A w \in Workers, c \in Cred : Has(w, c) /\ Begun(w) => Running(c, w[1])

(* A registered job is in hand, a running one in a worker's, and a loop     *)
(* that ends has given back every job that is not running.                  *)
Kept ==
    \A c \in Cred, l \in Loops :
        /\ Registered(c, l) =>
               Sending(l, c) \/ InQueue(l, c) \/ \E w \in Workers : w[1] = l /\ Has(w, c)
        /\ Running(c, l) => \E w \in Workers : w[1] = l /\ Has(w, c)
        /\ Registered(c, l) /\ GivenBack(l, c) => Running(c, l)

-----------------------------------------------------------------------------
(* Type correctness, one part of the state at a time. *)

(* A call of StartAutoRefresh or StopAutoRefresh goes on to p. *)
LEMMA CallerMoves ==
    ASSUME NEW P, NEW S, NEW X, NEW r \in [pc : P, loop : S, seen : X], NEW p \in P, NEW k \in S
    PROVE  /\ [r EXCEPT !.pc = p, !.loop = k] \in [pc : P, loop : S, seen : X]
           /\ [r EXCEPT !.pc = p, !.loop = k].pc = p
  OBVIOUS

(* The calls of StartAutoRefresh and StopAutoRefresh keep their type. *)
LEMMA CallerTypeStep ==
    ASSUME TypeOK, Next PROVE CallerType'
<1> USE RefreshAssumption DEF TypeOK, CallerType, Loops
<1> DEFINE Pcs == {"idle", "cancelPrev", "cancel", "install", "rebuildRead", "rebuildStore"}
           Record == [pc : Pcs, loop : 0 .. created, seen : {None} \cup SUBSET Cred]
<1>1. ASSUME NEW p \in Pcs, NEW k \in 0 .. created, UNCHANGED created,
             caller' = [caller EXCEPT !.pc = p, !.loop = k]
      PROVE  caller' \in Record' /\ caller'.pc = p
  <2>1. caller \in Record OBVIOUS
  <2> HIDE DEF Pcs
  <2> QED BY <1>1, <2>1, CallerMoves
<1>2. CASE UNCHANGED callerVars BY <1>2 DEF callerVars
<1>3. CASE StartAutoRefresh
  <2>1. /\ created < MaxLoops /\ UNCHANGED <<cancelled, created>> /\ refreshLoop' = 0
        /\ caller' = [caller EXCEPT !.pc = "cancelPrev", !.loop = refreshLoop]
    BY <1>3 DEF StartAutoRefresh, ClearLoop
  <2>2. caller' \in Record' /\ caller'.pc = "cancelPrev" BY <1>1, <2>1
  <2> QED BY <2>1, <2>2
<1>4. CASE StopAutoRefresh
  <2>1. /\ UNCHANGED <<cancelled, created>> /\ refreshLoop' = 0
        /\ caller' = [caller EXCEPT !.pc = "cancel", !.loop = refreshLoop]
    BY <1>4 DEF StopAutoRefresh, ClearLoop
  <2>2. caller' \in Record' /\ caller'.pc = "cancel" BY <1>1, <2>1
  <2> QED BY <2>1, <2>2
<1>5. CASE CancelLoop
  <2>1. /\ UNCHANGED <<refreshLoop, created>> /\ cancelled' = cancelled \cup ({caller.loop} \ {0})
        /\ caller.pc \in {"cancelPrev", "cancel"}
        /\ caller' = [caller EXCEPT !.pc = IF caller.pc = "cancel" THEN "idle" ELSE "install",
                                    !.loop = 0]
    BY <1>5 DEF CancelLoop
  <2>2. caller.loop \in 0 .. created /\ 0 \in 0 .. created OBVIOUS
  <2>3. UNCHANGED created BY <2>1
  <2>4. cancelled' \subseteq Loops BY <2>1, <2>2
  <2>5. CASE caller.pc = "cancel"
    <3>1. caller' = [caller EXCEPT !.pc = "idle", !.loop = 0] BY <2>1, <2>5
    <3>2. caller' \in Record' /\ caller'.pc = "idle" BY <1>1, <2>2, <2>3, <3>1
    <3> QED BY <2>1, <2>4, <3>2
  <2>6. CASE caller.pc = "cancelPrev"
    <3>1. caller' = [caller EXCEPT !.pc = "install", !.loop = 0] BY <2>1, <2>6
    <3>2. caller' \in Record' /\ caller'.pc = "install" BY <1>1, <2>2, <2>3, <3>1
    <3> QED BY <2>1, <2>4, <2>6, <3>2
  <2> QED BY <2>1, <2>5, <2>6
<1>6. CASE InstallLoop
  <2>1. /\ UNCHANGED cancelled /\ refreshLoop' = created + 1 /\ created' = created + 1
        /\ created < MaxLoops /\ caller' = [caller EXCEPT !.pc = "rebuildRead"]
    BY <1>6 DEF InstallLoop
  <2>2. created + 1 \in 0 .. MaxLoops /\ caller.loop \in 0 .. created + 1 BY <2>1
  <2> QED BY <2>1, <2>2
<1>7. CASE RebuildRead BY <1>7 DEF RebuildRead
<1>8. CASE RebuildStore BY <1>8 DEF RebuildStore
<1>9. UNCHANGED callerVars \/ CallerSteps \/ StartAutoRefresh \/ StopAutoRefresh
  BY ZenonT(60) DEF Next, Calls, Changing, Register, Update, MarkResult, Remove, Changes, RegisterExecutor,
         Proceed, Notify, TimePasses, MarkerPasses, LoopSteps, LoopDone, Dispatch, LoopWake,
         popDue, HandleRead, handleDueAuth, RetryRead, RetryAct, ApplyAct, Reschedule, SendJob,
         SendRefused, drainDirty, ApplyRead, releaseQueuedJobs, ReleaseJob, WorkerSteps, TakeJob,
         WorkerQuits, beginRefreshJob, RefreshStarts, RefreshCancelled, RefreshFails,
         RefreshSucceeds, Work, FinishJob
<1> QED BY <1>2, <1>3, <1>4, <1>5, <1>6, <1>7, <1>8, <1>9 DEF CallerSteps

(* New notifications are for credentials and for a loop that was installed. *)
LEMMA Noted ==
    ASSUME CallerType, ScheduleType, NEW who, NEW kind, NEW C \in SUBSET Cred,
           notes' = notes \cup Notes(who, kind, C)
    PROVE  \A n \in notes' : n.cred \in Cred /\ n.loop \in 0 .. MaxLoops
  BY RefreshAssumption DEF Notes, CallerType, ScheduleType

(* Notifications under way name a credential and a loop. *)
LEMMA NotesStep ==
    ASSUME TypeOK, Next PROVE \A n \in notes' : n.cred \in Cred /\ n.loop \in 0 .. MaxLoops
<1> DEFINE Good == \A n \in notes' : n.cred \in Cred /\ n.loop \in 0 .. MaxLoops
<1>1. ASSUME NEW who, NEW kind, NEW C \in SUBSET Cred, notes' = notes \cup Notes(who, kind, C)
      PROVE  Good
  BY <1>1, Noted DEF TypeOK
<1>2. ASSUME notes' \subseteq notes PROVE Good BY <1>2 DEF TypeOK, ScheduleType
<1> SUFFICES Good OBVIOUS
<1> HIDE DEF Good
<1> USE DEF TypeOK
<1>3. ASSUME NEW c \in Cred, Register(c) \/ Update(c) \/ MarkResult(c) \/ Remove(c) PROVE Good
  <2>1. ASSUME NEW new, NEW kind, Changes(c, new, kind) PROVE Good
    BY <1>1, <2>1 DEF Changes
  <2> QED BY <1>3, <2>1 DEF Register, Update, MarkResult, Remove
<1>4. CASE RegisterExecutor BY <1>1, <1>4 DEF RegisterExecutor
<1>5. ASSUME NEW n \in notes, Notify(n) PROVE Good BY <1>2, <1>5 DEF Notify
<1>6. ASSUME NEW l \in Loops, handleDueAuth(l) PROVE Good
  BY <1>1, <1>2, <1>6 DEF handleDueAuth, markRefreshPending, LoopType, Knows
<1>7. ASSUME NEW l \in Loops, SendJob(l) PROVE Good
  BY <1>1, <1>2, <1>7 DEF SendJob, finishRefreshJob, LoopType, Knows
<1>8. ASSUME NEW l \in Loops, ReleaseJob(l) PROVE Good
  BY <1>1, <1>2, <1>8 DEF ReleaseJob, finishRefreshJob, LoopType, Goroutine
<1>9. ASSUME NEW w \in Workers, RefreshCancelled(w) \/ RefreshFails(w) \/ RefreshSucceeds(w)
      PROVE  Good
  <2>1. worker[w].cred \in Cred
    BY <1>9 DEF RefreshCancelled, RefreshFails, RefreshSucceeds, Work, WorkerType, Working, HasJob
  <2>2. ASSUME NEW new, NEW kind, NEW C \in SUBSET Cred, Sets(w, worker[w].cred, new, C, kind)
        PROVE  Good
    BY <1>1, <2>2 DEF Sets
  <2>3. CASE RefreshCancelled(w) BY <2>1, <2>2, <2>3 DEF RefreshCancelled
  <2>4. CASE RefreshFails(w) BY <1>2, <2>1, <2>2, <2>4 DEF RefreshFails
  <2>5. CASE RefreshSucceeds(w) BY <1>2, <2>1, <2>2, <2>5 DEF RefreshSucceeds
  <2> QED BY <1>9, <2>3, <2>4, <2>5
<1>10. ASSUME NEW w \in Workers, FinishJob(w) PROVE Good
  BY <1>1, <1>2, <1>10 DEF FinishJob, finishRefreshJob, WorkerType, Working, HasJob
<1>11. ASSUME NEW l \in Loops, LoopSteps(l), ~handleDueAuth(l), ~SendJob(l), ~ReleaseJob(l)
       PROVE  Good
  BY <1>2, <1>11
     DEF LoopSteps, LoopDone, Dispatch, LoopWake, popDue, HandleRead, RetryRead, RetryAct,
         ApplyAct, Reschedule, SendRefused, drainDirty, ApplyRead, releaseQueuedJobs
<1>12. ASSUME NEW w \in Workers, TakeJob(w) \/ WorkerQuits(w) \/ beginRefreshJob(w) \/ RefreshStarts(w)
       PROVE  Good
  BY <1>2, <1>12 DEF TakeJob, WorkerQuits, beginRefreshJob, RefreshStarts
<1>13. CASE StartAutoRefresh \/ StopAutoRefresh \/ CallerSteps \/ TimePasses
  BY <1>2, <1>13 DEF StartAutoRefresh, StopAutoRefresh, ClearLoop, CallerSteps, CancelLoop,
                     InstallLoop, RebuildRead, RebuildStore, TimePasses, MarkerPasses
<1> QED BY <1>3, <1>4, <1>5, <1>6, <1>7, <1>8, <1>9, <1>10, <1>11, <1>12, <1>13
        DEF Next, Calls, Changing, Proceed, WorkerSteps

(* The heap and the dirty set of a loop hold credentials. *)
LEMMA ScheduleMoves ==
    ASSUME ScheduleType, NEW l \in Loops, NEW c \in Cred,
           queueReschedule(l, c) \/ remove(l, c) \/ upsert(l, c)
    PROVE  /\ heap' \in [Loops -> SUBSET Cred] /\ dirty' \in [Loops -> SUBSET Cred]
           /\ wake' \in [Loops -> BOOLEAN] /\ forgotten' \subseteq Cred
  BY ZenonT(60) DEF ScheduleType, queueReschedule, remove, upsert

(* The heap, the dirty set and the wake channel keep their types. *)
LEMMA ScheduleTypeStep == ASSUME TypeOK, Next PROVE ScheduleType'
<1> DEFINE Good == /\ heap' \in [Loops -> SUBSET Cred] /\ dirty' \in [Loops -> SUBSET Cred]
                   /\ wake' \in [Loops -> BOOLEAN] /\ forgotten' \subseteq Cred
<1> SUFFICES Good BY NotesStep DEF ScheduleType
<1>1. CASE UNCHANGED scheduleVars BY <1>1 DEF TypeOK, ScheduleType, scheduleVars
<1>2. ASSUME NEW l \in Loops, NEW c \in Cred,
             queueReschedule(l, c) \/ remove(l, c) \/ upsert(l, c)
      PROVE  Good
  BY <1>2, ScheduleMoves DEF TypeOK
<1>3. ASSUME NEW n \in notes, Notify(n) PROVE Good
  <2>1. n.cred \in Cred /\ n.loop \in 0 .. MaxLoops /\ refreshLoop \in 0 .. MaxLoops
    BY RefreshAssumption DEF TypeOK, ScheduleType, CallerType
  <2>2. \A l \in {n.loop, refreshLoop} : l = 0 \/ l \in Loops
    BY <2>1, RefreshAssumption DEF Loops
  <2> HIDE DEF Good
  <2> QED BY <1>1, <1>2, <1>3, <2>1, <2>2 DEF Notify
<1>4. ASSUME NEW l \in Loops,
             handleDueAuth(l) \/ RetryAct(l) \/ ApplyAct(l) \/ SendRefused(l)
      PROVE  Good
  <2>1. loop[l].cred \in Cred BY <1>4 DEF TypeOK, LoopType, Knows, handleDueAuth, RetryAct, ApplyAct, SendRefused
  <2> HIDE DEF Good
  <2> QED BY <1>1, <1>2, <1>4, <2>1 DEF handleDueAuth, RetryAct, ApplyAct, SendRefused, Reschedule
<1>5. CASE InstallLoop BY <1>5 DEF InstallLoop, TypeOK, ScheduleType
<1>6. CASE RebuildStore BY <1>6 DEF RebuildStore, TypeOK, ScheduleType, CallerType
<1>7. ASSUME NEW l \in Loops, LoopDone(l) \/ LoopWake(l) \/ drainDirty(l) PROVE Good
  BY <1>7 DEF LoopDone, LoopWake, drainDirty, TypeOK, ScheduleType
<1>8. ASSUME NEW l \in Loops, NEW due \in SUBSET Cred, popDue(l, due) PROVE Good
  BY <1>8 DEF popDue, TypeOK, ScheduleType
<1>9. UNCHANGED scheduleVars \/ (\E n \in notes : Notify(n)) \/ InstallLoop \/ RebuildStore
      \/ \E l \in Loops : \/ handleDueAuth(l) \/ RetryAct(l) \/ ApplyAct(l) \/ SendRefused(l)
                          \/ LoopDone(l) \/ LoopWake(l) \/ drainDirty(l)
                          \/ \E due \in SUBSET Cred : popDue(l, due)
  BY ZenonT(60) DEF Next, Calls, Changing, Register, Update, MarkResult, Remove, Changes, RegisterExecutor,
         Proceed, StartAutoRefresh, StopAutoRefresh, ClearLoop, CallerSteps, CancelLoop,
         RebuildRead, TimePasses, MarkerPasses, LoopSteps, HandleRead, RetryRead, SendJob,
         ApplyRead, releaseQueuedJobs, ReleaseJob, WorkerSteps, TakeJob, WorkerQuits,
         beginRefreshJob, RefreshStarts, RefreshCancelled, RefreshFails, RefreshSucceeds, Work,
         FinishJob
<1> HIDE DEF Good
<1> QED BY <1>1, <1>3, <1>4, <1>5, <1>6, <1>7, <1>8, <1>9

(* A marker is set in a credential's record. *)
LEMMA MarkerMoves ==
    ASSUME ManagerType, NEW c \in Cred, NEW nra \in {"none", "pending", "wait"}
    PROVE  [auth EXCEPT ![c].nra = nra] \in [Cred -> Auth]
  BY DEF ManagerType, Auth

(* Finishing a job keeps the credentials and the registry well typed. *)
LEMMA FinishTypes ==
    ASSUME ManagerType, NEW c \in Cred, NEW who, NEW nra \in {"none", "pending", "wait"},
           finishRefreshJob(who, c, nra)
    PROVE  auth' \in [Cred -> Auth] /\ refreshJobs' \in [Cred -> Job \cup {None}]
<1>1. auth' \in [Cred -> Auth] BY MarkerMoves DEF finishRefreshJob, ManagerType
<1>2. refreshJobs' \in [Cred -> Job \cup {None}] BY DEF finishRefreshJob, ManagerType
<1> QED BY <1>1, <1>2

(* The credentials and the job registry keep their types. *)
LEMMA ManagerTypeStep ==
    ASSUME TypeOK, Next PROVE ManagerType'
<1> DEFINE Good == auth' \in [Cred -> Auth] /\ refreshJobs' \in [Cred -> Job \cup {None}]
<1> USE DEF TypeOK
<1>1. ASSUME UNCHANGED <<auth, refreshJobs>> PROVE Good BY <1>1 DEF ManagerType
<1>2. ASSUME NEW c \in Cred, NEW new \in Auth, auth' = [auth EXCEPT ![c] = new],
             UNCHANGED refreshJobs
      PROVE  Good
  BY <1>2 DEF ManagerType
<1>3. ASSUME NEW c \in Cred, Register(c) \/ Update(c) \/ MarkResult(c) \/ Remove(c) PROVE Good
  <2>1. auth[c] \in Auth BY DEF ManagerType
  <2>2. ASSUME NEW new \in Auth, NEW kind, Changes(c, new, kind) PROVE Good
    BY <1>2, <2>2 DEF Changes
  <2> HIDE DEF Good
  <2>3. CASE Register(c)
    <3>1. auth[c].epoch \in Nat BY <2>1 DEF Auth
    <3>2. [live |-> TRUE, epoch |-> auth[c].epoch + 1, terminal |-> FALSE, need |-> TRUE,
           nra |-> "none"] \in Auth
      BY <3>1 DEF Auth
    <3> QED BY <2>2, <2>3, <3>2 DEF Register
  <2>4. CASE Update(c)
    <3>1. ASSUME NEW terminal \in BOOLEAN, NEW nra \in {auth[c].nra, "none", "wait"}
          PROVE  [auth[c] EXCEPT !.terminal = terminal, !.need = TRUE,
                                 !.nra = IF terminal THEN "none" ELSE nra] \in Auth
      BY <2>1, <3>1 DEF Auth
    <3> QED BY <2>2, <2>4, <3>1 DEF Update
  <2>5. CASE MarkResult(c)
    <3>1. ASSUME NEW nra \in {"none", "wait", auth[c].nra}
          PROVE  [auth[c] EXCEPT !.need = TRUE, !.nra = nra] \in Auth
      BY <2>1, <3>1 DEF Auth
    <3> QED BY <2>2, <2>5, <3>1 DEF MarkResult
  <2>6. CASE Remove(c)
    <3>1. auth[c].epoch + 1 \in Nat BY <2>1 DEF Auth
    <3>2. [auth[c] EXCEPT !.live = FALSE, !.epoch = @ + 1] \in Auth BY <2>1, <3>1 DEF Auth
    <3> QED BY <2>2, <2>6, <3>2 DEF Remove
  <2> QED BY <1>3, <2>3, <2>4, <2>5, <2>6
<1>4. ASSUME NEW c \in Cred, MarkerPasses(c) PROVE Good
  BY <1>4, MarkerMoves DEF MarkerPasses, ManagerType
<1>5. ASSUME NEW l \in Loops, handleDueAuth(l) PROVE Good
  <2>1. loop[l].cred \in Cred /\ loop[l].seen \in Due BY <1>5 DEF LoopType, Knows, handleDueAuth
  <2>2. loop[l].seen.epoch \in Nat BY <2>1 DEF Due
  <2>3. ASSUME NEW c \in Cred, NEW epoch \in Nat, markRefreshPending(l, c, epoch) PROVE Good
    <3>1. auth' \in [Cred -> Auth] BY <2>3, MarkerMoves DEF markRefreshPending
    <3>2. [loop |-> l, epoch |-> epoch, running |-> FALSE] \in Job BY DEF Job
    <3> QED BY <2>3, <3>1, <3>2 DEF markRefreshPending, ManagerType
  <2> HIDE DEF Good
  <2> QED BY <1>1, <1>5, <2>1, <2>2, <2>3 DEF handleDueAuth
<1>6. ASSUME NEW l \in Loops, SendJob(l) PROVE Good
  <2>1. loop[l].cred \in Cred BY <1>6 DEF LoopType, Knows, SendJob
  <2> QED BY <1>1, <1>6, <2>1, FinishTypes DEF SendJob
<1>7. ASSUME NEW l \in Loops, ReleaseJob(l) PROVE Good
  <2>1. loop[l].todo \subseteq Cred BY DEF LoopType, Goroutine
  <2> QED BY <1>1, <1>7, <2>1, FinishTypes DEF ReleaseJob
<1>8. ASSUME NEW w \in Workers, FinishJob(w) PROVE Good
  <2>1. worker[w].cred \in Cred BY <1>8 DEF WorkerType, Working, HasJob, FinishJob
  <2> QED BY <1>1, <1>8, <2>1, FinishTypes DEF FinishJob
<1>9. ASSUME NEW w \in Workers, beginRefreshJob(w) PROVE Good
  <2>1. worker[w].cred \in Cred BY <1>9 DEF WorkerType, Working, HasJob, beginRefreshJob, Work
  <2>2. CASE UNCHANGED refreshJobs BY <1>1, <1>9, <2>2 DEF beginRefreshJob
  <2>3. CASE /\ Registered(worker[w].cred, w[1])
             /\ refreshJobs' = [refreshJobs EXCEPT ![worker[w].cred].running = TRUE]
    <3>1. refreshJobs[worker[w].cred] \in Job BY <2>1, <2>3 DEF Registered, ManagerType
    <3>2. [refreshJobs[worker[w].cred] EXCEPT !.running = TRUE] \in Job BY <3>1 DEF Job
    <3> QED BY <1>9, <2>1, <2>3, <3>2 DEF beginRefreshJob, ManagerType
  <2> QED BY <1>9, <2>2, <2>3 DEF beginRefreshJob
<1>10. ASSUME NEW w \in Workers, RefreshCancelled(w) \/ RefreshFails(w) \/ RefreshSucceeds(w)
       PROVE  Good
  <2>1. worker[w].cred \in Cred
    BY <1>10 DEF RefreshCancelled, RefreshFails, RefreshSucceeds, Work, WorkerType, Working, HasJob
  <2>2. ASSUME NEW new \in Auth, NEW kind, NEW C, Sets(w, worker[w].cred, new, C, kind)
        PROVE  Good
    BY <1>2, <2>1, <2>2 DEF Sets
  <2> DEFINE Old == auth[worker[w].cred]
  <2>3. Old \in Auth BY <2>1 DEF ManagerType
  <2>4. /\ [Old EXCEPT !.nra = "wait", !.terminal = FALSE] \in Auth
        /\ [Old EXCEPT !.nra = "none", !.terminal = TRUE] \in Auth
        /\ [Old EXCEPT !.need = FALSE, !.nra = "none", !.terminal = FALSE] \in Auth
    <3> HIDE DEF Old
    <3> QED BY <2>3 DEF Auth
  <2>5. ASSUME NEW marks \in BOOLEAN, NEW terminal \in {FALSE, Old.terminal}
        PROVE  [Old EXCEPT !.nra = IF marks THEN "wait" ELSE @, !.terminal = terminal] \in Auth
    <3> HIDE DEF Old
    <3> QED BY <2>3, <2>5 DEF Auth
  <2> HIDE DEF Good
  <2>6. CASE RefreshCancelled(w) BY <2>2, <2>6, <2>5 DEF RefreshCancelled
  <2>7. CASE RefreshFails(w) BY <1>1, <2>2, <2>4, <2>7 DEF RefreshFails
  <2>8. CASE RefreshSucceeds(w) BY <1>1, <2>2, <2>4, <2>8 DEF RefreshSucceeds
  <2> QED BY <1>10, <2>6, <2>7, <2>8
<1>11. UNCHANGED <<auth, refreshJobs>> \/ Changing \/ TimePasses
       \/ (\E l \in Loops : handleDueAuth(l) \/ SendJob(l) \/ ReleaseJob(l))
       \/ \E w \in Workers : \/ FinishJob(w) \/ beginRefreshJob(w)
                             \/ RefreshCancelled(w) \/ RefreshFails(w) \/ RefreshSucceeds(w)
  BY ZenonT(60) DEF Next, Calls, RegisterExecutor, Proceed, Notify, managerVars, StartAutoRefresh,
         StopAutoRefresh, ClearLoop, CallerSteps, CancelLoop, InstallLoop, RebuildRead,
         RebuildStore, LoopSteps, LoopDone, LoopWake, popDue, HandleRead, RetryRead, RetryAct,
         ApplyAct, Reschedule, SendRefused, drainDirty, ApplyRead, releaseQueuedJobs, WorkerSteps,
         TakeJob, WorkerQuits, RefreshStarts
<1>12. exec' \in BOOLEAN
  BY ZenonT(60) DEF Next, Calls, Changing, Register, Update, MarkResult, Remove, Changes, RegisterExecutor,
         Proceed, Notify, managerVars, StartAutoRefresh, StopAutoRefresh, ClearLoop, CallerSteps,
         CancelLoop, InstallLoop, RebuildRead, RebuildStore, LoopSteps, LoopDone, Dispatch,
         LoopWake, popDue, HandleRead, handleDueAuth, RetryRead, RetryAct, ApplyAct, Reschedule,
         SendJob, SendRefused, drainDirty, ApplyRead, releaseQueuedJobs, ReleaseJob, WorkerSteps,
         TakeJob, WorkerQuits, beginRefreshJob, RefreshStarts, RefreshCancelled, RefreshFails,
         RefreshSucceeds, Work, FinishJob, TimePasses, MarkerPasses, ManagerType
<1>13. Good
  <2> HIDE DEF Good
  <2> QED BY <1>1, <1>3, <1>4, <1>5, <1>6, <1>7, <1>8, <1>9, <1>10, <1>11 DEF Changing, TimePasses
<1> QED BY <1>12, <1>13 DEF ManagerType

(* The record of a dispatching goroutine is replaced by another one. *)
LEMMA LoopMoves ==
    ASSUME LoopType, NEW l \in Loops, NEW r \in Goroutine, Knows(r),
           loop' = [loop EXCEPT ![l] = r]
    PROVE  LoopType'
<1>1. loop' \in [Loops -> Goroutine] BY DEF LoopType
<1>2. \A k \in Loops : loop'[k] = IF k = l THEN r ELSE loop[k] BY DEF LoopType
<1>3. \A k \in Loops : Knows(loop'[k]) BY <1>2 DEF LoopType
<1> QED BY <1>1, <1>3 DEF LoopType, Knows

(* Done with a credential, it has nothing in hand. *)
LEMMA NextOfType ==
    ASSUME LoopType, NEW l \in Loops, NEW c
    PROVE  NextOf(l, c) \in Goroutine /\ Knows(NextOf(l, c))
           /\ NextOf(l, c).pc \in {"select", "apply", "drain", "handle"}
<1> DEFINE rest == loop[l].todo \ {c}
<1>1. loop[l] \in Goroutine /\ None \in Seen BY DEF LoopType, Seen
<1>2. rest \in SUBSET Cred BY <1>1 DEF Goroutine
<1>3. PICK p \in {"select", "apply", "drain", "handle"} :
          NextOf(l, c) = [loop[l] EXCEPT !.todo = rest, !.cred = None, !.seen = None, !.pc = p]
  BY DEF NextOf
<1> HIDE DEF rest
<1>4. NextOf(l, c) \in Goroutine /\ NextOf(l, c).pc = p BY <1>1, <1>2, <1>3 DEF Goroutine
<1> QED BY <1>4 DEF Knows

(* After drainDirty it has the dirty credentials to look at. *)
LEMMA DrainedType ==
    ASSUME LoopType, ScheduleType, NEW l \in Loops
    PROVE  Drained(l) \in Goroutine /\ Knows(Drained(l)) /\ Drained(l).pc \in {"select", "apply"}
<1>1. loop[l] \in Goroutine /\ None \in Seen BY DEF LoopType, Seen
<1>2. dirty[l] \in SUBSET Cred BY DEF ScheduleType
<1>3. PICK p \in {"select", "apply"} :
          Drained(l) = [loop[l] EXCEPT !.todo = dirty[l], !.cred = None, !.seen = None, !.pc = p]
  BY DEF Drained
<1>4. Drained(l) \in Goroutine /\ Drained(l).pc = p BY <1>1, <1>2, <1>3 DEF Goroutine
<1> QED BY <1>4 DEF Knows

(* The dispatching goroutines keep their type. *)
LEMMA LoopTypeStep ==
    ASSUME TypeOK, Next PROVE LoopType'
<1> USE DEF TypeOK
<1>1. ASSUME NEW l \in Loops, NEW r \in Goroutine, Knows(r), loop' = [loop EXCEPT ![l] = r]
      PROVE  LoopType'
  BY <1>1, LoopMoves
<1>2. CASE UNCHANGED loop BY <1>2 DEF LoopType, Knows
<1>3. ASSUME NEW l \in Loops, NEW c, loop' = [loop EXCEPT ![l] = NextOf(l, c)] PROVE LoopType'
  BY <1>1, <1>3, NextOfType
<1>4. ASSUME NEW l \in Loops, NEW p \in {"select", "release"}, loop' = [loop EXCEPT ![l].pc = p]
      PROVE  LoopType'
  <2>1. loop[l] \in Goroutine BY DEF LoopType
  <2>2. [loop[l] EXCEPT !.pc = p] \in Goroutine /\ Knows([loop[l] EXCEPT !.pc = p])
    BY <1>4, <2>1 DEF Goroutine, Knows
  <2>3. loop' = [loop EXCEPT ![l] = [loop[l] EXCEPT !.pc = p]] BY <1>4
  <2> QED BY <1>1, <2>2, <2>3
<1>5. ASSUME NEW l \in Loops, NEW p \in {"handle", "drain", "releasing", "gone"},
              NEW t \in SUBSET Cred, loop' = [loop EXCEPT ![l].pc = p, ![l].todo = t]
       PROVE  LoopType'
  <2>1. loop[l] \in Goroutine BY DEF LoopType
  <2>2. /\ [loop[l] EXCEPT !.pc = p, !.todo = t] \in Goroutine
        /\ Knows([loop[l] EXCEPT !.pc = p, !.todo = t])
    BY <1>5, <2>1 DEF Goroutine, Knows
  <2>3. loop' = [loop EXCEPT ![l] = [loop[l] EXCEPT !.pc = p, !.todo = t]] BY <1>5
  <2> QED BY <1>1, <2>2, <2>3
<1>6. CASE RebuildStore
  <2>1. created \in Loops BY <1>6, RefreshAssumption DEF RebuildStore, CallerType, Loops
  <2>2. loop' = [loop EXCEPT ![created].pc = "select"] BY <1>6 DEF RebuildStore
  <2> QED BY <1>4, <2>1, <2>2
<1>7. ASSUME NEW l \in Loops, LoopDone(l) PROVE LoopType'
  <2>1. loop' = [loop EXCEPT ![l].pc = "release"] BY <1>7 DEF LoopDone, Dispatch
  <2> QED BY <1>4, <2>1
<1>8. ASSUME NEW l \in Loops, LoopWake(l) \/ drainDirty(l) PROVE LoopType'
  BY <1>1, <1>8, DrainedType DEF LoopWake, drainDirty
<1>9. ASSUME NEW l \in Loops, NEW due \in SUBSET Cred, popDue(l, due) PROVE LoopType'
  <2>1. loop' = [loop EXCEPT ![l].pc = IF due = {} THEN "drain" ELSE "handle", ![l].todo = due]
    BY <1>9 DEF popDue
  <2>2. CASE due = {}
    <3>1. loop' = [loop EXCEPT ![l].pc = "drain", ![l].todo = due] BY <2>1, <2>2
    <3> QED BY <1>5, <3>1
  <2>3. CASE due # {}
    <3>1. loop' = [loop EXCEPT ![l].pc = "handle", ![l].todo = due] BY <2>1, <2>3
    <3> QED BY <1>5, <3>1
  <2> QED BY <2>2, <2>3
<1>10. ASSUME NEW l \in Loops, HandleRead(l) PROVE LoopType'
  <2>1. PICK c \in loop[l].todo :
            loop' = [loop EXCEPT ![l] =
               IF ~auth[c].live THEN NextOf(l, c)
               ELSE [loop[l] EXCEPT !.pc = "act", !.cred = c,
                              !.seen = [next |-> nextRefreshCheckAt(c), should |-> shouldRefresh(c),
                                        exec |-> exec, epoch |-> auth[c].epoch]]]
    BY <1>10 DEF HandleRead
  <2>2. loop[l] \in Goroutine /\ c \in Cred BY DEF LoopType, Goroutine
  <2> DEFINE seen == [next |-> nextRefreshCheckAt(c), should |-> shouldRefresh(c),
                      exec |-> exec, epoch |-> auth[c].epoch]
  <2>3. auth[c].live \in BOOLEAN /\ auth[c].terminal \in BOOLEAN /\ auth[c].need \in BOOLEAN
        /\ auth[c].epoch \in Nat /\ exec \in BOOLEAN
    BY <2>2 DEF ManagerType, Auth
  <2>4. seen \in Due BY <2>3 DEF Due, nextRefreshCheckAt, shouldRefresh, Schedulable
  <2>5. seen \in Seen BY <2>4 DEF Seen
  <2> HIDE DEF seen
  <2>6. /\ [loop[l] EXCEPT !.pc = "act", !.cred = c, !.seen = seen] \in Goroutine
        /\ Knows([loop[l] EXCEPT !.pc = "act", !.cred = c, !.seen = seen])
    BY <2>2, <2>4, <2>5 DEF Goroutine, Knows
  <2>7. CASE auth[c].live
    <3>1. loop' = [loop EXCEPT ![l] = [loop[l] EXCEPT !.pc = "act", !.cred = c, !.seen = seen]]
      BY <2>1, <2>7 DEF seen
    <3> QED BY <1>1, <2>6, <3>1
  <2>8. CASE ~auth[c].live BY <1>3, <2>1, <2>8
  <2> QED BY <2>7, <2>8
<1>11. ASSUME NEW l \in Loops, NEW p \in {"send", "retry", "retryAct"}, NEW s \in Seen,
              p = "send" => s \in [epoch : Nat], loop[l].cred \in Cred,
              loop' = [loop EXCEPT ![l].pc = p, ![l].seen = s]
       PROVE  LoopType'
  <2>1. loop[l] \in Goroutine BY DEF LoopType
  <2>2. /\ [loop[l] EXCEPT !.pc = p, !.seen = s] \in Goroutine
        /\ Knows([loop[l] EXCEPT !.pc = p, !.seen = s])
    BY <1>11, <2>1 DEF Goroutine, Knows
  <2>3. loop' = [loop EXCEPT ![l] = [loop[l] EXCEPT !.pc = p, !.seen = s]] BY <1>11
  <2> QED BY <1>1, <2>2, <2>3
<1>12. ASSUME NEW l \in Loops, handleDueAuth(l) PROVE LoopType'
  <2>1. loop[l].cred \in Cred /\ loop[l].seen \in Due BY <1>12 DEF LoopType, Knows, handleDueAuth
  <2>2. [epoch |-> loop[l].seen.epoch] \in [epoch : Nat] BY <2>1 DEF Due
  <2>3. [epoch |-> loop[l].seen.epoch] \in Seen /\ None \in Seen BY <2>2 DEF Seen
  <2>4. \/ loop' = [loop EXCEPT ![l] = NextOf(l, loop[l].cred)]
        \/ loop' = [loop EXCEPT ![l].pc = "send", ![l].seen = [epoch |-> loop[l].seen.epoch]]
        \/ loop' = [loop EXCEPT ![l].pc = "retry", ![l].seen = None]
    BY <1>12 DEF handleDueAuth
  <2> QED BY <1>3, <1>11, <2>1, <2>2, <2>3, <2>4
<1>13. ASSUME NEW l \in Loops, RetryRead(l) PROVE LoopType'
  <2>1. loop[l].cred \in Cred BY <1>13 DEF LoopType, Knows, RetryRead
  <2>2. nextRefreshCheckAt(loop[l].cred) \in BOOLEAN
    BY <2>1 DEF ManagerType, Auth, nextRefreshCheckAt, Schedulable
  <2>3. [next |-> nextRefreshCheckAt(loop[l].cred)] \in [next : BOOLEAN] BY <2>2
  <2>4. [next |-> nextRefreshCheckAt(loop[l].cred)] \in Seen BY <2>3 DEF Seen
  <2>5. loop' = [loop EXCEPT ![l].pc = "retryAct",
                            ![l].seen = [next |-> nextRefreshCheckAt(loop[l].cred)]]
    BY <1>13 DEF RetryRead
  <2> QED BY <1>11, <2>1, <2>4, <2>5
<1>14. ASSUME NEW l \in Loops, RetryAct(l) \/ ApplyAct(l) \/ SendRefused(l) PROVE LoopType'
  BY <1>3, <1>14 DEF RetryAct, ApplyAct, Reschedule, SendRefused
<1>15. ASSUME NEW l \in Loops, SendJob(l) PROVE LoopType'
  <2>1. loop[l] \in Goroutine /\ loop[l].cred \in Cred BY <1>15 DEF LoopType, Knows, SendJob
  <2>2. /\ [loop[l] EXCEPT !.pc = "refused"] \in Goroutine
        /\ Knows([loop[l] EXCEPT !.pc = "refused"])
    BY <2>1 DEF Goroutine, Knows
  <2>3. \/ loop' = [loop EXCEPT ![l] = NextOf(l, loop[l].cred)]
        \/ loop' = [loop EXCEPT ![l] = [loop[l] EXCEPT !.pc = "refused"]]
    BY <1>15 DEF SendJob
  <2> QED BY <1>1, <1>3, <2>2, <2>3
<1>16. ASSUME NEW l \in Loops, ApplyRead(l) PROVE LoopType'
  <2>1. PICK c \in loop[l].todo :
            loop' = [loop EXCEPT ![l].pc = "applyAct", ![l].cred = c,
                                 ![l].seen = [next |-> nextRefreshCheckAt(c)]]
    BY <1>16 DEF ApplyRead
  <2>2. loop[l] \in Goroutine /\ c \in Cred BY DEF LoopType, Goroutine
  <2> DEFINE seen == [next |-> nextRefreshCheckAt(c)]
  <2>3. nextRefreshCheckAt(c) \in BOOLEAN
    BY <2>2 DEF ManagerType, Auth, nextRefreshCheckAt, Schedulable
  <2>4. seen \in [next : BOOLEAN] BY <2>3
  <2>5. seen \in Seen BY <2>4 DEF Seen
  <2>6. loop' = [loop EXCEPT ![l] = [loop[l] EXCEPT !.pc = "applyAct", !.cred = c, !.seen = seen]]
    BY <2>1
  <2> HIDE DEF seen
  <2>7. /\ [loop[l] EXCEPT !.pc = "applyAct", !.cred = c, !.seen = seen] \in Goroutine
        /\ Knows([loop[l] EXCEPT !.pc = "applyAct", !.cred = c, !.seen = seen])
    BY <2>2, <2>5 DEF Goroutine, Knows
  <2> QED BY <1>1, <2>6, <2>7
<1>17. ASSUME NEW l \in Loops, releaseQueuedJobs(l) PROVE LoopType'
  <2> DEFINE queued == {c \in Cred : Queued(c, l)}
  <2>1. queued \in SUBSET Cred OBVIOUS
  <2>2. loop' = [loop EXCEPT ![l].todo = queued,
                             ![l].pc = IF queued = {} THEN "gone" ELSE "releasing"]
    BY <1>17 DEF releaseQueuedJobs
  <2> HIDE DEF queued
  <2>3. CASE queued = {}
    <3>1. loop' = [loop EXCEPT ![l].pc = "gone", ![l].todo = queued] BY <2>2, <2>3
    <3> QED BY <1>5, <2>1, <3>1
  <2>4. CASE queued # {}
    <3>1. loop' = [loop EXCEPT ![l].pc = "releasing", ![l].todo = queued] BY <2>2, <2>4
    <3> QED BY <1>5, <2>1, <3>1
  <2> QED BY <2>3, <2>4
<1>18. ASSUME NEW l \in Loops, ReleaseJob(l) PROVE LoopType'
  <2>1. loop[l] \in Goroutine /\ loop[l].pc = "releasing" BY <1>18 DEF LoopType, ReleaseJob
  <2>2. PICK c \in loop[l].todo :
            loop' = [loop EXCEPT ![l].todo = @ \ {c},
                                 ![l].pc = IF loop[l].todo = {c} THEN "gone" ELSE @]
    BY <1>18 DEF ReleaseJob
  <2>3. loop[l].todo \ {c} \in SUBSET Cred BY <2>1 DEF Goroutine
  <2>4. loop' = [loop EXCEPT ![l] = [loop[l] EXCEPT !.todo = loop[l].todo \ {c},
                    !.pc = IF loop[l].todo = {c} THEN "gone" ELSE "releasing"]]
    BY <2>1, <2>2
  <2> DEFINE new == [loop[l] EXCEPT !.todo = loop[l].todo \ {c},
                         !.pc = IF loop[l].todo = {c} THEN "gone" ELSE "releasing"]
  <2>5. new \in Goroutine /\ Knows(new) BY <2>1, <2>3, ZenonT(60) DEF Goroutine, Knows
  <2> QED BY <1>1, <2>4, <2>5
<1>19. UNCHANGED loop \/ RebuildStore \/ \E l \in Loops : LoopSteps(l)
  BY DEF Next, Calls, Changing, Register, Update, MarkResult, Remove, Changes, RegisterExecutor,
         Proceed, Notify, StartAutoRefresh, StopAutoRefresh, ClearLoop, CallerSteps, CancelLoop,
         InstallLoop, RebuildRead, TimePasses, MarkerPasses, WorkerSteps, TakeJob, WorkerQuits,
         beginRefreshJob, RefreshStarts, RefreshCancelled, RefreshFails, RefreshSucceeds, Work,
         FinishJob
<1> QED BY <1>2, <1>6, <1>7, <1>8, <1>9, <1>10, <1>12, <1>13, <1>14, <1>15, <1>16, <1>17, <1>18, <1>19
        DEF LoopSteps

(* The queues hold jobs, and no more than their capacity. *)
LEMMA JobTypeStep ==
    ASSUME TypeOK, Next PROVE JobType'
<1> USE DEF TypeOK
<1>1. CASE UNCHANGED jobs BY <1>1 DEF JobType
<1>2. ASSUME NEW l \in Loops, SendJob(l) PROVE JobType'
  <2>1. loop[l].cred \in Cred /\ loop[l].seen \in [epoch : Nat]
    BY <1>2 DEF LoopType, Knows, SendJob
  <2> DEFINE job == [cred |-> loop[l].cred, epoch |-> loop[l].seen.epoch]
  <2>2. job \in [cred : Cred, epoch : Nat] BY <2>1
  <2> HIDE DEF job
  <2>3. CASE Len(jobs[l]) < JobBuffer /\ jobs' = [jobs EXCEPT ![l] = Append(@, job)]
    <3>1. jobs[l] \in Seq([cred : Cred, epoch : Nat]) BY DEF JobType
    <3>2. Append(jobs[l], job) \in Seq([cred : Cred, epoch : Nat]) BY <2>2, <3>1
    <3>3. Len(Append(jobs[l], job)) = Len(jobs[l]) + 1 /\ Len(jobs[l]) \in Nat
      BY DEF JobType
    <3>4. Len(Append(jobs[l], job)) <= JobBuffer BY <2>3, <3>3, RefreshAssumption
    <3> QED BY <2>3, <3>2, <3>4 DEF JobType
  <2> QED BY <1>1, <1>2, <2>3 DEF SendJob, job
<1>3. ASSUME NEW w \in Workers, TakeJob(w) PROVE JobType'
  <2>1. w[1] \in Loops BY DEF Workers
  <2>2. jobs[w[1]] \in Seq([cred : Cred, epoch : Nat]) /\ jobs[w[1]] # <<>>
    BY <1>3, <2>1 DEF TakeJob, JobType
  <2>3. Tail(jobs[w[1]]) \in Seq([cred : Cred, epoch : Nat]) /\ Len(jobs[w[1]]) \in Nat
        /\ Len(Tail(jobs[w[1]])) = Len(jobs[w[1]]) - 1
    BY <2>2
  <2>4. Len(Tail(jobs[w[1]])) <= JobBuffer BY <2>1, <2>3, RefreshAssumption, SMTT(40) DEF JobType
  <2> QED BY <1>3, <2>1, <2>3, <2>4 DEF TakeJob, JobType
<1>4. UNCHANGED jobs \/ (\E l \in Loops : SendJob(l)) \/ \E w \in Workers : TakeJob(w)
  BY ZenonT(60) DEF Next, Calls, Changing, Register, Update, MarkResult, Remove, Changes, RegisterExecutor,
         Proceed, Notify, StartAutoRefresh, StopAutoRefresh, ClearLoop, CallerSteps, CancelLoop,
         InstallLoop, RebuildRead, RebuildStore, TimePasses, MarkerPasses, LoopSteps, LoopDone,
         LoopWake, popDue, HandleRead, handleDueAuth, RetryRead, RetryAct, ApplyAct, Reschedule,
         SendRefused, drainDirty, ApplyRead, releaseQueuedJobs, ReleaseJob, WorkerSteps,
         WorkerQuits, beginRefreshJob, RefreshStarts, RefreshCancelled, RefreshFails,
         RefreshSucceeds, Sets, FinishJob
<1> QED BY <1>1, <1>2, <1>3, <1>4

(* The first of a queue, and what is left of it. *)
LEMMA HeadOf ==
    ASSUME NEW S, NEW q \in Seq(S), q # <<>>
    PROVE  /\ Head(q) \in S /\ Head(q) = q[1] /\ Len(q) \in Nat \ {0}
           /\ Len(Tail(q)) = Len(q) - 1
           /\ \A i \in 1 .. Len(q) - 1 : Tail(q)[i] = q[i + 1]
  OBVIOUS

(* The workers keep their type: one with a job has a credential. *)
LEMMA WorkerTypeStep ==
    ASSUME TypeOK, Next PROVE WorkerType'
<1> USE DEF TypeOK
<1> DEFINE Record == [pc : HasJob \cup {"none", "idle", "gone"}, cred : Cred \cup {None}, epoch : Nat]
<1>1. CASE UNCHANGED worker BY <1>1 DEF WorkerType, Working
<1>2. ASSUME NEW w \in Workers, NEW r \in Record, r.pc \in HasJob => r.cred \in Cred,
             worker' = [worker EXCEPT ![w] = r]
      PROVE  WorkerType'
  <2>1. worker' \in [Workers -> Record] BY <1>2 DEF WorkerType
  <2>2. \A v \in Workers : worker'[v] = IF v = w THEN r ELSE worker[v] BY <1>2 DEF WorkerType
  <2>3. \A v \in Workers : worker'[v].pc \in HasJob => worker'[v].cred \in Cred
    BY <1>2, <2>2 DEF WorkerType, Working
  <2> QED BY <2>1, <2>3 DEF WorkerType, Working
<1>3. ASSUME NEW w \in Workers, NEW p \in {"refresh", "exec", "finish"}, NEW q \in HasJob,
             Work(w, q, p)
      PROVE  WorkerType'
  <2>1. worker[w] \in Record /\ worker[w].cred \in Cred
    BY <1>3 DEF WorkerType, Working, Work
  <2>2. worker' = [worker EXCEPT ![w] = [worker[w] EXCEPT !.pc = p]] BY <1>3 DEF Work
  <2>3. [worker[w] EXCEPT !.pc = p] \in Record /\ [worker[w] EXCEPT !.pc = p].cred \in Cred
    BY <1>3, <2>1 DEF HasJob
  <2> QED BY <1>2, <2>2, <2>3
<1>4. ASSUME NEW w \in Workers, WorkerQuits(w) PROVE WorkerType'
  <2>1. worker[w] \in Record BY DEF WorkerType
  <2>2. worker' = [worker EXCEPT ![w] = [worker[w] EXCEPT !.pc = "gone"]]
    BY <1>4 DEF WorkerQuits, Work
  <2>3. [worker[w] EXCEPT !.pc = "gone"] \in Record /\ [worker[w] EXCEPT !.pc = "gone"].pc \notin HasJob
    BY <2>1 DEF HasJob
  <2> QED BY <1>2, <2>2, <2>3
<1>5. ASSUME NEW w \in Workers, TakeJob(w) PROVE WorkerType'
  <2>1. w[1] \in Loops BY DEF Workers
  <2>2. jobs[w[1]] \in Seq([cred : Cred, epoch : Nat]) /\ jobs[w[1]] # <<>>
    BY <1>5, <2>1 DEF TakeJob, JobType
  <2>3. Head(jobs[w[1]]) \in [cred : Cred, epoch : Nat] BY <2>2, HeadOf
  <2> DEFINE job == Head(jobs[w[1]])
             new == [pc |-> "begin", cred |-> job.cred, epoch |-> job.epoch]
  <2>4. worker' = [worker EXCEPT ![w] = new] BY <1>5 DEF TakeJob
  <2>5. job \in [cred : Cred, epoch : Nat] BY <2>3
  <2> HIDE DEF job
  <2>6. new \in Record /\ new.cred \in Cred BY <2>5 DEF HasJob
  <2> QED BY <1>2, <2>4, <2>6
<1>6. ASSUME NEW w \in Workers, beginRefreshJob(w) \/ RefreshStarts(w) \/ RefreshCancelled(w)
                                \/ RefreshFails(w) \/ RefreshSucceeds(w)
      PROVE  WorkerType'
  <2>1. \E p \in {"refresh", "exec", "finish"}, q \in HasJob : Work(w, q, p)
    BY <1>6 DEF beginRefreshJob, RefreshStarts, RefreshCancelled, RefreshFails, RefreshSucceeds,
                HasJob
  <2> QED BY <1>3, <2>1
<1>7. ASSUME NEW w \in Workers, FinishJob(w) PROVE WorkerType'
  <2>1. worker' = [worker EXCEPT ![w] = [pc |-> "idle", cred |-> None, epoch |-> 0]]
    BY <1>7 DEF FinishJob
  <2>2. [pc |-> "idle", cred |-> None, epoch |-> 0] \in Record /\ "idle" \notin HasJob
    BY DEF HasJob
  <2> QED BY <1>2, <2>1, <2>2
<1>8. CASE RebuildStore
  <2>1. \A w \in Workers : worker'[w] = IF w[1] = created THEN [worker[w] EXCEPT !.pc = "idle"]
                                        ELSE worker[w]
    BY <1>8 DEF RebuildStore
  <2>2. \A w \in Workers : worker[w] \in Record BY DEF WorkerType
  <2>3. \A w \in Workers : [worker[w] EXCEPT !.pc = "idle"] \in Record
                           /\ [worker[w] EXCEPT !.pc = "idle"].pc \notin HasJob
    BY <2>2 DEF HasJob
  <2>4. \A w \in Workers : worker'[w] \in Record /\ (worker'[w].pc \in HasJob => worker'[w].cred \in Cred)
    BY <2>1, <2>2, <2>3 DEF WorkerType, Working
  <2>5. worker' \in [Workers -> Record]
    <3>1. worker' = [w \in Workers |-> worker'[w]] BY <1>8 DEF RebuildStore
    <3> QED BY <2>4, <3>1
  <2> QED BY <2>4, <2>5 DEF WorkerType, Working
<1>9. UNCHANGED worker \/ RebuildStore \/ \E w \in Workers : WorkerSteps(w)
  BY ZenonT(60) DEF Next, Calls, Changing, Register, Update, MarkResult, Remove, Changes, RegisterExecutor,
         Proceed, Notify, StartAutoRefresh, StopAutoRefresh, ClearLoop, CallerSteps, CancelLoop,
         InstallLoop, RebuildRead, TimePasses, MarkerPasses, LoopSteps, LoopDone, Dispatch,
         LoopWake, popDue, HandleRead, handleDueAuth, RetryRead, RetryAct, ApplyAct, Reschedule,
         SendJob, SendRefused, drainDirty, ApplyRead, releaseQueuedJobs, ReleaseJob
<1> QED BY <1>1, <1>4, <1>5, <1>6, <1>7, <1>8, <1>9 DEF WorkerSteps

(* The initial states have their types. *)
LEMMA InitType == Init => TypeOK
<1> SUFFICES ASSUME Init PROVE TypeOK OBVIOUS
<1> USE RefreshAssumption DEF Init
<1>1. ManagerType BY DEF ManagerType, Auth
<1>2. CallerType BY DEF CallerType, Loops
<1>3. ScheduleType BY DEF ScheduleType
<1>4. LoopType
  <2>1. [pc |-> "none", todo |-> {}, cred |-> None, seen |-> None] \in Goroutine
    BY DEF Goroutine, Seen
  <2> QED BY <2>1 DEF LoopType, Knows
<1>5. JobType BY DEF JobType
<1>6. WorkerType BY DEF WorkerType, Working, HasJob
<1> QED BY <1>1, <1>2, <1>3, <1>4, <1>5, <1>6 DEF TypeOK

(* Every part of the state of the loops keeps its type, and a loop's queue  *)
(* its capacity.                                                            *)
THEOREM TypeCorrect == Spec => []TypeOK
<1>1. TypeOK /\ [Next]_vars => TypeOK'
  <2> SUFFICES ASSUME TypeOK, [Next]_vars PROVE TypeOK' OBVIOUS
  <2>1. CASE Next
    BY <2>1, ManagerTypeStep, CallerTypeStep, ScheduleTypeStep, LoopTypeStep, JobTypeStep,
       WorkerTypeStep DEF TypeOK
  <2>2. CASE UNCHANGED vars
    BY <2>2 DEF vars, managerVars, callerVars, scheduleVars, TypeOK, ManagerType, CallerType,
                ScheduleType, LoopType, JobType, WorkerType, Knows, Working
  <2> QED BY <2>1, <2>2
<1> QED BY <1>1, InitType, PTL DEF Spec

-----------------------------------------------------------------------------
(* The registered jobs.  A step is looked at for what it does to the        *)
(* holders of jobs; most steps do nothing to them.                          *)

(* What the terms above exclude of each other. *)
LEMMA Views ==
    ASSUME TypeOK
    PROVE  /\ \A l \in Loops, c, d \in Cred : Sending(l, c) /\ Sending(l, d) => c = d
           /\ \A w \in Workers, c, d \in Cred : Has(w, c) /\ Has(w, d) => c = d
           /\ \A c \in Cred, k, l \in Loops : Registered(c, k) /\ Registered(c, l) => k = l
           /\ \A l \in Loops, c \in Cred : Sending(l, c) => ~Ended(l)
           /\ \A l \in Loops, c \in Cred : GivenBack(l, c) => Ended(l)
           /\ \A l \in Loops, c \in Cred : Running(c, l) => Registered(c, l)
           /\ \A w \in Workers : w[1] \in Loops
  BY DEF Sending, Has, Registered, Ended, GivenBack, Running, Workers

(* Nothing is done to the holders of jobs. *)
SameRegistry ==
    /\ \A c \in Cred, l \in Loops : Registered(c, l)' = Registered(c, l)
    /\ \A c \in Cred, l \in Loops : Running(c, l)' = Running(c, l)
SameLoops ==
    /\ \A l \in Loops, c \in Cred : Sending(l, c)' = Sending(l, c)
    /\ \A l \in Loops, c \in Cred : GivenBack(l, c)' = GivenBack(l, c)
    /\ \A l \in Loops : Ended(l)' = Ended(l)
SameQueues == \A l \in Loops, c \in Cred : InQueue(l, c)' = InQueue(l, c)
SameWorkers ==
    /\ \A w \in Workers, c \in Cred : Has(w, c)' = Has(w, c)
    /\ \A w \in Workers : Begun(w)' = Begun(w)

(* Each part is left alone with its variable. *)
LEMMA RegistryView ==
    ASSUME UNCHANGED refreshJobs PROVE SameRegistry
  BY DEF SameRegistry, Registered, Running

(* The queues are left alone with their variable. *)
LEMMA QueuesView ==
    ASSUME UNCHANGED jobs PROVE SameQueues
  BY DEF SameQueues, InQueue

(* The workers are left alone with their variable. *)
LEMMA WorkersView ==
    ASSUME UNCHANGED worker PROVE SameWorkers
  BY DEF SameWorkers, Has, Begun, Working

(* A loop moves between states in which it neither sends nor has ended. *)
Plain == {"none", "select", "apply", "applyAct", "handle", "act", "retry", "retryAct", "refused",
          "drain"}

(* Such a move does nothing to the holders. *)
LEMMA LoopsView ==
    ASSUME TypeOK, NEW l \in Loops, NEW r, r.pc \in Plain, loop[l].pc \in Plain,
           loop' = [loop EXCEPT ![l] = r]
    PROVE  SameLoops
<1>1. \A k \in Loops : loop'[k] = IF k = l THEN r ELSE loop[k] BY DEF TypeOK, LoopType
<1>2. loop'[l].pc \notin {"send", "release", "releasing", "gone"}
      /\ loop[l].pc \notin {"send", "release", "releasing", "gone"}
  BY <1>1 DEF Plain
<1> QED BY <1>1, <1>2 DEF SameLoops, Sending, GivenBack, Ended

(* A step that does nothing to the holders keeps the invariant; a worker may be done refreshing. *)
LEMMA SameKeeps ==
    ASSUME TypeOK, Single, InHand, Kept, SameRegistry, SameLoops, SameQueues,
           \A w \in Workers, c \in Cred : Has(w, c)' = Has(w, c),
           \A w \in Workers : Begun(w)' => Begun(w)
    PROVE  Single' /\ InHand' /\ Kept'
<1> USE DEF SameRegistry, SameLoops, SameQueues
<1>1. \A w \in Workers : w[1] \in Loops BY Views
<1>2. Single' BY <1>1 DEF Single
<1>3. InHand' BY <1>1 DEF InHand
<1>4. Kept' BY <1>1 DEF Kept
<1> QED BY <1>2, <1>3, <1>4

(* Distinctness is a matter of the queues alone. *)
LEMMA DistinctKeeps == ASSUME UNCHANGED jobs, Distinct PROVE Distinct'
  BY DEF Distinct

(* The loop leaves its select for good. *)
LEMMA DoneKeeps ==
    ASSUME TypeOK, Single, InHand, Kept, NEW l \in Loops, LoopDone(l)
    PROVE  Single' /\ InHand' /\ Kept'
<1>1. SameRegistry /\ SameQueues /\ SameWorkers
  BY RegistryView, QueuesView, WorkersView DEF LoopDone, Dispatch
<1>2. \A k \in Loops : loop'[k] = IF k = l THEN [loop[l] EXCEPT !.pc = "release"] ELSE loop[k]
  BY DEF LoopDone, Dispatch, TypeOK, LoopType
<1>3. loop[l].pc = "select" /\ loop'[l].pc = "release"
  BY <1>2 DEF LoopDone, Dispatch, TypeOK, LoopType, Goroutine
<1>4. /\ \A k \in Loops, c \in Cred : Sending(k, c)' = Sending(k, c)
      /\ \A k \in Loops, c \in Cred : GivenBack(k, c)' = GivenBack(k, c)
      /\ \A k \in Loops : Ended(k) => Ended(k)'
  BY <1>2, <1>3 DEF Sending, GivenBack, Ended
<1>5. \A w \in Workers : w[1] \in Loops BY Views
<1> USE DEF SameRegistry, SameQueues, SameWorkers
<1>6. Single' BY <1>1, <1>4, <1>5 DEF Single
<1>7. InHand' BY <1>1, <1>4, <1>5 DEF InHand
<1>8. Kept' BY <1>1, <1>4, <1>5 DEF Kept
<1> QED BY <1>6, <1>7, <1>8

(* What markRefreshPending registers is a job. *)
LEMMA MarkIsJob ==
    ASSUME NEW l \in Loops, NEW epoch \in Nat
    PROVE  [loop |-> l, epoch |-> epoch, running |-> FALSE] # None
<1>1. [loop |-> l, epoch |-> epoch, running |-> FALSE] \in Job BY DEF Job
<1> QED BY <1>1, RefreshAssumption

(* A queue and the one appended to it. *)
LEMMA LastOf ==
    ASSUME NEW S, NEW q \in Seq(S), NEW x \in S
    PROVE  /\ Len(Append(q, x)) = Len(q) + 1 /\ Len(q) \in Nat
           /\ \A i \in 1 .. Len(q) : Append(q, x)[i] = q[i]
           /\ Append(q, x)[Len(q) + 1] = x
  OBVIOUS

(* A job is registered for c and the loop is going to send it. *)
LEMMA MarkKeeps ==
    ASSUME TypeOK, Single, InHand, Kept, NEW l \in Loops, NEW c \in Cred, NEW epoch \in Nat, NEW s,
           loop[l].pc = "act", loop[l].cred = c, refreshJobs[c] = None,
           markRefreshPending(l, c, epoch), UNCHANGED <<jobs, worker>>,
           loop' = [loop EXCEPT ![l].pc = "send", ![l].seen = s]
    PROVE  Single' /\ InHand' /\ Kept'
<1>1. SameQueues /\ SameWorkers BY QueuesView, WorkersView
<1>2. /\ \A k \in Loops : k # l => loop'[k] = loop[k]
      /\ loop'[l].pc = "send" /\ loop'[l].cred = c
  BY DEF TypeOK, LoopType, Goroutine
<1>3. /\ \A k \in Loops, d \in Cred : Sending(k, d)' <=> Sending(k, d) \/ (k = l /\ d = c)
      /\ \A k \in Loops, d \in Cred : GivenBack(k, d)' = GivenBack(k, d)
      /\ \A k \in Loops : Ended(k)' <=> Ended(k)
      /\ ~Ended(l) /\ \A d \in Cred : ~GivenBack(l, d)
  <2>1. \A k \in Loops, d \in Cred : Sending(k, d)' <=> Sending(k, d) \/ (k = l /\ d = c)
    BY <1>2 DEF Sending
  <2>2. \A k \in Loops, d \in Cred : GivenBack(k, d)' = GivenBack(k, d) BY <1>2 DEF GivenBack
  <2>3. ~Ended(l) /\ ~Ended(l)' /\ \A d \in Cred : ~GivenBack(l, d) BY <1>2 DEF Ended, GivenBack
  <2>4. \A k \in Loops : Ended(k)' <=> Ended(k)
    <3>1. \A k \in Loops : k # l => (Ended(k)' <=> Ended(k)) BY <1>2 DEF Ended
    <3> QED BY <2>3, <3>1
  <2> QED BY <2>1, <2>2, <2>4, <2>3
<1>4. [loop |-> l, epoch |-> epoch, running |-> FALSE] # None
  BY MarkIsJob
<1>5. /\ \A d \in Cred : d # c => refreshJobs'[d] = refreshJobs[d]
      /\ refreshJobs'[c] # None /\ refreshJobs'[c].loop = l /\ ~refreshJobs'[c].running
  BY <1>4 DEF markRefreshPending, TypeOK, ManagerType
<1>6. /\ \A d \in Cred, k \in Loops : Registered(d, k)' <=> Registered(d, k) \/ (k = l /\ d = c)
      /\ \A d \in Cred, k \in Loops : Running(d, k)' <=> Running(d, k)
      /\ \A k \in Loops : ~Registered(c, k) /\ ~Running(c, k)
  BY <1>5 DEF Registered, Running
<1>7. \A w \in Workers : w[1] \in Loops BY Views
<1>8. ~InQueue(l, c) /\ \A w \in Workers : w[1] = l => ~Has(w, c)
  BY <1>3, <1>6 DEF InHand
<1> USE DEF SameQueues, SameWorkers
<1>9. Single' BY <1>1, <1>3, <1>7, <1>8 DEF Single
<1>10. InHand' BY <1>1, <1>3, <1>6, <1>7 DEF InHand
<1>11. Kept' BY <1>1, <1>3, <1>6, <1>7 DEF Kept
<1> QED BY <1>9, <1>10, <1>11

(* The registered job of c is taken out of the registry. *)
LEMMA FinishView ==
    ASSUME TypeOK, NEW c \in Cred, NEW who, NEW at, finishRefreshJob(who, c, at)
    PROVE  /\ \A d \in Cred, k \in Loops : Registered(d, k)' <=> Registered(d, k) /\ d # c
           /\ \A d \in Cred, k \in Loops : Running(d, k)' <=> Running(d, k) /\ d # c
<1>1. \A d \in Cred : refreshJobs'[d] = IF d = c THEN None ELSE refreshJobs[d]
  BY DEF finishRefreshJob, TypeOK, ManagerType
<1> QED BY <1>1 DEF Registered, Running

(* The job is in the queue. *)
LEMMA SentKeeps ==
    ASSUME TypeOK, Distinct, Single, InHand, Kept, NEW l \in Loops, NEW c \in Cred, NEW epoch \in Nat,
           loop[l].pc = "send", loop[l].cred = c,
           jobs' = [jobs EXCEPT ![l] = Append(@, [cred |-> c, epoch |-> epoch])],
           loop' = [loop EXCEPT ![l] = NextOf(l, c)], UNCHANGED <<refreshJobs, worker>>
    PROVE  Distinct' /\ Single' /\ InHand' /\ Kept'
<1>1. SameRegistry /\ SameWorkers BY RegistryView, WorkersView
<1>2. /\ \A k \in Loops : k # l => loop'[k] = loop[k]
      /\ loop'[l].pc \in {"select", "apply", "drain", "handle"}
  BY NextOfType DEF TypeOK, LoopType
<1>3. /\ \A k \in Loops, d \in Cred : Sending(k, d)' <=> Sending(k, d) /\ k # l
      /\ \A k \in Loops, d \in Cred : GivenBack(k, d)' = GivenBack(k, d)
      /\ \A k \in Loops : Ended(k)' = Ended(k)
      /\ Sending(l, c) /\ \A d \in Cred : Sending(l, d) => d = c
  BY <1>2 DEF Sending, GivenBack, Ended
<1> DEFINE job == [cred |-> c, epoch |-> epoch]
<1>4. jobs[l] \in Seq([cred : Cred, epoch : Nat]) BY DEF TypeOK, JobType
<1>5. job \in [cred : Cred, epoch : Nat] /\ job.cred = c OBVIOUS
<1> HIDE DEF job
<1>6. /\ Len(Append(jobs[l], job)) = Len(jobs[l]) + 1 /\ Len(jobs[l]) \in Nat
      /\ \A i \in 1 .. Len(jobs[l]) : Append(jobs[l], job)[i] = jobs[l][i]
      /\ Append(jobs[l], job)[Len(jobs[l]) + 1] = job
  BY <1>4, <1>5, LastOf
<1>7. \A k \in Loops : jobs'[k] = IF k = l THEN Append(jobs[l], job) ELSE jobs[k]
  BY DEF TypeOK, JobType, job
<1>8. \A k \in Loops, d \in Cred : InQueue(k, d)' <=> InQueue(k, d) \/ (k = l /\ d = c)
  <2> DEFINE n == Len(jobs[l])
  <2>1. Len(jobs'[l]) = n + 1 /\ n \in Nat /\ jobs'[l][n + 1].cred = c
        /\ \A i \in 1 .. n : jobs'[l][i] = jobs[l][i]
    BY <1>5, <1>6, <1>7, ZenonT(60)
  <2>2. ASSUME NEW d \in Cred PROVE InQueue(l, d)' <=> InQueue(l, d) \/ d = c
    <3>1. InQueue(l, d)' <=> \E i \in 1 .. n + 1 : jobs'[l][i].cred = d BY <2>1 DEF InQueue
    <3>2. InQueue(l, d) <=> \E i \in 1 .. n : jobs'[l][i].cred = d BY <2>1 DEF InQueue
    <3> HIDE DEF n
    <3> QED BY <2>1, <3>1, <3>2
  <2>3. \A k \in Loops, d \in Cred : k # l => InQueue(k, d)' = InQueue(k, d)
    BY <1>7 DEF InQueue
  <2> QED BY <2>2, <2>3
<1>9. ~InQueue(l, c) BY <1>3 DEF Single
<1>10. Distinct'
  <2> DEFINE n == Len(jobs[l])
  <2>1. Len(jobs'[l]) = n + 1 /\ n \in Nat /\ jobs'[l][n + 1].cred = c
        /\ \A i \in 1 .. n : jobs'[l][i] = jobs[l][i]
    BY <1>5, <1>6, <1>7
  <2>2. \A i \in 1 .. n : jobs[l][i].cred # c BY <1>9 DEF InQueue
  <2>3. \A i, j \in 1 .. n : jobs[l][i].cred = jobs[l][j].cred => i = j BY DEF Distinct
  <2>4. \A i, j \in 1 .. n + 1 : jobs'[l][i].cred = jobs'[l][j].cred => i = j
    <3> HIDE DEF n
    <3> QED BY <2>1, <2>2, <2>3
  <2>5. \A k \in Loops : k # l => jobs'[k] = jobs[k] BY <1>7
  <2> QED BY <2>1, <2>4, <2>5, SMTT(40) DEF Distinct
<1>11. \A w \in Workers : w[1] \in Loops BY Views
<1> USE DEF SameRegistry, SameWorkers
<1>12. Single' BY <1>1, <1>3, <1>8, <1>11 DEF Single
<1>13. InHand' BY <1>1, <1>3, <1>8, <1>11 DEF InHand
<1>14. Kept' BY <1>1, <1>3, <1>8, <1>11 DEF Kept
<1> QED BY <1>10, <1>12, <1>13, <1>14

(* The queue is full, or the loop is being stopped: the job is given back. *)
LEMMA RefusedKeeps ==
    ASSUME TypeOK, Single, InHand, Kept, NEW l \in Loops, NEW c \in Cred,
           loop[l].pc = "send", loop[l].cred = c,
           IF Registered(c, l) THEN finishRefreshJob(Dispatcher(l), c, "wait")
                               ELSE UNCHANGED <<auth, refreshJobs, notes>>,
           loop' = [loop EXCEPT ![l].pc = "refused"], UNCHANGED <<jobs, worker>>
    PROVE  Single' /\ InHand' /\ Kept'
<1>1. SameQueues /\ SameWorkers BY QueuesView, WorkersView
<1>2. /\ \A k \in Loops : k # l => loop'[k] = loop[k]
      /\ loop'[l].pc = "refused"
  BY DEF TypeOK, LoopType, Goroutine
<1>3. /\ \A k \in Loops, d \in Cred : Sending(k, d)' <=> Sending(k, d) /\ k # l
      /\ \A k \in Loops, d \in Cred : GivenBack(k, d)' = GivenBack(k, d)
      /\ \A k \in Loops : Ended(k)' = Ended(k)
      /\ Sending(l, c) /\ \A d \in Cred : Sending(l, d) => d = c
  BY <1>2 DEF Sending, GivenBack, Ended
<1>4. Registered(c, l) BY <1>3 DEF InHand
<1>5. /\ \A d \in Cred, k \in Loops : Registered(d, k)' <=> Registered(d, k) /\ d # c
      /\ \A d \in Cred, k \in Loops : Running(d, k)' <=> Running(d, k) /\ d # c
  BY <1>4, FinishView
<1>6. \A k \in Loops : Registered(c, k) \/ Running(c, k) => k = l BY <1>4, Views
<1>7. \A w \in Workers : w[1] \in Loops BY Views
<1>8. ~InQueue(l, c) /\ \A w \in Workers : w[1] = l => ~Has(w, c) BY <1>3 DEF Single
<1> USE DEF SameQueues, SameWorkers
<1>9. Single' BY <1>1, <1>3, <1>7 DEF Single
<1>10. InHand' BY <1>1, <1>3, <1>5, <1>6, <1>7, <1>8 DEF InHand
<1>11. Kept' BY <1>1, <1>3, <1>5, <1>7 DEF Kept
<1> QED BY <1>9, <1>10, <1>11

(* releaseQueuedJobs lists what is to be given back. *)
LEMMA ListedKeeps ==
    ASSUME TypeOK, Single, InHand, Kept, NEW l \in Loops, releaseQueuedJobs(l)
    PROVE  Single' /\ InHand' /\ Kept'
<1>1. SameRegistry /\ SameQueues /\ SameWorkers
  BY RegistryView, QueuesView, WorkersView DEF releaseQueuedJobs, managerVars
<1> DEFINE queued == {c \in Cred : Queued(c, l)}
<1>2. /\ \A k \in Loops : k # l => loop'[k] = loop[k]
      /\ loop[l].pc = "release" /\ loop'[l].todo = queued
      /\ loop'[l].pc = IF queued = {} THEN "gone" ELSE "releasing"
  BY DEF releaseQueuedJobs, TypeOK, LoopType, Goroutine
<1>3. \A c \in Cred : GivenBack(l, c)' => ~Queued(c, l)
  BY <1>2 DEF GivenBack
<1> HIDE DEF queued
<1>4. loop'[l].pc \in {"gone", "releasing"} BY <1>2
<1>5. /\ \A k \in Loops, c \in Cred : Sending(k, c)' = Sending(k, c)
      /\ \A k \in Loops, c \in Cred : k # l => GivenBack(k, c)' = GivenBack(k, c)
      /\ \A k \in Loops : Ended(k)' = Ended(k)
  <2>1. \A c \in Cred : ~Sending(l, c) /\ ~Sending(l, c)' BY <1>2, <1>4 DEF Sending
  <2>2. Ended(l) /\ Ended(l)' BY <1>2, <1>4 DEF Ended
  <2> QED BY <1>2, <2>1, <2>2 DEF Sending, GivenBack, Ended
<1>6. \A w \in Workers : w[1] \in Loops BY Views
<1> USE DEF SameRegistry, SameQueues, SameWorkers
<1>7. Single' BY <1>1, <1>5, <1>6 DEF Single
<1>8. InHand' BY <1>1, <1>5, <1>6 DEF InHand
<1>9. Kept'
  <2>1. \A c \in Cred : Registered(c, l) /\ GivenBack(l, c)' => Running(c, l)
    BY <1>3 DEF Queued, Running
  <2> QED BY <1>1, <1>5, <1>6, <2>1 DEF Kept
<1> QED BY <1>7, <1>8, <1>9

(* A listed job is given back, unless it has begun in the meantime. *)
LEMMA ReleasedKeeps ==
    ASSUME TypeOK, Single, InHand, Kept, NEW l \in Loops, ReleaseJob(l)
    PROVE  Single' /\ InHand' /\ Kept'
<1>1. SameQueues /\ SameWorkers BY QueuesView, WorkersView DEF ReleaseJob
<1>2. PICK c \in loop[l].todo :
          /\ IF Queued(c, l) THEN finishRefreshJob(Dispatcher(l), c, "none")
             ELSE UNCHANGED <<auth, refreshJobs, notes>>
          /\ loop' = [loop EXCEPT ![l].todo = @ \ {c},
                                  ![l].pc = IF loop[l].todo = {c} THEN "gone" ELSE @]
  BY DEF ReleaseJob
<1>3. /\ loop[l].pc = "releasing" /\ c \in Cred
      /\ \A k \in Loops : k # l => loop'[k] = loop[k]
      /\ loop'[l].todo = loop[l].todo \ {c}
      /\ loop'[l].pc = IF loop[l].todo = {c} THEN "gone" ELSE "releasing"
  BY <1>2 DEF ReleaseJob, TypeOK, LoopType, Goroutine
<1>4. \A d \in Cred : GivenBack(l, d)' => GivenBack(l, d) \/ d = c
  BY <1>3 DEF GivenBack
<1>5. loop'[l].pc \in {"gone", "releasing"} BY <1>3
<1>6. /\ \A k \in Loops, d \in Cred : Sending(k, d)' = Sending(k, d)
      /\ \A k \in Loops, d \in Cred : k # l => GivenBack(k, d)' = GivenBack(k, d)
      /\ \A k \in Loops : Ended(k)' = Ended(k)
      /\ Ended(l) /\ \A d \in Cred : ~Sending(l, d)
  <2>1. \A d \in Cred : ~Sending(l, d) /\ ~Sending(l, d)' BY <1>3, <1>5 DEF Sending
  <2>2. Ended(l) /\ Ended(l)' BY <1>3, <1>5 DEF Ended
  <2> QED BY <1>3, <2>1, <2>2 DEF Sending, GivenBack, Ended
<1>7. \A w \in Workers : w[1] \in Loops BY Views
<1>8. Single' BY <1>1, <1>6, <1>7 DEF Single, SameQueues, SameWorkers
<1>9. CASE ~Queued(c, l)
  <2>1. SameRegistry BY <1>2, <1>9, RegistryView
  <2>2. Registered(c, l) => Running(c, l) BY <1>9 DEF Queued, Running
  <2> USE DEF SameRegistry, SameQueues, SameWorkers
  <2>3. InHand' BY <1>1, <1>6, <1>7, <2>1 DEF InHand
  <2>4. Kept' BY <1>1, <1>4, <1>6, <1>7, <2>1, <2>2 DEF Kept
  <2> QED BY <1>8, <2>3, <2>4
<1>10. CASE Queued(c, l)
  <2>1. Registered(c, l) /\ ~Running(c, l) BY <1>10 DEF Queued, Running
  <2>2. /\ \A d \in Cred, k \in Loops : Registered(d, k)' <=> Registered(d, k) /\ d # c
        /\ \A d \in Cred, k \in Loops : Running(d, k)' <=> Running(d, k) /\ d # c
    BY <1>2, <1>3, <1>10, FinishView
  <2>3. \A k \in Loops : Registered(c, k) => k = l BY <1>3, <2>1, Views
  <2>4. \A k \in Loops : ~Running(c, k) BY <1>3, <2>1, <2>3, Views
  <2> USE DEF SameQueues, SameWorkers
  <2>5. InHand' BY <1>1, <1>3, <1>6, <1>7, <2>2, <2>3, <2>4 DEF InHand
  <2>6. Kept' BY <1>1, <1>3, <1>4, <1>6, <1>7, <2>2 DEF Kept
  <2> QED BY <1>8, <2>5, <2>6
<1> QED BY <1>9, <1>10

(* A worker takes the first job of its loop's queue. *)
LEMMA TakenKeeps ==
    ASSUME TypeOK, Distinct, Single, InHand, Kept, NEW w \in Workers, TakeJob(w)
    PROVE  Distinct' /\ Single' /\ InHand' /\ Kept'
<1> DEFINE l == w[1]
           q == jobs[l]
           c == Head(q).cred
<1>1. SameRegistry BY RegistryView DEF TakeJob, managerVars
<1>2. SameLoops BY DEF TakeJob, SameLoops, Sending, GivenBack, Ended
<1>3. l \in Loops BY Views
<1>4. q \in Seq([cred : Cred, epoch : Nat]) /\ q # <<>>
  BY <1>3 DEF TakeJob, TypeOK, JobType
<1>5. /\ Head(q) \in [cred : Cred, epoch : Nat] /\ Head(q) = q[1] /\ Len(q) \in Nat \ {0}
      /\ Len(Tail(q)) = Len(q) - 1 /\ \A i \in 1 .. Len(q) - 1 : Tail(q)[i] = q[i + 1]
  BY <1>4, HeadOf
<1>6. c \in Cred /\ c = q[1].cred BY <1>5
<1>7. \A k \in Loops : jobs'[k] = IF k = l THEN Tail(q) ELSE jobs[k]
  BY <1>3 DEF TakeJob, TypeOK, JobType
<1>8. \A v \in Workers : v # w => worker'[v] = worker[v]
  BY DEF TakeJob, TypeOK, WorkerType
<1>9. worker[w].pc = "idle" /\ worker'[w].pc = "begin" /\ worker'[w].cred = c
  BY DEF TakeJob, TypeOK, WorkerType
<1>10. \A i, j \in 1 .. Len(q) : q[i].cred = q[j].cred => i = j BY <1>3 DEF Distinct
<1> HIDE DEF q, c
<1>11. /\ \A d \in Cred : InQueue(l, d)' <=> \E i \in 1 .. Len(q) - 1 : q[i + 1].cred = d
       /\ \A d \in Cred : InQueue(l, d) <=> \E i \in 1 .. Len(q) : q[i].cred = d
  <2>1. jobs'[l] = Tail(q) /\ Len(jobs'[l]) = Len(q) - 1 BY <1>3, <1>5, <1>7
  <2>2. \A i \in 1 .. Len(q) - 1 : jobs'[l][i].cred = q[i + 1].cred BY <1>5, <2>1
  <2>3. \A d \in Cred : InQueue(l, d)' <=> \E i \in 1 .. Len(q) - 1 : jobs'[l][i].cred = d
    BY <2>1 DEF InQueue
  <2>4. \A d \in Cred : InQueue(l, d) <=> \E i \in 1 .. Len(q) : q[i].cred = d BY DEF InQueue, q
  <2> QED BY <2>2, <2>3, <2>4, ZenonT(60)
<1>12. \A d \in Cred : InQueue(l, d)' <=> InQueue(l, d) /\ d # c
  <2>1. \A i \in 1 .. Len(q) - 1 : i + 1 \in 1 .. Len(q) /\ i + 1 # 1 BY <1>5
  <2>2. \A i \in 1 .. Len(q) : i # 1 => i - 1 \in 1 .. Len(q) - 1 /\ (i - 1) + 1 = i BY <1>5
  <2>3. 1 \in 1 .. Len(q) BY <1>5
  <2>4. ASSUME NEW d \in Cred, InQueue(l, d)' PROVE InQueue(l, d) /\ d # c
    BY <1>6, <1>10, <1>11, <2>1, <2>3, <2>4
  <2>5. ASSUME NEW d \in Cred, InQueue(l, d), d # c PROVE InQueue(l, d)'
    <3>1. PICK i \in 1 .. Len(q) : q[i].cred = d BY <1>11, <2>5
    <3>2. i # 1 BY <1>6, <2>5, <3>1
    <3>3. i - 1 \in 1 .. Len(q) - 1 /\ q[(i - 1) + 1].cred = d BY <2>2, <3>1, <3>2
    <3> QED BY <1>11, <3>3
  <2> QED BY <2>4, <2>5
<1>13. \A k \in Loops, d \in Cred : k # l => InQueue(k, d)' = InQueue(k, d)
  BY <1>7 DEF InQueue
<1>14. InQueue(l, c)
  <2>1. 1 \in 1 .. Len(q) BY <1>5
  <2> QED BY <1>6, <1>11, <2>1
<1>15. /\ \A v \in Workers, d \in Cred : Has(v, d)' <=> Has(v, d) \/ (v = w /\ d = c)
       /\ \A v \in Workers : Begun(v)' = Begun(v)
  BY <1>8, <1>9 DEF Has, Begun, Working, HasJob
<1>16. Distinct'
  <2>1. \A i, j \in 1 .. Len(q) - 1 : Tail(q)[i].cred = Tail(q)[j].cred => i = j
    <3>1. \A i \in 1 .. Len(q) - 1 : i + 1 \in 1 .. Len(q) BY <1>5
    <3>2. \A i, j \in 1 .. Len(q) - 1 : q[i + 1].cred = q[j + 1].cred => i + 1 = j + 1
      BY <1>10, <3>1
    <3> QED BY <1>5, <3>2
  <2>2. Len(jobs'[l]) = Len(q) - 1 /\ jobs'[l] = Tail(q) BY <1>3, <1>5, <1>7
  <2> QED BY <1>7, <2>1, <2>2 DEF Distinct
<1>17. \A v \in Workers : v[1] \in Loops BY Views
<1> USE DEF SameRegistry, SameLoops
<1> HIDE DEF l
<1>18. w[1] = l BY DEF l
<1>19. Single' BY <1>2, <1>3, <1>6, <1>12, <1>13, <1>14, <1>15, <1>17, <1>18 DEF Single
<1>20. InHand'
  <2>1. Begun(w) => FALSE BY <1>9 DEF Begun
  <2> QED BY <1>1, <1>2, <1>3, <1>6, <1>12, <1>13, <1>14, <1>15, <1>17, <1>18, <2>1 DEF InHand
<1>21. Kept' BY <1>1, <1>2, <1>3, <1>6, <1>12, <1>13, <1>15, <1>17, <1>18 DEF Kept
<1> QED BY <1>16, <1>19, <1>20, <1>21

(* A worker begins its job, if it is still registered, or gives it up. *)
LEMMA BegunKeeps ==
    ASSUME TypeOK, Single, InHand, Kept, NEW w \in Workers, beginRefreshJob(w)
    PROVE  Single' /\ InHand' /\ Kept'
<1> DEFINE c == worker[w].cred
           l == w[1]
<1>1. SameQueues BY QueuesView DEF beginRefreshJob
<1>2. SameLoops BY DEF beginRefreshJob, Work, SameLoops, Sending, GivenBack, Ended
<1>3. PICK begins \in BOOLEAN :
          /\ begins => Registered(c, l)
          /\ worker[w].pc = "begin"
          /\ worker' = [worker EXCEPT ![w].pc = IF begins THEN "refresh" ELSE "finish"]
          /\ refreshJobs' = IF begins THEN [refreshJobs EXCEPT ![c].running = TRUE] ELSE refreshJobs
  <2> DEFINE b == w[1] \notin cancelled /\ Registered(c, w[1]) /\ Current(w)
  <2>1. b \in BOOLEAN OBVIOUS
  <2>2. /\ b => Registered(c, l)
        /\ worker[w].pc = "begin"
        /\ worker' = [worker EXCEPT ![w].pc = IF b THEN "refresh" ELSE "finish"]
        /\ refreshJobs' = IF b THEN [refreshJobs EXCEPT ![c].running = TRUE] ELSE refreshJobs
    BY DEF beginRefreshJob, Work
  <2> HIDE DEF b
  <2> QED BY <2>1, <2>2
<1>4. c \in Cred /\ Has(w, c) /\ l \in Loops
  BY <1>3, Views DEF TypeOK, WorkerType, Working, HasJob, Has
<1>5. /\ \A v \in Workers : v # w => worker'[v] = worker[v]
      /\ worker'[w].pc = (IF begins THEN "refresh" ELSE "finish") /\ worker'[w].cred = c
  BY <1>3 DEF TypeOK, WorkerType
<1>6. /\ \A v \in Workers, d \in Cred : Has(v, d)' = Has(v, d)
      /\ \A v \in Workers : Begun(v)' => Begun(v) \/ (v = w /\ begins)
  BY <1>3, <1>5 DEF Has, Begun, Working, HasJob
<1>7. CASE ~begins
  <2>1. SameRegistry BY <1>3, <1>7, RegistryView
  <2> QED BY <1>1, <1>2, <1>6, <1>7, <2>1, SameKeeps
<1>8. CASE begins
  <2>1. Registered(c, l) BY <1>3, <1>8
  <2>2. refreshJobs[c] \in Job /\ [refreshJobs[c] EXCEPT !.running = TRUE] \in Job
    BY <1>4, <2>1 DEF Registered, TypeOK, ManagerType, Job
  <2>3. [refreshJobs[c] EXCEPT !.running = TRUE] # None BY <2>2, RefreshAssumption
  <2>4. /\ \A d \in Cred : d # c => refreshJobs'[d] = refreshJobs[d]
        /\ refreshJobs'[c] = [refreshJobs[c] EXCEPT !.running = TRUE]
    BY <1>3, <1>4, <1>8 DEF TypeOK, ManagerType
  <2>5. refreshJobs'[c] # None /\ refreshJobs'[c].loop = refreshJobs[c].loop
        /\ refreshJobs'[c].running
    BY <2>2, <2>3, <2>4 DEF Job
  <2>6. \A d \in Cred, k \in Loops : Registered(d, k)' = Registered(d, k)
    BY <2>1, <2>4, <2>5 DEF Registered
  <2>7. \A d \in Cred, k \in Loops : Running(d, k)' <=> Running(d, k) \/ (d = c /\ k = l)
    BY <2>1, <2>4, <2>5 DEF Registered, Running
  <2>8. \A v \in Workers : v[1] \in Loops BY Views
  <2> USE DEF SameQueues, SameLoops
  <2> HIDE DEF c, l
  <2>9. Single' BY <1>1, <1>2, <1>6, <2>8 DEF Single
  <2>10. w[1] = l BY DEF l
  <2>11. InHand' BY <1>1, <1>2, <1>4, <1>6, <2>6, <2>7, <2>8, <2>10, Views DEF InHand
  <2>12. Kept' BY <1>1, <1>2, <1>4, <1>6, <2>6, <2>7, <2>8, <2>10 DEF Kept
  <2> QED BY <2>9, <2>11, <2>12
<1> QED BY <1>7, <1>8

(* A worker finishes its job. *)
LEMMA FinishedKeeps ==
    ASSUME TypeOK, Single, InHand, Kept, NEW w \in Workers, FinishJob(w)
    PROVE  Single' /\ InHand' /\ Kept'
<1> DEFINE c == worker[w].cred
           l == w[1]
<1>1. SameQueues BY QueuesView DEF FinishJob
<1>2. SameLoops BY DEF FinishJob, SameLoops, Sending, GivenBack, Ended
<1>3. c \in Cred /\ Has(w, c) /\ l \in Loops
  BY Views DEF FinishJob, TypeOK, WorkerType, Working, HasJob, Has
<1>4. \A d \in Cred : Has(w, d) => d = c BY DEF Has
<1>5. /\ \A v \in Workers : v # w => worker'[v] = worker[v]
      /\ worker[w].pc = "finish" /\ worker'[w].pc = "idle"
  BY DEF FinishJob, TypeOK, WorkerType
<1>6. /\ \A v \in Workers, d \in Cred : Has(v, d)' <=> Has(v, d) /\ v # w
      /\ \A v \in Workers : Begun(v)' = Begun(v)
  BY <1>5 DEF Has, Begun, Working, HasJob
<1>7. \A v \in Workers : v[1] \in Loops BY Views
<1>8. /\ ~Sending(l, c) /\ ~InQueue(l, c)
      /\ \A v \in Workers : v[1] = l /\ Has(v, c) => v = w
  BY <1>3 DEF Single
<1>9. Registered(c, l) => /\ \A d \in Cred, k \in Loops : Registered(d, k)' <=> Registered(d, k) /\ d # c
                          /\ \A d \in Cred, k \in Loops : Running(d, k)' <=> Running(d, k) /\ d # c
  BY <1>3, FinishView DEF FinishJob
<1>10. ~Registered(c, l) => SameRegistry BY RegistryView DEF FinishJob
<1>11. \A k \in Loops : Running(c, k) => Registered(c, k) BY <1>3, Views
<1>12. \A k \in Loops : Registered(c, l) /\ Registered(c, k) => k = l BY <1>3, Views
<1>13. w[1] = l OBVIOUS
<1> USE DEF SameQueues, SameLoops, SameRegistry
<1> HIDE DEF c, l
<1>14. Single' BY <1>1, <1>2, <1>6, <1>7 DEF Single
<1>15. CASE Registered(c, l)
  <2>1. InHand' BY <1>1, <1>2, <1>3, <1>6, <1>7, <1>8, <1>9, <1>11, <1>12, <1>13, <1>15 DEF InHand
  <2>2. Kept' BY <1>1, <1>2, <1>3, <1>4, <1>6, <1>7, <1>9, <1>13, <1>15 DEF Kept
  <2> QED BY <1>14, <2>1, <2>2
<1>16. CASE ~Registered(c, l)
  <2>1. InHand' BY <1>1, <1>2, <1>6, <1>7, <1>10, <1>16 DEF InHand
  <2>2. Kept' BY <1>1, <1>2, <1>3, <1>4, <1>6, <1>7, <1>10, <1>11, <1>13, <1>16 DEF Kept
  <2> QED BY <1>14, <2>1, <2>2
<1> QED BY <1>15, <1>16

(* Every step keeps the invariant of the jobs in hand. *)
LEMMA HandsStep ==
    ASSUME TypeOK, Lifecycle, Distinct, Single, InHand, Kept, Next
    PROVE  Distinct' /\ Single' /\ InHand' /\ Kept'
<1> DEFINE Hands == Distinct' /\ Single' /\ InHand' /\ Kept'
<1>1. ASSUME UNCHANGED <<refreshJobs, jobs, worker>>, UNCHANGED loop \/ SameLoops PROVE Hands
  <2>1. SameRegistry /\ SameQueues /\ SameWorkers
    BY <1>1, RegistryView, QueuesView, WorkersView
  <2>2. SameLoops BY <1>1 DEF SameLoops, Sending, GivenBack, Ended
  <2>3. Single' /\ InHand' /\ Kept' BY <2>1, <2>2, SameKeeps DEF SameWorkers
  <2> QED BY <1>1, <2>3, DistinctKeeps
<1>2. ASSUME NEW l \in Loops, NEW r, r.pc \in Plain, loop[l].pc \in Plain,
             loop' = [loop EXCEPT ![l] = r], UNCHANGED <<refreshJobs, jobs, worker>>
      PROVE  Hands
  BY <1>1, <1>2, LoopsView
<1>3. ASSUME NEW l \in Loops, NEW c, loop[l].pc \in Plain,
             loop' = [loop EXCEPT ![l] = NextOf(l, c)], UNCHANGED <<refreshJobs, jobs, worker>>
      PROVE  Hands
  <2>1. NextOf(l, c).pc \in Plain BY NextOfType DEF TypeOK, Plain
  <2> HIDE DEF Hands
  <2> QED BY <1>2, <1>3, <2>1
<1>4. ASSUME NEW w \in Workers, NEW p \in {"refresh", "exec", "finish"}, NEW q \in {"refresh", "exec"},
             Work(w, q, p), UNCHANGED <<refreshJobs, jobs>>
      PROVE  Hands
  <2>1. SameRegistry /\ SameQueues BY <1>4, RegistryView, QueuesView
  <2>2. SameLoops BY <1>4 DEF Work, SameLoops, Sending, GivenBack, Ended
  <2>3. /\ \A v \in Workers : v # w => worker'[v] = worker[v]
        /\ worker[w].pc = q /\ worker'[w].pc = p /\ worker'[w].cred = worker[w].cred
    BY <1>4 DEF Work, TypeOK, WorkerType
  <2>4. /\ \A v \in Workers, c \in Cred : Has(v, c)' = Has(v, c)
        /\ \A v \in Workers : Begun(v)' => Begun(v)
    BY <1>4, <2>3 DEF Has, Begun, Working, HasJob
  <2> QED BY <1>4, <2>1, <2>2, <2>4, SameKeeps, DistinctKeeps
<1>5. ASSUME NEW w \in Workers, WorkerQuits(w) PROVE Hands
  <2>1. SameRegistry /\ SameQueues BY <1>5, RegistryView, QueuesView DEF WorkerQuits
  <2>2. SameLoops BY <1>5 DEF WorkerQuits, Work, SameLoops, Sending, GivenBack, Ended
  <2>3. /\ \A v \in Workers : v # w => worker'[v] = worker[v]
        /\ worker[w].pc = "idle" /\ worker'[w].pc = "gone"
    BY <1>5 DEF WorkerQuits, Work, TypeOK, WorkerType
  <2>4. /\ \A v \in Workers, c \in Cred : Has(v, c)' = Has(v, c)
        /\ \A v \in Workers : Begun(v)' => Begun(v)
    BY <2>3 DEF Has, Begun, Working, HasJob
  <2> QED BY <1>5, <2>1, <2>2, <2>4, SameKeeps, DistinctKeeps DEF WorkerQuits
<1>6. CASE RebuildStore
  <2>1. created \in Loops /\ loop[created].pc = "none"
    BY <1>6, RefreshAssumption DEF RebuildStore, TypeOK, CallerType, Loops, Lifecycle
  <2>2. loop' = [loop EXCEPT ![created] = [loop[created] EXCEPT !.pc = "select"]]
    BY <1>6 DEF RebuildStore
  <2>3. [loop[created] EXCEPT !.pc = "select"].pc = "select"
    BY <2>1 DEF TypeOK, LoopType, Goroutine
  <2>4. [loop[created] EXCEPT !.pc = "select"].pc \in Plain /\ loop[created].pc \in Plain
    BY <2>1, <2>3 DEF Plain
  <2>5. SameLoops BY <2>1, <2>2, <2>4, LoopsView
  <2>6. SameRegistry /\ SameQueues BY <1>6, RegistryView, QueuesView DEF RebuildStore, managerVars
  <2>7. \A w \in Workers : \/ worker'[w] = worker[w]
                           \/ worker[w].pc = "none" /\ worker'[w].pc = "idle"
    BY <1>6, <2>1 DEF RebuildStore, Lifecycle, TypeOK, WorkerType
  <2>8. /\ \A v \in Workers, c \in Cred : Has(v, c)' = Has(v, c)
        /\ \A v \in Workers : Begun(v)' => Begun(v)
    BY <2>7 DEF Has, Begun, Working, HasJob
  <2> QED BY <1>6, <2>5, <2>6, <2>8, SameKeeps, DistinctKeeps DEF RebuildStore
<1> HIDE DEF Hands
<1>7. ASSUME NEW l \in Loops, LoopDone(l) PROVE Hands
  BY <1>7, DoneKeeps, DistinctKeeps DEF LoopDone, Hands
<1>8. ASSUME NEW l \in Loops, LoopWake(l) \/ drainDirty(l) PROVE Hands
  <2>1. Drained(l).pc \in Plain /\ loop[l].pc \in Plain
    BY <1>8, DrainedType DEF TypeOK, Plain, LoopWake, drainDirty
  <2> QED BY <1>2, <1>8, <2>1 DEF LoopWake, drainDirty, managerVars
<1>9. ASSUME NEW l \in Loops, NEW due \in SUBSET Cred, popDue(l, due) PROVE Hands
  <2> DEFINE r == [loop[l] EXCEPT !.pc = IF due = {} THEN "drain" ELSE "handle", !.todo = due]
  <2>1. loop' = [loop EXCEPT ![l] = r] BY <1>9 DEF popDue
  <2>2. r.pc \in Plain /\ loop[l].pc \in Plain
    BY <1>9 DEF popDue, Plain, TypeOK, LoopType, Goroutine
  <2> HIDE DEF r
  <2> QED BY <1>2, <1>9, <2>1, <2>2 DEF popDue, managerVars
<1>10. ASSUME NEW l \in Loops, HandleRead(l) PROVE Hands
  <2>1. loop[l].pc \in Plain BY <1>10 DEF HandleRead, Plain
  <2>2. PICK c \in loop[l].todo : \E s :
            \/ loop' = [loop EXCEPT ![l] = NextOf(l, c)]
            \/ loop' = [loop EXCEPT ![l] = [loop[l] EXCEPT !.pc = "act", !.cred = c, !.seen = s]]
    BY <1>10 DEF HandleRead
  <2>3. PICK s :
            \/ loop' = [loop EXCEPT ![l] = NextOf(l, c)]
            \/ loop' = [loop EXCEPT ![l] = [loop[l] EXCEPT !.pc = "act", !.cred = c, !.seen = s]]
    BY <2>2
  <2>4. [loop[l] EXCEPT !.pc = "act", !.cred = c, !.seen = s].pc \in Plain
    BY DEF Plain, TypeOK, LoopType, Goroutine
  <2> QED BY <1>2, <1>3, <1>10, <2>1, <2>3, <2>4 DEF HandleRead, managerVars
<1>11. ASSUME NEW l \in Loops, handleDueAuth(l) PROVE Hands
  <2> DEFINE c == loop[l].cred
             epoch == loop[l].seen.epoch
  <2>1. c \in Cred /\ loop[l].seen \in Due /\ loop[l].pc = "act" /\ loop[l].pc \in Plain
    BY <1>11 DEF TypeOK, LoopType, Knows, handleDueAuth, Plain
  <2>2. epoch \in Nat BY <2>1 DEF Due
  <2>3. [loop[l] EXCEPT !.pc = "retry", !.seen = None].pc \in Plain
    BY DEF Plain, TypeOK, LoopType, Goroutine
  <2>4. UNCHANGED <<jobs, worker>> BY <1>11 DEF handleDueAuth
  <2>5. \/ UNCHANGED refreshJobs /\ loop' = [loop EXCEPT ![l] = NextOf(l, c)]
        \/ UNCHANGED refreshJobs
           /\ loop' = [loop EXCEPT ![l] = [loop[l] EXCEPT !.pc = "retry", !.seen = None]]
        \/ /\ refreshJobs[c] = None /\ markRefreshPending(l, c, epoch)
           /\ loop' = [loop EXCEPT ![l].pc = "send", ![l].seen = [epoch |-> epoch]]
    BY <1>11 DEF handleDueAuth, MayMark
  <2>6. CASE /\ refreshJobs[c] = None /\ markRefreshPending(l, c, epoch)
             /\ loop' = [loop EXCEPT ![l].pc = "send", ![l].seen = [epoch |-> epoch]]
    BY <2>1, <2>2, <2>4, <2>6, MarkKeeps, DistinctKeeps DEF Hands
  <2> QED BY <1>2, <1>3, <2>1, <2>3, <2>4, <2>5, <2>6
<1>12. ASSUME NEW l \in Loops, RetryRead(l) PROVE Hands
  <2>1. PICK s : loop' = [loop EXCEPT ![l] = [loop[l] EXCEPT !.pc = "retryAct", !.seen = s]]
    BY <1>12 DEF RetryRead
  <2>2. [loop[l] EXCEPT !.pc = "retryAct", !.seen = s].pc \in Plain /\ loop[l].pc \in Plain
    BY <1>12 DEF RetryRead, Plain, TypeOK, LoopType, Goroutine
  <2> QED BY <1>2, <1>12, <2>1, <2>2 DEF RetryRead, managerVars
<1>13. ASSUME NEW l \in Loops, RetryAct(l) \/ ApplyAct(l) \/ SendRefused(l) PROVE Hands
  <2>1. loop[l].pc \in Plain BY <1>13 DEF RetryAct, ApplyAct, SendRefused, Plain
  <2>2. loop' = [loop EXCEPT ![l] = NextOf(l, loop[l].cred)] /\ UNCHANGED <<refreshJobs, jobs, worker>>
    BY <1>13 DEF RetryAct, ApplyAct, SendRefused, Reschedule, managerVars
  <2> QED BY <1>3, <2>1, <2>2
<1>14. ASSUME NEW l \in Loops, SendJob(l) PROVE Hands
  <2>1. loop[l].cred \in Cred /\ loop[l].seen \in [epoch : Nat] /\ loop[l].pc = "send"
    BY <1>14 DEF TypeOK, LoopType, Knows, SendJob
  <2>2. loop[l].seen.epoch \in Nat BY <2>1
  <2>3. UNCHANGED worker BY <1>14 DEF SendJob
  <2>4. CASE /\ jobs' = [jobs EXCEPT ![l] = Append(@, [cred |-> loop[l].cred,
                                                       epoch |-> loop[l].seen.epoch])]
             /\ loop' = [loop EXCEPT ![l] = NextOf(l, loop[l].cred)]
             /\ UNCHANGED <<auth, refreshJobs, notes>>
    BY <2>1, <2>2, <2>3, <2>4, SentKeeps DEF Hands
  <2>5. CASE /\ IF Registered(loop[l].cred, l)
                THEN finishRefreshJob(Dispatcher(l), loop[l].cred, "wait")
                ELSE UNCHANGED <<auth, refreshJobs, notes>>
             /\ loop' = [loop EXCEPT ![l].pc = "refused"] /\ UNCHANGED jobs
    BY <2>1, <2>3, <2>5, RefusedKeeps, DistinctKeeps DEF Hands
  <2> QED BY <1>14, <2>4, <2>5 DEF SendJob
<1>15. ASSUME NEW l \in Loops, ApplyRead(l) PROVE Hands
  <2>1. PICK c \in loop[l].todo :
            loop' = [loop EXCEPT ![l].pc = "applyAct", ![l].cred = c,
                                 ![l].seen = [next |-> nextRefreshCheckAt(c)]]
    BY <1>15 DEF ApplyRead
  <2> DEFINE s == [next |-> nextRefreshCheckAt(c)]
  <2>2. loop' = [loop EXCEPT ![l] = [loop[l] EXCEPT !.pc = "applyAct", !.cred = c, !.seen = s]]
    BY <2>1
  <2> HIDE DEF s
  <2>3. /\ [loop[l] EXCEPT !.pc = "applyAct", !.cred = c, !.seen = s].pc \in Plain
        /\ loop[l].pc \in Plain
    BY <1>15 DEF ApplyRead, Plain, TypeOK, LoopType, Goroutine
  <2> QED BY <1>2, <1>15, <2>2, <2>3 DEF ApplyRead, managerVars
<1>16. ASSUME NEW l \in Loops, releaseQueuedJobs(l) \/ ReleaseJob(l) PROVE Hands
  BY <1>16, ListedKeeps, ReleasedKeeps, DistinctKeeps DEF releaseQueuedJobs, ReleaseJob, Hands
<1>17. ASSUME NEW w \in Workers, TakeJob(w) PROVE Hands BY <1>17, TakenKeeps DEF Hands
<1>18. ASSUME NEW w \in Workers, beginRefreshJob(w) \/ FinishJob(w) PROVE Hands
  BY <1>18, BegunKeeps, FinishedKeeps, DistinctKeeps DEF beginRefreshJob, FinishJob, Hands
<1>19. ASSUME NEW w \in Workers, RefreshStarts(w) \/ RefreshCancelled(w)
                                 \/ RefreshFails(w) \/ RefreshSucceeds(w)
       PROVE  Hands
  <2>1. UNCHANGED <<refreshJobs, jobs>>
    BY <1>19 DEF RefreshStarts, RefreshCancelled, RefreshFails, RefreshSucceeds, Sets
  <2>2. \E p \in {"refresh", "exec", "finish"}, q \in {"refresh", "exec"} : Work(w, q, p)
    BY <1>19 DEF RefreshStarts, RefreshCancelled, RefreshFails, RefreshSucceeds
  <2> QED BY <1>4, <2>1, <2>2, SMTT(40)
<1>20. CASE Calls \/ TimePasses \/ CancelLoop \/ InstallLoop \/ RebuildRead
            \/ \E n \in notes : Notify(n)
  <2>1. UNCHANGED <<refreshJobs, jobs, worker, loop>>
    BY <1>20 DEF Calls, Changing, Register, Update, MarkResult, Remove, Changes,
                 RegisterExecutor, StartAutoRefresh, StopAutoRefresh, ClearLoop, CancelLoop,
                 InstallLoop, RebuildRead, Notify, TimePasses, MarkerPasses, managerVars
  <2> QED BY <1>1, <2>1 DEF Hands
<1>21. CASE \E l \in Loops : LoopSteps(l)
  BY <1>7, <1>8, <1>9, <1>10, <1>11, <1>12, <1>13, <1>14, <1>15, <1>16, <1>21 DEF LoopSteps, Hands
<1>22. CASE \E w \in Workers : WorkerSteps(w)
  BY <1>5, <1>17, <1>18, <1>19, <1>22 DEF WorkerSteps, Hands
<1> QED BY <1>6, <1>20, <1>21, <1>22 DEF Next, Proceed, CallerSteps

(* A step of loop l concerns its own goroutine, which runs, and which ends  *)
(* only when the loop was cancelled.                                        *)
LEMMA LoopStepsView ==
    ASSUME TypeOK, Lifecycle, NEW l \in Loops, LoopSteps(l)
    PROVE  /\ UNCHANGED <<worker, callerVars>>
           /\ \A k \in Loops : k # l => loop'[k] = loop[k]
           /\ loop[l].pc # "none" /\ loop'[l].pc # "none"
           /\ Ended(l)' => l \in cancelled
<1>1. UNCHANGED <<worker, callerVars>>
  BY DEF LoopSteps, LoopDone, Dispatch, LoopWake, popDue, HandleRead, handleDueAuth, RetryRead,
         RetryAct, ApplyAct, Reschedule, SendJob, SendRefused, drainDirty, ApplyRead,
         releaseQueuedJobs, ReleaseJob
<1>2. loop[l].pc # "none"
  BY DEF LoopSteps, LoopDone, Dispatch, LoopWake, popDue, HandleRead, handleDueAuth, RetryRead,
         RetryAct, ApplyAct, SendJob, SendRefused, drainDirty, ApplyRead, releaseQueuedJobs,
         ReleaseJob
<1>3. \A k \in Loops : k # l => loop'[k] = loop[k]
  BY DEF LoopSteps, LoopDone, Dispatch, LoopWake, popDue, HandleRead, handleDueAuth, RetryRead,
         RetryAct, ApplyAct, Reschedule, SendJob, SendRefused, drainDirty, ApplyRead,
         releaseQueuedJobs, ReleaseJob, TypeOK, LoopType
<1>4. \A c : NextOf(l, c).pc \notin {"none", "release", "releasing", "gone"}
  BY NextOfType DEF TypeOK
<1>5. Drained(l).pc \notin {"none", "release", "releasing", "gone"}
  BY DrainedType DEF TypeOK
<1>6. loop[l] \in Goroutine /\ loop \in [Loops -> Goroutine] BY DEF TypeOK, LoopType
<1> DEFINE Goal == loop'[l].pc # "none" /\ (Ended(l)' => l \in cancelled)
<1>7. ASSUME loop'[l].pc \notin {"none", "release", "releasing", "gone"} PROVE Goal
  BY <1>7 DEF Ended
<1>8. ASSUME NEW c, loop' = [loop EXCEPT ![l] = NextOf(l, c)] PROVE Goal
  BY <1>4, <1>6, <1>7, <1>8
<1>9. ASSUME LoopDone(l) PROVE Goal
  BY <1>6, <1>9 DEF LoopDone, Dispatch, Goroutine
<1>10. ASSUME LoopWake(l) \/ drainDirty(l) PROVE Goal
  BY <1>5, <1>6, <1>7, <1>10 DEF LoopWake, drainDirty
<1>11. ASSUME \E due \in SUBSET Cred : popDue(l, due) PROVE Goal
  BY <1>6, <1>7, <1>11 DEF popDue, Goroutine
<1>12. ASSUME HandleRead(l) PROVE Goal
  <2>1. PICK c \in loop[l].todo : \E s :
            \/ loop' = [loop EXCEPT ![l] = NextOf(l, c)]
            \/ loop' = [loop EXCEPT ![l] = [loop[l] EXCEPT !.pc = "act", !.cred = c, !.seen = s]]
    BY <1>12 DEF HandleRead
  <2>2. PICK s :
            \/ loop' = [loop EXCEPT ![l] = NextOf(l, c)]
            \/ loop' = [loop EXCEPT ![l] = [loop[l] EXCEPT !.pc = "act", !.cred = c, !.seen = s]]
    BY <2>1
  <2>3. [loop[l] EXCEPT !.pc = "act", !.cred = c, !.seen = s].pc = "act" BY <1>6 DEF Goroutine
  <2>4. CASE loop' = [loop EXCEPT ![l] = [loop[l] EXCEPT !.pc = "act", !.cred = c, !.seen = s]]
    <3>1. loop'[l].pc = "act" BY <1>6, <2>3, <2>4
    <3> QED BY <1>7, <3>1
  <2> QED BY <1>8, <2>2, <2>4
<1>13. ASSUME handleDueAuth(l) PROVE Goal
  <2>1. \/ loop' = [loop EXCEPT ![l] = NextOf(l, loop[l].cred)]
        \/ loop'[l].pc \in {"send", "retry"}
    BY <1>6, <1>13 DEF handleDueAuth, Goroutine
  <2> QED BY <1>7, <1>8, <2>1
<1>14. ASSUME RetryRead(l) \/ ApplyRead(l) PROVE Goal
  <2>1. loop'[l].pc \in {"retryAct", "applyAct"} 
    <3>1. CASE RetryRead(l) BY <1>6, <3>1 DEF RetryRead, Goroutine
    <3>2. CASE ApplyRead(l) BY <1>6, <3>2 DEF ApplyRead, Goroutine
    <3> QED BY <1>14, <3>1, <3>2
  <2> QED BY <1>7, <2>1
<1>15. ASSUME RetryAct(l) \/ ApplyAct(l) \/ SendRefused(l) PROVE Goal
  BY <1>8, <1>15 DEF RetryAct, ApplyAct, Reschedule, SendRefused
<1>16. ASSUME SendJob(l) PROVE Goal
  <2>1. \/ loop' = [loop EXCEPT ![l] = NextOf(l, loop[l].cred)]
        \/ loop'[l].pc = "refused"
    BY <1>6, <1>16 DEF SendJob, Goroutine
  <2> QED BY <1>7, <1>8, <2>1
<1>17. ASSUME releaseQueuedJobs(l) \/ ReleaseJob(l) PROVE Goal
  <2>1. Ended(l) BY <1>17 DEF Ended, releaseQueuedJobs, ReleaseJob
  <2>2. loop'[l].pc \in {"releasing", "gone"}
    <3>1. CASE releaseQueuedJobs(l) BY <1>6, <3>1 DEF releaseQueuedJobs, Goroutine
    <3>2. CASE ReleaseJob(l) BY <1>6, <3>2 DEF ReleaseJob, Goroutine
    <3> QED BY <1>17, <3>1, <3>2
  <2> QED BY <2>1, <2>2 DEF Lifecycle
<1>18. Goal
  <2> HIDE DEF Goal
  <2> QED BY <1>9, <1>10, <1>11, <1>12, <1>13, <1>14, <1>15, <1>16, <1>17 DEF LoopSteps
<1> QED BY <1>1, <1>2, <1>3, <1>18

(* Every step keeps the order of a loop's life. *)
LEMMA LifecycleStep ==
    ASSUME TypeOK, Lifecycle, Next PROVE Lifecycle'
<1>1. CASE \E l \in Loops : LoopSteps(l)
  <2>1. PICK l \in Loops : LoopSteps(l) BY <1>1
  <2>2. /\ UNCHANGED <<worker, caller, cancelled, created>>
        /\ \A k \in Loops : k # l => loop'[k] = loop[k]
        /\ loop[l].pc # "none" /\ loop'[l].pc # "none"
        /\ Ended(l)' => l \in cancelled
    BY <2>1, LoopStepsView DEF callerVars
  <2>3. \A k \in Loops : loop'[k].pc = "none" <=> loop[k].pc = "none" BY <2>2
  <2>4. \A k \in Loops : Ended(k)' => k \in cancelled
    <3>1. \A k \in Loops : k # l => (Ended(k)' <=> Ended(k)) BY <2>2 DEF Ended
    <3> QED BY <2>2, <3>1 DEF Lifecycle
  <2>5. caller.pc \in {"rebuildRead", "rebuildStore"} => created \in Loops
    BY RefreshAssumption DEF TypeOK, CallerType, Loops
  <2>6. \A w \in Workers : w[1] \in Loops BY DEF Workers
  <2> QED BY <2>2, <2>3, <2>4, <2>5, <2>6 DEF Lifecycle
<1>2. CASE \E w \in Workers : WorkerSteps(w)
  <2>1. PICK w \in Workers : WorkerSteps(w) BY <1>2
  <2>2. /\ UNCHANGED <<loop, caller, cancelled, created>> /\ worker[w].pc # "none"
        /\ \A v \in Workers : v # w => worker'[v] = worker[v]
    BY <2>1 DEF WorkerSteps, TakeJob, WorkerQuits, beginRefreshJob, RefreshStarts,
                RefreshCancelled, RefreshFails, RefreshSucceeds, Work, FinishJob, callerVars,
                TypeOK, WorkerType
  <2> QED BY <2>2 DEF Lifecycle, Ended
<1>3. CASE InstallLoop
  <2>1. /\ UNCHANGED <<loop, worker, cancelled>> /\ created' = created + 1 /\ created < MaxLoops
    BY <1>3 DEF InstallLoop, TypeOK, CallerType
  <2>2. created + 1 \in Loops /\ created + 1 > created /\ created \in Nat
    BY <2>1, RefreshAssumption DEF TypeOK, CallerType, Loops
  <2>3. \A l \in Loops : l > created + 1 => l > created BY <2>2, RefreshAssumption DEF Loops
  <2> QED BY <2>1, <2>2, <2>3 DEF Lifecycle, Ended
<1>4. CASE RebuildStore
  <2>1. created \in Loops BY <1>4, RefreshAssumption DEF RebuildStore, TypeOK, CallerType, Loops
  <2>2. /\ UNCHANGED <<cancelled, created>> /\ caller'.pc = "idle"
        /\ \A k \in Loops : k # created => loop'[k] = loop[k]
        /\ loop'[created].pc = "select"
        /\ \A w \in Workers : w[1] # created => worker'[w] = worker[w]
    BY <1>4, <2>1 DEF RebuildStore, TypeOK, LoopType, Goroutine
  <2>3. \A k \in Loops : Ended(k)' => k \in cancelled
    <3>1. \A k \in Loops : k # created => (Ended(k)' <=> Ended(k)) BY <2>2 DEF Ended
    <3>2. \A k \in Loops : k = created => ~Ended(k)' BY <2>2 DEF Ended
    <3> QED BY <3>1, <3>2 DEF Lifecycle
  <2>4. ~(created > created) BY <2>1, RefreshAssumption DEF Loops
  <2>5. \A w \in Workers : w[1] \in Loops BY DEF Workers
  <2> QED BY <2>1, <2>2, <2>3, <2>4, <2>5 DEF Lifecycle
<1>5. CASE /\ UNCHANGED <<loop, worker, created>> /\ cancelled \subseteq cancelled'
           /\ caller'.pc \in {"rebuildRead", "rebuildStore"} =>
                  caller.pc \in {"rebuildRead", "rebuildStore"}
  BY <1>5 DEF Lifecycle, Ended
<1>6. CASE Changing \/ RegisterExecutor \/ TimePasses \/ \E n \in notes : Notify(n)
  BY <1>5, <1>6
     DEF Changing, Register, Update, MarkResult, Remove, Changes, RegisterExecutor, TimePasses,
         MarkerPasses, Notify, callerVars
<1>7. CASE StartAutoRefresh \/ StopAutoRefresh \/ CancelLoop \/ RebuildRead
  <2>1. caller \in [pc : {"idle", "cancelPrev", "cancel", "install", "rebuildRead", "rebuildStore"},
                    loop : 0 .. created, seen : {None} \cup SUBSET Cred]
    BY DEF TypeOK, CallerType
  <2>2. /\ UNCHANGED <<loop, worker, created>> /\ cancelled \subseteq cancelled'
        /\ RebuildRead \/ caller'.pc \in {"idle", "cancelPrev", "cancel", "install"}
    BY <1>7, <2>1 DEF StartAutoRefresh, StopAutoRefresh, ClearLoop, CancelLoop, RebuildRead
  <2> QED BY <1>5, <2>2 DEF RebuildRead
<1> QED BY <1>1, <1>2, <1>3, <1>4, <1>6, <1>7 DEF Next, Calls, Proceed, CallerSteps

(* At first nothing is in hand. *)
LEMMA InitHands == Init => Lifecycle /\ Distinct /\ Single /\ InHand /\ Kept
<1> SUFFICES ASSUME Init PROVE Lifecycle /\ Distinct /\ Single /\ InHand /\ Kept OBVIOUS
<1>1. \A w \in Workers : w[1] \in Loops BY DEF Workers
<1>2. /\ \A l \in Loops : loop[l].pc = "none" /\ jobs[l] = <<>>
      /\ \A w \in Workers : worker[w].pc = "none"
      /\ \A c \in Cred : refreshJobs[c] = None
      /\ caller.pc = "idle"
  BY DEF Init
<1>3. /\ \A l \in Loops : ~Ended(l)
      /\ \A l \in Loops, c \in Cred : ~Sending(l, c) /\ ~InQueue(l, c) /\ ~Registered(c, l)
      /\ \A l \in Loops, c \in Cred : ~Running(c, l)
      /\ \A w \in Workers, c \in Cred : ~Has(w, c)
  BY <1>2 DEF Ended, Sending, InQueue, Registered, Running, Has, Working, HasJob
<1>4. Lifecycle BY <1>1, <1>2, <1>3 DEF Lifecycle
<1>5. Distinct BY <1>2 DEF Distinct
<1>6. Single /\ InHand /\ Kept BY <1>1, <1>3 DEF Single, InHand, Kept
<1> QED BY <1>4, <1>5, <1>6

(* Over every way a loop can be stopped or replaced, whoever is to finish a *)
(* registered job (and so let its credential be refreshed again) still is;  *)
(* no two workers refresh one credential at a time.                         *)
THEOREM JobsCorrect == Spec => []JobsAccounted
<1> DEFINE IInv == Lifecycle /\ Distinct /\ Single /\ InHand /\ Kept
<1>1. TypeOK /\ IInv /\ [Next]_vars => IInv'
  <2>1. ASSUME TypeOK, IInv, Next PROVE IInv' BY <2>1, LifecycleStep, HandsStep
  <2>2. ASSUME IInv, UNCHANGED vars PROVE IInv'
    BY <2>2 DEF vars, managerVars, callerVars, Lifecycle, Distinct, Single, InHand, Kept, Ended,
                Sending, InQueue, Has, Begun, Running, GivenBack, Registered, Working
  <2> QED BY <2>1, <2>2
<1>2. TypeOK /\ IInv => JobsAccounted
  <2> SUFFICES ASSUME TypeOK, IInv PROVE JobsAccounted OBVIOUS
  <2>1. ASSUME NEW c \in Cred, refreshJobs[c] # None
        PROVE  HeldBySomeone(c, refreshJobs[c].loop)
    <3> DEFINE l == refreshJobs[c].loop
    <3>1. l \in Loops /\ Registered(c, l) BY <2>1 DEF TypeOK, ManagerType, Job, Registered
    <3>2. \/ Sending(l, c) \/ InQueue(l, c)
          \/ \E w \in Workers : w[1] = l /\ Has(w, c)
      BY <3>1 DEF Kept
    <3>3. loop[l].pc = "gone" => \E w \in Workers : w[1] = l /\ Has(w, c)
      BY <3>1 DEF Kept, GivenBack
    <3> HIDE DEF l
    <3>4. HeldBySomeone(c, l) BY <3>2, <3>3 DEF HeldBySomeone, Sending, InQueue, Has
    <3> QED BY <3>4 DEF l
  <2>2. ASSUME NEW c \in Cred, NEW v \in Workers, NEW w \in Workers,
               Refreshing(v, c), Refreshing(w, c)
        PROVE  v = w
    <3>1. Has(v, c) /\ Begun(v) /\ Has(w, c) /\ Begun(w)
      BY <2>2 DEF Refreshing, Has, Begun, Working, HasJob
    <3>2. Registered(c, v[1]) /\ Registered(c, w[1]) BY <3>1 DEF InHand, Running
    <3>3. v[1] = w[1] BY <3>2 DEF Registered
    <3> QED BY <3>1, <3>3 DEF Single
  <2> QED BY <2>1, <2>2 DEF JobsAccounted
<1> HIDE DEF IInv
<1>3. Init => IInv BY InitHands DEF IInv
<1> QED BY <1>1, <1>2, <1>3, TypeCorrect, PTL DEF Spec

=============================================================================
