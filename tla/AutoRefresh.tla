---------------------------- MODULE AutoRefresh ----------------------------
(***************************************************************************)
(* The auto-refresh loop (sdk/cliproxy/auth/auto_refresh_loop.go and the   *)
(* job registry of conductor_refresh.go).  A loop keeps a heap of times at *)
(* which credentials are to be looked at again; it hands refresh jobs to a *)
(* worker through a bounded channel and is told of changes through a dirty *)
(* set.  Loops are replaced and stopped while their jobs are under way.    *)
(* An action is one section under m.mu or l.mu, or one channel operation.  *)
(* Times are abstract: an entry of the heap comes up at some time, and the *)
(* marker NextRefreshAfter holds a refresh back until it has passed.       *)
(***************************************************************************)
EXTENDS Naturals, Sequences, FiniteSets

CONSTANTS Cred,
          MaxLoops,     \* bound on the calls of StartAutoRefresh
          JobBuffer,    \* jobBuffer, the capacity of l.jobs
          Concurrency,  \* l.concurrency, the workers of a loop
          MaxOps,       \* bound on the changes of credentials
          MaxFailures,  \* bound on refreshes that fail or change nothing
          None

Loops == 1 .. MaxLoops
Workers == Loops \X (1 .. Concurrency)   \* a loop and a number
Job == [loop : Loops, epoch : Nat, running : BOOLEAN]

ASSUME RefreshAssumption ==
    /\ {MaxLoops, JobBuffer, Concurrency, MaxOps, MaxFailures} \subseteq Nat
    /\ JobBuffer > 0 /\ Concurrency > 0
    /\ None \notin Job

VARIABLES
    auth,         \* credential -> [live, epoch, terminal, need, nra]: is it
                  \* registered, RegistrationEpoch, has it failed for good, is
                  \* its token old, NextRefreshAfter (a pending job's, another
                  \* time to come, or none)
    exec,         \* is the executor of its provider registered?
    refreshJobs,  \* credential -> its job [loop, epoch, running], or None
    refreshLoop,  \* m.refreshLoop, 0 for none
    caller,       \* StartAutoRefresh or StopAutoRefresh: [pc, loop, seen]
    cancelled,    \* loops whose context is done
    created,
    heap,         \* loop -> the credentials in l.queue and l.index
    dirty, wake,
    loop,         \* loop -> [pc, todo, cred, seen]: its dispatching goroutine
    jobs,         \* loop -> l.jobs
    worker,       \* worker -> [pc, cred, epoch]
    notes,        \* calls of queueRefreshReschedule and queueRefreshUnschedule
                  \* under way: [by, kind, cred, loop]
    ops, failures,
    forgotten     \* history: credentials taken out of the current schedule
                  \* while they were to be refreshed, and not put back since

scheduleVars == <<heap, dirty, wake, forgotten>>
managerVars == <<auth, exec, refreshJobs>>
callerVars == <<refreshLoop, caller, cancelled, created>>
boundVars == <<ops, failures>>
vars == <<managerVars, callerVars, scheduleVars, loop, jobs, worker, notes, boundVars>>

(* Credentials are loaded and executors registered before the first start, *)
(* or after.                                                               *)
Init ==
    /\ \E loaded \in SUBSET Cred :
           auth = [c \in Cred |-> [live |-> c \in loaded, epoch |-> IF c \in loaded THEN 1 ELSE 0,
                                  terminal |-> FALSE, need |-> TRUE, nra |-> "none"]]
    /\ exec \in BOOLEAN
    /\ refreshJobs = [c \in Cred |-> None]
    /\ refreshLoop = 0 /\ created = 0 /\ cancelled = {}
    /\ caller = [pc |-> "idle", loop |-> 0, seen |-> None]
    /\ heap = [l \in Loops |-> {}]
    /\ dirty = [l \in Loops |-> {}]
    /\ wake = [l \in Loops |-> FALSE]
    /\ loop = [l \in Loops |-> [pc |-> "none", todo |-> {}, cred |-> None, seen |-> None]]
    /\ jobs = [l \in Loops |-> <<>>]
    /\ worker = [w \in Workers |-> [pc |-> "none", cred |-> None, epoch |-> 0]]
    /\ notes = {} /\ ops = 0 /\ failures = 0 /\ forgotten = {}

(* Has it neither an unauthorized nor an invalid-grant failure? *)
Schedulable(c) == auth[c].live /\ ~auth[c].terminal

shouldRefresh(c) == Schedulable(c) /\ auth[c].need /\ auth[c].nra = "none"

(* Is there a time at which to look at it next?  That time is abstract. *)
nextRefreshCheckAt(c) == Schedulable(c)

-----------------------------------------------------------------------------
(* Notifications.  A goroutine has one at a time and waits for it. *)

Quiet(who) == \A n \in notes : n.by # who
Callers == <<"caller", 0>>
Dispatcher(l) == <<"loop", l>>
Worker(w) == <<"worker", w>>

Notes(who, kind, C) == {[by |-> who, kind |-> kind, cred |-> c, loop |-> refreshLoop] : c \in C}

(* Mutant: nobody is woken. *)
queueRescheduleAsleep(l, c) ==
    /\ dirty' = [dirty EXCEPT ![l] = @ \cup {c}]
    /\ forgotten' = IF l = refreshLoop THEN forgotten \ {c} ELSE forgotten
    /\ UNCHANGED <<heap, wake>>

queueReschedule(l, c) ==
    /\ dirty' = [dirty EXCEPT ![l] = @ \cup {c}]
    /\ wake' = [wake EXCEPT ![l] = TRUE]
    /\ forgotten' = IF l = refreshLoop THEN forgotten \ {c} ELSE forgotten
    /\ UNCHANGED heap

remove(l, c) ==
    /\ dirty' = [dirty EXCEPT ![l] = @ \ {c}]
    /\ heap' = [heap EXCEPT ![l] = @ \ {c}]
    /\ forgotten' = IF l = refreshLoop /\ Schedulable(c) THEN forgotten \cup {c}
                    ELSE forgotten
    /\ UNCHANGED wake

upsert(l, c) ==
    /\ heap' = [heap EXCEPT ![l] = @ \cup {c}]
    /\ forgotten' = IF l = refreshLoop THEN forgotten \ {c} ELSE forgotten
    /\ UNCHANGED <<dirty, wake>>

(* Its goroutine has left the loop: what it is told is never read. *)
Ended(l) == loop[l].pc \in {"release", "releasing", "gone"}

(* The call reads m.refreshLoop under m.mu and then tells that loop: the   *)
(* one that was current when it began, or the one that is now.             *)
Notify(n) ==
    /\ n \in notes /\ notes' = notes \ {n}
    /\ \E l \in {n.loop, refreshLoop} :
           IF l = 0 \/ Ended(l) THEN UNCHANGED scheduleVars
           ELSE IF n.kind = "reschedule" THEN queueReschedule(l, n.cred)
           ELSE remove(l, n.cred)
    /\ UNCHANGED <<managerVars, callerVars, loop, jobs, worker, boundVars>>

-----------------------------------------------------------------------------
(* Credentials change *)

Changes(c, new, kind) ==
    /\ ops < MaxOps /\ ops' = ops + 1
    /\ auth' = [auth EXCEPT ![c] = new]
    /\ notes' = notes \cup Notes(Callers, kind, {c})
    /\ UNCHANGED <<exec, refreshJobs, callerVars, scheduleVars, loop, jobs, worker, failures>>

Register(c) ==
    /\ ~auth[c].live
    /\ Changes(c, [live |-> TRUE, epoch |-> auth[c].epoch + 1, terminal |-> FALSE,
                   need |-> TRUE, nra |-> "none"], "reschedule")

(* An update brings a marker of its own, or the one it read, in date or not. *)
Update(c) ==
    /\ auth[c].live
    /\ \E terminal \in BOOLEAN, nra \in {auth[c].nra, "none", "wait"} :
           Changes(c, [auth[c] EXCEPT !.terminal = terminal, !.need = TRUE,
                                      !.nra = IF terminal THEN "none" ELSE nra], "reschedule")

(* A result that is unauthorized, or exhausts a quota that is revalidated. *)
MarkResult(c) ==
    /\ Schedulable(c)
    /\ \E nra \in IF auth[c].nra = "none" THEN {"none", "wait"} ELSE {auth[c].nra} :
           Changes(c, [auth[c] EXCEPT !.need = TRUE, !.nra = nra], "reschedule")

Remove(c) ==
    /\ auth[c].live
    /\ Changes(c, [auth[c] EXCEPT !.live = FALSE, !.epoch = @ + 1], "unschedule")

RegisterExecutor ==
    /\ ~exec /\ exec' = TRUE
    /\ notes' = notes \cup Notes(Callers, "reschedule", {c \in Cred : auth[c].live})
    /\ UNCHANGED <<auth, refreshJobs, callerVars, scheduleVars, loop, jobs, worker, boundVars>>

(* Time passes: NextRefreshAfter no longer holds a refresh back. *)
MarkerPasses(c) ==
    /\ auth[c].nra # "none"
    /\ auth' = [auth EXCEPT ![c].nra = "none"]
    /\ UNCHANGED <<exec, refreshJobs, callerVars, scheduleVars, loop, jobs, worker, notes, boundVars>>

-----------------------------------------------------------------------------
(* StartAutoRefresh and StopAutoRefresh; the service calls them one after   *)
(* the other.                                                               *)

ClearLoop(then) ==
    /\ caller.pc = "idle"
    /\ caller' = [caller EXCEPT !.pc = then, !.loop = refreshLoop]
    /\ refreshLoop' = 0
    /\ UNCHANGED <<managerVars, cancelled, created, scheduleVars, loop, jobs, worker, notes, boundVars>>

StartAutoRefresh == created < MaxLoops /\ ClearLoop("cancelPrev")

StopAutoRefresh == refreshLoop # 0 /\ ClearLoop("cancel")

CancelLoop ==
    /\ caller.pc \in {"cancelPrev", "cancel"}
    /\ caller' = [caller EXCEPT !.pc = IF @ = "cancel" THEN "idle" ELSE "install", !.loop = 0]
    /\ cancelled' = cancelled \cup ({caller.loop} \ {0})
    /\ UNCHANGED <<managerVars, refreshLoop, created, scheduleVars, loop, jobs, worker, notes, boundVars>>

InstallLoop ==
    /\ caller.pc = "install" /\ caller' = [caller EXCEPT !.pc = "rebuildRead"]
    /\ created' = created + 1 /\ refreshLoop' = created + 1
    /\ forgotten' = {}
    /\ UNCHANGED <<managerVars, cancelled, heap, dirty, wake, loop, jobs, worker, notes, boundVars>>

(* rebuild reads every credential under m.mu ... *)
RebuildRead ==
    /\ caller.pc = "rebuildRead"
    /\ caller' = [caller EXCEPT !.pc = "rebuildStore",
                                !.seen = {c \in Cred : nextRefreshCheckAt(c)}]
    /\ UNCHANGED <<managerVars, refreshLoop, cancelled, created, scheduleVars, loop, jobs, worker,
                   notes, boundVars>>

(* ... and fills the heap under l.mu; the goroutines start. *)
RebuildStore ==
    /\ caller.pc = "rebuildStore"
    /\ caller' = [pc |-> "idle", loop |-> 0, seen |-> None]
    /\ heap' = [heap EXCEPT ![created] = caller.seen]
    /\ forgotten' = forgotten \ caller.seen
    /\ loop' = [loop EXCEPT ![created].pc = "select"]
    /\ worker' = [w \in Workers |-> IF w[1] = created THEN [worker[w] EXCEPT !.pc = "idle"]
                                    ELSE worker[w]]
    /\ UNCHANGED <<managerVars, refreshLoop, cancelled, created, dirty, wake, jobs, notes,
                   boundVars>>

-----------------------------------------------------------------------------
(* The job registry *)

markRefreshPending(l, c, epoch) ==
    /\ refreshJobs' = [refreshJobs EXCEPT ![c] = [loop |-> l, epoch |-> epoch, running |-> FALSE]]
    /\ auth' = [auth EXCEPT ![c].nra = "pending"]
    /\ notes' = notes \cup Notes(Dispatcher(l), "reschedule", {c})

MayMark(c, epoch) ==
    /\ Schedulable(c) /\ auth[c].epoch = epoch
    /\ refreshJobs[c] = None /\ auth[c].nra = "none"

(* Is the job that loop l made for c still the registered one? *)
Registered(c, l) == refreshJobs[c] # None /\ refreshJobs[c].loop = l

(* Mutant: running jobs are released with the queued ones. *)
QueuedOrRunning(c, l) == Registered(c, l)

Queued(c, l) == Registered(c, l) /\ ~refreshJobs[c].running

(* The job's own marker becomes retryAt, a newer one stays. *)
finishRefreshJob(who, c, retryAt) ==
    /\ refreshJobs' = [refreshJobs EXCEPT ![c] = None]
    /\ auth' = IF auth[c].live /\ auth[c].epoch = refreshJobs[c].epoch /\ auth[c].nra = "pending"
               THEN [auth EXCEPT ![c].nra = retryAt] ELSE auth
    /\ notes' = notes \cup Notes(who, "reschedule", {c})

-----------------------------------------------------------------------------
(* The dispatching goroutine of loop l *)

Dispatch(l, pc, then) ==
    /\ loop[l].pc = pc /\ Quiet(Dispatcher(l))
    /\ loop' = [loop EXCEPT ![l].pc = then]
    /\ UNCHANGED <<exec, callerVars, worker, boundVars>>

(* select: of the channels that are ready any may be taken. *)
LoopDone(l) ==
    /\ l \in cancelled
    /\ Dispatch(l, "select", "release")
    /\ heap' = [heap EXCEPT ![l] = {}]          \* nobody reads these any more
    /\ dirty' = [dirty EXCEPT ![l] = {}]
    /\ wake' = [wake EXCEPT ![l] = FALSE]
    /\ UNCHANGED <<auth, refreshJobs, forgotten, jobs, notes>>

(* applyDirty begins: drainDirty. *)
Drained(l) == [loop[l] EXCEPT !.todo = dirty[l], !.cred = None, !.seen = None,
                              !.pc = IF dirty[l] = {} THEN "select" ELSE "apply"]

LoopWake(l) ==
    /\ loop[l].pc = "select" /\ wake[l]
    /\ wake' = [wake EXCEPT ![l] = FALSE]
    /\ loop' = [loop EXCEPT ![l] = Drained(l)]
    /\ dirty' = [dirty EXCEPT ![l] = {}]
    /\ UNCHANGED <<managerVars, callerVars, heap, forgotten, jobs, worker, notes, boundVars>>

(* resetTimer has armed the timer if the heap has an entry.  The timer may  *)
(* fire with nothing due, for its wait is capped.                           *)
popDue(l, due) ==
    /\ heap[l] # {} /\ due \subseteq heap[l]
    /\ loop[l].pc = "select"
    /\ heap' = [heap EXCEPT ![l] = @ \ due]
    /\ loop' = [loop EXCEPT ![l].pc = IF due = {} THEN "drain" ELSE "handle", ![l].todo = due]
    /\ UNCHANGED <<managerVars, callerVars, dirty, wake, forgotten, jobs, worker, notes, boundVars>>

(* The goroutine is done with c: it turns to the rest of its list. *)
NextOf(l, c) ==
    LET rest == loop[l].todo \ {c}
    IN  [loop[l] EXCEPT !.todo = rest, !.cred = None, !.seen = None,
                        !.pc = CASE loop[l].pc \in {"apply", "applyAct"} ->
                                        IF rest = {} THEN "select" ELSE "apply"
                                 [] OTHER -> IF rest = {} THEN "drain" ELSE "handle"]

HandleRead(l) ==
    /\ loop[l].pc = "handle"
    /\ \E c \in loop[l].todo :
           loop' = [loop EXCEPT ![l] =
               IF ~auth[c].live THEN NextOf(l, c)
               ELSE [@ EXCEPT !.pc = "act", !.cred = c,
                              !.seen = [next |-> nextRefreshCheckAt(c), should |-> shouldRefresh(c),
                                        exec |-> exec, epoch |-> auth[c].epoch]]]
    /\ UNCHANGED <<managerVars, callerVars, scheduleVars, jobs, worker, notes, boundVars>>

handleDueAuth(l) ==
    LET c == loop[l].cred
        seen == loop[l].seen
    IN  /\ loop[l].pc = "act"
        /\ \/ /\ ~seen.next
              /\ remove(l, c)
              /\ loop' = [loop EXCEPT ![l] = NextOf(l, c)]
              /\ UNCHANGED <<auth, refreshJobs, notes>>
           \/ /\ seen.next /\ ~(seen.should /\ seen.exec)
              /\ upsert(l, c)
              /\ loop' = [loop EXCEPT ![l] = NextOf(l, c)]
              /\ UNCHANGED <<auth, refreshJobs, notes>>
           \/ /\ seen.should /\ seen.exec /\ MayMark(c, seen.epoch)
              /\ markRefreshPending(l, c, seen.epoch)
              /\ loop' = [loop EXCEPT ![l].pc = "send", ![l].seen = [epoch |-> seen.epoch]]
              /\ UNCHANGED scheduleVars
           \/ /\ seen.should /\ seen.exec /\ ~MayMark(c, seen.epoch)
              /\ loop' = [loop EXCEPT ![l].pc = "retry", ![l].seen = None]
              /\ UNCHANGED <<auth, refreshJobs, scheduleVars, notes>>
        /\ UNCHANGED <<exec, callerVars, jobs, worker, boundVars>>

(* No job was made: look at the credential again, but not at once. *)
RetryRead(l) ==
    /\ loop[l].pc = "retry"
    /\ loop' = [loop EXCEPT ![l].pc = "retryAct",
                            ![l].seen = [next |-> nextRefreshCheckAt(loop[l].cred)]]
    /\ UNCHANGED <<managerVars, callerVars, scheduleVars, jobs, worker, notes, boundVars>>

Reschedule(l) ==
    LET c == loop[l].cred
    IN  /\ IF loop[l].seen.next THEN upsert(l, c) ELSE remove(l, c)
        /\ loop' = [loop EXCEPT ![l] = NextOf(l, c)]
        /\ UNCHANGED <<managerVars, callerVars, jobs, worker, notes, boundVars>>

RetryAct(l) == loop[l].pc = "retryAct" /\ Reschedule(l)

(* A full queue, or the loop's end, gives the job back to be retried. *)
SendJob(l) ==
    LET c == loop[l].cred
        room == Len(jobs[l]) < JobBuffer
    IN  /\ loop[l].pc = "send" /\ Quiet(Dispatcher(l))
        /\ \/ /\ room
              /\ jobs' = [jobs EXCEPT ![l] = Append(@, [cred |-> c, epoch |-> loop[l].seen.epoch])]
              /\ loop' = [loop EXCEPT ![l] = NextOf(l, c)]
              /\ UNCHANGED <<auth, refreshJobs, notes>>
           \/ /\ ~room \/ l \in cancelled
              /\ IF Registered(c, l) THEN finishRefreshJob(Dispatcher(l), c, "wait")
                 ELSE UNCHANGED <<auth, refreshJobs, notes>>
              /\ loop' = [loop EXCEPT ![l].pc = "refused"]
              /\ UNCHANGED jobs
        /\ UNCHANGED <<exec, callerVars, scheduleVars, worker, boundVars>>

SendRefused(l) ==
    /\ loop[l].pc = "refused" /\ Quiet(Dispatcher(l))
    /\ upsert(l, loop[l].cred)
    /\ loop' = [loop EXCEPT ![l] = NextOf(l, loop[l].cred)]
    /\ UNCHANGED <<managerVars, callerVars, jobs, worker, notes, boundVars>>

drainDirty(l) ==
    /\ loop[l].pc = "drain"
    /\ loop' = [loop EXCEPT ![l] = Drained(l)]
    /\ dirty' = [dirty EXCEPT ![l] = {}]
    /\ UNCHANGED <<managerVars, callerVars, heap, wake, forgotten, jobs, worker, notes, boundVars>>

ApplyRead(l) ==
    /\ loop[l].pc = "apply"
    /\ \E c \in loop[l].todo :
           loop' = [loop EXCEPT ![l].pc = "applyAct", ![l].cred = c,
                                ![l].seen = [next |-> nextRefreshCheckAt(c)]]
    /\ UNCHANGED <<managerVars, callerVars, scheduleVars, jobs, worker, notes, boundVars>>

ApplyAct(l) == loop[l].pc = "applyAct" /\ Reschedule(l)

(* Mutant: the jobs in its queue stay registered. *)
releaseNothing(l) ==
    /\ Dispatch(l, "release", "gone")
    /\ UNCHANGED <<auth, refreshJobs, scheduleVars, jobs, notes>>

(* The jobs are listed under m.mu and given back one at a time. *)
releaseQueuedJobs(l) ==
    /\ loop[l].pc = "release"
    /\ LET queued == {c \in Cred : Queued(c, l)}
       IN  loop' = [loop EXCEPT ![l].todo = queued, ![l].pc = IF queued = {} THEN "gone" ELSE "releasing"]
    /\ UNCHANGED <<managerVars, callerVars, scheduleVars, jobs, worker, notes, boundVars>>

ReleaseJob(l) ==
    /\ loop[l].pc = "releasing" /\ Quiet(Dispatcher(l))
    /\ \E c \in loop[l].todo :
           /\ IF Queued(c, l) THEN finishRefreshJob(Dispatcher(l), c, "none")
              ELSE UNCHANGED <<auth, refreshJobs, notes>>
           /\ loop' = [loop EXCEPT ![l].todo = @ \ {c},
                                   ![l].pc = IF loop[l].todo = {c} THEN "gone" ELSE @]
    /\ UNCHANGED <<exec, callerVars, scheduleVars, jobs, worker, boundVars>>

-----------------------------------------------------------------------------
(* A worker w of loop w[1] *)

Work(w, pc, then) ==
    /\ worker[w].pc = pc
    /\ worker' = [worker EXCEPT ![w].pc = then]
    /\ UNCHANGED <<exec, callerVars, scheduleVars, loop>>

TakeJob(w) ==
    /\ worker[w].pc = "idle" /\ Quiet(Worker(w)) /\ jobs[w[1]] # <<>>
    /\ LET job == Head(jobs[w[1]])
       IN  worker' = [worker EXCEPT ![w] = [pc |-> "begin", cred |-> job.cred, epoch |-> job.epoch]]
    /\ jobs' = [jobs EXCEPT ![w[1]] = Tail(@)]
    /\ UNCHANGED <<managerVars, callerVars, scheduleVars, loop, notes, boundVars>>

WorkerQuits(w) ==
    /\ w[1] \in cancelled /\ Quiet(Worker(w))
    /\ Work(w, "idle", "gone")
    /\ UNCHANGED <<auth, refreshJobs, jobs, notes, boundVars>>

(* Is the registration it was made for still there? *)
Current(w) == auth[worker[w].cred].live /\ auth[worker[w].cred].epoch = worker[w].epoch

beginRefreshJob(w) ==
    LET c == worker[w].cred
        begins == w[1] \notin cancelled /\ Registered(c, w[1]) /\ Current(w)
    IN  /\ Work(w, "begin", IF begins THEN "refresh" ELSE "finish")
        /\ refreshJobs' = IF begins THEN [refreshJobs EXCEPT ![c].running = TRUE] ELSE refreshJobs
        /\ UNCHANGED <<auth, jobs, notes, boundVars>>

RefreshStarts(w) ==
    /\ Work(w, "refresh", IF exec /\ Current(w) /\ Schedulable(worker[w].cred) THEN "exec" ELSE "finish")
    /\ UNCHANGED <<auth, refreshJobs, jobs, notes, boundVars>>

Sets(w, c, new, C, kind) ==
    /\ auth' = [auth EXCEPT ![c] = new]
    /\ notes' = notes \cup Notes(Worker(w), kind, C)
    /\ UNCHANGED <<refreshJobs, jobs, ops>>

(* A refresh cut short by its loop's end leaves a marker of a second, which *)
(* an unauthorized failure does not survive.                                *)
RefreshCancelled(w) ==
    LET c == worker[w].cred
        marks == auth[c].live /\ auth[c].nra = "none"
    IN  /\ w[1] \in cancelled
        /\ Work(w, "exec", "finish")
        /\ \E terminal \in IF marks THEN {FALSE, auth[c].terminal} ELSE {auth[c].terminal} :
               Sets(w, c, [auth[c] EXCEPT !.nra = IF marks THEN "wait" ELSE @,
                                          !.terminal = terminal],
                    {c}, "reschedule")
        /\ UNCHANGED failures

(* A failure is retried after a while, or is for good: unauthorized, or an  *)
(* invalid grant of a disabled credential.  Nothing is recorded for another *)
(* registration, after an unauthorized failure, or when the store refuses   *)
(* the new key of a Meta credential.                                        *)
RefreshFails(w) ==
    LET c == worker[w].cred
    IN  /\ failures < MaxFailures /\ failures' = failures + 1
        /\ Work(w, "exec", "finish")
        /\ \/ /\ Current(w)
              /\ \/ Sets(w, c, [auth[c] EXCEPT !.nra = "wait", !.terminal = FALSE], {c}, "reschedule")
                 \/ Sets(w, c, [auth[c] EXCEPT !.nra = "none", !.terminal = TRUE], {}, "reschedule")
                 \/ Sets(w, c, [auth[c] EXCEPT !.nra = "none", !.terminal = TRUE], {c}, "unschedule")
           \/ UNCHANGED <<auth, refreshJobs, jobs, notes, ops>>

(* A refresh that leaves the token old is tried again after a while. *)
RefreshSucceeds(w) ==
    LET c == worker[w].cred
    IN  /\ Work(w, "exec", "finish")
        /\ IF Current(w)
           THEN \/ /\ Sets(w, c, [auth[c] EXCEPT !.need = FALSE, !.nra = "none", !.terminal = FALSE],
                           {c}, "reschedule")
                   /\ UNCHANGED failures
                \/ /\ failures < MaxFailures /\ failures' = failures + 1
                   /\ Sets(w, c, [auth[c] EXCEPT !.nra = "wait", !.terminal = FALSE], {c}, "reschedule")
           ELSE UNCHANGED <<auth, refreshJobs, jobs, notes, boundVars>>

FinishJob(w) ==
    LET c == worker[w].cred
    IN  /\ worker[w].pc = "finish" /\ Quiet(Worker(w))
        /\ worker' = [worker EXCEPT ![w] = [pc |-> "idle", cred |-> None, epoch |-> 0]]
        /\ IF Registered(c, w[1]) THEN finishRefreshJob(Worker(w), c, "none")
           ELSE UNCHANGED <<auth, refreshJobs, notes>>
        /\ UNCHANGED <<exec, callerVars, scheduleVars, loop, jobs, boundVars>>

-----------------------------------------------------------------------------
Changing == \E c \in Cred : Register(c) \/ Update(c) \/ MarkResult(c) \/ Remove(c)
Calls == StartAutoRefresh \/ StopAutoRefresh \/ RegisterExecutor \/ Changing
CallerSteps == CancelLoop \/ InstallLoop \/ RebuildRead \/ RebuildStore
LoopSteps(l) ==
    \/ LoopDone(l) \/ LoopWake(l) \/ \E due \in SUBSET Cred : popDue(l, due)
    \/ HandleRead(l) \/ handleDueAuth(l) \/ RetryRead(l) \/ RetryAct(l)
    \/ SendJob(l) \/ SendRefused(l)
    \/ drainDirty(l) \/ ApplyRead(l) \/ ApplyAct(l)
    \/ releaseQueuedJobs(l) \/ ReleaseJob(l)
WorkerSteps(w) ==
    \/ TakeJob(w) \/ WorkerQuits(w) \/ beginRefreshJob(w) \/ RefreshStarts(w)
    \/ RefreshCancelled(w) \/ RefreshFails(w) \/ RefreshSucceeds(w)
    \/ FinishJob(w)
TimePasses == \E c \in Cred : MarkerPasses(c)

Proceed ==
    \/ CallerSteps
    \/ \E n \in notes : Notify(n)
    \/ \E l \in Loops : LoopSteps(l)
    \/ \E w \in Workers : WorkerSteps(w)
    \/ TimePasses

Next == Calls \/ Proceed

Notifies(who) == \E n \in notes : n.by = who /\ Notify(n)
ComesUp(l, c) == \E due \in SUBSET Cred : c \in due /\ popDue(l, due)

(* Goroutines run and time passes; calls need not be made.  Of the channels *)
(* that are ready, select takes one at random: none is passed over forever. *)
Fairness ==
    /\ WF_vars(CallerSteps) /\ WF_vars(Notifies(Callers))
    /\ \A l \in Loops :
           /\ WF_vars(LoopSteps(l) \/ Notifies(Dispatcher(l)))
           /\ SF_vars(LoopDone(l))
           /\ \A c \in Cred : SF_vars(ComesUp(l, c))
    /\ \A w \in Workers : WF_vars(WorkerSteps(w) \/ Notifies(Worker(w)))
    /\ \A c \in Cred : WF_vars(MarkerPasses(c))

Spec == Init /\ [][Next]_vars /\ Fairness

-----------------------------------------------------------------------------
(* Properties *)

Auth == [live : BOOLEAN, epoch : Nat, terminal : BOOLEAN, need : BOOLEAN,
         nra : {"none", "pending", "wait"}]
ManagerType ==
    /\ auth \in [Cred -> Auth] /\ exec \in BOOLEAN
    /\ refreshJobs \in [Cred -> Job \cup {None}]
CallerType ==
    /\ created \in 0 .. MaxLoops /\ refreshLoop \in 0 .. created /\ cancelled \subseteq Loops
    /\ caller \in [pc : {"idle", "cancelPrev", "cancel", "install", "rebuildRead", "rebuildStore"},
                   loop : 0 .. created, seen : {None} \cup SUBSET Cred]
    /\ caller.pc \in {"cancelPrev", "install"} => created < MaxLoops
    /\ caller.pc \in {"rebuildRead", "rebuildStore"} => created > 0
    /\ caller.pc = "rebuildStore" => caller.seen \subseteq Cred
ScheduleType ==
    /\ heap \in [Loops -> SUBSET Cred] /\ dirty \in [Loops -> SUBSET Cred]
    /\ wake \in [Loops -> BOOLEAN] /\ forgotten \subseteq Cred
    /\ \A n \in notes : n.cred \in Cred /\ n.loop \in 0 .. MaxLoops

(* What a dispatching goroutine knows of the credential it works on. *)
Due == [next : BOOLEAN, should : BOOLEAN, exec : BOOLEAN, epoch : Nat]
Seen == {None} \cup Due \cup [next : BOOLEAN] \cup [epoch : Nat]
Goroutine ==
    [pc : {"none", "select", "apply", "applyAct", "handle", "act", "retry", "retryAct", "send",
           "refused", "drain", "release", "releasing", "gone"},
     todo : SUBSET Cred, cred : Cred \cup {None}, seen : Seen]
Knows(r) ==
    /\ r.pc \in {"act", "retry", "retryAct", "send", "refused", "applyAct"} => r.cred \in Cred
    /\ r.pc = "act" => r.seen \in Due
    /\ r.pc = "send" => r.seen \in [epoch : Nat]
LoopType == loop \in [Loops -> Goroutine] /\ \A l \in Loops : Knows(loop[l])

(* A worker has a job from its taking to its finishing. *)
HasJob == {"begin", "refresh", "exec", "finish"}
Working(w) == worker[w].pc \in HasJob
JobType ==
    /\ jobs \in [Loops -> Seq([cred : Cred, epoch : Nat])]
    /\ \A l \in Loops : Len(jobs[l]) <= JobBuffer
WorkerType ==
    /\ worker \in [Workers -> [pc : HasJob \cup {"none", "idle", "gone"},
                               cred : Cred \cup {None}, epoch : Nat]]
    /\ \A w \in Workers : Working(w) => worker[w].cred \in Cred

(* The variables hold what their types say; no queue exceeds its capacity. *)
TypeOK == ManagerType /\ CallerType /\ ScheduleType /\ LoopType /\ JobType /\ WorkerType

Refreshing(w, c) == worker[w].pc = "exec" /\ worker[w].cred = c

HeldBySomeone(c, l) ==
    \/ loop[l].pc = "send" /\ loop[l].cred = c
    \/ loop[l].pc # "gone" /\ \E i \in 1 .. Len(jobs[l]) : jobs[l][i].cred = c
    \/ \E w \in Workers :
           w[1] = l /\ worker[w].cred = c /\ Working(w)

(* A registered job keeps every other refresh of its credential away, so    *)
(* somebody must still be going to finish it, over every way a loop can be  *)
(* stopped or replaced; and no two workers, of the same loop or of a loop   *)
(* and its successor, refresh one credential at a time.                     *)
JobsAccounted ==
    /\ TypeOK
    /\ \A c \in Cred : refreshJobs[c] # None => HeldBySomeone(c, refreshJobs[c].loop)
    /\ \A c \in Cred, v, w \in Workers : Refreshing(v, c) /\ Refreshing(w, c) => v = w

ToRefresh(c) == Schedulable(c) /\ auth[c].need /\ exec /\ refreshLoop # 0

(* While a loop runs, a credential whose token is old is refreshed, however *)
(* its notifications, markers, jobs and restarts of the loop interleave,    *)
(* unless a late removal has taken it out of the schedule.                  *)
RefreshHappens ==
    \A c \in Cred :
        ToRefresh(c) ~> (~ToRefresh(c) \/ c \in forgotten \/ \E w \in Workers : Refreshing(w, c))
=============================================================================
