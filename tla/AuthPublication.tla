--------------------------- MODULE AuthPublication ---------------------------
(***************************************************************************)
(* One credential of the auth manager and its copy in the scheduler        *)
(* (sdk/cliproxy/auth: conductor_lifecycle.go, conductor_persistence.go,   *)
(* conductor_cooldown.go, conductor_refresh.go, conductor_selection.go,    *)
(* scheduler.go).  A mutation holds the credential's gate, drops m.mu while*)
(* the store saves, commits, releases the gate and only then publishes its *)
(* snapshot to the scheduler: publications arrive in any order, results    *)
(* and refreshes come back against a credential that has moved on, and a   *)
(* rebuild of the scheduler works from an older snapshot.                  *)
(*                                                                         *)
(* Credentials are independent of each other here, so the module follows   *)
(* one of them.  Tokens and availability states (status, cooldown, quota)  *)
(* are the number of the operation that wrote them.  Load runs once, before*)
(* the first request, and is the initial state.                            *)
(***************************************************************************)
EXTENDS Integers

CONSTANTS
    Procs,      \* goroutines: requests, watcher, management API, refresh workers
    NoProc,     \* nobody holds the lock
    NoAuth,     \* the credential is in no map
    MaxOps      \* bound on the operations begun

Auth == [epoch : Nat, gen : Nat, ver : Nat, tok : Nat, on : BOOLEAN, run : Nat]

ASSUME ConstantsAssumption ==
    /\ NoProc \notin Procs
    /\ NoAuth \notin Auth
    /\ MaxOps \in Nat

VARIABLES
    auth,           \* m.auths[id]
    authEpochs,     \* m.authEpochs[id]
    gate,           \* authMutationLocks[id]: who mutates the credential
    refreshLock,    \* refreshLocks[id]
    prepareLock,    \* requestPrepareLocks[id]
    persistLock,    \* persistLocks[id]: lastEpoch, lastGeneration
    store,          \* the credential file: its token, and why the manager may
                    \* rightly hold another one, if so
    sched,          \* scheduler: authGenerations[id] and the scheduled entry
    version,        \* structuralEpoch
    synced,         \* syncedVersion
    syncMu,         \* syncSchedulerMu
    isMeta,         \* the provider is "meta": its minted keys must be saved first
    job,            \* what each goroutine is doing
    ops             \* operations begun so far

loginLocks == <<refreshLock, prepareLock>>
lockVars == <<gate, loginLocks, syncMu>>
storeVars == <<persistLock, store>>
schedVars == <<sched, version, synced>>
vars == <<auth, authEpochs, lockVars, storeVars, schedVars, isMeta, job, ops>>

Idle == [at |-> "idle", kind |-> "none", base |-> NoAuth, draft |-> NoAuth, seen |-> 0]
Busy(at, kind, base, draft, seen) ==
    [at |-> at, kind |-> kind, base |-> base, draft |-> draft, seen |-> seen]
At(p, at) == job[p].at = at
Goto(p, at) == job' = [job EXCEPT ![p].at = at]
Finish(p) == job' = [job EXCEPT ![p] = Idle]
Begin == ops < MaxOps /\ ops' = ops + 1
Now == ops + 1      \* the number of the operation that begins here
Larger(a, b) == IF a > b THEN a ELSE b

-----------------------------------------------------------------------------
(* The scheduler's entry for the credential. *)

(* Mutant: a publication of an older registration is told by its generation alone. *)
isStaleByGeneration(a) == sched.gen > a.gen

isStaleScheduledAuth(a) ==
    sched.epoch > a.epoch \/ (sched.epoch = a.epoch /\ sched.gen > a.gen)

Scheduled(a) == [epoch |-> a.epoch, gen |-> a.gen, entry |-> IF a.on THEN a ELSE NoAuth]

(* upsertAuth and upsertAuthResult on this credential. *)
upsertAuth(a) == sched' = IF isStaleScheduledAuth(a) THEN sched ELSE Scheduled(a)

RecordRemovalTombstone(epoch) ==
    sched' = IF epoch < sched.epoch THEN sched
             ELSE [epoch |-> epoch, gen |-> 0, entry |-> NoAuth]

(* Mutant: a rebuild trusts its snapshot over what was published since. *)
NewerThanRegardless(a) == FALSE

NewerThan(a) == sched.epoch = a.epoch /\ sched.gen > a.gen

(* rebuild: every entry is dropped, then the ones of the snapshot are put back. *)
rebuild(a) ==
    sched' = IF a = NoAuth \/ sched.epoch > a.epoch THEN [sched EXCEPT !.entry = NoAuth]
             ELSE IF NewerThan(a) THEN sched
             ELSE IF a.on THEN Scheduled(a)
             ELSE [sched EXCEPT !.entry = NoAuth]

needsSync ==
    IF auth # NoAuth /\ auth.on
    THEN sched.entry = NoAuth \/ sched.epoch # auth.epoch
    ELSE sched.entry # NoAuth

-----------------------------------------------------------------------------
(* Mutations: under the gate, up to the save. *)

(* Mutant: a removal does not wait for the mutation in flight. *)
GateFreeNever == TRUE

GateFree == gate = NoProc

Lock(p) == gate = NoProc /\ gate' = p

(* Mutant: new tokens keep the version of the old ones. *)
CredentialVersionKept(d) == auth.ver

CredentialVersion(d) == IF d.tok # auth.tok THEN auth.ver + 1 ELSE auth.ver

(* updateInternalLocked: the next generation of the credential, about to be saved. *)
NextAuth(d) ==
    [d EXCEPT !.epoch = authEpochs, !.gen = Larger(d.gen, auth.gen) + 1,
              !.ver = CredentialVersion(d)]

Save(p, kind, base, d) ==
    job' = [job EXCEPT ![p] = Busy("io", kind, base, d, IF auth = NoAuth THEN 0 ELSE auth.run)]

NewAuth(tok, on) ==
    [epoch |-> authEpochs + 1, gen |-> 1, ver |-> IF auth = NoAuth THEN 1 ELSE auth.ver + 1,
     tok |-> tok, on |-> on, run |-> 0]

(* Register, with an id that may already be in use. *)
Register(p) ==
    /\ At(p, "idle") /\ Begin /\ Lock(p)
    /\ authEpochs' = authEpochs + 1
    /\ \E on \in BOOLEAN :
          Save(p, "register", NoAuth, NewAuth(Now, on))
    /\ UNCHANGED <<auth, loginLocks, syncMu, storeVars, schedVars>>

(* Update: a login or a management request replaces the credential. *)
Update(p) ==
    /\ At(p, "idle") /\ Begin /\ Lock(p)
    /\ auth # NoAuth
    /\ \E on \in BOOLEAN, tok \in {auth.tok, Now} :
          Save(p, "update", NoAuth,
               NextAuth([auth EXCEPT !.gen = 0, !.tok = tok, !.on = on, !.run = Now]))
    /\ UNCHANGED <<auth, authEpochs, loginLocks, syncMu, storeVars, schedVars>>

(* external: somebody writes the credential file. *)
EditFile ==
    /\ Begin
    /\ store' = [tok |-> Now, apart |-> "edited"]
    /\ UNCHANGED <<auth, authEpochs, lockVars, persistLock, schedVars, job>>

(* The watcher reads the file; its update is applied some time later. *)
WatchRead(p) ==
    /\ At(p, "idle") /\ Begin
    /\ job' = [job EXCEPT ![p] = Busy("watched", "watch", NoAuth, NoAuth, store.tok)]
    /\ UNCHANGED <<auth, authEpochs, lockVars, storeVars, schedVars>>

(* prepareCoreAuthForModelRegistration decides between Register and Update. *)
WatchLookup(p) ==
    /\ At(p, "watched")
    /\ job' = [job EXCEPT ![p].at = "found", ![p].kind = IF auth = NoAuth THEN "load" ELSE "watch"]
    /\ UNCHANGED <<auth, authEpochs, lockVars, storeVars, schedVars, ops>>

(* Mutant: what the watcher read is taken for what the file holds. *)
FileSnapshotTrusted(p) == TRUE

FileSnapshotMatchesDisk(p) == job[p].seen = store.tok

(* The file has changed since, or the credential is gone: nothing to update. *)
WatchDiscard(p) ==
    /\ At(p, "found") /\ GateFree
    /\ job[p].kind = "watch"
    /\ auth = NoAuth \/ ~FileSnapshotMatchesDisk(p)
    /\ Finish(p)
    /\ UNCHANGED <<auth, authEpochs, lockVars, storeVars, schedVars, ops>>

WatchUpdate(p) ==
    /\ At(p, "found") /\ Lock(p)
    /\ job[p].kind = "watch"
    /\ auth # NoAuth /\ FileSnapshotMatchesDisk(p)
    /\ store' = [store EXCEPT !.apart = "no"]
    /\ \E run \in {auth.run, 0} :
          Save(p, "watch", NoAuth, NextAuth([auth EXCEPT !.gen = 0, !.tok = job[p].seen, !.run = run]))
    /\ UNCHANGED <<auth, authEpochs, loginLocks, syncMu, persistLock, schedVars, ops>>

(* Register takes the reading as it is, even when the id has been registered meanwhile. *)
WatchRegister(p) ==
    /\ At(p, "found") /\ Lock(p)
    /\ job[p].kind = "load"
    /\ authEpochs' = authEpochs + 1
    /\ store' = [store EXCEPT !.apart = IF job[p].seen # store.tok THEN "late" ELSE "no"]
    /\ Save(p, "load", NoAuth, NewAuth(job[p].seen, TRUE))
    /\ UNCHANGED <<auth, loginLocks, syncMu, persistLock, schedVars, ops>>

(* Modify: the edit works on a clone taken under the gate ... *)
ModifyRead(p) ==
    /\ At(p, "idle") /\ Begin /\ Lock(p)
    /\ auth # NoAuth
    /\ job' = [job EXCEPT ![p] = Busy("edit", "modify", NoAuth, [auth EXCEPT !.on = ~@], 0)]
    /\ UNCHANGED <<auth, authEpochs, loginLocks, syncMu, storeVars, schedVars>>

(* ... which then replaces the credential like any other update. *)
ModifyApply(p) ==
    /\ At(p, "edit")
    /\ IF auth = NoAuth
       THEN gate' = NoProc /\ Finish(p)
       ELSE UNCHANGED gate /\ Save(p, "modify", NoAuth, NextAuth(job[p].draft))
    /\ UNCHANGED <<auth, authEpochs, loginLocks, syncMu, storeVars, schedVars, ops>>

(* prepareRequestAuth: a request completes the credential upstream.  Meta mints  *)
(* its keys here and in a refresh, under one lock.                             *)
PrepareBegin(p) ==
    /\ At(p, "idle") /\ Begin
    /\ IF isMeta THEN refreshLock = NoProc /\ refreshLock' = p /\ UNCHANGED prepareLock
                 ELSE prepareLock = NoProc /\ prepareLock' = p /\ UNCHANGED refreshLock
    /\ auth # NoAuth
    /\ job' = [job EXCEPT ![p] = Busy("upstream", "prepare", auth, NoAuth, Now)]
    /\ UNCHANGED <<auth, authEpochs, gate, syncMu, storeVars, schedVars>>

(* A request or a refresh worker takes the credential upstream for new tokens. *)
RefreshBegin(p) ==
    /\ At(p, "idle") /\ Begin
    /\ refreshLock = NoProc /\ refreshLock' = p
    /\ auth # NoAuth
    /\ job' = [job EXCEPT ![p] = Busy("upstream", "refresh", auth, NoAuth, Now)]
    /\ UNCHANGED <<auth, authEpochs, gate, prepareLock, syncMu, storeVars, schedVars>>

Unlocked(lock, p) == IF lock = p THEN NoProc ELSE lock

Done(p) ==
    /\ Finish(p)
    /\ refreshLock' = Unlocked(refreshLock, p)
    /\ prepareLock' = Unlocked(prepareLock, p)

(* The preparation fails upstream; the request goes on without it. *)
PrepareFails(p) ==
    /\ At(p, "upstream") /\ job[p].kind = "prepare"
    /\ Done(p)
    /\ UNCHANGED <<auth, authEpochs, gate, syncMu, storeVars, schedVars, ops>>

(* Mutant: the tokens a slow refresh brings back always win. *)
StaleRefreshNever(base) == FALSE

StaleRefresh(base) == auth.ver # base.ver \/ auth.tok # base.tok

(* updateInternalLocked turns the result of a refresh or a preparation away. *)
UpdateRejected(p) ==
    /\ At(p, "upstream") /\ GateFree
    /\ \/ auth = NoAuth
       \/ auth # NoAuth /\ auth.epoch # job[p].base.epoch
       \/ auth # NoAuth /\ job[p].kind = "refresh" /\ StaleRefresh(job[p].base)
    /\ Done(p)
    /\ UNCHANGED <<auth, authEpochs, gate, syncMu, storeVars, schedVars, ops>>

(* The result is merged into the current credential: its tokens, the others' switches. *)
UpdateMerged(p) ==
    /\ At(p, "upstream") /\ Lock(p)
    /\ auth # NoAuth
    /\ auth.epoch = job[p].base.epoch
    /\ job[p].kind = "refresh" => ~StaleRefresh(job[p].base)
    /\ \E tok \in {auth.tok, job[p].seen} :
          Save(p, job[p].kind, job[p].base,
               NextAuth([auth EXCEPT !.tok = tok,
                                     !.run = IF job[p].kind = "refresh" THEN job[p].seen ELSE @]))
    /\ UNCHANGED <<auth, authEpochs, loginLocks, syncMu, storeVars, schedVars, ops>>

-----------------------------------------------------------------------------
(* Results of executions, and cooldowns reset by hand: in place, then saved. *)

(* A request runs with the copy of the credential the scheduler handed out. *)
Execute(p) ==
    /\ At(p, "idle") /\ Begin
    /\ sched.entry # NoAuth
    /\ job' = [job EXCEPT ![p] = Busy("executing", "mark", sched.entry, NoAuth, Now)]
    /\ UNCHANGED <<auth, authEpochs, lockVars, storeVars, schedVars>>

(* Mutant: a result of an earlier registration is judged by its version like any other. *)
isStaleResultByVersion(r) == r.tok # auth.tok /\ r.ver < auth.ver

isStaleExecutionResult(r) == r.epoch < auth.epoch \/ (r.tok # auth.tok /\ r.ver < auth.ver)

(* MarkResult drops the result; a rejected token may still be remembered. *)
MarkResultDropped(p) ==
    /\ At(p, "executing") /\ GateFree
    /\ \/ auth = NoAuth /\ UNCHANGED auth
       \/ /\ auth # NoAuth /\ isStaleExecutionResult(job[p].base)
          /\ auth' \in {auth} \cup (IF job[p].base.epoch < auth.epoch THEN {}
                                    ELSE {[auth EXCEPT !.gen = @ + 1]})
    /\ Finish(p)
    /\ UNCHANGED <<authEpochs, lockVars, storeVars, schedVars, ops>>

InPlace(run) == auth' = [auth EXCEPT !.gen = @ + 1, !.run = run]

MarkResult(p) ==
    /\ At(p, "executing") /\ Lock(p)
    /\ auth # NoAuth
    /\ ~isStaleExecutionResult(job[p].base)
    /\ InPlace(job[p].seen)
    /\ job' = [job EXCEPT ![p] = Busy("io", "mark", job[p].base, auth', job[p].seen)]
    /\ UNCHANGED <<authEpochs, loginLocks, syncMu, storeVars, schedVars, ops>>

(* ResetQuota: the snapshot to publish is taken before the save. *)
ResetQuota(p) ==
    /\ At(p, "idle") /\ Lock(p) /\ Begin
    /\ auth # NoAuth
    /\ InPlace(Now)
    /\ job' = [job EXCEPT ![p] = Busy("io", "reset", NoAuth, auth', Now)]
    /\ UNCHANGED <<authEpochs, loginLocks, syncMu, storeVars, schedVars>>

-----------------------------------------------------------------------------
(* Writers that publish under m.mu; most do not take the gate and run during another's save. *)

(* markRefreshPending and finishRefreshJob: only the refresh schedule moves. *)
RefreshPending ==
    /\ Begin
    /\ auth # NoAuth
    /\ auth' = [auth EXCEPT !.gen = @ + 1]
    /\ UNCHANGED <<authEpochs, lockVars, storeVars, schedVars, job>>

(* markRejectedAccessToken: upstream refused this token; recorded before the refresh. *)
markRejectedAccessToken ==
    /\ Begin /\ GateFree
    /\ auth # NoAuth
    /\ auth' = [auth EXCEPT !.gen = @ + 1]
    /\ upsertAuth(auth')
    /\ UNCHANGED <<authEpochs, lockVars, storeVars, version, synced, job>>

(* The upstream refresh fails: the credential is marked and published under m.mu. *)
RefreshFails(p) ==
    /\ At(p, "upstream")
    /\ job[p].kind = "refresh"
    /\ \/ UNCHANGED <<auth, sched>>      \* gone, registered anew or marked already
       \/ /\ auth # NoAuth /\ auth.epoch = job[p].base.epoch
          /\ InPlace(job[p].seen) /\ upsertAuth(auth')
    /\ Done(p)
    /\ UNCHANGED <<authEpochs, gate, syncMu, storeVars, version, synced, ops>>

(* The caller of the refresh goes away: published as it is, no new generation. *)
RefreshCancelled(p) ==
    /\ At(p, "upstream")
    /\ job[p].kind = "refresh"
    /\ IF auth # NoAuth THEN upsertAuth(auth) ELSE UNCHANGED sched
    /\ Done(p)
    /\ UNCHANGED <<auth, authEpochs, gate, syncMu, storeVars, version, synced, ops>>

-----------------------------------------------------------------------------
(* The save, the commit and the publication. *)

(* Mutant: a re-registered credential starts again at generation 1 and is not saved. *)
PersistIsOldByGeneration(d) == d.gen < persistLock.gen

PersistIsOld(d) ==
    \/ d.epoch < persistLock.epoch
    \/ d.epoch = persistLock.epoch /\ d.gen < persistLock.gen

(* Mutant: a failed save never holds a credential back. *)
MustSaveNever(kind) == FALSE

(* WithSkipPersist: what comes from the file is not written back to it. *)
SkipPersist(kind) == kind \in {"watch", "load"}

MustSave(kind) == isMeta /\ kind \in {"refresh", "prepare"}

(* persist: the store takes the credential, unless a newer one was saved already. *)
SaveOk(p) ==
    /\ At(p, "io")
    /\ IF PersistIsOld(job[p].draft)
       THEN UNCHANGED storeVars
       ELSE /\ persistLock' = [epoch |-> job[p].draft.epoch, gen |-> job[p].draft.gen]
            /\ store' = IF SkipPersist(job[p].kind) THEN store
                        ELSE [tok |-> job[p].draft.tok, apart |-> "no"]
    /\ Goto(p, "commit")
    /\ UNCHANGED <<auth, authEpochs, lockVars, schedVars, ops>>

(* A failed save is logged; only a freshly minted Meta key is then withheld. *)
SaveFails(p) ==
    /\ At(p, "io")
    /\ ~PersistIsOld(job[p].draft) /\ ~SkipPersist(job[p].kind)
    /\ persistLock' = [epoch |-> job[p].draft.epoch, gen |-> job[p].draft.gen]
    /\ IF MustSave(job[p].kind)
       THEN gate' = NoProc /\ Done(p) /\ UNCHANGED store
       ELSE /\ Goto(p, "commit") /\ UNCHANGED <<gate, loginLocks>>
            /\ store' = [store EXCEPT !.apart = IF store.tok # job[p].draft.tok THEN "unsaved" ELSE @]
    /\ UNCHANGED <<auth, authEpochs, syncMu, schedVars, ops>>

(* Mutant: what others wrote during the save is overwritten by the draft. *)
MergeNothing(p) == job[p].draft

(* mergeAuthSaveDelta, and a generation above everything written during the save. *)
MergeSaveDelta(p) ==
    LET d == job[p].draft IN
    [d EXCEPT !.run = IF auth.run # job[p].seen THEN auth.run ELSE @,
              !.gen = Larger(@, auth.gen + 1)]

Publish(p, a) == job' = [job EXCEPT ![p] = Busy("publish", job[p].kind, NoAuth, a, 0)]

(* The gate is released with the snapshot for the scheduler in hand. *)
Commit(p) ==
    /\ At(p, "commit")
    /\ gate' = NoProc
    /\ CASE job[p].kind = "mark" -> Publish(p, auth) /\ UNCHANGED <<auth, loginLocks>>
         [] job[p].kind = "reset" -> Publish(p, job[p].draft) /\ UNCHANGED <<auth, loginLocks>>
         [] OTHER ->
              IF authEpochs # job[p].draft.epoch
              THEN Done(p) /\ UNCHANGED auth
              ELSE /\ auth' = IF job[p].kind \in {"register", "load"} THEN job[p].draft ELSE MergeSaveDelta(p)
                   /\ Publish(p, auth')
                   /\ UNCHANGED loginLocks
    /\ UNCHANGED <<authEpochs, syncMu, storeVars, schedVars, ops>>

(* Remove: no save; a tombstone with an epoch of its own goes to the scheduler. *)
Remove(p) ==
    /\ At(p, "idle") /\ GateFree /\ Begin
    /\ auth # NoAuth
    /\ auth' = NoAuth
    /\ authEpochs' = authEpochs + 1
    /\ job' = [job EXCEPT ![p] = Busy("publish", "remove", NoAuth, NoAuth, authEpochs + 1)]
    /\ UNCHANGED <<lockVars, storeVars, schedVars>>

(* RefreshSchedulerEntry: a second publication of the current state, counted first. *)
RefreshSchedulerEntry(p) ==
    /\ At(p, "idle") /\ Begin
    /\ auth # NoAuth
    /\ version' = version + 1
    /\ job' = [job EXCEPT ![p] = Busy("publish", "entry", NoAuth, auth, 0)]
    /\ UNCHANGED <<auth, authEpochs, lockVars, storeVars, sched, synced>>

PublishToScheduler(p) ==
    /\ At(p, "publish")
    /\ IF job[p].kind = "remove" THEN RecordRemovalTombstone(job[p].seen) ELSE upsertAuth(job[p].draft)
    /\ IF job[p].kind \in {"mark", "reset", "entry"}
       THEN Finish(p)
       ELSE job' = [job EXCEPT ![p] = Busy("bump", "none", NoAuth, NoAuth, 0)]
    /\ UNCHANGED <<auth, authEpochs, lockVars, storeVars, version, synced, ops>>

(* structuralEpoch.Add(1), and the end of the operation. *)
BumpStructuralEpoch(p) ==
    /\ At(p, "bump")
    /\ version' = version + 1
    /\ Done(p)
    /\ UNCHANGED <<auth, authEpochs, gate, syncMu, storeVars, sched, synced, ops>>

-----------------------------------------------------------------------------
(* checkAndSyncScheduler: a pick that failed rebuilds the scheduler if it must. *)

SyncBegin(p) ==
    /\ At(p, "idle")
    /\ syncMu = NoProc
    /\ version # synced
    /\ syncMu' = p
    /\ job' = [job EXCEPT ![p] = Busy("check", "sync", NoAuth, NoAuth, version)]
    /\ UNCHANGED <<auth, authEpochs, gate, loginLocks, storeVars, schedVars, ops>>

SyncEnd(p) == syncMu' = NoProc /\ Finish(p)

advanceSyncedVersion(p) == synced' = Larger(synced, job[p].seen)

SyncCheck(p) ==
    /\ At(p, "check")
    /\ IF needsSync
       THEN Goto(p, "snapshot") /\ UNCHANGED <<syncMu, synced>>
       ELSE advanceSyncedVersion(p) /\ SyncEnd(p)
    /\ UNCHANGED <<auth, authEpochs, gate, loginLocks, storeVars, sched, version, ops>>

SyncSnapshot(p) ==
    /\ At(p, "snapshot")
    /\ job' = [job EXCEPT ![p].at = "rebuild", ![p].draft = auth]
    /\ UNCHANGED <<auth, authEpochs, lockVars, storeVars, schedVars, ops>>

SyncRebuild(p) ==
    /\ At(p, "rebuild")
    /\ rebuild(job[p].draft)
    /\ job' = [job EXCEPT ![p].at = "verify", ![p].draft = NoAuth]
    /\ UNCHANGED <<auth, authEpochs, lockVars, storeVars, version, synced, ops>>

(* Mutant: the rebuild is taken to have worked. *)
VerifiedAlways == TRUE

Verified == ~needsSync

SyncVerify(p) ==
    /\ At(p, "verify")
    /\ IF Verified THEN advanceSyncedVersion(p) ELSE UNCHANGED synced
    /\ SyncEnd(p)
    /\ UNCHANGED <<auth, authEpochs, gate, loginLocks, storeVars, sched, version, ops>>

-----------------------------------------------------------------------------
(* Load has read one enabled credential and the scheduler was built from it. *)
Loaded == [epoch |-> 1, gen |-> 1, ver |-> 1, tok |-> 0, on |-> TRUE, run |-> 0]

Init ==
    /\ auth = Loaded
    /\ authEpochs = 1
    /\ gate = NoProc /\ syncMu = NoProc /\ refreshLock = NoProc /\ prepareLock = NoProc
    /\ persistLock = [epoch |-> 0, gen |-> 0]
    /\ store = [tok |-> 0, apart |-> "no"]
    /\ sched = Scheduled(Loaded)
    /\ version = 1 /\ synced = 1
    /\ isMeta \in BOOLEAN
    /\ job = [p \in Procs |-> Idle]
    /\ ops = 0

Step(p) ==
    \/ Register(p) \/ Update(p) \/ ModifyRead(p) \/ ModifyApply(p) \/ Remove(p)
    \/ WatchRead(p) \/ WatchLookup(p) \/ WatchDiscard(p) \/ WatchUpdate(p) \/ WatchRegister(p)
    \/ PrepareBegin(p) \/ PrepareFails(p) \/ RefreshBegin(p) \/ UpdateRejected(p) \/ UpdateMerged(p)
    \/ RefreshFails(p) \/ RefreshCancelled(p)
    \/ Execute(p) \/ MarkResultDropped(p) \/ MarkResult(p) \/ ResetQuota(p)
    \/ SaveOk(p) \/ SaveFails(p) \/ Commit(p)
    \/ RefreshSchedulerEntry(p) \/ PublishToScheduler(p) \/ BumpStructuralEpoch(p)
    \/ SyncBegin(p) \/ SyncCheck(p) \/ SyncSnapshot(p) \/ SyncRebuild(p) \/ SyncVerify(p)

Next ==
    /\ \/ EditFile \/ RefreshPending \/ markRejectedAccessToken
       \/ \E p \in Procs : Step(p)
    /\ UNCHANGED isMeta

Spec == Init /\ [][Next]_vars

-----------------------------------------------------------------------------
(* Properties. *)

AuthOrNone == Auth \cup {NoAuth}
ManagerType ==
    /\ auth \in AuthOrNone /\ authEpochs \in Nat
    /\ isMeta \in BOOLEAN /\ ops \in 0 .. MaxOps
LockType == {gate, refreshLock, prepareLock, syncMu} \subseteq Procs \cup {NoProc}
StoreType ==
    /\ persistLock \in [epoch : Nat, gen : Nat]
    /\ store \in [tok : Nat, apart : {"no", "unsaved", "edited", "late"}]
SchedType ==
    /\ sched \in [epoch : Nat, gen : Nat, entry : AuthOrNone]
    /\ version \in Nat /\ synced \in Nat
Places == {"idle", "watched", "found", "edit", "upstream", "executing", "io", "commit", "publish",
           "bump", "check", "snapshot", "rebuild", "verify"}
Kinds == {"none", "register", "update", "watch", "load", "modify", "refresh", "prepare", "mark",
          "reset", "remove", "entry", "sync"}
Job == [at : Places, kind : Kinds, base : AuthOrNone, draft : AuthOrNone, seen : Nat]
Carries(r) ==
    r.at \in {"edit", "io", "commit"} \/ (r.at = "publish" /\ r.kind # "remove") => r.draft # NoAuth
JobType == job \in [Procs -> Job] /\ \A p \in Procs : Carries(job[p])

(* Every variable holds a value of its kind; what is saved or published is a credential. *)
TypeOK == ManagerType /\ LockType /\ StoreType /\ SchedType /\ JobType

Saving(p) == job[p].at \in {"io", "commit"}

(* The registration a mutation saves for is still the current one when the   *)
(* save returns: Register and Update never meet "changed registration during *)
(* persistence", and no other goroutine removes or replaces the credential.  *)
RegistrationStable ==
    /\ TypeOK
    /\ \A p \in Procs : Saving(p) =>
           /\ authEpochs = job[p].draft.epoch
           /\ job[p].kind \notin {"register", "load"} =>
                  auth # NoAuth /\ auth.epoch = job[p].draft.epoch

(* After a restart the proxy logs in with the tokens it was using, and the   *)
(* watcher never puts back older ones: outside a mutation the file holds the *)
(* current token, unless saving it failed, somebody edited the file, or the  *)
(* watcher registered a new credential from an outdated reading.             *)
RestartSafe ==
    gate = NoProc /\ auth # NoAuth /\ store.apart = "no" => store.tok = auth.tok

Agrees ==
    IF auth # NoAuth /\ auth.on
    THEN /\ sched.entry # NoAuth
         /\ sched.entry.epoch = auth.epoch
         /\ sched.entry.tok = auth.tok
         /\ sched.entry.run = auth.run
    ELSE sched.entry = NoAuth

AtRest == \A p \in Procs : ~Saving(p) /\ job[p].at \notin {"publish", "rebuild"}

(* Once every publication has arrived, in whatever order, the scheduler      *)
(* hands out the credential the manager has, with its latest availability,   *)
(* and none that was removed or disabled; otherwise the versions differ, and *)
(* the next failed pick rebuilds the scheduler.                              *)
SchedulerAgrees == AtRest => Agrees \/ (needsSync /\ version # synced)

(* A result is booked on the credential that produced it: MarkResult accepts *)
(* it only while the registration and the token it was executed with are the *)
(* current ones.                                                             *)
ResultHitsItsCredential ==
    [][\A p \in Procs : At(p, "executing") /\ job'[p].at = "io" =>
           job[p].base.epoch = auth.epoch /\ job[p].base.tok = auth.tok]_vars

Committed(p) == At(p, "commit") /\ job'[p].at # "commit" /\ auth' # auth

(* A refresh that commits replaces exactly the tokens it was started from:   *)
(* tokens saved by a login, an edit or another refresh meanwhile survive it. *)
RefreshReplacesItsBase(p) ==
    job[p].kind = "refresh" =>
        auth # NoAuth /\ auth.epoch = job[p].base.epoch /\ auth.tok = job[p].base.tok

(* A failure recorded while another mutation was being saved is still in the *)
(* credential when that mutation commits, and has the higher generation.     *)
SaveKeepsLaterWrites(p) ==
    job[p].kind \notin {"register", "load"} =>
        auth'.gen > auth.gen /\ (auth.run # job[p].seen => auth'.run = auth.run)

(* What is written while a mutation is being saved survives its commit, be   *)
(* it tokens or a result.  The span is that of the save, and for a refresh   *)
(* also that of the upstream call: Modify applies a copy it has made in an   *)
(* earlier section of m.mu, and a refresh failure in between is lost.        *)
SavesLoseNothing ==
    [][\A p \in Procs : Committed(p) =>
           RefreshReplacesItsBase(p) /\ SaveKeepsLaterWrites(p)]_vars

(* A Meta key that was minted during a refresh or a preparation is in the    *)
(* file before any request can use it, also when saving it fails.            *)
MintedKeyIsSaved ==
    [][\A p \in Procs : isMeta /\ Committed(p) /\ job[p].kind \in {"refresh", "prepare"} =>
           auth'.tok \in {auth.tok, store.tok} \/ store.apart = "edited"]_vars

=============================================================================
