# TLA+ models of CLIProxyAPI

`vibe-proxy` deploys CLIProxyAPI, a Go proxy that routes requests of command-line
coding assistants over pools of provider credentials, together with a browser
front end (the Management Center) and the containers around both.  The logic that
is hard to get right sits in `src/CLIProxyAPI/sdk/cliproxy` and `src/CLIProxyAPI/internal`:
many goroutines share credentials whose tokens, cooldowns and files change while
requests are running, and, in a cluster, a *Home* server hands out concurrency
slots that every node must give back exactly once.  This directory holds models of
that logic, the runs that check them with TLC, and proofs checked by TLAPS.

Paths below are relative to `src/CLIProxyAPI/`.

## Inventory

| Component | State | Operations | Modelled by |
|---|---|---|---|
| Execution registry (`sdk/cliproxy/executionregistry`) | lifecycle word, pending dispatch tokens, scopes with their bound resource, cumulative release sequences, release sink, observation barrier | BeginDispatch, Install, End, Bind, EndWithRelease, SetReleaseSink, ObserveBarrier, FreezeInFlight, WaitPending, Drain, Close | `ExecutionRegistry` |
| Release flusher (`internal/home/concurrency_release.go`) | latest and acknowledged sequence and open tickets per group, wake and force channels, timer, sender | MarkDirty, SetSender, Run, flush, Flush | `HomeRelease` |
| Home subscriber (`runHomeSubscriber` in `sdk/cliproxy/service_home.go`) | the current lifetime, registry and flusher of the connection | connect, rebalance, take over or replace the registry, stop | `HomeRelease`, `HomeConfig` |
| Home configuration worker (`service_home.go`) | queue of frames, one worker per lifetime, commit mutex, published client and bundle | enqueue, stage, commit, apply, finalize, publish, detach | `HomeConfig` |
| Auth manager (`sdk/cliproxy/auth/conductor_*.go`) | credentials with registration epoch, generation, credential version and availability; per-credential gates and locks; credential files | Load, Register, Update, Modify, Remove, MarkResult, ResetQuota, refresh, request preparation | `AuthPublication` (partly) |
| Auth scheduler (`sdk/cliproxy/auth/scheduler.go`) | a published copy of every credential, generations, per-model views and cursors | upsert, removal tombstone, rebuild, pick | `AuthPublication` (publication and rebuild) |
| Cooldowns (`conductor_cooldown.go`, cooldown store) | per-model states in two layers, credential quota, backoff levels, execution sequence numbers, saved records | MarkResult, quota observation and restoration, ResetQuota, save, restore | `Cooldowns` |
| Background metadata saves (`conductor_persistence.go`, `antigravity_model_probes.go`) | preemption hook and waiters per credential, the global save gate, queue of hint revisions | PersistMetadataEntry, foreground mutation and save, queue and run of hint saves | `MetadataSave` |
| Session cache (`session_cache.go`) | per-alias entries, groups, eviction order, session index | get, bind, refresh, unbind, invalidate, expire, evict | `SessionCache`, abstractly `SessionBindings` |
| Session affinity (`SessionAffinitySelector` in `selector.go`) | the bindings above | pick with a parent session, rebind, result, removal | `SessionAffinity` |
| Auto-refresh loop (`auto_refresh_loop.go`) | heap, dirty set, wake channel, bounded job queue, registry of jobs | start, stop, reschedule, unschedule, dispatch, refresh, release | `AutoRefresh` |
| Websocket relay (`internal/wsrelay`) | sessions, pending requests with bounded channels | request, dispatch, cancel, cleanup | `RelaySession` |
| Home dispatch owner, in-flight publisher | selection bundle, publisher snapshot | dispatch, publish | planned |
| Model registry (`internal/registry/model_registry.go`) | reference counts, registration epochs, suspensions | register, unregister, project | planned |
| Usage manager, redis queue | record queues | publish, dispatch, stop, pop | planned |
| File watcher | pending updates, file digests | events, dispatch | its effect on a credential is in `AuthPublication` |

Components without a row (translators, provider executors, plugin host, stores,
HTTP handlers, front end, deployment) are listed in `PROJECT.json` with the reason
why they are not modelled: stateless data conversion, I/O, or foreign code.

### How the parts interact

A request asks the scheduler for a credential, executes with the *copy* it was
handed and reports a result to `MarkResult`.  The manager is the only writer of
credentials; it saves to a store (a file, watched by the watcher, which feeds
changes back into the manager) and publishes to the scheduler after it has released
its locks.  In a Home cluster the request first gets a dispatch from Home, protected
by a token of the execution registry; the token becomes a *scope*, the scope owns a
resource (a cancellable connection), and when the scope ends the registry counts a
release for its credential and model.  The flusher carries these cumulative counts
to Home.  Home observes the registry through barriers and in-flight snapshots, and sends
configuration frames back over the same connection.  Sessions stick to credentials through
the session cache; the auto-refresh loop and the background metadata saves work on the
credentials behind the requests' back, under the same gates.

### What is hard

* **Interleavings at dropped locks.**  `persistLocked` releases `m.mu` while a store
  saves; the scheduler is told after the gate is released; `EndWithRelease` leaves
  the registry mutex to close a resource and to call the sink.
* **Late arrivals.**  Results, refreshed tokens, file readings, scheduler snapshots,
  acknowledgements, session bindings and `MarkDirty` calls arrive after the state they refer to
  changed.
* **Stopping.**  `Drain`, `Close`, `Flush`, a reconnect and the replacement of a loop race what is
  in flight.
* **Redundant state.**  The session cache keeps four structures that must agree; a model under a
  credential-wide quota has two layers of cooldown.
* **Failure.**  Lost replies from Home, failed or hanging saves, restarts.

The properties that make each part correct are stated in the modules and listed with
the runs below; `PROJECT.json` lists the hazards, each at its line, with the
properties aimed at it or the reason why there is none yet.

## Modules

### ExecutionRegistry

One action is one critical section of `Registry.mu`, or one access to the atomic
lifecycle word where the code makes it outside the mutex (`DrainStart`, `CloseStore`).
`scope[id]` is the `Scope` object together with the position of its owner inside
`EndWithRelease`: `EndInactive`, `EndStartClose`, `EndWaitClose`, `markReleasedLocked`,
`EndDeliver`, `EndDelete` are the steps between two lock operations, and
`closeResource` is the goroutine that runs the bound closer.  Goroutines that call
`Drain`, `WaitPending` and `Close` have a program counter in `pc`; `woken[t]` says that
the channel the goroutine captured has been closed by `signalLocked`.  `delivered` is
what each sink has been given and `barrierSequence` a history variable: how far
dispatching had come when each barrier was observed.

### HomeRelease

The flusher (`latest`, `acked`, `waiters`, `closed` are its `releaseState`s; `run`,
`batch`, `current`, `backingOff`, `timer` its `Run` goroutine) under the supervisor loop
of `runHomeSubscriber` (`supervisor` is the line it is at).  A flush reads the dirty
groups under the mutex, sends without it, and records each reply under it again:
`flushBegin`, `SendOk` or `SendFails`, `RecordAck`, `FlushEnd`.  A failed send loses the
frame or only its reply.  Durations are abstracted to two states of the timer: `due`
(it fires at once) and `delayed` (after the flush interval or a back-off).  The
registry is reduced to what `ExecutionRegistry` specifies of it: tokens, live executions,
sequences, and sink calls that are captured but not yet made.  When a takeover is not
safe the supervisor drains the registry and starts a new one with a new flusher, and
Home forgets the membership (`received` restarts); `incarnation` counts these.
`JoinRelease` and `FinalJoin` wait for `Run` to return before the client is closed.

### AuthPublication

One credential, followed through the manager and the scheduler; credentials share no
lock except `m.mu`, which is an atomic step here.  A mutation is the sequence *take the
gate, compute the next generation, drop `m.mu` and save, commit, release the gate,
publish, bump the structural epoch*: `Register`, `Update`, `WatchUpdate`,
`ModifyRead`/`ModifyApply`, `UpdateMerged`, then `SaveOk` or `SaveFails`, `Commit`,
`PublishToScheduler`, `BumpStructuralEpoch`.  `MarkResult` and `ResetQuota` write in place
before the save.  `RefreshFails`, `RefreshCancelled` and `RefreshPending` take only `m.mu`
and therefore run in the middle of another goroutine's save.  `checkAndSyncScheduler`
is split at its lock boundaries (`SyncBegin` to `SyncVerify`).  The token and the
availability (status, cooldowns, quota) of a credential are the number of the
operation that wrote them, which is all the properties compare; `on` is whether the
credential is enabled.  `store.apart` records why the file may rightly differ from the
manager: a failed save, an edit by somebody else, or a credential the watcher registered
from an outdated reading.

### RelaySession

One websocket session and the requests that travel over it.  `caller[r]` is the position of
a caller in `Manager.Send`, `session.request` and the loop of `NonStream` or `Stream`;
`reader` the goroutine of `run`; `after[r]` the callback `context.AfterFunc` runs when the
context is cancelled; `cleanup` the body of `closeOnce`, with `unvisited` for what
`sync.Map.Range` has left (a key stored meanwhile may or may not be visited).  `closed` is
read off `cleanup`.  Every critical section of a request's mutex is one step except
`deliver`, which blocks inside it: `Lock` enters, `Put` and `Drop` are the cases of its
`select`, of which any that is ready may be taken, and `MuFree` is what everybody else waits
for.  Frames are chunks, the end of an answer (`http_response` or `stream_end`) or an error.
Identifiers are fresh UUIDs, so the branch for a duplicate identifier is left out.

### HomeConfig

The configuration half of `runHomeSubscriber`.  Frames are numbered in the order Home issues
them (Home is external; `GET` may repeat a frame).  Every lifetime has a worker of its own,
`worker[l]`, which waits, takes the oldest frame (only the retry of a failed staging skips to the
newest), stages it, commits it under
`homeConfigCommitMu` (the check that the lifetime still lives and the store into `s.cfg` are two
steps), applies it to the running components, finalizes, and publishes the client of the
lifetime after its first frame; whether to publish is decided before the publication.  `sup`
walks through the supervisor: connect, subscribe, receive, join the worker and the publisher,
detach the three references to the client one by one, close it.  `op` is the holder of
`homeLifecycleMu`: a new start or the shutdown, which cancel the supervisor and wait for it.
With Home enabled neither the watcher nor the management handlers commit a configuration.

### SessionKeys, SessionBindings, SessionCache, SessionAffinity

`SessionBindings` is what the cache promises: a set of groups of aliases, each bound to one
credential for one session; `SessionKeys` holds what it shares with the code's version, the
aliases, the recorded selections and the newest of several.  `SessionCache` is the code's representation: every alias has its
own copy of the entry, `groups` has it once more under the first alias, and the eviction order and
the session index name groups by that alias.  An operation runs under `c.mu` and is one action,
trailing compaction and eviction included.  The lists of aliases and the eviction list are
sub-lists of what they were, written as `At(list, I)`, the elements at the positions in `I`.  The refinement mapping takes the groups that have
not expired; `Implements` is the abstract specification under that mapping.  A refresh of a
binding is a stuttering step, expiry and eviction are abstract unbindings.  `MaxEntries >
MaxStable`, as the code's constants are.  `SessionAffinity` puts the requests on top of the
*abstract* bindings: a pick is a snapshot of the credentials, a read of the bindings, a decision
and a bind, each a lock section of its own.  Credentials are ready, full, transiently failing,
blocked or removed.  `UnbindIf` and `InvalidateSessionAffinity` are the cache's `CompareAndDelete`
and `InvalidateAuth` as the selector and the manager call them; the fallback selector may return any available one.  Forks and children
share the client prefix of their parent.  Picks by longest common prefix are not modelled.

### MetadataSave

Mutations (`fg`) and background saves (`bg`, one runner per credential) compete for two levels of
gates: the mutation gate of a credential, with a hook that cancels the save that holds it and
the waiters that announced themselves, and the global save gate (`saveGate`, `saving`,
`fgActive`).  Checks made before a lock and repeated under it are separate steps.  Revisions
number what the model probes find; `meta`, `stored` and `recorded` are the newest revision in the
runtime metadata, in the store and in the record of persisted hints.  `Stale` abstracts the
validity check of a queued save.  The store answers, fails or hangs, one of the three for a
whole behaviour.

### Cooldowns

One credential and its models; an action is a whole operation under the mutation gate (or, for a
refresh that fails, under `m.mu`).  Time is counted in ticks.  A `ModelState` has an outer layer and, while a credential-wide quota covers it,
a `shadow` with the model's own cooldown; wrapping and unwrapping are as in the code.  Executions
carry the sequence number they started with, and results arrive in any order.  `due` is a history
variable: what the failures reported so far ask for, computed from them alone.  A failure is a 401, a challenge, a quota
failure (only these come with a credential-wide scope) or plain; `Durations` has 0 because the
transient-error cooldown may be configured off, and such a failure also ends a live cooldown of
its model.  `RefreshRefused` makes the credential terminal (`hasUnauthorizedAuthFailure`): it is blocked as a
whole, every success then resets its model however old its execution is, and the quota of the
credential is booked on the model that reports it.  It ends with new tokens (`RefreshSucceeds`, `Login`),
which also clear the models whose failure was a 401, or with a cancelled forced refresh.  `disk` holds the
saved records, `dirty` says that they are behind; a restart reads them back and starts the
sequence numbers again.

### AutoRefresh

A loop is a dispatching goroutine (`loop[l]`) with its workers; `refreshJobs` is the registry of
jobs that outlives loops.  An action is a section under `m.mu` or `l.mu` or a channel operation;
what is read under one lock and used under the other is kept in `seen`.  `notes` are calls of
`queueRefreshReschedule` and `queueRefreshUnschedule` that have not returned: which loop they
tell depends on when they read `m.refreshLoop`, the start or the end of the call.  Times are
abstract: any entry of the heap may come up, and the marker `NextRefreshAfter` passes.
`resetTimer` is the condition that the heap is not empty.  `terminal` stands for both kinds of
failure after which a credential leaves the schedule, `need` for the expiry arithmetic of
`shouldRefresh`.  `forgotten` is a history variable: `remove` also deletes the dirty mark, so a
removal that comes late (a `Remove` whose last step follows the next registration, or a decision
on a stale read) takes a live credential out of the schedule until something mentions it again.
The liveness property excludes exactly these credentials by name.

External: a request's context (`CancelCtx`), Home (`Receive`), an edit of a credential file
(`EditFile`) and the watcher's reading of it (`WatchRead`).

## Runs

`tlc -config <cfg> <module>`, every run within three minutes on two cores.  Several MC modules
have a variable of their own (`instance`, `alone`, `active`, `mayRestart`), chosen in the initial
state and never changed, so that one run explores several small instances.  It only keeps
calls from being made or failures from happening; no step that fairness requires is blocked.

| Run | Config | Bounds | What it shows |
|---|---|---|---|
| `registry` | `Registry.cfg` | 2 dispatches, 1 Drain, 1 WaitPending, 2 Closes, 2 sinks, 2 barriers and snapshots; instances shutdown, waiting, release, barrier | `ShutdownSafe`: nothing survives a Drain or a Close; `ReleasedAfterClose`: a slot is freed only when its resource is gone; `ReleasesAccounted`: a sink swapped during a release misses nothing and nothing is counted twice; `BarrierIsComplete`; `ShutdownReturns` |
| `home_release` | `HomeRelease.cfg` | 2 groups, 2 executions, 2 lifetimes | `NeverOverReleases`, `TicketsSettle`, `CleanStop`, `ReleaseArrives` |
| `home_config` | `HomeConfig.cfg` | 3 frames, 2 lifetimes, 2 starts, 1 failure, 1 failure of the runtime | `LifetimesOwn`: no closed client, worker or publisher is left behind; `CommitsInOrder`; `FrameSettledOrLost`; `LifecycleReturns` |
| `home_config_worker_lost` | `HomeConfigWorkerLost.cfg` | 2 frames, 1 lifetime | `FrameSettled` is violated: see Findings |
| `auth_publication` | `AuthPublication.cfg` | 3 goroutines, 3 operations; Meta credential or not chosen at the start | `RegistrationStable`, `RestartSafe`, `SchedulerAgrees`, `ResultHitsItsCredential`, `SavesLoseNothing`, `MintedKeyIsSaved` |
| `relay` | `Relay.cfg` | 2 requests with 1 chunk, or 1 with 3; channels of 1 | `NoSendOnClosed`, `AnswerStays`, `NoStranded`, `AnswersAreWhole`, `SessionSettles` |
| `relay_frame_loss` | `RelayFrameLoss.cfg` | 1 request, channel of 2, 2 chunks | `NoSilentFrameLoss` is violated: see Findings |
| `session_cache` | `SessionCache.cfg` | 4 aliases of 2 sessions, 2 credentials, 2 entries, 1 stable alias | `WellFormed`: the four structures agree; `Implements`: the cache implements `SessionBindings` |
| `affinity` | `Affinity.cfg` | 2 credentials, 3 bindings; a parent with a child and a fork, three requests of one conversation, or two with all conditions of credentials | `ParentIsolated`, `RemovalConverges`, `LateFailureSpares` |
| `metadata_save` | `MetadataSave.cfg` | 2 mutations and 2 revisions of one credential, or 2 credentials | `GatesHold`, `RecordedIsStored`, `MutationEnds`, `HintsSettle` |
| `cooldowns` | `Cooldowns.cfg` | 2 models; 3 executions and 4 ticks; or 3 ticks, and 2 executions with refused refreshes, 2 with a restart, or 1 with both | `CooldownTypeOK`, `NeverEarly`, `NeverLate`, `OncePerWindow` |
| `auto_refresh` | `AutoRefresh.cfg` | 1 credential; 2 loops one after the other, or 1 loop with a stop and one change or failure, with a removal and a registration, or with a late executor | `JobsAccounted`: every registered job is going to be finished and no credential is refreshed twice at once; `RefreshHappens` |

Why the bounds are enough: two dispatches give one execution on each side of a Drain's
snapshot, of a change of sink and of a barrier.  Two Home lifetimes give a reconnect or a
replacement of the registry; three frames give one that is being applied, one that is overtaken
and one that overtakes it.  Three operations on one credential give every pair of racing
operations with a third between them or after them (a refresh, the login that overtakes it, a
rebuild of the scheduler).  In the relay a chunk fills a channel of one and blocks the end
behind it, two requests let the reader block on one while cleanup takes the other, and three
chunks overflow a channel of one twice.  Two cache entries of two sessions make every
binding a possible eviction, and one stable alias makes compaction happen with the second.  Three
executions give a failure, a failure that started earlier and a success, in every order of
arrival, and two give the late success and the late failure around a refused refresh or new tokens;
four ticks cover two steps of the backoff ladder and an expiry.  For the auto-refresh
loop one credential suffices for the races between a loop and its successor, because jobs of
different credentials meet only in the bounded queue; what one credential cannot show is the
queue at its limit, whose branch is entered through the loop's end instead.
Numbers that grow without end in the code (ids, sequences, generations, revisions, lifetimes,
ticks, failures) are bounded in the guards by the constants `Max...` of each module, named where
they are declared.  Generations are 64 bit in the code and cannot wrap in practice.

Deadlock checking is off everywhere: requests need not come, and a model whose bounds are
used up stops.  That the system does not get stuck where it must not is what the
liveness properties say.

Every property has at least one mutant of the code it is about in `PROJECT.json` (a
dropped guard, a lost signal, a comparison that forgets the epoch), with which TLC finds
it violated.  The mutants stand before the definitions they replace and are not used otherwise.

### Fairness

*Registry.*  Weak fairness for the steps a goroutine has already begun: Go runs every
runnable goroutine, and mutex sections end.  Owners resolve their token (the Home call has a
deadline) and end their scope (they defer `End`, and closing the bound resource cancels
what they wait for); a closer returns.  Nothing forces a Drain, a Close, a timeout or a
new dispatch.

*Flusher.*  Weak fairness for owners, for the supervisor and for `Run`.  Strong fairness
for two things: `Run`'s `select` chooses at random among ready cases, so the timer's case is
taken in the end; and a send that is tried again and again gets through in the end, as long
as there is an open connection, which is the assumption any delivery to Home rests on.
Nothing forces a connection to break or a bound to expire.

*Relay.*  Weak fairness for goroutines in the middle of something: a write ends within its
deadline, reading a closed connection fails, and `Stop` and a reader that failed do call
`cleanup`.  Nothing is assumed of the provider, of an open connection or of the consumers,
which may leave their channels full for ever.

*Home configuration.*  Weak fairness for every worker, for the supervisor (which leaves a call
into the connection only when a frame comes or its context ends) and for a start or shutdown
that has begun; failures are bounded, as a staging that fails for ever is retried for ever.

*Metadata saves.*  Weak fairness for every goroutine, and strong fairness for one step: a
mutation that waits for the gate of its credential gets it, for a Go channel serves the sender
that has waited longest.  A save returns unless the store hangs; that a mutation ends even then
is what preemption is for.

*Auto-refresh.*  Weak fairness for goroutines and their notifications, for an upstream refresh
(which returns) and for the marker to pass.  Strong fairness for the cases of the loop's `select`:
it chooses at random, so that neither a cancelled context nor a timer is passed over for ever.
Failing refreshes are bounded.

`AuthPublication` states no liveness: whether an upstream call returns is up to the provider.
`SessionAffinity` and `Cooldowns` state what a pick or a result must have achieved as action
properties and invariants.

### Findings

`relay_frame_loss`: while a session closes, a stream can lose a chunk and still end
normally.  `deliver` and `deliverTerminal` select among `s.closed` and the channel at random.
Between `close(s.closed)` and the moment `cleanup` reaches the request, `deliver` may give up
a chunk that would have fitted, `dispatch` goes on to a `stream_end` the connection had
already buffered, and `deliverTerminal` may put that one into the channel.
`TestSession_Dispatch_NoSilentFrameLoss` (`internal/wsrelay/session_test.go:192`) asks that
dispatch loses no frame of such a stream; it never closes the session.  `AnswersAreWhole`
shows that nothing is lost otherwise.

`home_config_worker_lost`: when `applyConfigRuntime` fails under a live context (a change of the
pprof server waits five seconds for a profile that is being taken, and gives up), the worker of the
lifetime returns and nobody starts another.  Frames that arrive later stay in the queue until
the connection is lost; if it was the first frame, the client is never published.  The tests
(`sdk/cliproxy/home_plugins_test.go:813`) expect a later frame to recover from one that failed.
`FrameSettledOrLost` shows that this and the end of a lifetime are the only ways to lose one.

## Proofs

`ExecutionRegistryProofs` proves, for any number of dispatches, groups, sinks, barriers
and goroutines (from the named assumptions of `ExecutionRegistry`: the bounds are
naturals, the null values are no members, the three kinds of goroutines are disjoint):

* `TypeCorrect`: `Spec => []TypeOK`.  By parts of the state; `Frame` says that a step that
  leaves a part alone keeps its type.
* `ReleaseAfterClose`: `Spec => []ReleasedAfterClose`.  Inductive with `ScopeInv`: the
  maps and the scope objects agree, and a scope is active only while its end has not begun,
  so that `Bind` cannot follow `EndInactive`.
* `ShutdownCorrect`: `Spec => []ShutdownSafe`, from the next two.
* `DrainCorrect`: `Spec => [](DrainedIsEmpty /\ DrainCancelsAll)`.  `DrainInv` adds that a
  Drain past the switch of the lifecycle word sees no new resource (`NotAccepting`: a
  registry that does not accept only shrinks), and that before it waits the scopes with a bound
  resource are among those it still has to close.
* `CloseCorrect`: `Spec => []CloseClosesAll`, with `CloseInv`: every open resource belongs to
  a scope Close has still to visit or is waiting for.
* `BarrierCorrect`: `Spec => []BarrierIsComplete`, with `BarrierInv`: the kept sequence
  belongs to the last observed barrier, and listed executions never become tokens
  again (`Settled`).
* `ReleasesCorrect`: `Spec => []ReleasesAccounted`, with `NeverAhead`: no sink, replay or captured call
  is ahead of its group's sequence, and a replay under way feeds the installed sink.  That each
  release is counted once is a statement about the cardinality of the executions that ended.

`RelaySessionProofs` proves, for any number of requests and chunks and any capacity
(assumed positive; `None` is no request):

* `TypeCorrect`: `Spec => []TypeOK`, with the bound on the channels.
* `MutexCorrect`: `Spec => []NoSendOnClosed`, inductive given the types: whoever closes a
  request finds its mutex free, or is the reader after `deliver` returned.
* `CleanupCorrect`: `Spec => []NoStranded`, with `RangeInv`: while `Range` runs, a request past
  the check in `send` is one it has still to visit, because it was stored before the session
  closed.
* `AnswerCorrect`: `Spec => []AnswerStays`, with `AnswerInv`: an open channel without an end
  holds only chunks, the reader carries the frame the provider ended with, and nobody else
  ends an answer while the reader blocks.  `OnlyShuts` is what all other steps have in common.
* `WholeCorrect`: `Spec => []AnswersAreWhole`.  `ToldInv` says that a channel is closed under a live
  context only with an end or an error in it, which needs that cleanup finds room for its error.
  `FlowInv` counts: while the session is open and the context lives, the chunks a caller has, those in its
  channel and the one the reader carries are all the provider has sent.  `Forward` (nothing that
  ended begins again) is what most steps contribute.

`HomeReleaseProofs`, for any groups, executions and lifetimes (the two bounds are naturals):

* `ReleasesCorrect`: `Spec => []NeverOverReleases`; `TicketsCorrect`: `Spec => []TicketsSettle`.  Both
  follow from `Pipeline`: a sequence is counted, captured, marked, sent and acknowledged in this
  order, and what a flush has sent is what it acknowledges next.  That alone is not inductive: a new
  flusher starts from zero, so `Idle` adds that between lifetimes there is neither a `Run`
  goroutine nor a batch that could carry on old numbers.
* `StopCorrect`: `Spec => []CleanStop`.  `Marked` (with a sink, the newest sequence is known to the
  flusher or on its way) and `Stopping` (the registry is closed only when it is drained, and from then
  on nothing is counted) make the final `Flush` wait for everything.

`HomeConfigProofs`, for any number of frames, lifetimes, starts and failures (naturals):

* `OwnershipCorrect`: `Spec => []LifetimesOwn`.  `Owned` says which positions of the supervisor each
  worker, publisher, reference and commit can coexist with.
* `CommitsCorrect`: `Spec => CommitsInOrder`, the action property, with `Ordered`: the running configuration is no newer
  than `s.cfg`, that no newer than the frame a worker has in hand, and that no newer than what waits.

`AuthPublicationProofs`, for any number of goroutines and operations (`NoProc` and `NoAuth` are not
members).  The proofs go through a dozen shapes of steps (`Calm`, `Touch`, `Registers`, `Commits`, ...),
each a summary of the actions that look alike to the invariant:

* `RegistrationCorrect`: `Spec => []RegistrationStable`, with `Control` (the gate is held exactly from
  the reading of a credential to its commit) and `Registered` (a draft is the credential's
  successor).
* `RestartCorrect`: `Spec => []RestartSafe`, with `Persisted` and `Filed`: nothing newer than the
  credential or its draft was ever saved, and the file has the token that is current or about to be.
* `ResultsCorrect`, `SavesCorrect`, `MintedCorrect`: the action properties
  `ResultHitsItsCredential`, `SavesLoseNothing` and `MintedKeyIsSaved`.  They need `Snapshots`: a copy
  of an earlier moment is of an earlier registration, or has an older version, or the same token.
* `SchedulerCorrect`: `Spec => []SchedulerAgrees`, with `Syncing` and `Published`: there is a generation
  from which on every copy shows what the credential shows now, and such a copy has reached the
  scheduler, is on its way, or was dropped by a rebuild that is going to be repeated.

`CredentialProofs`, first part, on `MetadataSave`, for any number of credentials, mutations and revisions
(credentials, mutations and `None` are told apart, as the owners of a lock are):

* `GatesCorrect`: `Spec => []GatesHold`, with `Owned` (each gate, counter and entry names exactly
  the threads between its acquisition and its release), `Awaits`, and `Seen`: of a mutation and a
  runner that look for each other, each after announcing itself, one has seen the other.
* `RecordedCorrect`: `Spec => []RecordedIsStored`, with `Bounded` and `Recording`: a runner commits
  and records only what it has put in the store under the same gate.

`CredentialProofs`, second part, on `Cooldowns`, for any finite set of models, any hints and durations, any
`BackoffMax` and any number of executions, ticks and restarts (`Nil` is no state, no layer and no
credential).  One inductive invariant, `CooldownInv`, serves all four theorems:

* `ModelOK` says of each model that its state is either its own layer or a wrap over one, that nothing in
  it is later than the failures justify (`ownMost`, `credMost`), and that what its own failures ask for is
  in its own layer *and* in what covers that.  The last is why a release, an expiry or a restart of the
  wrap loses nothing.
* `AuthOK` says the same of the credential, and that while its quota is on every known model is
  wrapped: without it a release would leave a model with the credential's quota as its own.  What the
  credential aggregates from its models, one of them has too, so that records restore it.
* `DiskOK` says of the records, against the failures reported when they were saved, what holds of the state,
  and that each cooldown that is still on has a record.
* `RefusedOK` says what a refused refresh leaves behind, and `Covered`, part of `AuthOK`, excepts the models that
  reported the quota while the credential was terminal (`due.mixed`): their own layer and the quota are
  one, and what they owe themselves can no longer be told.  `NeverEarly` and `OncePerWindow` leave them out.
* `CooldownTypes`, `CooldownNeverEarly`, `CooldownNeverLate`: `CooldownSpec => []CooldownTypeOK`,
  `[]NeverEarly` and `[]NeverLate`.  `NeverEarly` lists what does release a model: a success of an execution
  begun after the failure, a later failure that is configured to cause no cooldown, the reset, any success on
  a terminal credential, and new tokens after a 401.  Each operator on layers (`Written`, `Failed`, `Compose`, `Report`,
  `Propagate`, `Released`, `Restored`, `Aggregate`) has a lemma of its own, each action a step lemma.
* `CooldownOncePerWindow`: `CooldownSpec => OncePerWindow`, the action property, from the same lemmas: an
  operator leaves a model's own quota alone, drops it, or passes it through `AfterFailure`.

Maxima of sets and powers of two are numbers because the sets are finite (`GreatestNumber`, `PowerIs`);
the fold by which `Restart` adds one record after the other is shown to exist, set size by set size, and
to give a credential that agrees with its models (`FoldExists`, `FoldIs`).  These are inductions over data
written as arguments about a least counterexample, which the prover can follow.

`AutoRefreshProofs`, for any number of credentials, loops and workers and any size of queue (the
queue and the concurrency are positive; `None` is no job):

* `JobsCorrect`: `Spec => []JobsAccounted`.  `Single` and `Distinct` say that a loop has a credential in
  hand only once (being sent, queued or with a worker), `InHand` and `Kept` that what is in hand is
  registered and what is registered is in hand, until the loop has given it back.  Neither half is
  inductive without the other, or without `Lifecycle`: a loop's successor is not filled before it is
  installed.

`SessionProofs`, first part, on `SessionAffinity`, for any number of requests, sessions, aliases and
credentials (`None` is none of them):

* `TypeCorrect`: `Spec => []TypeOK`, which contains that no alias belongs to two sessions.
* `LateFailureCorrect`: `Spec => LateFailureSpares`; `RemovalCorrect`: `Spec => RemovalConverges`.  With
  `Decided`: a pick binds only a credential that was not removed in its snapshot.
* `ParentCorrect`: `Spec => ParentIsolated`.  It is not true of all requests: it needs `FamilyAssumption`,
  that a child's keys are never tied, over any chain of bindings, to its parent's.  The derivation of keys
  gives every client prefix its own aliases; only a prompt cache key is tied to another prefix, that of
  its conversation, and a client that sent the parent's cache key with the child's conversation would have
  both moved together.  `FamilyInv` says that every session lies in such a closed set or outside it.
* `AffinityUsesBindings`: `Spec => AbsSpec`.  The selector acts on the bindings only by steps of
  `SessionBindings`, which the next part shows the cache to implement.

`SessionProofs`, second part, on `SessionCache`, for any aliases, sessions and credentials, any number of
stable aliases per group and any larger number of entries (`CacheAssumption`):

* `CacheCorrect`: `CacheSpec => []WellFormed`, from `CacheInv`.  `GroupsOK`: each group lies under its first
  alias, no alias is in two groups and no selection number in two.  `EntriesOK`: the entries are exactly
  the copies of the groups.  `OrderOK`: the eviction list has each group once.  `IndexOK`: the index of a
  session has exactly its groups with a recorded selection.  The disjointness is what makes the removal
  of one group leave the others' copies alone; the unique numbers give a session one newest selection.
  `LatestIsNewest` alone says nothing of expired groups, which an invalidation may still split.  The proof
  goes through the helpers: `RemoveIs` (a set of groups goes from all four structures at once), `InsertIs`,
  `EvictIs` (the oldest groups go, and the newest is left because a group is no larger than the
  cache), `ReplaceIs`; and through the lists: `AtIs`, `MergeIs`, `CompactIs`, `FlattenIs`.
* `CacheImplements`: `CacheSpec => Implements`.  A refresh is a `Rebind` of the one alias to the same
  credential, which keeps the newest selection of the one session it names; an eviction is the choice of
  the sessions that a `Put` keeps; the clock forgets what has expired.

Every module also proves its type correctness, by parts of the state.

Only model-checked:

* Liveness (`ShutdownReturns`, `ReleaseArrives`, `FrameSettledOrLost`, `LifecycleReturns`, `SessionSettles`,
  `MutationEnds`, `HintsSettle`, `RefreshHappens`), which is out of the prover's reach.

## Plan

1. *Model more.*  An abstract specification of slot accounting (a set of slots, each freed once)
   that `HomeRelease` implements; the Home dispatch owner and in-flight publisher over
   `ExecutionRegistry`; the model registry; the dispatcher of the file watcher; the usage
   manager and its queue; the cluster balance of the Home client; the smooth weighted pick as a
   pure operator against its reference.
2. *Prove more.*  The liveness properties, should the prover come to take them.  That
   `HomeRelease` implements the slot accounting above, once it is written.

## Not modelled

Time is abstract everywhere: a timeout may fire whenever its wait is under way.  Payloads,
logging, hooks and metrics are left out, as are errors whose only effect is a log line.  In
`AuthPublication`: other credentials, the per-model views of the scheduler, deletion of
credential files, `CodexRefreshPatch`, `Reconcile` and the capacity field; `SyncVerify` is the test and the advance of
the synced version in one step.  Three races of the
manager are known and left to a later model: `UpdateCapacity` publishes its snapshot without a
new generation after `m.mu` is released; `Modify` clones a credential under one section of `m.mu` and
applies the clone under another, so that what a failed, cancelled or pending refresh writes in place
between the two is lost (the model has both steps; `SavesLoseNothing` speaks of the span from the
application on, that of the save); the watcher decides between Register and Update before it has
the gate.  In `RelaySession`: pings and pongs, replacement of a session by one of the
same name (names are random), and the deadlines themselves.  In `HomeRelease` and `HomeConfig`: plugin synchronisation and
log forwarding.  In `SessionAffinity`: matching by longest common prefix and the selectors
behind it.  In `MetadataSave`: changes of a credential's route, its
re-registration or removal (with the checks of the registration epoch), and the probes themselves.  In
`Cooldowns`: requests without a model, credentials whose cooling is disabled, token expiry (a failed
refresh that leaves "token expired", or an access token that runs out while the credential is
refused), a 401 on a credential that cannot refresh, results made with tokens that have been replaced
(`AuthPublication` has them), an edit of the file of a refused credential, records restored over live
state (an alias change, a late load), and the projection into the model registry.  A failed refresh
that is not a refusal changes no cooldown.  In `AutoRefresh`: expiry arithmetic, several providers, and refreshes
made for a request, which take the lock of `AuthPublication`.

The map covers a small part of the repository's lines.  Most of the rest is out of reach of a
faithful abstraction: the translators between API dialects, the provider executors, the login
flows, the management handlers and the discovery code are data conversion and I/O with little
state of their own, and a model of them would repeat them.
