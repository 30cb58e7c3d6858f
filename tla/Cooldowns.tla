----------------------------- MODULE Cooldowns -----------------------------
(***************************************************************************)
(* The cooldowns of one credential (sdk/cliproxy/auth/conductor_cooldown.go *)
(* and conductor_refresh.go): what results of concurrent executions do to   *)
(* the cooldown of each model and of the credential, the two layers a model *)
(* has while a credential-wide quota covers it, the early release of that   *)
(* quota, and the records that bring cooldowns back after a restart.        *)
(* MarkResult and the other writers hold the credential's mutation gate, so *)
(* an action is one of them as a whole.  A credential whose refresh the     *)
(* provider refuses is terminal (hasUnauthorizedAuthFailure) until it has   *)
(* new tokens.  Time is counted in ticks, 0 is the zero time.  Requests     *)
(* carry a model, cooling is not disabled, and the credential can refresh.  *)
(***************************************************************************)
EXTENDS Naturals, FiniteSetsExt

CONSTANTS Model,        \* the models of the credential that are in use
          Devin,        \* is it a Devin credential?
          Hints,        \* retry-after hints of quota failures, 0 for none
          Durations,    \* cooldowns of failures that are not about quota,
                        \* 0 for one that is configured off
          BackoffMax,   \* quotaBackoffMax, in units of quotaBackoffBase
          MaxTime, MaxSeq, MaxRestarts,
          Nil

ASSUME CooldownAssumption ==
    /\ Devin \in BOOLEAN
    /\ Hints \subseteq Nat /\ Durations \subseteq Nat
    /\ BackoffMax \in Nat \ {0}
    /\ {MaxTime, MaxSeq, MaxRestarts} \subseteq Nat /\ MaxTime # 0
    /\ IsFiniteSet(Model)

VARIABLES
    now,
    seq,        \* executionSeq, the last number given to an execution
    running,    \* executions under way: [seq, model]
    known,      \* models that have a ModelState
    st,         \* model -> its ModelState
    auth,       \* the credential's own fields
    terminal,   \* its refresh was refused: it is blocked as a whole
    observed,   \* a refresh has seen the quota restored, and nothing was
                \* written to the credential since
    disk,       \* the cooldown store: [auth, st], Nil where no record is
    dirty,      \* a result changed the records, and they are not saved yet
    restarts,
    due,        \* history: what the failures reported so far ask for
    dueDisk     \* history: due when the records were last saved

cooldown == <<known, st, auth>>
cooldownVars == <<now, seq, running, known, st, auth, terminal, observed, disk,
                  dirty, restarts, due, dueDisk>>

Larger(a, b) == Max({a, b})

NoQuota == [exc |-> FALSE, reason |-> "", recover |-> 0, level |-> 0]
Quota(reason, recover, level) ==
    [exc |-> TRUE, reason |-> reason, recover |-> recover, level |-> level]

(* The credential's fields when it is free. *)
Blank == [unavailable |-> FALSE, retry |-> 0, quota |-> NoQuota]

(* A ModelState after resetModelState. *)
Reset == [unavailable |-> FALSE, retry |-> 0, quota |-> NoQuota,
          error |-> "", seq |-> 0, propagated |-> FALSE, shadow |-> Nil]

Active(s) ==
    \/ s.retry > now
    \/ s.quota.recover > now
    \/ s.quota.exc /\ s.quota.recover = 0

(* cloneShallow *)
Shallow(s) == [s EXCEPT !.shadow = Nil]

(* An auth-level credential quota that has not expired. *)
CredentialQuota(a) == a.quota.reason = "credential" /\ a.quota.recover > now

Wrapped(s) == s.propagated \/ s.quota.reason = "credential"

-----------------------------------------------------------------------------
(* updateAggregatedAvailability: expired model blocks are cleared, and the  *)
(* credential is unavailable when all its models are.                       *)
Expired(s) == s.unavailable /\ s.retry # 0 /\ s.retry <= now

Refreshed(k, t) ==
    [m \in Model |-> IF m \in k /\ Expired(t[m])
                     THEN [t[m] EXCEPT !.unavailable = FALSE, !.retry = 0]
                     ELSE t[m]]

(* The earliest of a set of times, 0 when it is empty. *)
Earliest(T) == IF T = {} THEN 0 ELSE Min(T)

AggregateQuota(k, t, a) ==
    LET over == {m \in k : t[m].quota.exc}
    IN  CASE over # {} ->
               Quota("quota",
                     Larger(Earliest({t[m].quota.recover : m \in over}), a.quota.recover),
                     Max({t[m].quota.level : m \in over}))
          [] over = {} /\ a.quota.exc /\ a.quota.recover > now -> a.quota
          [] OTHER -> NoQuota

Aggregate(k, t, a) ==
    LET covered == a.quota.exc /\ CredentialQuota(a)
        blocked == {m \in k : t[m].unavailable /\ t[m].retry > now}
    IN  CASE covered -> [a EXCEPT !.unavailable = TRUE]
          [] ~covered /\ k = {} ->
               [a EXCEPT !.unavailable = FALSE, !.retry = 0, !.quota = NoQuota]
          [] OTHER ->
               [a EXCEPT !.unavailable = blocked = k,
                         !.retry = IF blocked = k
                                   THEN Earliest({t[m].retry : m \in k}) ELSE 0,
                         !.quota = AggregateQuota(k, t, a)]

(* While a credential quota is on, the model states are left alone. *)
SetStates(k, t, a) ==
    LET covered == a.quota.exc /\ CredentialQuota(a)
    IN  /\ known' = k
        /\ st' = IF covered THEN t ELSE Refreshed(k, t)
        /\ auth' = Aggregate(k, t, a)

(* The end of MarkResult: nothing is aggregated for a terminal credential.  *)
MarkStates(k, t, a) ==
    IF terminal
    THEN known' = k /\ st' = t /\ auth' = [a EXCEPT !.unavailable = TRUE, !.retry = 0]
    ELSE SetStates(k, t, a)

-----------------------------------------------------------------------------
(* What selection sees: isAuthBlockedForModel and availabilityBlock. *)
AvailabilityBlock(s) ==
    /\ s.unavailable \/ s.quota.exc
    /\ \/ s.retry > now \/ s.quota.recover > now
       \/ s.retry = 0 /\ s.quota.recover = 0

Blocked(m) ==
    \/ terminal
    \/ auth.quota.exc /\ CredentialQuota(auth)
    \/ IF known = {} THEN AvailabilityBlock(auth)
       ELSE m \in known /\ AvailabilityBlock(st[m])

-----------------------------------------------------------------------------
(* History: own[m] is when the failures of model m itself let it be tried   *)
(* again at the earliest, cred the same for the credential-wide failures;   *)
(* ownMost and credMost are the latest times they justify; failed[m] is the *)
(* number of the last execution that was under way when m failed; seen says *)
(* that the quota was observed restored after the last such failure.  mixed *)
(* has the models that reported the credential's quota while it was         *)
(* terminal: the code books that on the model, and own no longer tells what *)
(* the model owes.  refused says that a refresh was refused and that there  *)
(* have been no new tokens since.                                           *)
NoDue == [own |-> [m \in Model |-> 0], ownMost |-> [m \in Model |-> 0],
          failed |-> [m \in Model |-> 0], cred |-> 0, credMost |-> 0, seen |-> FALSE,
          mixed |-> {}, refused |-> FALSE]

(* Transient errors may be configured to cause no cooldown. *)
CoolsNot(f) == f.kind = "plain" /\ f.hint = 0

Least(f) == IF f.hint # 0 THEN f.hint ELSE 1
Most(f) == CASE f.hint # 0 -> f.hint
             [] CoolsNot(f) -> 0
             [] OTHER -> BackoffMax

OweOwn(m, f) ==
    [due EXCEPT !.own[m] = IF CoolsNot(f) THEN 0 ELSE Larger(@, now + Least(f)),
                !.ownMost[m] = Larger(@, now + Most(f)),
                !.failed[m] = seq]

Owe(m, f) ==
    due' = IF ~f.scope THEN OweOwn(m, f)
           ELSE LET d == [due EXCEPT !.credMost = Larger(@, now + Most(f)), !.seen = FALSE]
                IN  IF ~terminal THEN [d EXCEPT !.cred = Larger(@, now + Least(f))]
                    ELSE [d EXCEPT !.mixed = @ \cup {m},
                                   !.ownMost[m] = Larger(@, d.credMost)]

(* A success clears what m owes if its execution began after m failed, and  *)
(* in any case while the credential is terminal.                            *)
Settle(e) ==
    due' = IF terminal \/ e.seq > due.failed[e.model]
           THEN [due EXCEPT !.own[e.model] = 0] ELSE due

-----------------------------------------------------------------------------
(* Results *)

CooldownInit ==
    /\ now = 1 /\ seq = 0 /\ running = {}
    /\ known = {} /\ st = [m \in Model |-> Reset]
    /\ auth = Blank /\ terminal = FALSE
    /\ observed = FALSE /\ dirty = FALSE /\ restarts = 0
    /\ disk = [auth |-> Nil, st |-> [m \in Model |-> Nil]]
    /\ due = NoDue /\ dueDisk = NoDue

Tick ==
    /\ now < MaxTime
    /\ now' = now + 1
    /\ UNCHANGED <<seq, running, cooldown, terminal, observed, disk, dirty,
                   restarts, due, dueDisk>>

(* An execution of a model that selection does not hold back. *)
Dispatch(m) ==
    /\ seq < MaxSeq /\ ~Blocked(m)
    /\ seq' = seq + 1
    /\ running' = running \cup {[seq |-> seq + 1, model |-> m]}
    /\ UNCHANGED <<now, cooldown, terminal, observed, disk, dirty, restarts, due,
                   dueDisk>>

(* The records of a state: cooldowns that are still on. *)
RecordOf(s) == IF s.unavailable /\ s.retry > now THEN s ELSE Nil
Records(k, t, a) ==
    [auth |-> RecordOf(a),
     st |-> [m \in Model |-> IF m \in k THEN RecordOf(t[m]) ELSE Nil]]

NoteChange == dirty' = (dirty \/ Records(known, st, auth) # Records(known', st', auth'))

(* Mutant: the write leaves no trace of its time. *)
EndsUnstamped(e) == running' = running \ {e} /\ UNCHANGED observed

(* The execution is over, and the credential is written (UpdatedAt). *)
Ends(e) == running' = running \ {e} /\ observed' = FALSE

(* A cooldown recorded after the execution began. *)
Retained(e) ==
    LET s == st[e.model]
    IN  /\ e.model \in known /\ Active(s)
        /\ s.seq > 0 /\ e.seq <= s.seq

(* MarkResult of a success.  Counting tokens proves nothing about quota.    *)
(* On a terminal credential every success resets its model.                 *)
Success(e, countTokens) ==
    LET reset == [st EXCEPT ![e.model] = Reset]
    IN  /\ Ends(e)
        /\ CASE terminal -> MarkStates(known \cup {e.model}, reset, auth)
             [] ~terminal /\ (CredentialQuota(auth) \/ Retained(e)) -> UNCHANGED cooldown
             [] OTHER -> IF countTokens THEN SetStates(known, st, auth)
                         ELSE SetStates(known \cup {e.model}, reset, auth)
        /\ IF countTokens /\ ~terminal THEN UNCHANGED due ELSE Settle(e)
        /\ NoteChange
        /\ UNCHANGED <<now, seq, terminal, disk, restarts, dueDisk>>

(* Failures that say nothing about the credential. *)
Neutral(e) ==
    /\ Ends(e)
    /\ UNCHANGED <<now, seq, cooldown, terminal, disk, dirty, restarts, due, dueDisk>>

(* nextQuotaCooldown *)
Backoff(level) == IF 2 ^ level >= BackoffMax THEN BackoffMax ELSE 2 ^ level
NextLevel(level) == IF 2 ^ level >= BackoffMax THEN level ELSE level + 1

(* Mutant: every failure goes one step up. *)
AfterFailureAlways(q) ==
    [next |-> now + Backoff(q.level), level |-> NextLevel(q.level)]

(* quotaCooldownAfterFailure *)
AfterFailure(q) ==
    IF q.recover > now THEN [next |-> q.recover, level |-> q.level]
    ELSE [next |-> now + Backoff(q.level), level |-> NextLevel(q.level)]

(* A wrap that has expired is taken off before a new failure is applied. *)
Unwrapped(s) ==
    IF ~Wrapped(s) \/ (auth.quota.exc /\ CredentialQuota(auth)) THEN s
    ELSE IF s.shadow # Nil /\ Active(s.shadow) THEN s.shadow ELSE Reset

(* The deadline and the backoff level of a quota failure. *)
QuotaDeadline(f, s) ==
    LET credQuota == auth.quota.exc /\ auth.quota.reason = "credential"
        own == IF f.scope THEN IF credQuota THEN auth.quota ELSE NoQuota
               ELSE s.quota
    IN  IF f.hint # 0 THEN [next |-> now + f.hint, level |-> own.level]
        ELSE AfterFailure(own)

(* The layer that failure f writes, before the rule on live deadlines. *)
Written(f, s) ==
    LET d == QuotaDeadline(f, s)
        next == IF s.quota.exc THEN Larger(d.next, s.quota.recover) ELSE d.next
        challenge == [next |-> now + Backoff(s.quota.level),
                      level |-> NextLevel(s.quota.level)]
    IN  CASE CoolsNot(f) -> [s EXCEPT !.retry = 0]
          [] f.kind \in {"plain", "unauthorized"} /\ ~CoolsNot(f) ->
               [s EXCEPT !.retry = now + f.hint]
          [] f.kind = "challenge" ->
               [s EXCEPT !.retry = challenge.next,
                         !.quota = Quota("challenge", challenge.next, challenge.level)]
          [] f.kind = "quota" ->
               [s EXCEPT !.retry = next, !.quota = Quota("quota", next, d.level)]

ErrorOf(f) == CASE f.kind = "unauthorized" -> "unauthorized"
                [] f.scope /\ Devin -> "exhausted"
                [] OTHER -> "own"

(* Mutant: a later failure sets the deadline whatever it was. *)
FailedAlways(f, s) ==
    [Written(f, s) EXCEPT !.unavailable = ~CoolsNot(f), !.seq = seq, !.error = ErrorOf(f)]

(* A later failure only extends a live cooldown, unless it asks for none. *)
Failed(f, s) ==
    [Written(f, s) EXCEPT
        !.unavailable = ~CoolsNot(f), !.seq = seq, !.error = ErrorOf(f),
        !.retry = IF @ # 0 /\ s.retry > now THEN Larger(@, s.retry) ELSE @]

(* A failure of the model alone while a credential quota is on: it goes to  *)
(* the model's own layer, and the state shows both.                         *)
Compose(f, s) ==
    LET own == Failed(f, IF s.shadow # Nil THEN s.shadow ELSE Reset)
        kept == s.quota.exc /\ s.quota.reason = "credential"
    IN  [s EXCEPT !.shadow = IF Active(own) THEN Shallow(own) ELSE Nil,
                  !.seq = seq, !.propagated = TRUE, !.unavailable = TRUE,
                  !.error = own.error,
                  !.retry = Larger(Larger(@, own.retry), auth.quota.recover),
                  !.quota = IF kept THEN @
                            ELSE Quota("credential", auth.quota.recover,
                                       auth.quota.level)]

(* Mutant: the layer is kept with what it covered itself. *)
OwnLayerDeep(s) == IF Active(s) THEN [s EXCEPT !.shadow = s] ELSE Nil

(* What a first wrap preserves: the model's own live block. *)
OwnLayer(s) ==
    IF s.error # "exhausted" /\ Active(s) THEN Shallow(s) ELSE Nil

(* A credential-wide failure, for the model that reported it ... *)
Report(f, s) ==
    [Failed(f, s) EXCEPT
        !.shadow = IF Wrapped(s) THEN s.shadow
                   ELSE IF s.retry > now /\ s.error # "exhausted"
                        THEN [Shallow(s) EXCEPT !.unavailable = TRUE]
                        ELSE Nil,
        !.propagated = ~terminal \/ @]

(* ... and for every other model. *)
Propagate(d, o) ==
    LET next == IF o.quota.exc THEN Larger(d.next, o.quota.recover) ELSE d.next
    IN  [o EXCEPT !.shadow = IF Wrapped(o) THEN @ ELSE OwnLayer(o),
                  !.propagated = TRUE, !.unavailable = TRUE, !.seq = seq,
                  !.retry = Larger(next, @),
                  !.quota = Quota("credential", next, d.level)]

(* The credential itself takes the quota unless it is terminal. *)
CredentialFails(d) ==
    LET next == IF auth.quota.exc /\ auth.quota.reason = "credential"
                THEN Larger(d.next, auth.quota.recover) ELSE d.next
    IN  [unavailable |-> TRUE, retry |-> next,
         quota |-> Quota("credential", next, d.level)]

Failure ==
    [kind : {"plain"}, hint : Durations, scope : {FALSE}]
    \cup [kind : {"unauthorized"}, hint : Durations \ {0}, scope : {FALSE}]
    \cup [kind : {"challenge"}, hint : {0}, scope : {FALSE}]
    \cup [kind : {"quota"}, hint : Hints, scope : BOOLEAN]

(* MarkResult of a failure *)
Fail(e, f) ==
    LET m == e.model
        s == Unwrapped(st[m])
        d == QuotaDeadline(f, s)
        states ==
            IF ~f.scope
            THEN [st EXCEPT ![m] = IF CredentialQuota(auth) THEN Compose(f, s)
                                   ELSE [Failed(f, s) EXCEPT
                                           !.shadow = IF f.kind = "quota"
                                                      THEN Nil ELSE @]]
            ELSE [o \in Model |->
                    CASE o = m -> Report(f, s)
                      [] o # m /\ o \in known -> Propagate(d, Unwrapped(st[o]))
                      [] OTHER -> st[o]]
    IN  /\ Ends(e)
        /\ MarkStates(known \cup {m}, states,
                      IF f.scope /\ ~terminal THEN CredentialFails(d) ELSE auth)
        /\ Owe(m, f)
        /\ NoteChange
        /\ UNCHANGED <<now, seq, terminal, disk, restarts, dueDisk>>

-----------------------------------------------------------------------------
(* Refresh, release, reset, restart *)

(* A refresh asks the provider for the quota (devinQuotaRevalidateAt). *)
Observe ==
    /\ Devin /\ auth.quota.exc /\ CredentialQuota(auth) /\ ~observed
    /\ observed' = TRUE /\ due' = [due EXCEPT !.seen = TRUE]
    /\ UNCHANGED <<now, seq, running, cooldown, terminal, disk, dirty, restarts, dueDisk>>

(* Mutant: the model that reported the quota is not released. *)
ReleasedOthers(s) ==
    IF s.quota.reason # "credential" THEN s
    ELSE IF s.shadow # Nil /\ Active(s.shadow) THEN s.shadow ELSE Reset

(* applyDevinQuotaRestoration, for one model *)
Released(s) ==
    IF ~s.quota.exc \/ (s.quota.reason # "quota" /\ ~Wrapped(s)) THEN s
    ELSE IF s.shadow # Nil /\ Active(s.shadow) THEN s.shadow ELSE Reset

(* The provider refuses the refresh token, and the access token is of no    *)
(* use either: the credential is terminal.                                  *)
RefreshRefused ==
    /\ terminal' = TRUE
    /\ auth' = [auth EXCEPT !.unavailable = TRUE, !.retry = 0]
    /\ observed' = FALSE /\ due' = [due EXCEPT !.refused = TRUE]
    /\ UNCHANGED <<now, seq, running, known, st, disk, dirty, restarts, dueDisk>>

(* A forced refresh is cancelled; it leaves a time for the next attempt,    *)
(* and that the credential is no longer terminal.                           *)
RefreshCancelled ==
    /\ terminal /\ terminal' = FALSE
    /\ UNCHANGED <<now, seq, running, cooldown, observed, disk, dirty, restarts,
                   due, dueDisk>>

(* Mutant: new tokens clear every model. *)
ClearedAll(s) == Reset

(* clearUnauthorizedModelStates, for one model *)
Cleared(s) ==
    IF s.error # "unauthorized" THEN s
    ELSE IF s.quota.exc /\ (s.quota.recover = 0 \/ s.quota.recover > now)
         THEN [s EXCEPT !.error = ""]
         ELSE Reset

(* The credential is written with the tokens of a refresh or a login.  If   *)
(* they are not the ones that were rejected, failures that were about the   *)
(* old ones are cleared, and it is no longer terminal; it is unavailable    *)
(* afterwards only if the credential's quota asks for it, or if a login     *)
(* kept the deadline it had.  restored: the quota is released as well, on   *)
(* an observation newer than any other write.                               *)
Update(replaced, restored) ==
    LET cleared == [m \in Model |-> IF replaced /\ m \in known THEN Cleared(st[m])
                                    ELSE st[m]]
        freed == {m \in known : st[m].error = "unauthorized" /\ cleared[m] = Reset}
        released == [m \in Model |-> IF m \in known THEN Released(cleared[m])
                                     ELSE cleared[m]]
        paid == [due EXCEPT !.own = [m \in Model |-> IF m \in freed THEN 0 ELSE @[m]],
                            !.refused = @ /\ ~replaced]
    IN  /\ CASE restored -> SetStates(known, released, Blank)
             [] ~restored /\ cleared # st -> SetStates(known, cleared, auth)
             [] OTHER ->
                  /\ \/ /\ replaced /\ ~CredentialQuota(auth)
                        /\ auth' = [auth EXCEPT !.unavailable = FALSE]
                     \/ /\ ~replaced \/ CredentialQuota(auth) \/ auth.retry > now
                        /\ UNCHANGED auth
                  /\ UNCHANGED <<known, st>>
        /\ observed' = FALSE
        /\ dirty' = (dirty \/ restored \/ freed # {} \/ (terminal /\ replaced))
        /\ due' = IF restored /\ due.seen THEN [paid EXCEPT !.cred = 0, !.credMost = 0]
                  ELSE paid
        /\ UNCHANGED <<now, seq, running, disk, restarts, dueDisk>>

(* The refresh of updateModeRefresh is applied.  One that brings back the   *)
(* rejected token may set a time for the next attempt.                      *)
RefreshSucceeds(replaced) ==
    /\ Update(replaced, observed /\ auth.quota.exc /\ CredentialQuota(auth) /\ ~terminal)
    /\ terminal' \in IF replaced THEN {FALSE} ELSE {FALSE, terminal}

(* An update brings new tokens, from a login or a binding. *)
Login == Update(TRUE, FALSE) /\ terminal' = FALSE

(* ResetQuota, called from the management API.  The block of a terminal     *)
(* credential, and its quota, stay.                                         *)
ResetQuota ==
    /\ known # {}
    /\ MarkStates(known, [m \in Model |-> Reset], IF terminal THEN auth ELSE Blank)
    /\ observed' = FALSE
    /\ due' = IF terminal THEN [due EXCEPT !.own = [m \in Model |-> 0]] ELSE NoDue
    /\ NoteChange
    /\ UNCHANGED <<now, seq, running, terminal, disk, restarts, dueDisk>>

(* persistCooldownStates; a credential that was refused has no deadline of  *)
(* its own to save.                                                         *)
Persist ==
    /\ dirty
    /\ disk' = Records(known, st, auth)
    /\ dirty' = FALSE
    /\ dueDisk' = IF auth.retry = 0 THEN [due EXCEPT !.cred = 0] ELSE due
    /\ UNCHANGED <<now, seq, running, cooldown, terminal, observed, restarts, due>>

(* Mutant: the record forgets the model's own layer. *)
RestoredOuter(r) == [r EXCEPT !.seq = 0, !.shadow = Nil]

(* restoreCooldownRecordLocked of a model's record into a fresh credential. *)
(* The numbers of executions are not recorded.                              *)
Restored(r) ==
    [r EXCEPT !.seq = 0,
              !.propagated = Wrapped(r) \/ r.shadow # Nil,
              !.shadow = IF @ = Nil THEN Nil ELSE [@ EXCEPT !.seq = 0]]

(* The process dies and starts again with the cooldowns of its records.     *)
Restart ==
    LET on == {m \in Model : disk.st[m] # Nil /\ disk.st[m].retry > now}
        states == [m \in Model |-> IF m \in on THEN Restored(disk.st[m]) ELSE Reset]
        AddRecord(m, acc) ==
            [known |-> acc.known \cup {m},
             auth |-> Aggregate(acc.known \cup {m}, states, acc.auth)]
        fresh == [known |-> {}, auth |-> Blank]
    IN  /\ restarts < MaxRestarts
        /\ restarts' = restarts + 1
        /\ seq' = 0 /\ running' = {} /\ observed' = FALSE /\ dirty' = FALSE
        /\ terminal' = FALSE
        /\ known' = on /\ st' = Refreshed(on, states)
        /\ auth' = IF disk.auth # Nil /\ disk.auth.retry > now THEN disk.auth
                   ELSE FoldSet(AddRecord, fresh, on).auth
        /\ disk' = Records(known', st', auth')
        /\ due' = [dueDisk EXCEPT !.failed = [m \in Model |-> 0], !.refused = FALSE]
        /\ dueDisk' = due'
        /\ UNCHANGED now

-----------------------------------------------------------------------------
CooldownNext ==
    \/ Tick \/ Observe \/ RefreshRefused \/ RefreshCancelled \/ Login
    \/ ResetQuota \/ Persist \/ Restart
    \/ \E replaced \in BOOLEAN : RefreshSucceeds(replaced)
    \/ \E m \in Model : Dispatch(m)
    \/ \E e \in running :
           \/ \E countTokens \in BOOLEAN : Success(e, countTokens)
           \/ Neutral(e)
           \/ \E f \in Failure : Fail(e, f)

CooldownSpec == CooldownInit /\ [][CooldownNext]_cooldownVars

-----------------------------------------------------------------------------
Quotas == [exc : BOOLEAN, recover : Nat, level : Nat,
           reason : {"", "quota", "credential", "challenge"}]
Layer(shadows) ==
    [unavailable : BOOLEAN, retry : Nat, quota : Quotas,
     error : {"", "own", "exhausted", "unauthorized"}, seq : 0 .. MaxSeq,
     propagated : BOOLEAN, shadow : shadows]
States == Layer({Nil} \cup Layer({Nil}))
Credentials == [unavailable : BOOLEAN, retry : Nat, quota : Quotas]
Dues == [own : [Model -> Nat], ownMost : [Model -> Nat], failed : [Model -> 0 .. MaxSeq],
         cred : Nat, credMost : Nat, seen : BOOLEAN,
         mixed : SUBSET Model, refused : BOOLEAN]

ASSUME NilAssumption == Nil \notin States /\ Nil \notin Layer({Nil}) /\ Nil \notin Credentials

(* The variables hold what their types say; "shadows never nest", and none  *)
(* is a layer that the credential's quota has left behind.                  *)
CooldownTypeOK ==
    /\ now \in 1 .. MaxTime /\ seq \in 0 .. MaxSeq
    /\ running \subseteq [seq : 1 .. MaxSeq, model : Model]
    /\ known \subseteq Model
    /\ st \in [Model -> States]
    /\ \A m \in Model : st[m].shadow # Nil => ~Wrapped(st[m].shadow)
    /\ auth \in Credentials
    /\ disk \in [auth : Credentials \cup {Nil}, st : [Model -> States \cup {Nil}]]
    /\ terminal \in BOOLEAN /\ observed \in BOOLEAN
    /\ dirty \in BOOLEAN /\ restarts \in 0 .. MaxRestarts
    /\ due \in Dues /\ dueDisk \in Dues

(* Nothing releases a model early.  Until the deadline its own failures ask *)
(* for it is held back, whatever credential-wide quota came and went above  *)
(* them, whichever older execution succeeds in between, and after a restart *)
(* as well.  What does release it: a success of an execution that began     *)
(* after the failure; a later failure configured to cause no cooldown; the  *)
(* reset; any success on a terminal credential; new tokens, if its failure  *)
(* was about the old ones.  A model that reports the credential's quota     *)
(* while it is terminal is not followed from there on.  A credential-wide   *)
(* quota, reported of a credential that is not terminal, holds every model  *)
(* back until it recovers or is observed to be restored, also the models    *)
(* that have never been used.                                               *)
NeverEarly ==
    \A m \in Model : \/ due.own[m] > now /\ m \notin due.mixed
                     \/ due.cred > now
                     => Blocked(m)

(* Nothing is held back without a reason: a blocked model has failures of   *)
(* its own, or the credential has, that justify the block until now, or the *)
(* credential is terminal, or was refused before any result came in.  A     *)
(* propagated quota is never mistaken for a failure of the model.           *)
NeverLate ==
    \A m \in Model : Blocked(m) => \/ terminal \/ (due.refused /\ known = {})
                                  \/ due.ownMost[m] > now \/ due.credMost > now

(* The quota of a model's own layer, under the credential's if that is on. *)
OwnQuota(s) ==
    IF ~Wrapped(s) THEN s.quota
    ELSE IF s.shadow # Nil THEN s.shadow.quota ELSE NoQuota

Climbs(old, new) ==
    old.exc /\ new.exc /\ old.reason = new.reason /\ new.level > old.level

(* "a burst of concurrent in-flight failures advances the backoff ladder at *)
(* most once per window": the level of a quota rises only when the window   *)
(* of the last one has ended, on the ladder of each model's own layer as on *)
(* the credential's, though both are climbed by the same executions.  (The  *)
(* level of a terminal credential's quota is booked on the model.)          *)
OncePerWindow ==
    [][restarts' = restarts =>
       /\ \A m \in Model :
           /\ Climbs(OwnQuota(st[m]), OwnQuota(st'[m]))
           /\ OwnQuota(st[m]).reason = "quota" /\ m \notin due'.mixed
           => OwnQuota(st[m]).recover <= now
       /\ Climbs(auth.quota, auth'.quota) /\ auth.quota.reason = "credential"
          => auth.quota.recover <= now]_cooldownVars

=============================================================================
