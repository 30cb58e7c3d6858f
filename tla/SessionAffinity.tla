-------------------------- MODULE SessionAffinity --------------------------
(***************************************************************************)
(* Concurrent requests that pick a credential by session                   *)
(* (SessionAffinitySelector in sdk/cliproxy/auth/selector.go), on the      *)
(* bindings that SessionBindings describes and SessionCache implements.    *)
(* A pick reads the credentials once, reads the bindings of its own and of *)
(* its fallback session, decides, and binds; each of these is a lock       *)
(* section of its own, so other picks, results of earlier requests, the    *)
(* removal of a credential and expiry fall in between.                     *)
(***************************************************************************)
EXTENDS SessionBindings

CONSTANTS Request,
          KeyOf,            \* request -> cacheKey
          FallbackOf,       \* request -> fallbackKey, or None
          PrefixOf,         \* alias -> the client prefix of its session
          Fork,             \* requests that carry the fork flag
          Guardian,         \* requests that carry the guardian header
          SubagentAffinity, \* session-affinity-subagents
          QuotaOnly,        \* session-affinity-rebind-on: quota
          Condition         \* what may happen to a credential in this instance

ASSUME AffinityAssumption ==
    /\ KeyOf \in [Request -> Alias]
    /\ FallbackOf \in [Request -> Alias \cup {None}]
    /\ \A r \in Request : FallbackOf[r] # KeyOf[r]
    /\ DOMAIN PrefixOf = Alias
    /\ Fork \subseteq Request /\ Guardian \subseteq Request
    /\ SubagentAffinity \in BOOLEAN /\ QuotaOnly \in BOOLEAN
    /\ Condition \subseteq {"ready", "full", "transient", "blocked"}

VARIABLES status,   \* credential -> its condition, or "removed"
          leaving,  \* removed credentials whose bindings are not yet dropped
          pc,       \* request -> the step it takes next
          snap,     \* request -> the credentials as it read them
          plan      \* request -> what it will bind and which it will use

vars == <<sessions, sequence, status, leaving, pc, snap, plan>>

NoPlan == [bind |-> None, use |-> None, record |-> FALSE]

AffinityInit ==
    /\ AbsInit
    /\ status = [a \in Auth |-> "ready"]
    /\ leaving = {}
    /\ pc = [r \in Request |-> "start"]
    /\ snap = [r \in Request |-> status]
    /\ plan = [r \in Request |-> NoPlan]

(* What Get answers for alias x. *)
Bound(x) ==
    IF x = None \/ Touched({x}) = {} THEN None
    ELSE (CHOOSE g \in Touched({x}) : TRUE).auth

-----------------------------------------------------------------------------
(* The request's session and its fallback *)

(* isSubagentSession: the ids alone decide, by their client prefix. *)
IsSubagentSession(r) ==
    FallbackOf[r] # None /\ PrefixOf[KeyOf[r]] = PrefixOf[FallbackOf[r]]

IsSubagent(r) == r \notin Fork /\ IsSubagentSession(r)

(* Mutant: every request is bound under its fallback session too. *)
BoundKeysAll(r) ==
    IF FallbackOf[r] = None THEN <<KeyOf[r]>> ELSE <<KeyOf[r], FallbackOf[r]>>

(* The keys that bind names: neither a subagent nor a fork touches its      *)
(* parent's. *)
BoundKeys(r) ==
    IF FallbackOf[r] = None \/ IsSubagent(r) \/ r \in Fork
    THEN <<KeyOf[r]>> ELSE <<KeyOf[r], FallbackOf[r]>>

(* A set of aliases that bind never ties to an alias outside it. *)
Closed(C) ==
    \A r \in Request : FallbackOf[r] # None /\ ~IsSubagent(r) /\ r \notin Fork
                        => (KeyOf[r] \in C <=> FallbackOf[r] \in C)

(* ExtractSessionInfo gives a fork and its parent one client prefix.  Only a *)
(* prompt cache key is ever tied to an alias of another prefix, that of its *)
(* conversation; here no chain of such ties makes a child and its parent    *)
(* names of one session.                                                    *)
ASSUME FamilyAssumption ==
    /\ \A r \in Fork : FallbackOf[r] # None => IsSubagentSession(r)
    /\ \A r \in Request : FallbackOf[r] # None /\ (IsSubagent(r) \/ r \in Fork)
           => \E C \in SUBSET Alias :
                  Closed(C) /\ KeyOf[r] \in C /\ FallbackOf[r] \notin C

Available(r) == {a \in Auth : snap[r][a] \in {"ready", "full"}}

(* Mutant: a binding is followed without looking for its credential. *)
ReusableUnchecked(r, a) == snap[r][a] \notin {"blocked", "transient"}

(* A bound credential is reused if it is available with capacity left. *)
Reusable(r, a) == snap[r][a] = "ready"

(* Mutant: a credential that is no longer a candidate keeps its sessions. *)
PreserveAbsent(r, a) ==
    IF QuotaOnly /\ snap[r][a] \in {"transient", "removed"} THEN {TRUE}
    ELSE {FALSE}

(* shouldPreserveBindingWhenUnavailable.  For an exhausted but unblocked    *)
(* credential the answer depends on whether the manager had validated the   *)
(* candidates before.                                                       *)
MayPreserve(r, a) ==
    CASE QuotaOnly /\ snap[r][a] = "transient" -> {TRUE}
      [] QuotaOnly /\ snap[r][a] = "full"      -> BOOLEAN
      [] OTHER                                 -> {FALSE}

-----------------------------------------------------------------------------
(* Pick *)

Go(r, step) == pc' = [pc EXCEPT ![r] = step]

Decide(r, bind, use, record) ==
    /\ plan' = [plan EXCEPT ![r] = [bind |-> bind, use |-> use,
                                    record |-> record]]
    /\ Go(r, "bind")

(* The fallback selector takes any available credential. *)
DecideFresh(r) == \E a \in Available(r) : Decide(r, a, a, TRUE)

(* The manager hands over its credentials; with none available Pick fails. *)
Start(r) ==
    /\ pc[r] = "start"
    /\ snap' = [snap EXCEPT ![r] = status]
    /\ Go(r, IF \E a \in Auth : status[a] \in {"ready", "full"}
             THEN "lookup" ELSE "done")
    /\ UNCHANGED <<absVars, status, leaving, plan>>

(* GetAndRefresh of the request's own key. *)
Lookup(r) ==
    /\ pc[r] = "lookup"
    /\ LET c == Bound(KeyOf[r])
       IN  IF c = None
           THEN IF FallbackOf[r] = None THEN DecideFresh(r)
                ELSE /\ Go(r, IF IsSubagent(r) /\ SubagentAffinity
                                 /\ r \in Guardian
                              THEN "guardian" ELSE "fallback")
                     /\ UNCHANGED plan
           ELSE IF Reusable(r, c) THEN Decide(r, c, c, TRUE)
           ELSE \E keep \in MayPreserve(r, c), a \in Available(r) :
                    IF keep THEN Decide(r, c, a, FALSE)
                    ELSE Decide(r, a, a, TRUE)
    /\ UNCHANGED <<absVars, status, leaving, snap>>

(* A guardian inherits the parent session's newest selection on a provider  *)
(* of the pool (latestSessionAuth), whatever model it was made for.         *)
LookupGuardian(r) ==
    /\ pc[r] = "guardian"
    /\ LET made == {g \in sessions :
                       /\ g.binding.session = SessionOf[FallbackOf[r]]
                       /\ g.binding.provider \in
                              {ProviderOf[a] : a \in Available(r)}}
           newest == {g \in made : \A h \in made :
                          h.binding.sequence <= g.binding.sequence}
           heirs == {g.auth : g \in newest} \cap Available(r)
       IN  IF heirs # {} THEN \E a \in heirs : Decide(r, a, a, TRUE)
           ELSE Go(r, "fallback") /\ UNCHANGED plan
    /\ UNCHANGED <<absVars, status, leaving, snap>>

(* Get of the fallback key. *)
LookupFallback(r) ==
    /\ pc[r] = "fallback"
    /\ LET c == Bound(FallbackOf[r])
       IN  IF c # None /\ Reusable(r, c) /\ (~IsSubagent(r) \/ SubagentAffinity)
           THEN Decide(r, c, c, TRUE)
           ELSE IF c # None /\ ~IsSubagent(r) /\ r \notin Fork
           THEN \E keep \in MayPreserve(r, c), a \in Available(r) :
                    IF keep THEN Decide(r, c, a, FALSE)
                    ELSE Decide(r, a, a, TRUE)
           ELSE DecideFresh(r)
    /\ UNCHANGED <<absVars, status, leaving, snap>>

(* bind: setSessionAliases for a selection, SetAliases to keep a binding    *)
(* whose credential this request has to do without.                         *)
Bind(r) ==
    /\ pc[r] = "bind"
    /\ IF plan[r].record THEN Select(plan[r].bind, BoundKeys(r))
       ELSE Rebind(plan[r].bind, BoundKeys(r))
    /\ Go(r, "running")
    /\ UNCHANGED <<status, leaving, snap, plan>>

-----------------------------------------------------------------------------
(* OnResult *)

(* A success refreshes, a failure that is not the credential's (or, with    *)
(* QuotaOnly, not one that ends the binding) returns early: no binding      *)
(* changes.                                                                 *)
ResultKeeps(r) ==
    /\ pc[r] = "running"
    /\ Go(r, "done")
    /\ UNCHANGED <<absVars, status, leaving, snap, plan>>

(* Mutant: the key is unbound whatever it is bound to. *)
DeleteAlways(x, a) ==
    IF Bound(x) # None THEN Unbind(x) ELSE UNCHANGED absVars

UnbindIf(x, a) ==
    IF Bound(x) = a THEN Unbind(x) ELSE UNCHANGED absVars

UnbindsFallback(r) == FallbackOf[r] # None /\ ~IsSubagentSession(r)

(* A failure unbinds the request's key, then its fallback key, each only    *)
(* if it is still bound to the credential that failed.                      *)
ResultUnbinds(r) ==
    /\ pc[r] = "running"
    /\ UnbindIf(KeyOf[r], plan[r].use)
    /\ Go(r, IF UnbindsFallback(r) THEN "unbind" ELSE "done")
    /\ UNCHANGED <<status, leaving, snap, plan>>

UnbindFallback(r) ==
    /\ pc[r] = "unbind"
    /\ UnbindIf(FallbackOf[r], plan[r].use)
    /\ Go(r, "done")
    /\ UNCHANGED <<status, leaving, snap, plan>>

-----------------------------------------------------------------------------
(* Credentials and the cache *)

Change(a) ==
    /\ status[a] # "removed"
    /\ \E c \in Condition \ {status[a]} : status' = [status EXCEPT ![a] = c]
    /\ UNCHANGED <<absVars, leaving, pc, snap, plan>>

(* Remove takes the credential out of the manager first ... *)
RemoveCredential(a) ==
    /\ status[a] # "removed"
    /\ status' = [status EXCEPT ![a] = "removed"]
    /\ leaving' = leaving \cup {a}
    /\ UNCHANGED <<absVars, pc, snap, plan>>

(* ... and drops its bindings later (invalidateSessionAffinity). *)
InvalidateSessionAffinity(a) ==
    /\ a \in leaving
    /\ leaving' = leaving \ {a}
    /\ sessions' = {g \in sessions : g.auth # a}
    /\ UNCHANGED <<sequence, status, pc, snap, plan>>

Lose ==
    /\ Forget
    /\ UNCHANGED <<status, leaving, pc, snap, plan>>

Next ==
    \/ \E r \in Request : \/ Start(r) \/ Lookup(r) \/ LookupGuardian(r)
                          \/ LookupFallback(r) \/ Bind(r) \/ ResultKeeps(r)
                          \/ ResultUnbinds(r) \/ UnbindFallback(r)
    \/ \E a \in Auth : Change(a) \/ RemoveCredential(a) \/ InvalidateSessionAffinity(a)
    \/ Lose

Spec == AffinityInit /\ [][Next]_vars

-----------------------------------------------------------------------------
SessionType ==
    /\ sessions \subseteq Group
    /\ \A g, h \in sessions : g # h => g.aliases \cap h.aliases = {}
    /\ sequence \in 0 .. MaxSequence
Conditions == Condition \cup {"ready", "removed"}
CredentialType ==
    /\ status \in [Auth -> Conditions]
    /\ leaving \subseteq {a \in Auth : status[a] = "removed"}
Plan == [bind : Auth, use : Auth, record : BOOLEAN]
RequestType ==
    /\ pc \in [Request -> {"start", "lookup", "guardian", "fallback", "bind",
                           "running", "unbind", "done"}]
    /\ snap \in [Request -> [Auth -> Conditions]]
    /\ plan \in [Request -> {NoPlan} \cup Plan]

(* The variables hold what their types say, and no alias belongs to two     *)
(* sessions: a session never has two credentials.                           *)
TypeOK == SessionType /\ CredentialType /\ RequestType

Acts(r) == pc'[r] # pc[r]

(* "Parent session MUST STILL BE BOUND": whatever a subagent or a fork does *)
(* (bind, fail over, fail), its parent's session is never moved to another *)
(* credential and never unbound by it; at most it is forgotten when the    *)
(* cache has to make room for the child's binding.                         *)
ParentIsolated ==
    [][\A r \in Request : (IsSubagent(r) \/ r \in Fork) /\ Acts(r) =>
           LET old == Bound(FallbackOf[r])
           IN  \/ Bound(FallbackOf[r])' = old
               \/ pc[r] = "bind" /\ Bound(FallbackOf[r])' = None]_vars

BoundTo(a) == {x \in Alias : Bound(x) = a}

Picking(r) == pc[r] \in {"lookup", "guardian", "fallback", "bind"}

(* A pick that read the credential before it was removed may bind it after *)
(* its bindings were dropped.  Such a stale binding never spreads: once no *)
(* pick from before the removal is left, the aliases bound to a removed    *)
(* credential only get fewer ...                                           *)
StaleShrinks(a) ==
    /\ status[a] = "removed" /\ a \notin leaving
    /\ \A r \in Request : Picking(r) => snap[r][a] = "removed"
    => BoundTo(a)' \subseteq BoundTo(a)

(* ... and the next pick of a session ends a stale binding of it.           *)
PickHeals(r) ==
    pc[r] = "bind" /\ Acts(r) =>
        \A a \in Auth : snap[r][a] = "removed" => Bound(KeyOf[r])' # a

(* A removed credential is forgotten by the sessions that were bound to it, *)
(* though picks from before the removal bind it again.                      *)
RemovalConverges ==
    [][(\A a \in Auth : StaleShrinks(a)) /\ (\A r \in Request : PickHeals(r))]_vars

(* A result that arrives late never takes away a binding made since: a      *)
(* failure of one credential unbinds no session that is bound to another,  *)
(* so neither a newer selection nor a binding that was preserved while     *)
(* this request failed over is lost.                                       *)
LateFailureSpares ==
    [][\A r \in Request : pc[r] \in {"running", "unbind"} /\ Acts(r) =>
           \A x \in Alias : Bound(x)' # Bound(x) => Bound(x) = plan[r].use]_vars

=============================================================================
