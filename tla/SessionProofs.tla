----------------------------- MODULE SessionProofs -----------------------------
(***************************************************************************)
(* Theorems about picks by session, for any number of requests, sessions,  *)
(* aliases and credentials, and about the cache of their bindings, for any *)
(* number of aliases and any of its limits.                                *)
(***************************************************************************)
EXTENDS SessionAffinity, SessionCache, FiniteSetTheorems, SequenceTheorems,
        NaturalsInduction, WellFoundedInduction, TLAPS

-----------------------------------------------------------------------------
(* Sets of sessions, before and after a step. *)

(* No alias belongs to two sessions. *)
Groups(S) == S \subseteq Group /\ \A g, h \in S : g # h => g.aliases \cap h.aliases = {}

Naming(S, x) == {g \in S : g.aliases \cap {x} # {}}

(* What Get answers for x in the set S of sessions. *)
AuthOf(S, x) ==
    IF x = None \/ Naming(S, x) = {} THEN None ELSE (CHOOSE g \in Naming(S, x) : TRUE).auth

(* Bound is AuthOf the sessions of the state. *)
LEMMA BoundIs == ASSUME NEW x PROVE Bound(x) = AuthOf(sessions, x) /\ Bound(x)' = AuthOf(sessions', x)
  BY DEF Bound, AuthOf, Touched, Naming

(* A session has aliases and a credential. *)
LEMMA GroupIs ==
    ASSUME NEW g \in Group
    PROVE  /\ g.aliases \subseteq Alias /\ g.aliases # {} /\ None \notin g.aliases
           /\ g.auth \in Auth /\ g.auth # None
           /\ g.binding \in Binding /\ g.binding.sequence \in 0 .. MaxSequence
<1>1. g.aliases \in SUBSET Alias /\ g.aliases # {} /\ g.auth \in Auth /\ g.binding \in Binding BY DEF Group
<1>2. None \notin Alias /\ None \notin Auth BY BindingsAssumption
<1>3. g.binding.sequence \in 0 .. MaxSequence BY <1>1 DEF Binding
<1> QED BY <1>1, <1>2, <1>3

(* The session that an alias belongs to gives the answer. *)
LEMMA AuthOfIs ==
    ASSUME NEW S, Groups(S), NEW g \in S, NEW x \in g.aliases
    PROVE  AuthOf(S, x) = g.auth
<1>1. x # None BY GroupIs DEF Groups
<1>2. Naming(S, x) = {g} BY DEF Groups, Naming
<1>3. (CHOOSE h \in Naming(S, x) : TRUE) = g BY <1>2
<1> QED BY <1>1, <1>2, <1>3 DEF AuthOf

(* An alias that belongs to no session is not bound. *)
LEMMA AuthOfNone ==
    ASSUME NEW S, NEW x, \A g \in S : x \notin g.aliases PROVE AuthOf(S, x) = None
  BY DEF AuthOf, Naming

(* An alias that is bound belongs to a session with that credential. *)
LEMMA AuthOfBound ==
    ASSUME NEW S, Groups(S), NEW x, AuthOf(S, x) # None
    PROVE  \E g \in S : x \in g.aliases /\ g.auth = AuthOf(S, x)
<1>1. PICK g \in S : x \in g.aliases BY AuthOfNone
<1> QED BY <1>1, AuthOfIs

(* Fewer sessions: an alias keeps its credential or loses it. *)
LEMMA AuthOfFewer ==
    ASSUME NEW S, Groups(S), NEW T, T \subseteq S
    PROVE  Groups(T) /\ \A x : AuthOf(T, x) \in {AuthOf(S, x), None}
<1>1. Groups(T) BY DEF Groups
<1>2. ASSUME NEW x, AuthOf(T, x) # None PROVE AuthOf(T, x) = AuthOf(S, x)
  <2>1. PICK g \in T : x \in g.aliases /\ g.auth = AuthOf(T, x) BY <1>1, <1>2, AuthOfBound
  <2> QED BY <2>1, AuthOfIs
<1> QED BY <1>1, <1>2

-----------------------------------------------------------------------------
(* The operations of the cache. *)

(* The keys of a call are aliases. *)
LEMMA KeysAre ==
    ASSUME NEW keys \in Keys
    PROVE  /\ keys[1] \in Alias /\ {keys[i] : i \in DOMAIN keys} \subseteq Alias
           /\ keys[1] \in {keys[i] : i \in DOMAIN keys}
           /\ \/ {keys[i] : i \in DOMAIN keys} = {keys[1]}
              \/ {keys[i] : i \in DOMAIN keys} = {keys[1], keys[2]}
<1>1. CASE keys \in {<<x>> : x \in Alias}
  <2>1. PICK x \in Alias : keys = <<x>> BY <1>1
  <2>2. DOMAIN keys = {1} /\ keys[1] = x BY <2>1
  <2>3. {keys[i] : i \in DOMAIN keys} = {keys[1]} BY <2>2
  <2> QED BY <2>2, <2>3
<1>2. CASE keys \in {k \in Alias \X Alias : k[1] # k[2]}
  <2>1. DOMAIN keys = {1, 2} /\ keys[1] \in Alias /\ keys[2] \in Alias BY <1>2
  <2>2. {keys[i] : i \in DOMAIN keys} = {keys[1], keys[2]} BY <2>1
  <2> QED BY <2>1, <2>2
<1> QED BY <1>1, <1>2 DEF Keys

(* Put leaves one session that is not an old one; it is bound to a and      *)
(* known under the first key.                                               *)
LEMMA PutInGroups ==
    ASSUME Groups(sessions), NEW a \in Auth, NEW keys \in Keys, NEW b \in Binding, Put(a, keys, b)
    PROVE  /\ Groups(sessions')
           /\ \E g \in sessions' : /\ keys[1] \in g.aliases /\ g.auth = a
                                   /\ \A h \in sessions' : h = g \/ h \in sessions
<1> DEFINE named == {keys[i] : i \in DOMAIN keys}
           merged == Touched(named)
<1>1. keys[1] \in named /\ named \subseteq Alias BY KeysAre
<1>2. PICK kept \in SUBSET (sessions \ merged),
           known \in SUBSET (named \cup UNION {g.aliases : g \in merged}) :
               /\ keys[1] \in known
               /\ sessions' = kept \cup {[aliases |-> known, auth |-> a, binding |-> b]}
  BY DEF Put
<1> DEFINE n == [aliases |-> known, auth |-> a, binding |-> b]
<1>3. known \subseteq Alias
  <2>1. \A g \in merged : g.aliases \subseteq Alias BY GroupIs DEF Groups, Touched
  <2> QED BY <1>1, <1>2, <2>1
<1>4. n \in Group
  <2>1. known \in (SUBSET Alias) \ {{}} BY <1>2, <1>3
  <2> QED BY <2>1 DEF Group
<1>5. \A g \in kept : g.aliases \cap known = {}
  <2> SUFFICES ASSUME NEW g \in kept, NEW x \in known, x \in g.aliases PROVE FALSE OBVIOUS
  <2>1. g \in sessions /\ g \notin merged BY <1>2
  <2>2. x \notin named BY <2>1 DEF Touched
  <2>3. PICK h \in merged : x \in h.aliases BY <1>2, <2>2
  <2>4. h \in sessions BY <2>3 DEF Touched
  <2> QED BY <2>1, <2>3, <2>4 DEF Groups
<1>6. n.aliases = known /\ n.auth = a OBVIOUS
<1>7. sessions' = kept \cup {n} BY <1>2
<1> HIDE DEF n, named, merged
<1>8. kept \subseteq sessions BY <1>2
<1>9. Groups(sessions') BY <1>4, <1>5, <1>6, <1>7, <1>8 DEF Groups
<1> QED BY <1>2, <1>6, <1>7, <1>8, <1>9

(* The sessions named by a call are at most two, so one of them is the newest. *)
LEMMA LatestInGroups ==
    ASSUME Groups(sessions), NEW keys \in Keys
    PROVE  Latest(Touched({keys[i] : i \in DOMAIN keys})) \in Binding
<1> DEFINE G == Touched({keys[i] : i \in DOMAIN keys})
<1>1. \A g \in G : g \in sessions /\ g \in Group /\ g.binding \in Binding /\ g.binding.sequence \in Nat
  BY GroupIs, BindingsAssumption DEF Groups, Touched
<1>2. CASE \A g \in G : g.binding.sequence = 0
  BY <1>2, BindingsAssumption DEF Latest, NoBinding, Binding
<1>3. CASE \E g \in G : g.binding.sequence # 0
  <2>1. \E g \in G : \A h \in G : h.binding.sequence <= g.binding.sequence
    <3>1. PICK y \in Alias, z \in Alias : {keys[i] : i \in DOMAIN keys} = {y, z}
      <4>1. CASE {keys[i] : i \in DOMAIN keys} = {keys[1]}
        <5>1. {keys[i] : i \in DOMAIN keys} = {keys[1], keys[1]} BY <4>1
        <5> QED BY <5>1, KeysAre
      <4>2. CASE {keys[i] : i \in DOMAIN keys} = {keys[1], keys[2]}
        <5>1. keys[1] \in Alias /\ keys[2] \in Alias BY <4>2, KeysAre
        <5> QED BY <4>2, <5>1
      <4> QED BY <4>1, <4>2, KeysAre
    <3>2. \A g \in G : y \in g.aliases \/ z \in g.aliases BY <3>1 DEF Touched
    <3>3. \A g, h \in G : (y \in g.aliases /\ y \in h.aliases) \/ (z \in g.aliases /\ z \in h.aliases) => g = h
      BY <1>1 DEF Groups
    <3>4. PICK g \in G : g.binding.sequence # 0 BY <1>3
    <3>5. CASE \A h \in G : h.binding.sequence <= g.binding.sequence BY <3>5
    <3>6. CASE \E h \in G : ~(h.binding.sequence <= g.binding.sequence)
      <4>1. PICK h \in G : ~(h.binding.sequence <= g.binding.sequence) BY <3>6
      <4>2. h # g /\ g.binding.sequence <= h.binding.sequence BY <1>1, <4>1
      <4>3. \A k \in G : k = g \/ k = h BY <3>2, <3>3, <4>2
      <4>4. \A k \in G : k.binding.sequence <= h.binding.sequence BY <1>1, <4>2, <4>3
      <4> QED BY <4>4
    <3> QED BY <3>5, <3>6
  <2>2. (CHOOSE g \in G : \A h \in G : h.binding.sequence <= g.binding.sequence) \in G BY <2>1
  <2>3. Latest(G) = (CHOOSE g \in G : \A h \in G : h.binding.sequence <= g.binding.sequence).binding
    BY <1>3 DEF Latest
  <2> QED BY <1>1, <2>2, <2>3
<1> QED BY <1>2, <1>3

(* Unbind takes one alias from its session, and the others keep theirs. *)
LEMMA UnbindIs ==
    ASSUME Groups(sessions), NEW x \in Alias, Unbind(x)
    PROVE  /\ Groups(sessions')
           /\ AuthOf(sessions', x) = None
           /\ \A y \in Alias : y # x => AuthOf(sessions', y) = AuthOf(sessions, y)
<1>1. PICK g \in sessions : x \in g.aliases BY DEF Unbind, Touched
<1>2. Touched({x}) = {g} BY <1>1 DEF Touched, Groups
<1>3. g \in Group /\ g.aliases \subseteq Alias BY GroupIs DEF Groups
<1> DEFINE n == [g EXCEPT !.aliases = @ \ {x}]
<1>4. n.aliases = g.aliases \ {x} /\ n.auth = g.auth /\ (g.aliases # {x} => n \in Group)
  BY <1>1, <1>3 DEF Group
<1>5. sessions' = (sessions \ {g}) \cup (IF g.aliases # {x} THEN {n} ELSE {}) BY <1>2 DEF Unbind
<1> HIDE DEF n
<1>6. \A h \in sessions \ {g} : h.aliases \cap g.aliases = {} BY DEF Groups
<1>7. Groups(sessions')
  <2>1. sessions' \subseteq Group BY <1>4, <1>5 DEF Groups
  <2>2. \A h, k \in sessions' : h # k => h.aliases \cap k.aliases = {}
    BY <1>4, <1>5, <1>6 DEF Groups
  <2> QED BY <2>1, <2>2 DEF Groups
<1>8. AuthOf(sessions', x) = None
  <2>1. \A h \in sessions' : x \notin h.aliases BY <1>1, <1>4, <1>5, <1>6
  <2> QED BY <2>1, AuthOfNone
<1>9. ASSUME NEW y \in Alias, y # x PROVE AuthOf(sessions', y) = AuthOf(sessions, y)
  <2>1. CASE y \in g.aliases
    <3>1. n \in sessions' /\ y \in n.aliases BY <1>4, <1>5, <1>9, <2>1
    <3>2. AuthOf(sessions', y) = n.auth BY <1>7, <3>1, AuthOfIs
    <3>3. AuthOf(sessions, y) = g.auth BY <2>1, AuthOfIs
    <3> QED BY <1>4, <3>2, <3>3
  <2>2. CASE \E h \in sessions \ {g} : y \in h.aliases
    <3>1. PICK h \in sessions \ {g} : y \in h.aliases BY <2>2
    <3>2. AuthOf(sessions', y) = h.auth BY <1>5, <1>7, <3>1, AuthOfIs
    <3>3. AuthOf(sessions, y) = h.auth BY <3>1, AuthOfIs
    <3> QED BY <3>2, <3>3
  <2>3. CASE \A h \in sessions : y \notin h.aliases
    <3>1. \A h \in sessions' : y \notin h.aliases BY <1>4, <1>5, <2>3
    <3> QED BY <2>3, <3>1, AuthOfNone
  <2> QED BY <2>1, <2>2, <2>3
<1> QED BY <1>7, <1>8, <1>9

-----------------------------------------------------------------------------
(* The picks. *)

(* A request that has decided has a plan, and what it will bind was a       *)
(* credential when it read them.                                            *)
Decided(r) ==
    /\ pc[r] \in {"bind", "running", "unbind"} => plan[r] \in Plan
    /\ pc[r] = "bind" => snap[r][plan[r].bind] # "removed"
    /\ pc[r] \in {"guardian", "fallback", "unbind"} => FallbackOf[r] # None
PickInv == TypeOK /\ \A r \in Request : Decided(r)

(* What a lookup may end in: a decision for a credential that was there, or *)
(* another lookup.                                                          *)
Chooses(r) ==
    \/ \E bind, use \in Auth, record \in BOOLEAN :
           Decide(r, bind, use, record) /\ snap[r][bind] # "removed"
    \/ FallbackOf[r] # None /\ UNCHANGED plan /\ (Go(r, "guardian") \/ Go(r, "fallback"))

(* The credentials that are available are there. *)
LEMMA AvailableIs ==
    ASSUME NEW r \in Request, NEW a \in Available(r) PROVE a \in Auth /\ snap[r][a] # "removed"
  BY DEF Available

(* A bound credential is preserved only if it is there. *)
LEMMA PreserveIs ==
    ASSUME NEW r \in Request, NEW a \in Auth, TRUE \in MayPreserve(r, a) PROVE snap[r][a] # "removed"
  BY DEF MayPreserve

(* What an alias is bound to is a credential. *)
LEMMA BoundAuth == ASSUME SessionType, NEW x, Bound(x) # None PROVE Bound(x) \in Auth
<1>1. Groups(sessions) BY DEF SessionType, Groups
<1>2. PICK g \in sessions : g.auth = Bound(x) BY <1>1, BoundIs, AuthOfBound
<1> QED BY <1>1, <1>2, GroupIs DEF Groups

(* The fallback selector chooses. *)
LEMMA FreshChooses == ASSUME NEW r \in Request, DecideFresh(r) PROVE Chooses(r)
<1>1. PICK a \in Available(r) : Decide(r, a, a, TRUE) BY DEF DecideFresh
<1> QED BY <1>1, AvailableIs DEF Chooses

(* A bound credential that cannot be used is kept or replaced. *)
LEMMA KeepChooses ==
    ASSUME NEW r \in Request, NEW c \in Auth,
           \E keep \in MayPreserve(r, c), a \in Available(r) :
               IF keep THEN Decide(r, c, a, FALSE) ELSE Decide(r, a, a, TRUE)
    PROVE  Chooses(r)
<1>1. PICK keep \in MayPreserve(r, c), a \in Available(r) :
          IF keep THEN Decide(r, c, a, FALSE) ELSE Decide(r, a, a, TRUE)
  OBVIOUS
<1>2. keep \in BOOLEAN BY <1>1 DEF MayPreserve
<1>3. a \in Auth /\ snap[r][a] # "removed" BY AvailableIs
<1>4. CASE keep = TRUE
  <2>1. snap[r][c] # "removed" BY <1>1, <1>4, PreserveIs
  <2>2. Decide(r, c, a, FALSE) BY <1>1, <1>4
  <2> QED BY <1>3, <2>1, <2>2 DEF Chooses
<1>5. CASE keep = FALSE
  <2>1. Decide(r, a, a, TRUE) BY <1>1, <1>5
  <2> QED BY <1>3, <2>1 DEF Chooses
<1> QED BY <1>2, <1>4, <1>5

(* Every lookup chooses. *)
LEMMA LookupChooses ==
    ASSUME PickInv, NEW r \in Request, Lookup(r) \/ LookupGuardian(r) \/ LookupFallback(r)
    PROVE  /\ Chooses(r) /\ pc[r] \in {"lookup", "guardian", "fallback"}
           /\ UNCHANGED <<absVars, status, leaving, snap>>
<1>1. SessionType BY DEF PickInv, TypeOK
<1>2. CASE Lookup(r)
  <2> DEFINE c == Bound(KeyOf[r])
  <2>1. CASE c = None
    <3>1. CASE FallbackOf[r] = None BY <1>2, <2>1, <3>1, FreshChooses DEF Lookup
    <3>2. CASE FallbackOf[r] # None
      <4>1. UNCHANGED plan /\ (Go(r, "guardian") \/ Go(r, "fallback")) BY <1>2, <2>1, <3>2 DEF Lookup
      <4> QED BY <1>2, <3>2, <4>1 DEF Lookup, Chooses
    <3> QED BY <3>1, <3>2
  <2>2. CASE c # None /\ Reusable(r, c)
    <3>1. Decide(r, c, c, TRUE) /\ snap[r][c] # "removed" BY <1>2, <2>2 DEF Lookup, Reusable
    <3>2. c \in Auth BY <1>1, <2>2, BoundAuth
    <3>3. Chooses(r) BY <3>1, <3>2 DEF Chooses
    <3> QED BY <1>2, <3>3 DEF Lookup
  <2>3. CASE c # None /\ ~Reusable(r, c)
    <3>1. c \in Auth BY <1>1, <2>3, BoundAuth
    <3>2. \E keep \in MayPreserve(r, c), a \in Available(r) :
              IF keep THEN Decide(r, c, a, FALSE) ELSE Decide(r, a, a, TRUE)
      BY <1>2, <2>3 DEF Lookup
    <3>3. Chooses(r) BY <3>1, <3>2, KeepChooses
    <3> QED BY <1>2, <3>3 DEF Lookup
  <2> QED BY <2>1, <2>2, <2>3
<1>3. CASE LookupGuardian(r)
  <2>1. (\E a \in Available(r) : Decide(r, a, a, TRUE)) \/ (Go(r, "fallback") /\ UNCHANGED plan)
    BY <1>3 DEF LookupGuardian
  <2>2. pc[r] = "guardian" /\ FallbackOf[r] # None BY <1>3 DEF LookupGuardian, PickInv, Decided
  <2>3. Chooses(r) BY <2>1, <2>2, AvailableIs DEF Chooses
  <2> QED BY <1>3, <2>2, <2>3 DEF LookupGuardian
<1>4. CASE LookupFallback(r)
  <2> DEFINE c == Bound(FallbackOf[r])
  <2>1. CASE DecideFresh(r) BY <1>4, <2>1, FreshChooses DEF LookupFallback
  <2>2. CASE c # None /\ Reusable(r, c) /\ Decide(r, c, c, TRUE)
    <3>1. c \in Auth BY <1>1, <2>2, BoundAuth
    <3>2. Chooses(r) BY <2>2, <3>1 DEF Chooses, Reusable
    <3> QED BY <1>4, <3>2 DEF LookupFallback
  <2>3. CASE c # None /\ \E keep \in MayPreserve(r, c), a \in Available(r) :
                 IF keep THEN Decide(r, c, a, FALSE) ELSE Decide(r, a, a, TRUE)
    <3>1. c \in Auth BY <1>1, <2>3, BoundAuth
    <3>2. Chooses(r) BY <2>3, <3>1, KeepChooses
    <3> QED BY <1>4, <3>2 DEF LookupFallback
  <2> QED BY <1>4, <2>1, <2>2, <2>3 DEF LookupFallback
<1> QED BY <1>2, <1>3, <1>4

(* The keys that a request binds are its own and perhaps its fallback. *)
LEMMA BoundKeysAre == ASSUME NEW r \in Request PROVE BoundKeys(r) \in Keys /\ BoundKeys(r)[1] = KeyOf[r]
<1>1. KeyOf[r] \in Alias /\ FallbackOf[r] # KeyOf[r] /\ (FallbackOf[r] # None => FallbackOf[r] \in Alias)
  BY AffinityAssumption
<1>2. CASE BoundKeys(r) = <<KeyOf[r]>> BY <1>1, <1>2 DEF Keys
<1>3. CASE BoundKeys(r) = <<KeyOf[r], FallbackOf[r]>> /\ FallbackOf[r] # None BY <1>1, <1>3 DEF Keys
<1> QED BY <1>2, <1>3 DEF BoundKeys

(* Bind leaves the request's session with the credential it planned to bind. *)
LEMMA BindIs ==
    ASSUME PickInv, NEW r \in Request, Bind(r)
    PROVE  /\ Groups(sessions') /\ sequence' \in 0 .. MaxSequence
           /\ \E g \in sessions' : /\ KeyOf[r] \in g.aliases /\ g.auth = plan[r].bind
                                   /\ \A h \in sessions' : h = g \/ h \in sessions
<1>1. Groups(sessions) /\ sequence \in 0 .. MaxSequence BY DEF PickInv, TypeOK, SessionType, Groups
<1>2. plan[r] \in Plan /\ plan[r].bind \in Auth BY DEF Bind, PickInv, Decided, Plan
<1>3. BoundKeys(r) \in Keys /\ BoundKeys(r)[1] = KeyOf[r] BY BoundKeysAre
<1>4. CASE Select(plan[r].bind, BoundKeys(r))
  <2> DEFINE b == [session |-> SessionOf[BoundKeys(r)[1]], provider |-> ProviderOf[plan[r].bind],
                   sequence |-> sequence + 1]
  <2>1. sequence' = sequence + 1 /\ sequence' \in 0 .. MaxSequence /\ Put(plan[r].bind, BoundKeys(r), b)
    BY <1>1, <1>4, BindingsAssumption DEF Select
  <2>2. SessionOf[BoundKeys(r)[1]] \in Session /\ ProviderOf[plan[r].bind] \in Provider
    BY <1>2, <1>3, BindingsAssumption, AffinityAssumption
  <2>3. b \in Binding BY <2>1, <2>2 DEF Binding
  <2> HIDE DEF b
  <2> QED BY <1>1, <1>2, <1>3, <2>1, <2>3, PutInGroups
<1>5. CASE Rebind(plan[r].bind, BoundKeys(r))
  <2> DEFINE b == Latest(Touched({BoundKeys(r)[i] : i \in DOMAIN BoundKeys(r)}))
  <2>1. b \in Binding BY <1>1, <1>3, LatestInGroups
  <2>2. Put(plan[r].bind, BoundKeys(r), b) /\ sequence' = sequence BY <1>5 DEF Rebind
  <2> HIDE DEF b
  <2> QED BY <1>1, <1>2, <1>3, <2>1, <2>2, PutInGroups
<1> QED BY <1>4, <1>5 DEF Bind

(* A result unbinds an alias that is bound to the credential that failed, or nothing. *)
LEMMA UnbindIfIs ==
    ASSUME PickInv, NEW x \in Alias, NEW a, UnbindIf(x, a)
    PROVE  /\ Groups(sessions') /\ sequence' = sequence
           /\ \A y \in Alias : AuthOf(sessions', y) # AuthOf(sessions, y) => /\ y = x /\ AuthOf(sessions, y) = a
                                                                            /\ AuthOf(sessions', y) = None
<1>1. Groups(sessions) BY DEF PickInv, TypeOK, SessionType, Groups
<1>2. CASE Bound(x) = a /\ Unbind(x)
  <2>1. AuthOf(sessions, x) = a BY <1>2, BoundIs
  <2> QED BY <1>1, <1>2, <2>1, UnbindIs DEF Unbind
<1>3. CASE UNCHANGED absVars BY <1>1, <1>3 DEF absVars
<1> QED BY <1>2, <1>3 DEF UnbindIf

-----------------------------------------------------------------------------
(* The invariant. *)

(* At first nothing is bound and nobody picks. *)
LEMMA PickInit == AffinityInit => PickInv
<1> SUFFICES ASSUME AffinityInit PROVE PickInv OBVIOUS
<1>1. SessionType BY BindingsAssumption DEF AffinityInit, AbsInit, SessionType
<1>2. CredentialType BY DEF AffinityInit, CredentialType, Conditions
<1>3. RequestType BY <1>2 DEF AffinityInit, RequestType, CredentialType
<1>4. \A r \in Request : Decided(r) BY DEF AffinityInit, Decided
<1> QED BY <1>1, <1>2, <1>3, <1>4 DEF PickInv, TypeOK

(* A request that moves on without a new plan or a new reading. *)
LEMMA GoKeeps ==
    ASSUME PickInv, NEW r \in Request,
           NEW step \in {"lookup", "guardian", "fallback", "running", "unbind", "done"}, Go(r, step),
           step \in {"running", "unbind"} => pc[r] \in {"bind", "running"},
           step \in {"guardian", "fallback", "unbind"} => FallbackOf[r] # None,
           UNCHANGED plan, snap' \in [Request -> [Auth -> Conditions]],
           \A q \in Request : q # r => snap'[q] = snap[q]
    PROVE  RequestType' /\ \A q \in Request : Decided(q)'
<1>1. RequestType BY DEF PickInv, TypeOK
<1>2. pc'[r] = step /\ \A q \in Request : q # r => pc'[q] = pc[q] BY <1>1 DEF RequestType, Go
<1>3. RequestType' BY <1>1 DEF RequestType, Go
<1>4. Decided(r)' BY <1>2 DEF PickInv, Decided
<1>5. \A q \in Request : q # r => Decided(q)' BY <1>2 DEF PickInv, Decided
<1> QED BY <1>3, <1>4, <1>5

(* A choice is a plan. *)
LEMMA ChooseKeeps ==
    ASSUME PickInv, NEW r \in Request, Chooses(r), UNCHANGED snap
    PROVE  RequestType' /\ \A q \in Request : Decided(q)'
<1>1. RequestType BY DEF PickInv, TypeOK
<1>2. ASSUME NEW bind \in Auth, NEW use \in Auth, NEW record \in BOOLEAN,
             Decide(r, bind, use, record), snap[r][bind] # "removed"
      PROVE  RequestType' /\ \A q \in Request : Decided(q)'
  <2> DEFINE p == [bind |-> bind, use |-> use, record |-> record]
  <2>1. p \in Plan /\ p.bind = bind BY DEF Plan
  <2>2. plan' = [plan EXCEPT ![r] = p] /\ pc' = [pc EXCEPT ![r] = "bind"] BY <1>2 DEF Decide, Go
  <2> HIDE DEF p
  <2>3. RequestType' BY <1>1, <2>1, <2>2 DEF RequestType
  <2>4. /\ plan'[r] = p /\ pc'[r] = "bind"
        /\ \A q \in Request : q # r => plan'[q] = plan[q] /\ pc'[q] = pc[q]
    BY <1>1, <2>2 DEF RequestType
  <2>5. Decided(r)' BY <1>2, <2>1, <2>4 DEF Decided
  <2>6. \A q \in Request : q # r => Decided(q)' BY <2>4 DEF PickInv, Decided
  <2> QED BY <2>3, <2>5, <2>6
<1>3. ASSUME FallbackOf[r] # None, UNCHANGED plan, Go(r, "guardian") \/ Go(r, "fallback")
      PROVE  RequestType' /\ \A q \in Request : Decided(q)'
  <2>1. snap' \in [Request -> [Auth -> Conditions]] BY <1>1 DEF RequestType
  <2> QED BY <1>3, <2>1, GoKeeps
<1> QED BY <1>2, <1>3 DEF Chooses

(* Every step keeps the invariant. *)
LEMMA PickStep == ASSUME PickInv, [Next]_vars PROVE PickInv'
<1>1. /\ SessionType /\ CredentialType /\ RequestType /\ Groups(sessions)
      /\ \A r \in Request : Decided(r)
  BY DEF PickInv, TypeOK, SessionType, Groups
<1>2. ASSUME Groups(sessions'), sequence' \in 0 .. MaxSequence PROVE SessionType'
  BY <1>2 DEF SessionType, Groups
<1>3. ASSUME UNCHANGED absVars PROVE SessionType' BY <1>1, <1>3 DEF SessionType, absVars
<1>4. ASSUME UNCHANGED <<status, leaving>> PROVE CredentialType' BY <1>1, <1>4 DEF CredentialType
<1>5. ASSUME UNCHANGED <<pc, snap, plan>> PROVE RequestType' /\ \A r \in Request : Decided(r)'
  BY <1>1, <1>5 DEF RequestType, Decided
<1>6. snap \in [Request -> [Auth -> Conditions]] BY <1>1 DEF RequestType
<1>7. ASSUME NEW r \in Request, Start(r) PROVE PickInv'
  <2>1. snap' \in [Request -> [Auth -> Conditions]] /\ \A q \in Request : q # r => snap'[q] = snap[q]
    BY <1>1, <1>6, <1>7 DEF Start, CredentialType
  <2>2. Go(r, "lookup") \/ Go(r, "done") BY <1>7 DEF Start
  <2>3. UNCHANGED <<absVars, status, leaving, plan>> BY <1>7 DEF Start
  <2>4. RequestType' /\ \A q \in Request : Decided(q)' BY <2>1, <2>2, <2>3, GoKeeps
  <2> QED BY <1>3, <1>4, <2>3, <2>4 DEF PickInv, TypeOK
<1>8. ASSUME NEW r \in Request, Lookup(r) \/ LookupGuardian(r) \/ LookupFallback(r) PROVE PickInv'
  <2>1. Chooses(r) /\ UNCHANGED <<absVars, status, leaving, snap>> BY <1>8, LookupChooses
  <2>2. RequestType' /\ \A q \in Request : Decided(q)' BY <2>1, ChooseKeeps
  <2> QED BY <1>3, <1>4, <2>1, <2>2 DEF PickInv, TypeOK
<1>9. ASSUME NEW r \in Request, Bind(r) PROVE PickInv'
  <2>1. pc[r] = "bind" /\ Go(r, "running") /\ UNCHANGED <<status, leaving, snap, plan>> BY <1>9 DEF Bind
  <2>2. RequestType' /\ \A q \in Request : Decided(q)' BY <1>6, <2>1, GoKeeps
  <2>3. SessionType' BY <1>2, <1>9, BindIs
  <2> QED BY <1>4, <2>1, <2>2, <2>3 DEF PickInv, TypeOK
<1>10. ASSUME NEW r \in Request, ResultKeeps(r) PROVE PickInv'
  <2>1. Go(r, "done") /\ UNCHANGED <<absVars, status, leaving, snap, plan>> BY <1>10 DEF ResultKeeps
  <2>2. RequestType' /\ \A q \in Request : Decided(q)' BY <1>6, <2>1, GoKeeps
  <2> QED BY <1>3, <1>4, <2>1, <2>2 DEF PickInv, TypeOK
<1>11. ASSUME NEW r \in Request, ResultUnbinds(r) PROVE PickInv'
  <2>1. /\ pc[r] = "running" /\ UNCHANGED <<status, leaving, snap, plan>>
        /\ Go(r, "done") \/ (FallbackOf[r] # None /\ Go(r, "unbind"))
    BY <1>11 DEF ResultUnbinds, UnbindsFallback
  <2>2. RequestType' /\ \A q \in Request : Decided(q)' BY <1>6, <2>1, GoKeeps
  <2>3. KeyOf[r] \in Alias /\ UnbindIf(KeyOf[r], plan[r].use)
    BY <1>11, AffinityAssumption DEF ResultUnbinds
  <2>4. SessionType' BY <1>1, <1>2, <2>3, UnbindIfIs DEF SessionType
  <2> QED BY <1>4, <2>1, <2>2, <2>4 DEF PickInv, TypeOK
<1>12. ASSUME NEW r \in Request, UnbindFallback(r) PROVE PickInv'
  <2>1. pc[r] = "unbind" /\ UNCHANGED <<status, leaving, snap, plan>> /\ Go(r, "done")
    BY <1>12 DEF UnbindFallback
  <2>2. RequestType' /\ \A q \in Request : Decided(q)' BY <1>6, <2>1, GoKeeps
  <2>3. FallbackOf[r] \in Alias /\ UnbindIf(FallbackOf[r], plan[r].use)
    BY <1>1, <1>12, <2>1, AffinityAssumption DEF UnbindFallback, Decided
  <2>4. SessionType' BY <1>1, <1>2, <2>3, UnbindIfIs DEF SessionType
  <2> QED BY <1>4, <2>1, <2>2, <2>4 DEF PickInv, TypeOK
<1>13. ASSUME NEW a \in Auth, Change(a) \/ RemoveCredential(a) PROVE PickInv'
  <2>1. UNCHANGED <<absVars, pc, snap, plan>> BY <1>13 DEF Change, RemoveCredential
  <2>2. CASE Change(a)
    <3>1. PICK c \in Condition : status' = [status EXCEPT ![a] = c] BY <2>2 DEF Change
    <3>2. status[a] # "removed" /\ leaving' = leaving BY <2>2 DEF Change
    <3>3. CredentialType' BY <1>1, <3>1, <3>2 DEF CredentialType, Conditions
    <3> QED BY <1>3, <1>5, <2>1, <3>3 DEF PickInv, TypeOK
  <2>3. CASE RemoveCredential(a)
    <3>1. CredentialType' BY <1>1, <2>3 DEF RemoveCredential, CredentialType, Conditions
    <3> QED BY <1>3, <1>5, <2>1, <3>1 DEF PickInv, TypeOK
  <2> QED BY <1>13, <2>2, <2>3
<1>14. ASSUME NEW a \in Auth, InvalidateSessionAffinity(a) PROVE PickInv'
  <2>1. sessions' \subseteq sessions /\ UNCHANGED <<sequence, status, pc, snap, plan>> /\ leaving' \subseteq leaving
    BY <1>14 DEF InvalidateSessionAffinity
  <2>2. SessionType' BY <1>1, <1>2, <2>1, AuthOfFewer DEF SessionType
  <2>3. CredentialType' BY <1>1, <2>1 DEF CredentialType
  <2> QED BY <1>5, <2>1, <2>2, <2>3 DEF PickInv, TypeOK
<1>15. CASE Lose
  <2>1. sessions' \subseteq sessions /\ UNCHANGED <<sequence, status, leaving, pc, snap, plan>>
    BY <1>15 DEF Lose, Forget
  <2>2. SessionType' BY <1>1, <1>2, <2>1, AuthOfFewer DEF SessionType
  <2> QED BY <1>4, <1>5, <2>1, <2>2 DEF PickInv, TypeOK
<1>16. CASE UNCHANGED vars
  <2>1. UNCHANGED <<absVars, status, leaving, pc, snap, plan>> BY <1>16 DEF vars, absVars
  <2> QED BY <1>3, <1>4, <1>5, <2>1 DEF PickInv, TypeOK
<1> QED BY <1>7, <1>8, <1>9, <1>10, <1>11, <1>12, <1>13, <1>14, <1>15, <1>16 DEF Next

(* The invariant holds throughout. *)
LEMMA PickHolds == Spec => []PickInv
<1>1. AffinityInit => PickInv BY PickInit
<1>2. PickInv /\ [Next]_vars => PickInv' BY PickStep
<1> QED BY <1>1, <1>2, PTL DEF Spec

(* However picks, results, removals and expiry interleave, no alias belongs   *)
(* to two sessions: setAliases merges what it finds, so that Get never has a  *)
(* choice between two credentials.                                            *)
THEOREM TypeCorrect == Spec => []TypeOK
<1>1. PickInv => TypeOK BY DEF PickInv
<1> QED BY <1>1, PickHolds, PTL

-----------------------------------------------------------------------------
(* What a step does to the bindings. *)

(* The request that acts takes the step. *)
LEMMA ActsAre ==
    ASSUME PickInv, Next, NEW r \in Request, Acts(r)
    PROVE  \/ Start(r) \/ Lookup(r) \/ LookupGuardian(r) \/ LookupFallback(r) \/ Bind(r)
           \/ ResultKeeps(r) \/ ResultUnbinds(r) \/ UnbindFallback(r)
<1>1. RequestType BY DEF PickInv, TypeOK
<1>2. ~(\E a \in Auth : Change(a) \/ RemoveCredential(a) \/ InvalidateSessionAffinity(a)) /\ ~Lose
  BY DEF Acts, Change, RemoveCredential, InvalidateSessionAffinity, Lose
<1>3. PICK q \in Request : \/ Start(q) \/ Lookup(q) \/ LookupGuardian(q) \/ LookupFallback(q) \/ Bind(q)
                           \/ ResultKeeps(q) \/ ResultUnbinds(q) \/ UnbindFallback(q)
  BY <1>2 DEF Next
<1>4. \E step : pc' = [pc EXCEPT ![q] = step]
  <2>1. CASE Lookup(q) \/ LookupGuardian(q) \/ LookupFallback(q)
    <3>1. Chooses(q) BY <2>1, LookupChooses
    <3> QED BY <3>1 DEF Chooses, Decide, Go
  <2>2. CASE Start(q) \/ Bind(q) \/ ResultKeeps(q) \/ ResultUnbinds(q) \/ UnbindFallback(q)
    BY <2>2 DEF Start, Bind, ResultKeeps, ResultUnbinds, UnbindFallback, Go
  <2> QED BY <1>3, <2>1, <2>2
<1>5. q = r BY <1>1, <1>4 DEF Acts, RequestType
<1> QED BY <1>3, <1>5

(* A step either binds, or leaves every alias with its credential or none. *)
LEMMA BindsOrFewer ==
    ASSUME PickInv, Next
    PROVE  \/ \E r \in Request : Bind(r)
           \/ \A x \in Alias : AuthOf(sessions', x) \in {AuthOf(sessions, x), None}
<1>1. Groups(sessions) BY DEF PickInv, TypeOK, SessionType, Groups
<1>2. CASE sessions' \subseteq sessions BY <1>1, <1>2, AuthOfFewer
<1>3. ASSUME NEW r \in Request, Start(r) \/ Lookup(r) \/ LookupGuardian(r) \/ LookupFallback(r) \/ ResultKeeps(r)
      PROVE  sessions' \subseteq sessions
  BY <1>3, LookupChooses DEF Start, ResultKeeps, absVars
<1>4. ASSUME NEW a \in Auth, Change(a) \/ RemoveCredential(a) \/ InvalidateSessionAffinity(a) PROVE sessions' \subseteq sessions
  BY <1>4 DEF Change, RemoveCredential, InvalidateSessionAffinity, absVars
<1>5. ASSUME Lose PROVE sessions' \subseteq sessions BY <1>5 DEF Lose, Forget
<1>6. ASSUME NEW r \in Request, ResultUnbinds(r) \/ UnbindFallback(r)
      PROVE  \A x \in Alias : AuthOf(sessions', x) \in {AuthOf(sessions, x), None}
  <2>1. CASE ResultUnbinds(r)
    <3>1. KeyOf[r] \in Alias /\ UnbindIf(KeyOf[r], plan[r].use)
      BY <2>1, AffinityAssumption DEF ResultUnbinds
    <3> QED BY <3>1, UnbindIfIs
  <2>2. CASE UnbindFallback(r)
    <3>1. FallbackOf[r] \in Alias /\ UnbindIf(FallbackOf[r], plan[r].use)
      BY <2>2, AffinityAssumption DEF UnbindFallback, PickInv, Decided
    <3> QED BY <3>1, UnbindIfIs
  <2> QED BY <1>6, <2>1, <2>2
<1> QED BY <1>2, <1>3, <1>4, <1>5, <1>6 DEF Next

(* The selector reaches the bindings only through the operations of the cache: *)
(* its picks, results and removals, however they interleave, are a history of *)
(* SessionBindings, which SessionCache implements.                            *)
THEOREM AffinityUsesBindings == Spec => AbsSpec
<1>1. PickInv /\ [Next]_vars => [AbsNext]_absVars
  <2> SUFFICES ASSUME PickInv, Next, ~UNCHANGED absVars PROVE AbsNext
    BY DEF vars, absVars
  <2>1. ASSUME NEW r \in Request, Start(r) \/ Lookup(r) \/ LookupGuardian(r) \/ LookupFallback(r) \/ ResultKeeps(r)
        PROVE  FALSE
    BY <2>1 DEF Start, Lookup, LookupGuardian, LookupFallback, ResultKeeps
  <2>2. ASSUME NEW r \in Request, Bind(r) PROVE AbsNext
    <3>1. plan[r].bind \in Auth BY <2>2 DEF Bind, PickInv, Decided, Plan
    <3>2. BoundKeys(r) \in Keys BY BoundKeysAre
    <3>3. Select(plan[r].bind, BoundKeys(r)) \/ Rebind(plan[r].bind, BoundKeys(r)) BY <2>2 DEF Bind
    <3> QED BY <3>1, <3>2, <3>3 DEF AbsNext
  <2>3. ASSUME NEW x \in Alias, NEW a, UnbindIf(x, a) PROVE AbsNext
    BY <2>3 DEF UnbindIf, AbsNext
  <2>4. ASSUME NEW r \in Request, ResultUnbinds(r) PROVE AbsNext
    <3>1. KeyOf[r] \in Alias /\ UnbindIf(KeyOf[r], plan[r].use) BY <2>4, AffinityAssumption DEF ResultUnbinds
    <3> QED BY <2>3, <3>1
  <2>5. ASSUME NEW r \in Request, UnbindFallback(r) PROVE AbsNext
    <3>1. FallbackOf[r] \in Alias /\ UnbindIf(FallbackOf[r], plan[r].use)
      BY <2>5, AffinityAssumption DEF UnbindFallback, PickInv, Decided
    <3> QED BY <2>3, <3>1
  <2>6. ASSUME NEW a \in Auth, Change(a) \/ RemoveCredential(a) PROVE FALSE
    BY <2>6 DEF Change, RemoveCredential
  <2>7. ASSUME NEW a \in Auth, InvalidateSessionAffinity(a) PROVE AbsNext
    <3>1. sessions' \in SUBSET sessions /\ sequence' = sequence BY <2>7 DEF InvalidateSessionAffinity
    <3>2. sessions' # sessions BY <3>1 DEF absVars
    <3>3. Forget BY <3>1, <3>2 DEF Forget
    <3> QED BY <3>3 DEF AbsNext
  <2>8. CASE Lose BY <2>8 DEF Lose, AbsNext
  <2> QED BY <2>1, <2>2, <2>4, <2>5, <2>6, <2>7, <2>8 DEF Next
<1>2. AffinityInit => AbsInit BY DEF AffinityInit
<1> QED BY <1>1, <1>2, PickHolds, PTL DEF Spec, AbsSpec

(* A failure that arrives late unbinds only what is still bound to the        *)
(* credential that failed: CompareAndDelete looks before it deletes, and      *)
(* Invalidate keeps the other aliases of the session.                         *)
THEOREM LateFailureCorrect == Spec => LateFailureSpares
<1> DEFINE Spares == \A r \in Request : pc[r] \in {"running", "unbind"} /\ Acts(r) =>
                         \A x \in Alias : Bound(x)' # Bound(x) => Bound(x) = plan[r].use
<1>1. PickInv /\ [Next]_vars => [Spares]_vars
  <2> SUFFICES ASSUME PickInv, Next, NEW r \in Request, pc[r] \in {"running", "unbind"}, Acts(r),
                      NEW x \in Alias, Bound(x)' # Bound(x)
               PROVE  Bound(x) = plan[r].use
    OBVIOUS
  <2>1. AuthOf(sessions', x) # AuthOf(sessions, x) /\ Bound(x) = AuthOf(sessions, x) BY BoundIs
  <2>2. ResultKeeps(r) \/ ResultUnbinds(r) \/ UnbindFallback(r)
    BY ActsAre DEF Start, Lookup, LookupGuardian, LookupFallback, Bind
  <2>3. ~ResultKeeps(r) BY <2>1 DEF ResultKeeps, absVars
  <2>4. CASE ResultUnbinds(r)
    <3>1. KeyOf[r] \in Alias /\ UnbindIf(KeyOf[r], plan[r].use)
      BY <2>4, AffinityAssumption DEF ResultUnbinds
    <3> QED BY <2>1, <3>1, UnbindIfIs
  <2>5. CASE UnbindFallback(r)
    <3>1. FallbackOf[r] \in Alias /\ UnbindIf(FallbackOf[r], plan[r].use)
      BY <2>5, AffinityAssumption DEF UnbindFallback, PickInv, Decided
    <3> QED BY <2>1, <3>1, UnbindIfIs
  <2> QED BY <2>2, <2>3, <2>4, <2>5
<1>2. Spec => [][Spares]_vars BY <1>1, PickHolds, PTL DEF Spec
<1> QED BY <1>2 DEF LateFailureSpares

(* Bindings to a removed credential die out: a pick binds only what it read   *)
(* as a candidate, so that once no pick from before the removal is left the   *)
(* stale bindings only get fewer, and the next pick of a session replaces     *)
(* its own.                                                                   *)
THEOREM RemovalCorrect == Spec => RemovalConverges
<1> DEFINE Converges == (\A a \in Auth : StaleShrinks(a)) /\ (\A r \in Request : PickHeals(r))
<1>1. PickInv /\ [Next]_vars => [Converges]_vars
  <2> SUFFICES ASSUME PickInv, Next PROVE Converges OBVIOUS
  <2>1. ASSUME NEW a \in Auth PROVE StaleShrinks(a)
    <3> SUFFICES ASSUME \A r \in Request : Picking(r) => snap[r][a] = "removed",
                        NEW x \in Alias, AuthOf(sessions', x) = a
                 PROVE  AuthOf(sessions, x) = a
      BY BoundIs DEF StaleShrinks, BoundTo
    <3>1. a # None BY BindingsAssumption
    <3>2. ASSUME NEW r \in Request, Bind(r) PROVE AuthOf(sessions, x) = a
      <4>1. snap[r][plan[r].bind] # "removed" BY <3>2 DEF Bind, PickInv, Decided
      <4>2. plan[r].bind # a BY <3>2, <4>1 DEF Bind, Picking
      <4>3. Groups(sessions) /\ Groups(sessions')
        BY <3>2, BindIs DEF PickInv, TypeOK, SessionType, Groups
      <4>4. PICK g \in sessions' : g.auth = plan[r].bind /\ \A h \in sessions' : h = g \/ h \in sessions
        BY <3>2, BindIs
      <4>5. PICK h \in sessions' : x \in h.aliases /\ h.auth = a BY <3>1, <4>3, AuthOfBound
      <4>6. h \in sessions BY <4>2, <4>4, <4>5
      <4> QED BY <4>3, <4>5, <4>6, AuthOfIs
    <3> QED BY <3>1, <3>2, BindsOrFewer
  <2>2. ASSUME NEW r \in Request PROVE PickHeals(r)
    <3> SUFFICES ASSUME pc[r] = "bind", Acts(r), NEW a \in Auth, snap[r][a] = "removed"
                 PROVE  AuthOf(sessions', KeyOf[r]) # a
      BY BoundIs DEF PickHeals
    <3>1. Bind(r)
      BY ActsAre DEF Start, Lookup, LookupGuardian, LookupFallback, ResultKeeps, ResultUnbinds, UnbindFallback
    <3>2. PICK g \in sessions' : KeyOf[r] \in g.aliases /\ g.auth = plan[r].bind BY <3>1, BindIs
    <3>3. AuthOf(sessions', KeyOf[r]) = plan[r].bind BY <3>1, <3>2, BindIs, AuthOfIs
    <3>4. snap[r][plan[r].bind] # "removed" BY DEF PickInv, Decided
    <3> QED BY <3>3, <3>4
  <2> QED BY <2>1, <2>2
<1>2. Spec => [][Converges]_vars BY <1>1, PickHolds, PTL DEF Spec
<1> QED BY <1>2 DEF RemovalConverges
-----------------------------------------------------------------------------
(* Families: aliases that nothing ties never become names of one session. *)

(* Sessions that lie within C or outside it. *)
Splits(S, C) == \A g \in S : g.aliases \subseteq C \/ g.aliases \cap C = {}

FamilyInv ==
    /\ \A C \in SUBSET Alias : Closed(C) => Splits(sessions, C)
    /\ \A r \in Request : pc[r] = "unbind" => UnbindsFallback(r)

(* Put names the sessions of its keys as one, and no other alias. *)
LEMMA PutSplits ==
    ASSUME NEW C, Splits(sessions, C), NEW a, NEW keys, NEW b, Put(a, keys, b),
           {keys[i] : i \in DOMAIN keys} \subseteq C \/ {keys[i] : i \in DOMAIN keys} \cap C = {}
    PROVE  Splits(sessions', C)
<1> DEFINE named == {keys[i] : i \in DOMAIN keys}
           merged == Touched(named)
<1>1. PICK kept \in SUBSET (sessions \ merged),
           known \in SUBSET (named \cup UNION {g.aliases : g \in merged}) :
               sessions' = kept \cup {[aliases |-> known, auth |-> a, binding |-> b]}
  BY DEF Put
<1> DEFINE n == [aliases |-> known, auth |-> a, binding |-> b]
<1>2. n.aliases = known OBVIOUS
<1>3. \A g \in merged : g \in sessions /\ g.aliases \cap named # {} BY DEF Touched
<1> HIDE DEF named, merged, n
<1>4. CASE named \subseteq C
  <2>1. \A g \in merged : g.aliases \subseteq C BY <1>3, <1>4 DEF Splits
  <2>2. known \subseteq C BY <1>1, <1>4, <2>1
  <2> QED BY <1>1, <1>2, <2>2 DEF Splits, n
<1>5. CASE named \cap C = {}
  <2>1. \A g \in merged : g.aliases \cap C = {} BY <1>3, <1>5 DEF Splits
  <2>2. known \cap C = {} BY <1>1, <1>5, <2>1
  <2> QED BY <1>1, <1>2, <2>2 DEF Splits, n
<1> QED BY <1>4, <1>5 DEF named

(* The keys that bind names are tied. *)
LEMMA BoundKeysTied ==
    ASSUME NEW r \in Request, NEW C, Closed(C)
    PROVE  LET named == {BoundKeys(r)[i] : i \in DOMAIN BoundKeys(r)}
           IN  named \subseteq C \/ named \cap C = {}
<1>1. CASE BoundKeys(r) = <<KeyOf[r]>>
  <2>1. {BoundKeys(r)[i] : i \in DOMAIN BoundKeys(r)} = {KeyOf[r]} BY <1>1
  <2> QED BY <2>1
<1>2. CASE /\ BoundKeys(r) = <<KeyOf[r], FallbackOf[r]>>
           /\ FallbackOf[r] # None /\ ~IsSubagent(r) /\ r \notin Fork
  <2>1. DOMAIN BoundKeys(r) = {1, 2} /\ BoundKeys(r)[1] = KeyOf[r] /\ BoundKeys(r)[2] = FallbackOf[r]
    BY <1>2
  <2>2. {BoundKeys(r)[i] : i \in DOMAIN BoundKeys(r)} = {KeyOf[r], FallbackOf[r]} BY <2>1
  <2>3. KeyOf[r] \in C <=> FallbackOf[r] \in C BY <1>2 DEF Closed
  <2> QED BY <2>2, <2>3
<1> QED BY <1>1, <1>2 DEF BoundKeys

(* Bind is a Put of the request's keys. *)
LEMMA BindPuts ==
    ASSUME NEW r \in Request, Bind(r) PROVE \E b : Put(plan[r].bind, BoundKeys(r), b)
  BY DEF Bind, Select, Rebind

(* Unbind ties nothing. *)
LEMMA CompareAndDeleteSplits ==
    ASSUME Groups(sessions), NEW C, Splits(sessions, C), NEW x \in Alias, NEW a, UnbindIf(x, a)
    PROVE  Splits(sessions', C)
<1>1. CASE Unbind(x)
  <2>1. PICK g \in sessions : x \in g.aliases BY <1>1 DEF Unbind, Touched
  <2>2. Touched({x}) = {g} BY <2>1 DEF Touched, Groups
  <2>3. g \in Group BY DEF Groups
  <2> DEFINE n == [g EXCEPT !.aliases = @ \ {x}]
  <2>4. n.aliases = g.aliases \ {x} BY <2>3 DEF Group
  <2>5. sessions' = (sessions \ {g}) \cup (IF g.aliases # {x} THEN {n} ELSE {}) BY <1>1, <2>2 DEF Unbind
  <2> HIDE DEF n
  <2> QED BY <2>1, <2>4, <2>5 DEF Splits
<1>2. CASE UNCHANGED absVars BY <1>2 DEF absVars
<1> QED BY <1>1, <1>2 DEF UnbindIf

(* Every step keeps the families apart. *)
LEMMA FamilyStep == ASSUME PickInv, FamilyInv, [Next]_vars PROVE FamilyInv'
<1>1. RequestType /\ Groups(sessions) BY DEF PickInv, TypeOK, SessionType, Groups
<1>2. ASSUME sessions' \subseteq sessions
      PROVE  \A C \in SUBSET Alias : Closed(C) => Splits(sessions', C)
  BY <1>2 DEF FamilyInv, Splits
<1>3. ASSUME NEW r \in Request, NEW x \in Alias, UnbindIf(x, plan[r].use)
      PROVE  \A C \in SUBSET Alias : Closed(C) => Splits(sessions', C)
  BY <1>1, <1>3, CompareAndDeleteSplits DEF FamilyInv
<1>4. ASSUME NEW r \in Request, NEW step, pc' = [pc EXCEPT ![r] = step],
             step = "unbind" => UnbindsFallback(r)
      PROVE  \A q \in Request : pc'[q] = "unbind" => UnbindsFallback(q)
  BY <1>1, <1>4 DEF FamilyInv, RequestType
<1>5. ASSUME NEW r \in Request, Start(r) \/ ResultKeeps(r) PROVE FamilyInv'
  <2>1. sessions' = sessions BY <1>5 DEF Start, ResultKeeps, absVars
  <2>2. \E step \in {"lookup", "done"} : pc' = [pc EXCEPT ![r] = step]
    BY <1>5 DEF Start, ResultKeeps, Go
  <2>3. \A q \in Request : pc'[q] = "unbind" => UnbindsFallback(q) BY <1>4, <2>2
  <2>4. \A C \in SUBSET Alias : Closed(C) => Splits(sessions', C) BY <1>2, <2>1
  <2> QED BY <2>3, <2>4 DEF FamilyInv
<1>6. ASSUME NEW r \in Request, Lookup(r) \/ LookupGuardian(r) \/ LookupFallback(r) PROVE FamilyInv'
  <2>1. Chooses(r) /\ UNCHANGED absVars BY <1>6, LookupChooses
  <2>2. \E step \in {"bind", "guardian", "fallback"} : pc' = [pc EXCEPT ![r] = step]
    BY <2>1 DEF Chooses, Decide, Go
  <2>3. \A q \in Request : pc'[q] = "unbind" => UnbindsFallback(q) BY <1>4, <2>2
  <2>4. sessions' = sessions BY <2>1 DEF absVars
  <2>5. \A C \in SUBSET Alias : Closed(C) => Splits(sessions', C) BY <1>2, <2>4
  <2> QED BY <2>3, <2>5 DEF FamilyInv
<1>7. ASSUME NEW r \in Request, Bind(r) PROVE FamilyInv'
  <2>1. pc' = [pc EXCEPT ![r] = "running"] BY <1>7 DEF Bind, Go
  <2>2. \A q \in Request : pc'[q] = "unbind" => UnbindsFallback(q) BY <1>4, <2>1
  <2>3. ASSUME NEW C \in SUBSET Alias, Closed(C) PROVE Splits(sessions', C)
    <3>1. PICK b : Put(plan[r].bind, BoundKeys(r), b) BY <1>7, BindPuts
    <3>2. Splits(sessions, C) BY <2>3 DEF FamilyInv
    <3> QED BY <2>3, <3>1, <3>2, BoundKeysTied, PutSplits
  <2> QED BY <2>2, <2>3 DEF FamilyInv
<1>8. ASSUME NEW r \in Request, ResultUnbinds(r) PROVE FamilyInv'
  <2>1. KeyOf[r] \in Alias /\ UnbindIf(KeyOf[r], plan[r].use)
    BY <1>8, AffinityAssumption DEF ResultUnbinds
  <2>2. \E step \in {"unbind", "done"} : /\ pc' = [pc EXCEPT ![r] = step]
                                         /\ step = "unbind" => UnbindsFallback(r)
    BY <1>8 DEF ResultUnbinds, Go
  <2>3. \A q \in Request : pc'[q] = "unbind" => UnbindsFallback(q) BY <1>4, <2>2
  <2>4. \A C \in SUBSET Alias : Closed(C) => Splits(sessions', C) BY <1>3, <2>1
  <2> QED BY <2>3, <2>4 DEF FamilyInv
<1>9. ASSUME NEW r \in Request, UnbindFallback(r) PROVE FamilyInv'
  <2>1. FallbackOf[r] \in Alias /\ UnbindIf(FallbackOf[r], plan[r].use)
    BY <1>9, AffinityAssumption DEF UnbindFallback, PickInv, Decided
  <2>2. pc' = [pc EXCEPT ![r] = "done"] BY <1>9 DEF UnbindFallback, Go
  <2>3. \A q \in Request : pc'[q] = "unbind" => UnbindsFallback(q) BY <1>4, <2>2
  <2>4. \A C \in SUBSET Alias : Closed(C) => Splits(sessions', C) BY <1>3, <2>1
  <2> QED BY <2>3, <2>4 DEF FamilyInv
<1>10. CASE (\E a \in Auth : Change(a) \/ RemoveCredential(a) \/ InvalidateSessionAffinity(a)) \/ Lose \/ UNCHANGED vars
  <2>1. sessions' \subseteq sessions /\ pc' = pc
    BY <1>10 DEF Change, RemoveCredential, InvalidateSessionAffinity, Lose, Forget, absVars, vars
  <2> QED BY <1>2, <2>1 DEF FamilyInv
<1> QED BY <1>5, <1>6, <1>7, <1>8, <1>9, <1>10 DEF Next

(* The families stay apart throughout. *)
LEMMA FamilyHolds == Spec => []FamilyInv
<1>1. AffinityInit => FamilyInv BY DEF AffinityInit, AbsInit, FamilyInv, Splits
<1>2. PickInv /\ FamilyInv /\ [Next]_vars => FamilyInv' BY FamilyStep
<1> QED BY <1>1, <1>2, PickHolds, PTL DEF Spec

(* Put leaves an alias alone, or forgets it, if it belongs to no session of  *)
(* the keys.                                                                 *)
LEMMA PutSpares ==
    ASSUME Groups(sessions), Groups(sessions'), NEW a, NEW keys, NEW b, Put(a, keys, b),
           NEW x, x \notin {keys[i] : i \in DOMAIN keys},
           \A g \in Touched({keys[i] : i \in DOMAIN keys}) : x \notin g.aliases
    PROVE  AuthOf(sessions', x) \in {AuthOf(sessions, x), None}
<1> DEFINE named == {keys[i] : i \in DOMAIN keys}
           merged == Touched(named)
<1>1. PICK kept \in SUBSET (sessions \ merged),
           known \in SUBSET (named \cup UNION {g.aliases : g \in merged}) :
               sessions' = kept \cup {[aliases |-> known, auth |-> a, binding |-> b]}
  BY DEF Put
<1> DEFINE n == [aliases |-> known, auth |-> a, binding |-> b]
<1>2. x \notin n.aliases BY <1>1
<1> HIDE DEF n, named, merged
<1>3. CASE AuthOf(sessions', x) # None
  <2>1. PICK g \in sessions' : x \in g.aliases /\ g.auth = AuthOf(sessions', x) BY <1>3, AuthOfBound
  <2>2. g \in sessions BY <1>1, <1>2, <2>1 DEF n
  <2> QED BY <2>1, <2>2, AuthOfIs
<1> QED BY <1>3

(* "Parent session MUST STILL BE BOUND": for any family of sessions, what a  *)
(* subagent or a fork binds, fails over to or unbinds never moves its        *)
(* parent's session and never unbinds it.  The prefix test that tells a      *)
(* child from an alias is all that keeps the two apart in setAliases, which  *)
(* merges every session it is given a key of.                                *)
THEOREM ParentCorrect == Spec => ParentIsolated
<1> DEFINE Isolated == \A r \in Request : (IsSubagent(r) \/ r \in Fork) /\ Acts(r) =>
                           LET old == Bound(FallbackOf[r])
                           IN  \/ Bound(FallbackOf[r])' = old
                               \/ pc[r] = "bind" /\ Bound(FallbackOf[r])' = None
<1>1. PickInv /\ FamilyInv /\ [Next]_vars => [Isolated]_vars
  <2> SUFFICES ASSUME PickInv, FamilyInv, Next, NEW r \in Request, IsSubagent(r) \/ r \in Fork, Acts(r)
               PROVE  \/ AuthOf(sessions', FallbackOf[r]) = AuthOf(sessions, FallbackOf[r])
                      \/ pc[r] = "bind" /\ AuthOf(sessions', FallbackOf[r]) = None
    BY BoundIs
  <2>1. CASE FallbackOf[r] = None BY <2>1 DEF AuthOf
  <2>2. CASE FallbackOf[r] # None
    <3>1. FallbackOf[r] \in Alias /\ KeyOf[r] \in Alias /\ FallbackOf[r] # KeyOf[r]
      BY <2>2, AffinityAssumption
    <3>2. CASE Start(r) \/ ResultKeeps(r) BY <3>2 DEF Start, ResultKeeps, absVars
    <3>3. CASE Lookup(r) \/ LookupGuardian(r) \/ LookupFallback(r)
      <4>1. UNCHANGED absVars BY <3>3, LookupChooses
      <4> QED BY <4>1 DEF absVars
    <3>4. CASE Bind(r)
      <4>1. BoundKeys(r) = <<KeyOf[r]>> BY DEF BoundKeys
      <4>2. {BoundKeys(r)[i] : i \in DOMAIN BoundKeys(r)} = {KeyOf[r]} BY <4>1
      <4>3. PICK C \in SUBSET Alias : Closed(C) /\ KeyOf[r] \in C /\ FallbackOf[r] \notin C
        BY <2>2, FamilyAssumption
      <4>4. \A g \in Touched({KeyOf[r]}) : FallbackOf[r] \notin g.aliases
        BY <4>3 DEF FamilyInv, Splits, Touched
      <4>5. PICK b : Put(plan[r].bind, BoundKeys(r), b) BY <3>4, BindPuts
      <4>6. Groups(sessions) /\ Groups(sessions')
        BY <3>4, BindIs DEF PickInv, TypeOK, SessionType, Groups
      <4>7. AuthOf(sessions', FallbackOf[r]) \in {AuthOf(sessions, FallbackOf[r]), None}
        BY <3>1, <4>2, <4>4, <4>5, <4>6, PutSpares
      <4> QED BY <3>4, <4>7 DEF Bind
    <3>5. CASE ResultUnbinds(r)
      <4>1. UnbindIf(KeyOf[r], plan[r].use) BY <3>5 DEF ResultUnbinds
      <4> QED BY <3>1, <4>1, UnbindIfIs
    <3>6. ~UnbindFallback(r)
      BY <2>2, FamilyAssumption DEF UnbindFallback, FamilyInv, UnbindsFallback, IsSubagent
    <3> QED BY <3>2, <3>3, <3>4, <3>5, <3>6, ActsAre
  <2> QED BY <2>1, <2>2
<1>2. Spec => [][Isolated]_vars BY <1>1, PickHolds, FamilyHolds, PTL DEF Spec
<1> QED BY <1>2 DEF ParentIsolated

-----------------------------------------------------------------------------
(* The session cache: numbers and positions. *)

(* A set of numbers has a least one. *)
LEMMA LeastPosition ==
    ASSUME NEW T \in SUBSET Nat, T # {} PROVE \E x \in T : \A y \in T : x <= y
<1>1. IsWellFoundedOn(OpToRel(<, Nat), Nat) BY NatLessThanWellFounded
<1>2. PICK x \in T : \A y \in T : ~(<<y, x>> \in OpToRel(<, Nat)) BY <1>1, WFMin
<1>3. \A y \in T : ~(y < x) BY <1>2 DEF OpToRel
<1>4. ASSUME NEW y \in T PROVE x <= y
  <2>1. x \in Nat /\ y \in Nat /\ ~(y < x) BY <1>3
  <2> QED BY <2>1
<1> QED BY <1>4

(* How many elements of I are at most i. *)
Rank(I, i) == Cardinality({j \in I : j <= i})

(* Ranks grow with the positions and take every value up to the number of positions. *)
LEMMA RankIs ==
    ASSUME NEW I \in SUBSET Nat, IsFiniteSet(I)
    PROVE  /\ Cardinality(I) \in Nat
           /\ \A i \in I : Rank(I, i) \in 1 .. Cardinality(I)
           /\ \A i, j \in I : i < j => Rank(I, i) < Rank(I, j)
           /\ \A n \in 1 .. Cardinality(I) : \E i \in I : Rank(I, i) = n
<1> DEFINE Upto(i) == {j \in I : j <= i}
           C == Cardinality(I)
           rank == [i \in I |-> Rank(I, i)]
<1>1. C \in Nat BY FS_CardinalityType
<1>2. ASSUME NEW i \in I PROVE IsFiniteSet(Upto(i)) /\ Cardinality(Upto(i)) \in Nat /\ Cardinality(Upto(i)) <= C
  <2>1. Upto(i) \in SUBSET I OBVIOUS
  <2> HIDE DEF Upto
  <2>2. IsFiniteSet(Upto(i)) /\ Cardinality(Upto(i)) <= C BY <2>1, FS_Subset
  <2> QED BY <2>2, FS_CardinalityType
<1>3. ASSUME NEW i \in I PROVE Rank(I, i) \in 1 .. C
  <2>1. i \in Upto(i) OBVIOUS
  <2>2. Upto(i) # {} BY <2>1
  <2> HIDE DEF Upto
  <2>3. Cardinality(Upto(i)) # 0 BY <1>2, <2>2, FS_EmptySet
  <2>4. Cardinality(Upto(i)) \in 1 .. C BY <1>1, <1>2, <2>3
  <2> QED BY <2>4 DEF Rank, Upto
<1>4. ASSUME NEW i \in I, NEW j \in I, i < j PROVE Rank(I, i) < Rank(I, j)
  <2>1. i \in Nat /\ j \in Nat OBVIOUS
  <2>2. Upto(i) \in SUBSET Upto(j)
    <3> SUFFICES ASSUME NEW k \in I, k <= i PROVE k <= j OBVIOUS
    <3>1. k \in Nat OBVIOUS
    <3> QED BY <1>4, <2>1, <3>1
  <2>3. j \in Upto(j) /\ j \notin Upto(i) BY <1>4, <2>1
  <2>4. Upto(i) # Upto(j) BY <2>3
  <2> HIDE DEF Upto
  <2>5. Cardinality(Upto(i)) <= Cardinality(Upto(j)) /\ Cardinality(Upto(i)) # Cardinality(Upto(j))
    BY <1>2, <2>2, <2>4, FS_Subset
  <2>6. Cardinality(Upto(i)) < Cardinality(Upto(j)) BY <1>2, <2>5
  <2> QED BY <2>6 DEF Rank, Upto
<1>5. rank \in Injection(I, 1 .. C)
  <2>1. rank \in [I -> 1 .. C] BY <1>3
  <2>2. ASSUME NEW i \in I, NEW j \in I, rank[i] = rank[j] PROVE i = j
    <3>1. i \in Nat /\ j \in Nat OBVIOUS
    <3>2. Rank(I, i) = Rank(I, j) BY <2>2
    <3>3. Rank(I, i) \in 1 .. C /\ Rank(I, j) \in 1 .. C BY <1>3
    <3>4. ~(i < j) /\ ~(j < i) BY <1>4, <3>2, <3>3
    <3> QED BY <3>1, <3>4
  <2> HIDE DEF rank
  <2>3. IsInjective(rank) BY <2>1, <2>2 DEF IsInjective
  <2> QED BY <2>1, <2>3 DEF Injection
<1>6. IsFiniteSet(1 .. C) /\ Cardinality(1 .. C) = C
  <2>1. 1 \in Int /\ C \in Int BY <1>1
  <2>2. IsFiniteSet(1 .. C) /\ Cardinality(1 .. C) = IF 1 > C THEN 0 ELSE C - 1 + 1 BY <2>1, FS_Interval
  <2>3. (IF 1 > C THEN 0 ELSE C - 1 + 1) = C BY <1>1
  <2> QED BY <2>2, <2>3
<1>7. rank \in Surjection(I, 1 .. C)
  <2> HIDE DEF rank
  <2> QED BY <1>5, <1>6, FS_Injection
<1>8. \A n \in 1 .. C : \E i \in I : rank[i] = n BY <1>7 DEF Surjection
<1>9. \A n \in 1 .. C : \E i \in I : Rank(I, i) = n BY <1>8
<1> QED BY <1>1, <1>3, <1>4, <1>9

(* The n-th position of I. *)
Position(I, n) == CHOOSE i \in I : Cardinality({j \in I : j <= i}) = n

LEMMA PositionIs ==
    ASSUME NEW I \in SUBSET Nat, IsFiniteSet(I)
    PROVE  /\ \A n \in 1 .. Cardinality(I) : Position(I, n) \in I /\ Rank(I, Position(I, n)) = n
           /\ \A i \in I : Rank(I, i) \in 1 .. Cardinality(I) /\ Position(I, Rank(I, i)) = i
           /\ \A m, n \in 1 .. Cardinality(I) : Position(I, m) = Position(I, n) => m = n
<1>1. ASSUME NEW n \in 1 .. Cardinality(I) PROVE Position(I, n) \in I /\ Rank(I, Position(I, n)) = n
  <2>1. \E i \in I : Rank(I, i) = n BY RankIs
  <2> QED BY <2>1 DEF Position, Rank
<1>2. ASSUME NEW i \in I PROVE Rank(I, i) \in 1 .. Cardinality(I) /\ Position(I, Rank(I, i)) = i
  <2> DEFINE n == Rank(I, i)
             k == Position(I, n)
  <2>1. n \in 1 .. Cardinality(I) BY RankIs
  <2>2. k \in I /\ Rank(I, k) = n BY <1>1, <2>1
  <2>3. Cardinality(I) \in Nat BY RankIs
  <2>4. (i < k => Rank(I, i) < Rank(I, k)) /\ (k < i => Rank(I, k) < Rank(I, i)) BY <2>2, RankIs
  <2>5. Rank(I, i) = n OBVIOUS
  <2>6. i \in Nat /\ k \in Nat BY <2>2
  <2> HIDE DEF k, n
  <2>7. n \in Nat BY <2>1, <2>3
  <2>8. i = k BY <2>2, <2>4, <2>5, <2>6, <2>7
  <2> QED BY <2>1, <2>8 DEF k, n
<1>3. ASSUME NEW m \in 1 .. Cardinality(I), NEW n \in 1 .. Cardinality(I), Position(I, m) = Position(I, n) PROVE m = n
  BY <1>1, <1>3
<1> QED BY <1>1, <1>2, <1>3

(* The elements at some positions of a list, in order. *)
LEMMA AtIs ==
    ASSUME NEW A, NEW list \in Seq(A), NEW I \in SUBSET (DOMAIN list)
    PROVE  LET at == At(list, I)
               C  == Cardinality(I)
           IN  /\ IsFiniteSet(I) /\ C \in Nat
               /\ at \in Seq(A) /\ Len(at) = C /\ DOMAIN at = 1 .. C
               /\ \A n \in 1 .. C : Position(I, n) \in I /\ at[n] = list[Position(I, n)]
               /\ \A m, n \in 1 .. C : Position(I, m) = Position(I, n) => m = n
               /\ ToSet(at) = {list[i] : i \in I}
               /\ (\A i, j \in I : list[i] = list[j] => i = j) => IsInjective(at)
               /\ 1 \in I => C >= 1 /\ at[1] = list[1]
               /\ I # {} => C >= 1
<1> DEFINE at == At(list, I)
           C == Cardinality(I)
           Pos(n) == Position(I, n)
<1>1. DOMAIN list = 1 .. Len(list) /\ Len(list) \in Nat BY LenProperties
<1>2. IsFiniteSet(I) /\ I \in SUBSET Nat
  <2>1. 1 \in Int /\ Len(list) \in Int BY <1>1
  <2>2. IsFiniteSet(1 .. Len(list)) BY <2>1, FS_Interval
  <2>3. I \in SUBSET (1 .. Len(list)) BY <1>1
  <2>4. IsFiniteSet(I) BY <2>2, <2>3, FS_Subset
  <2> QED BY <1>1, <2>3, <2>4
<1>3. C \in Nat BY <1>2, FS_CardinalityType
<1>4. \A n \in 1 .. C : Pos(n) \in I /\ Rank(I, Pos(n)) = n BY <1>2, PositionIs
<1>5. \A i \in I : Rank(I, i) \in 1 .. C /\ Pos(Rank(I, i)) = i BY <1>2, PositionIs
<1>6. \A m, n \in 1 .. C : Pos(m) = Pos(n) => m = n BY <1>2, PositionIs
<1>7. at = [n \in 1 .. C |-> list[Pos(n)]] BY DEF At, Position
<1> HIDE DEF at, Pos
<1>8. \A i \in I : list[i] \in A BY <1>1, ElementOfSeq
<1>9. at \in Seq(A) /\ Len(at) = C /\ DOMAIN at = 1 .. C
  <2>1. \A n \in 1 .. C : list[Pos(n)] \in A BY <1>4, <1>8
  <2>2. at \in [1 .. C -> A] BY <1>7, <2>1
  <2> HIDE DEF C
  <2> QED BY <1>3, <2>2
<1>10. \A n \in 1 .. C : at[n] = list[Pos(n)] BY <1>7
<1>11. ToSet(at) = {list[i] : i \in I}
  <2>1. ASSUME NEW i \in I PROVE \E n \in 1 .. C : at[n] = list[i] BY <1>5, <1>10
  <2>2. ASSUME NEW n \in 1 .. C PROVE \E i \in I : at[n] = list[i] BY <1>4, <1>10
  <2>3. ToSet(at) = {at[n] : n \in 1 .. C} BY <1>9 DEF ToSet
  <2> QED BY <2>1, <2>2, <2>3
<1>12. ASSUME \A i, j \in I : list[i] = list[j] => i = j PROVE IsInjective(at)
  <2> SUFFICES ASSUME NEW m \in 1 .. C, NEW n \in 1 .. C, at[m] = at[n] PROVE m = n
    BY <1>9 DEF IsInjective
  <2>1. Pos(m) \in I /\ Pos(n) \in I /\ list[Pos(m)] = list[Pos(n)] BY <1>4, <1>10
  <2>2. Pos(m) = Pos(n) BY <1>12, <2>1
  <2> QED BY <1>6, <2>2
<1>13. ASSUME I # {} PROVE C >= 1
  <2>1. C # 0 BY <1>2, <1>13, FS_EmptySet
  <2> QED BY <1>3, <2>1
<1>14. ASSUME 1 \in I PROVE C >= 1 /\ at[1] = list[1]
  <2>1. C >= 1 BY <1>13, <1>14
  <2>2. 1 \in 1 .. C BY <1>3, <2>1
  <2>3. {j \in I : j <= 1} = {1}
    <3>1. \A j \in I : j \in Nat /\ j # 0 BY <1>1
    <3> QED BY <1>14, <3>1
  <2>4. Rank(I, 1) = 1 BY <2>3, FS_Singleton DEF Rank
  <2>5. Pos(1) = 1 BY <1>5, <1>14, <2>4
  <2> QED BY <1>10, <2>1, <2>2, <2>5
<1> QED BY <1>2, <1>3, <1>4, <1>6, <1>9, <1>10, <1>11, <1>12, <1>13, <1>14 DEF at, Pos

(* No more than L positions, when fewer than L come before each. *)
LEMMA CountBound ==
    ASSUME NEW I \in SUBSET Nat, IsFiniteSet(I), NEW L \in Nat,
           \A i \in I : Cardinality({j \in I : j < i}) < L
    PROVE  Cardinality(I) <= L
<1> DEFINE C == Cardinality(I)
<1>1. C \in Nat BY FS_CardinalityType
<1>2. CASE C = 0 BY <1>2
<1>3. CASE C # 0
  <2>1. C \in 1 .. C BY <1>1, <1>3
  <2>2. PICK i \in I : Rank(I, i) = C BY <2>1, RankIs
  <2> DEFINE U == {j \in I : j <= i}
             B == {j \in I : j < i}
  <2>3. U \in SUBSET I /\ Cardinality(U) = C BY <2>2 DEF Rank
  <2>4. U = I
    <3> HIDE DEF U
    <3> QED BY <2>3, FS_Subset
  <2>5. B = I \ {i}
    <3>1. ASSUME NEW j \in I PROVE j < i <=> j # i
      <4>1. j \in U BY <2>4
      <4>2. j <= i BY <4>1
      <4>3. i \in Nat /\ j \in Nat OBVIOUS
      <4> QED BY <4>2, <4>3
    <3> QED BY <3>1
  <2>6. Cardinality(B) < L OBVIOUS
  <2>7. Cardinality(I \ {i}) = C - 1 BY FS_RemoveElement
  <2> HIDE DEF B, C
  <2>8. C - 1 < L BY <2>5, <2>6, <2>7
  <2> QED BY <1>1, <2>8 DEF C
<1> QED BY <1>2, <1>3

(* How many elements of a list are of a kind carries over to a part of it. *)
LEMMA KindsKept ==
    ASSUME NEW A, NEW list \in Seq(A), NEW I \in SUBSET (DOMAIN list), NEW P, NEW L \in Nat,
           Cardinality({i \in I : list[i] \in P}) <= L
    PROVE  LET at == At(list, I)
           IN  Cardinality({n \in DOMAIN at : at[n] \in P}) <= L
<1> DEFINE at == At(list, I)
           C == Cardinality(I)
           N == {n \in DOMAIN at : at[n] \in P}
           J == {i \in I : list[i] \in P}
           f == [n \in N |-> Position(I, n)]
<1>1. IsFiniteSet(I) /\ DOMAIN at = 1 .. C BY AtIs
<1>2. \A n \in 1 .. C : Position(I, n) \in I /\ at[n] = list[Position(I, n)] BY AtIs
<1>3. \A m, n \in 1 .. C : Position(I, m) = Position(I, n) => m = n BY AtIs
<1> HIDE DEF at
<1>4. f \in [N -> J] BY <1>1, <1>2
<1>5. \A m, n \in N : f[m] = f[n] => m = n BY <1>1, <1>3
<1>6. J \in SUBSET I OBVIOUS
<1>7. Cardinality(J) <= L OBVIOUS
<1> HIDE DEF f, N, J
<1>8. f \in Injection(N, J) BY <1>4, <1>5 DEF Injection, IsInjective
<1>9. IsFiniteSet(J) /\ Cardinality(J) \in Nat BY <1>1, <1>6, FS_Subset, FS_CardinalityType
<1>10. IsFiniteSet(N) /\ Cardinality(N) <= Cardinality(J) BY <1>8, <1>9, FS_Injection
<1>11. Cardinality(N) \in Nat BY <1>10, FS_CardinalityType
<1>12. Cardinality(N) <= L BY <1>7, <1>9, <1>10, <1>11
<1> QED BY <1>12 DEF N, at

(* The first occurrences. *)
LEMMA MergeIs ==
    ASSUME NEW list \in Seq(Alias), list # <<>>
    PROVE  /\ Merge(list) \in Seq(Alias) /\ Merge(list) # <<>> /\ Merge(list)[1] = list[1]
           /\ IsInjective(Merge(list)) /\ ToSet(Merge(list)) \subseteq ToSet(list)
<1> DEFINE I == {i \in DOMAIN list : \A j \in 1 .. i - 1 : list[j] # list[i]}
           at == At(list, I)
<1>1. DOMAIN list = 1 .. Len(list) /\ Len(list) \in Nat /\ Len(list) # 0 BY LenProperties, EmptySeq
<1>2. I \in SUBSET (DOMAIN list) OBVIOUS
<1>3. 1 \in I
  <2>1. 1 \in DOMAIN list BY <1>1
  <2>2. 1 .. (1 - 1) = {} OBVIOUS
  <2> QED BY <2>1, <2>2
<1>4. ASSUME NEW i \in I, NEW j \in I, list[i] = list[j] PROVE i = j
  <2>1. i \in Nat /\ j \in Nat /\ i >= 1 /\ j >= 1 BY <1>1
  <2>2. ~(i < j)
    <3> SUFFICES ASSUME i < j PROVE FALSE OBVIOUS
    <3>1. i \in 1 .. j - 1 BY <2>1
    <3> QED BY <1>4, <3>1
  <2>3. ~(j < i)
    <3> SUFFICES ASSUME j < i PROVE FALSE OBVIOUS
    <3>1. j \in 1 .. i - 1 BY <2>1
    <3> QED BY <1>4, <3>1
  <2> QED BY <2>1, <2>2, <2>3
<1>5. Merge(list) = at BY DEF Merge
<1>6. {list[i] : i \in I} \subseteq ToSet(list) BY DEF ToSet
<1> HIDE DEF I
<1>7. at \in Seq(Alias) /\ Len(at) = Cardinality(I) /\ Cardinality(I) >= 1 /\ at[1] = list[1] BY <1>2, <1>3, AtIs
<1>8. IsInjective(at) /\ ToSet(at) = {list[i] : i \in I} BY <1>2, <1>4, AtIs
<1>9. at # <<>>
  <2> HIDE DEF at
  <2>1. SUFFICES ASSUME at = <<>> PROVE FALSE OBVIOUS
  <2>2. Len(at) = 0 BY <2>1
  <2> QED BY <1>7, <2>2
<1> HIDE DEF at
<1> QED BY <1>5, <1>6, <1>7, <1>8, <1>9

(* At most one prompt cache alias and MaxStable others, the first ones. *)
LEMMA CompactIs ==
    ASSUME NEW list \in Seq(Alias), list # <<>>, IsInjective(list)
    PROVE  /\ Compact(list) \in AliasSeq /\ Compact(list)[1] = list[1]
           /\ ToSet(Compact(list)) \subseteq ToSet(list)
<1> DEFINE Before(i) == {j \in 1 .. i - 1 : (list[j] \in Prompt) <=> (list[i] \in Prompt)}
           I == {i \in DOMAIN list : Cardinality(Before(i)) < IF list[i] \in Prompt THEN 1 ELSE MaxStable}
           at == At(list, I)
           Stable == Alias \ Prompt
<1>1. DOMAIN list = 1 .. Len(list) /\ Len(list) \in Nat /\ Len(list) # 0 BY LenProperties, EmptySeq
<1>2. I \in SUBSET (DOMAIN list) OBVIOUS
<1>3. MaxStable \in Nat /\ MaxStable # 0 BY CacheAssumption
<1>4. \A i \in DOMAIN list : list[i] \in Alias BY <1>1, ElementOfSeq
<1>5. 1 \in I
  <2>1. 1 \in DOMAIN list BY <1>1
  <2>2. 1 .. (1 - 1) = {} OBVIOUS
  <2>3. Before(1) = {} BY <2>2
  <2>4. Cardinality(Before(1)) = 0 BY <2>3, FS_EmptySet
  <2> QED BY <1>3, <2>1, <2>4
<1>6. \A i, j \in I : list[i] = list[j] => i = j BY DEF IsInjective
<1>7. Compact(list) = at BY DEF Compact
<1>8. {list[i] : i \in I} \subseteq ToSet(list) BY DEF ToSet
<1>9. ASSUME NEW K, K = Prompt \/ K = Stable,
             NEW L \in Nat, \A i \in I : list[i] \in K => Cardinality(Before(i)) < L
      PROVE  Cardinality({i \in I : list[i] \in K}) <= L
  <2> DEFINE J == {i \in I : list[i] \in K}
  <2>1. J \in SUBSET I OBVIOUS
  <2>2. J \in SUBSET Nat BY <1>1
  <2>3. IsFiniteSet(J) /\ IsFiniteSet(I)
    <3> HIDE DEF J, I
    <3> QED BY <1>2, <2>1, AtIs, FS_Subset
  <2>4. ASSUME NEW i \in J PROVE Cardinality({j \in J : j < i}) < L
    <3> DEFINE B == {j \in J : j < i}
    <3>1. Cardinality(Before(i)) < L BY <1>9
    <3>2. B \in SUBSET Before(i)
      <4> SUFFICES ASSUME NEW j \in J, j < i PROVE j \in Before(i) OBVIOUS
      <4>1. i \in Nat /\ j \in Nat /\ j >= 1 BY <1>1
      <4>2. j \in 1 .. i - 1 BY <4>1
      <4>3. list[i] \in K /\ list[j] \in K OBVIOUS
      <4>4. (list[j] \in Prompt) <=> (list[i] \in Prompt) BY <1>9, <4>3
      <4> QED BY <4>2, <4>4
    <3>3. IsFiniteSet(Before(i))
      <4>1. Before(i) \in SUBSET (1 .. i - 1) OBVIOUS
      <4>2. 1 \in Int /\ i - 1 \in Int BY <2>2
      <4> HIDE DEF Before
      <4> QED BY <4>1, <4>2, FS_Interval, FS_Subset
    <3> HIDE DEF B, Before
    <3>4. IsFiniteSet(B) /\ Cardinality(B) <= Cardinality(Before(i)) BY <3>2, <3>3, FS_Subset
    <3>5. Cardinality(B) \in Nat /\ Cardinality(Before(i)) \in Nat BY <3>3, <3>4, FS_CardinalityType
    <3>6. Cardinality(B) < L BY <3>1, <3>4, <3>5
    <3> QED BY <3>6 DEF B
  <2> HIDE DEF J
  <2>5. Cardinality(J) <= L BY <2>2, <2>3, <2>4, CountBound
  <2> QED BY <2>5 DEF J
<1>10. Cardinality({i \in I : list[i] \in Prompt}) <= 1
  <2>1. \A i \in I : list[i] \in Prompt => Cardinality(Before(i)) < 1 OBVIOUS
  <2> HIDE DEF I, Before
  <2> QED BY <1>9, <2>1
<1>11. Cardinality({i \in I : list[i] \in Stable}) <= MaxStable
  <2>1. \A i \in I : list[i] \in Stable => Cardinality(Before(i)) < MaxStable OBVIOUS
  <2> HIDE DEF I, Before, Stable
  <2> QED BY <1>3, <1>9, <2>1
<1> HIDE DEF I
<1>12. at \in Seq(Alias) /\ Len(at) = Cardinality(I) /\ Cardinality(I) >= 1 /\ at[1] = list[1] BY <1>2, <1>5, AtIs
<1>13. IsInjective(at) /\ ToSet(at) = {list[i] : i \in I} BY <1>2, <1>6, AtIs
<1>14. Cardinality({n \in DOMAIN at : at[n] \in Prompt}) <= 1 BY <1>2, <1>10, KindsKept
<1>15. Cardinality({n \in DOMAIN at : at[n] \in Stable}) <= MaxStable
  <2> HIDE DEF Stable
  <2>1. Cardinality({n \in DOMAIN At(list, I) : At(list, I)[n] \in Stable}) <= MaxStable
    BY <1>2, <1>3, <1>11, KindsKept
  <2> QED BY <2>1
<1> HIDE DEF at
<1>16. at # <<>>
  <2>1. SUFFICES ASSUME at = <<>> PROVE FALSE OBVIOUS
  <2>2. Len(at) = 0 BY <2>1
  <2> QED BY <1>12, <2>2
<1>17. {n \in DOMAIN at : at[n] \in Stable} = {n \in DOMAIN at : at[n] \notin Prompt}
  <2>1. \A n \in DOMAIN at : at[n] \in Alias BY <1>12, LenProperties, ElementOfSeq
  <2> QED BY <2>1
<1>18. at \in AliasSeq BY <1>12, <1>13, <1>14, <1>15, <1>16, <1>17 DEF AliasSeq
<1> QED BY <1>7, <1>8, <1>12, <1>13, <1>18

(* What a call makes of the aliases it names and those it finds. *)
LEMMA CombinedIs ==
    ASSUME NEW list \in Seq(Alias), list # <<>>
    PROVE  /\ Compact(Merge(list)) \in AliasSeq /\ Compact(Merge(list))[1] = list[1]
           /\ ToSet(Compact(Merge(list))) \subseteq ToSet(list)
<1> DEFINE m == Merge(list)
<1>1. m \in Seq(Alias) /\ m # <<>> /\ m[1] = list[1] /\ IsInjective(m) /\ ToSet(m) \subseteq ToSet(list) BY MergeIs
<1> HIDE DEF m
<1>2. Compact(m) \in AliasSeq /\ Compact(m)[1] = m[1] /\ ToSet(Compact(m)) \subseteq ToSet(m) BY <1>1, CompactIs
<1> QED BY <1>1, <1>2 DEF m

LEMMA JoinIs ==
    ASSUME NEW s \in Seq(Alias), NEW t \in Seq(Alias)
    PROVE  /\ s \o t \in Seq(Alias) /\ ToSet(s \o t) \subseteq ToSet(s) \cup ToSet(t)
           /\ s # <<>> => s \o t # <<>> /\ (s \o t)[1] = s[1]
<1> DEFINE u == s \o t
<1>1. u \in Seq(Alias) /\ Len(u) = Len(s) + Len(t) OBVIOUS
<1>2. \A i \in 1 .. Len(u) : u[i] = IF i <= Len(s) THEN s[i] ELSE t[i - Len(s)] OBVIOUS
<1>3. Len(s) \in Nat /\ Len(t) \in Nat /\ DOMAIN s = 1 .. Len(s) /\ DOMAIN t = 1 .. Len(t) /\ DOMAIN u = 1 .. Len(u)
  BY <1>1, LenProperties
<1> HIDE DEF u
<1>4. ASSUME NEW i \in 1 .. Len(u) PROVE u[i] \in ToSet(s) \cup ToSet(t)
  <2>1. CASE i <= Len(s)
    <3>1. i \in DOMAIN s /\ u[i] = s[i] BY <1>2, <1>3, <2>1
    <3> QED BY <3>1 DEF ToSet
  <2>2. CASE ~(i <= Len(s))
    <3>1. i - Len(s) \in DOMAIN t BY <1>1, <1>3, <2>2
    <3>2. u[i] = t[i - Len(s)] BY <1>2, <2>2
    <3> QED BY <3>1, <3>2 DEF ToSet
  <2> QED BY <2>1, <2>2
<1>5. ToSet(u) \subseteq ToSet(s) \cup ToSet(t)
  <2>1. ToSet(u) = {u[i] : i \in 1 .. Len(u)} BY <1>3 DEF ToSet
  <2> QED BY <1>4, <2>1
<1>6. ASSUME s # <<>> PROVE u # <<>> /\ u[1] = s[1]
  <2>1. Len(s) # 0 BY <1>6, EmptySeq
  <2>2. 1 \in 1 .. Len(u) /\ 1 <= Len(s) BY <1>1, <1>3, <2>1
  <2>3. u[1] = s[1] BY <1>2, <2>2
  <2>4. u # <<>>
    <3> SUFFICES ASSUME u = <<>> PROVE FALSE OBVIOUS
    <3>1. Len(u) = 0 OBVIOUS
    <3> QED BY <2>2, <3>1
  <2> QED BY <2>3, <2>4
<1> QED BY <1>1, <1>5, <1>6 DEF u

(* A list of aliases is a group's, or what is left of one. *)
LEMMA AliasSeqIs ==
    ASSUME NEW s \in AliasSeq
    PROVE  /\ s \in Seq(Alias) /\ s # <<>> /\ IsInjective(s) /\ s[1] \in ToSet(s) /\ ToSet(s) \subseteq Alias
           /\ IsFiniteSet(ToSet(s)) /\ Cardinality(ToSet(s)) <= MaxEntries
<1> DEFINE P == {i \in DOMAIN s : s[i] \in Prompt}
           Q == {i \in DOMAIN s : s[i] \notin Prompt}
           n == Len(s)
<1>1. s \in Seq(Alias) /\ s # <<>> /\ IsInjective(s) /\ Cardinality(P) <= 1 /\ Cardinality(Q) <= MaxStable
  BY DEF AliasSeq
<1>2. DOMAIN s = 1 .. n /\ n \in Nat /\ n # 0 BY <1>1, LenProperties, EmptySeq
<1>3. 1 \in DOMAIN s BY <1>2
<1>4. s[1] \in ToSet(s) /\ ToSet(s) \subseteq Alias BY <1>1, <1>2, <1>3, ElementOfSeq DEF ToSet
<1>5. IsFiniteSet(DOMAIN s)
  <2>1. 1 \in Int /\ n \in Int BY <1>2
  <2> QED BY <1>2, <2>1, FS_Interval
<1>6. P \in SUBSET (DOMAIN s) /\ Q \in SUBSET (DOMAIN s) /\ P \cup Q = DOMAIN s /\ P \cap Q = {} OBVIOUS
<1> HIDE DEF P, Q, n
<1>7. IsFiniteSet(P) /\ IsFiniteSet(Q) BY <1>5, <1>6, FS_Subset
<1>8. Cardinality(P) \in Nat /\ Cardinality(Q) \in Nat BY <1>7, FS_CardinalityType
<1>9. Cardinality(DOMAIN s) = Cardinality(P) + Cardinality(Q) - Cardinality({}) BY <1>6, <1>7, FS_Union
<1>10. Cardinality(DOMAIN s) <= MaxEntries
  <2>1. Cardinality({}) = 0 BY FS_EmptySet
  <2>2. MaxStable \in Nat /\ MaxEntries \in Nat /\ MaxEntries > MaxStable BY CacheAssumption
  <2> QED BY <1>1, <1>8, <1>9, <2>1, <2>2
<1>11. s \in Surjection(DOMAIN s, ToSet(s))
  <2>1. s \in [DOMAIN s -> ToSet(s)]
    <3>1. s = [i \in DOMAIN s |-> s[i]] BY <1>1
    <3>2. \A i \in DOMAIN s : s[i] \in ToSet(s) BY DEF ToSet
    <3> QED BY <3>1, <3>2
  <2>2. \A x \in ToSet(s) : \E i \in DOMAIN s : s[i] = x BY DEF ToSet
  <2> QED BY <2>1, <2>2 DEF Surjection
<1>12. IsFiniteSet(ToSet(s)) /\ Cardinality(ToSet(s)) <= Cardinality(DOMAIN s) BY <1>5, <1>11, FS_Surjection
<1>13. Cardinality(ToSet(s)) \in Nat /\ Cardinality(DOMAIN s) \in Nat BY <1>5, <1>12, FS_CardinalityType
<1>14. Cardinality(ToSet(s)) <= MaxEntries
  <2>1. MaxEntries \in Nat BY CacheAssumption
  <2> QED BY <1>10, <1>12, <1>13, <2>1
<1> QED BY <1>1, <1>4, <1>12, <1>14

LEMMA LeftIs ==
    ASSUME NEW s \in AliasSeq, NEW x
    PROVE  LET left == At(s, {i \in DOMAIN s : s[i] # x})
           IN  /\ ToSet(left) = ToSet(s) \ {x}
               /\ left = <<>> <=> ToSet(s) \subseteq {x}
               /\ left # <<>> => left \in AliasSeq
<1> DEFINE I == {i \in DOMAIN s : s[i] # x}
           left == At(s, I)
           Stable == Alias \ Prompt
<1>1. /\ s \in Seq(Alias) /\ IsInjective(s)
      /\ Cardinality({i \in DOMAIN s : s[i] \in Prompt}) <= 1
      /\ Cardinality({i \in DOMAIN s : s[i] \notin Prompt}) <= MaxStable
  BY DEF AliasSeq
<1>2. I \in SUBSET (DOMAIN s) OBVIOUS
<1>3. {s[i] : i \in I} = ToSet(s) \ {x} BY DEF ToSet
<1>4. \A i, j \in I : s[i] = s[j] => i = j BY <1>1 DEF IsInjective
<1>5. MaxStable \in Nat BY CacheAssumption
<1>6. \A i \in DOMAIN s : s[i] \in Alias BY <1>1, LenProperties, ElementOfSeq
<1>7. ASSUME NEW K, NEW L \in Nat, Cardinality({i \in DOMAIN s : s[i] \in K}) <= L
      PROVE  Cardinality({i \in I : s[i] \in K}) <= L
  <2> DEFINE D == {i \in DOMAIN s : s[i] \in K}
             J == {i \in I : s[i] \in K}
  <2>1. J \in SUBSET D /\ D \in SUBSET (DOMAIN s) OBVIOUS
  <2>2. Cardinality(D) <= L BY <1>7
  <2> HIDE DEF D, J, I
  <2>3. IsFiniteSet(D) BY <1>1, <2>1, AtIs
  <2>4. IsFiniteSet(J) /\ Cardinality(J) <= Cardinality(D) BY <2>1, <2>3, FS_Subset
  <2>5. Cardinality(D) \in Nat /\ Cardinality(J) \in Nat BY <2>3, <2>4, FS_CardinalityType
  <2>6. Cardinality(J) <= L BY <2>2, <2>4, <2>5
  <2> QED BY <2>6 DEF J
<1>8. Cardinality({i \in I : s[i] \in Prompt}) <= 1
  <2> HIDE DEF I
  <2> QED BY <1>1, <1>7
<1>9. Cardinality({i \in I : s[i] \in Stable}) <= MaxStable
  <2>1. {i \in DOMAIN s : s[i] \in Stable} = {i \in DOMAIN s : s[i] \notin Prompt} BY <1>6
  <2> HIDE DEF I, Stable
  <2> QED BY <1>1, <1>5, <1>7, <2>1
<1> HIDE DEF I
<1>10. left \in Seq(Alias) /\ Len(left) = Cardinality(I) /\ IsInjective(left) /\ ToSet(left) = {s[i] : i \in I}
  BY <1>1, <1>2, <1>4, AtIs
<1>11. Cardinality({n \in DOMAIN left : left[n] \in Prompt}) <= 1 BY <1>1, <1>2, <1>8, KindsKept
<1>12. Cardinality({n \in DOMAIN left : left[n] \in Stable}) <= MaxStable
  <2> HIDE DEF Stable
  <2>1. Cardinality({n \in DOMAIN At(s, I) : At(s, I)[n] \in Stable}) <= MaxStable
    BY <1>1, <1>2, <1>5, <1>9, KindsKept
  <2> QED BY <2>1
<1> HIDE DEF left
<1>13. {n \in DOMAIN left : left[n] \in Stable} = {n \in DOMAIN left : left[n] \notin Prompt}
  <2>1. \A n \in DOMAIN left : left[n] \in Alias BY <1>10, LenProperties, ElementOfSeq
  <2> QED BY <2>1
<1>14. ASSUME left # <<>> PROVE left \in AliasSeq
  BY <1>10, <1>11, <1>12, <1>13, <1>14 DEF AliasSeq
<1>15. left = <<>> <=> ToSet(s) \subseteq {x}
  <2>1. ASSUME left = <<>> PROVE ToSet(left) = {} BY <2>1 DEF ToSet
  <2>2. ASSUME left # <<>> PROVE ToSet(left) # {} BY <1>14, <2>2, AliasSeqIs
  <2> QED BY <1>3, <1>10, <2>1, <2>2
<1> QED BY <1>3, <1>10, <1>14, <1>15 DEF left, I

(* One or two lists, one after the other. *)
LEMMA FlattenIs ==
    ASSUME NEW ss, NEW n \in 0 .. 2, ss \in [1 .. n -> Seq(Alias)]
    PROVE  /\ FlattenSeq(ss) \in Seq(Alias)
           /\ \A x \in ToSet(FlattenSeq(ss)) : \E i \in 1 .. n : x \in ToSet(ss[i])
<1> DEFINE F == CHOOSE f : f = [i \in 1 .. Len(ss) |-> IF i = 1 THEN ss[i] ELSE f[i - 1] \o ss[i]]
<1>1. ss \in Seq(Seq(Alias)) /\ Len(ss) = n BY IsASeq
<1>2. FlattenSeq(ss) = IF Len(ss) = 0 THEN ss ELSE F[Len(ss)] BY DEF FlattenSeq
<1>3. CASE n = 0
  <2>1. ss = <<>> BY <1>1, <1>3, EmptySeq
  <2>2. FlattenSeq(ss) = <<>> BY <1>1, <1>2, <1>3, <2>1
  <2> QED BY <2>2 DEF ToSet
<1>4. CASE n = 1
  <2> DEFINE g == [i \in 1 .. 1 |-> ss[1]]
  <2>1. g = [i \in 1 .. 1 |-> IF i = 1 THEN ss[i] ELSE g[i - 1] \o ss[i]]
    <3>1. \A i \in 1 .. 1 : i = 1 OBVIOUS
    <3> QED BY <3>1
  <2>2. F = [i \in 1 .. 1 |-> IF i = 1 THEN ss[i] ELSE F[i - 1] \o ss[i]] BY <1>1, <1>4, <2>1
  <2> HIDE DEF F
  <2>3. F[1] = ss[1] BY <2>2
  <2>4. FlattenSeq(ss) = ss[1] BY <1>1, <1>2, <1>4, <2>3
  <2>5. 1 \in 1 .. n /\ ss[1] \in Seq(Alias) BY <1>4
  <2> QED BY <2>4, <2>5
<1>5. CASE n = 2
  <2> DEFINE j == ss[1] \o ss[2]
             g == [i \in 1 .. 2 |-> IF i = 1 THEN ss[1] ELSE j]
             Step(f, i) == IF i = 1 THEN ss[i] ELSE f[i - 1] \o ss[i]
  <2>1. \A i \in 1 .. 2 : i = 1 \/ i = 2 OBVIOUS
  <2>2. g = [i \in 1 .. 2 |-> Step(g, i)]
    <3> HIDE DEF j
    <3>1. g[1] = ss[1] /\ g[2] = j /\ 2 - 1 = 1 OBVIOUS
    <3> HIDE DEF g
    <3>2. Step(g, 1) = ss[1] OBVIOUS
    <3>3. Step(g, 2) = j BY <3>1 DEF j
    <3> HIDE DEF Step
    <3>4. \A i \in 1 .. 2 : Step(g, i) = g[i] BY <2>1, <3>1, <3>2, <3>3
    <3> QED BY <3>4 DEF g
  <2>3. F = [i \in 1 .. 2 |-> Step(F, i)]
    <3> HIDE DEF g
    <3>1. F = CHOOSE f : f = [i \in 1 .. 2 |-> Step(f, i)] BY <1>1, <1>5
    <3> HIDE DEF F, Step
    <3> QED BY <2>2, <3>1
  <2>4. F[2] = j
    <3> HIDE DEF F, Step
    <3>1. F[1] = Step(F, 1) /\ F[2] = Step(F, 2) BY <2>3
    <3>2. Step(F, 1) = ss[1] BY DEF Step
    <3>3. Step(F, 2) = F[1] \o ss[2]
      <4>1. 2 # 1 /\ 2 - 1 = 1 OBVIOUS
      <4> QED BY <4>1, Zenon DEF Step
    <3> QED BY <3>1, <3>2, <3>3
  <2> HIDE DEF F
  <2>5. FlattenSeq(ss) = ss[1] \o ss[2] BY <1>1, <1>2, <1>5, <2>4
  <2>6. 1 \in 1 .. n /\ 2 \in 1 .. n /\ ss[1] \in Seq(Alias) /\ ss[2] \in Seq(Alias) BY <1>5
  <2>7. ss[1] \o ss[2] \in Seq(Alias) BY <2>6
  <2>8. \A x \in ToSet(ss[1] \o ss[2]) : x \in ToSet(ss[1]) \/ x \in ToSet(ss[2]) BY <2>6, JoinIs
  <2> QED BY <2>5, <2>6, <2>7, <2>8
<1> QED BY <1>3, <1>4, <1>5

-----------------------------------------------------------------------------
(* The structures of the cache. *)

Al(e) == ToSet(e.aliases)

(* A binding that dates from none or from one of the first n selections. *)
Dated(b, n) ==
    b = NoBinding \/ (b \in Binding /\ b.session \in Session /\ b.provider \in Provider /\ b.sequence \in 1 .. n)

(* The groups of c with the keys in K. *)
GroupsAt(c, K) == {c.groups[k] : k \in K}

(* The groups: each under its first alias, no alias in two, no selection in two. *)
GroupsOK(c, n) ==
    /\ DOMAIN c.groups \subseteq Alias
    /\ \A k \in DOMAIN c.groups :
           c.groups[k] \in Entry /\ c.groups[k].aliases[1] = k /\ Dated(c.groups[k].binding, n)
    /\ \A k, l \in DOMAIN c.groups : k # l =>
           /\ Al(c.groups[k]) \cap Al(c.groups[l]) = {}
           /\ c.groups[k].binding.sequence # 0 => c.groups[k].binding.sequence # c.groups[l].binding.sequence

(* The copies: those of the groups. *)
EntriesOK(c) ==
    /\ IsFiniteSet(DOMAIN c.entries)
    /\ DOMAIN c.entries = UNION {Al(c.groups[k]) : k \in DOMAIN c.groups}
    /\ \A k \in DOMAIN c.groups : \A x \in Al(c.groups[k]) : c.entries[x] = c.groups[k]

OrderOK(c) == c.order \in Seq(Alias) /\ IsInjective(c.order) /\ ToSet(c.order) = DOMAIN c.groups

Indexed(c, s) == {k \in DOMAIN c.groups : c.groups[k].binding.sequence # 0 /\ c.groups[k].binding.session = s}

IndexOK(c) ==
    /\ c.index \in [Session \cup {None} -> SUBSET Alias]
    /\ \A s \in Session \cup {None} : c.index[s] = Indexed(c, s)

CacheOK(c, n) == GroupsOK(c, n) /\ EntriesOK(c) /\ OrderOK(c) /\ IndexOK(c)

(* An entry and its parts. *)
LEMMA EntryIs ==
    ASSUME NEW e \in Entry
    PROVE  /\ e.auth \in Auth /\ e.expires \in 0 .. MaxTime + TTL /\ e.aliases \in AliasSeq /\ e.binding \in Binding
           /\ e.aliases[1] \in Al(e) /\ Al(e) \subseteq Alias
           /\ IsFiniteSet(Al(e)) /\ Cardinality(Al(e)) <= MaxEntries
<1>1. e.auth \in Auth /\ e.expires \in 0 .. MaxTime + TTL /\ e.aliases \in AliasSeq /\ e.binding \in Binding BY DEF Entry
<1> QED BY <1>1, AliasSeqIs DEF Al

LEMMA DatedIs ==
    ASSUME NEW n \in Nat, NEW b, Dated(b, n)
    PROVE  /\ b.sequence \in 0 .. n /\ b.session \in Session \cup {None}
           /\ b.sequence = 0 <=> b = NoBinding
           /\ b.sequence # 0 => b.session \in Session
           /\ \A m \in Nat : m >= n => Dated(b, m)
<1>1. CASE b = NoBinding BY <1>1 DEF NoBinding, Dated
<1>2. CASE b \in Binding /\ b.session \in Session /\ b.provider \in Provider /\ b.sequence \in 1 .. n
  <2>1. b.sequence # 0 /\ b # NoBinding /\ b.sequence \in 0 .. n
    <3>1. NoBinding.sequence = 0 BY DEF NoBinding
    <3> QED BY <1>2, <3>1
  <2>2. \A m \in Nat : m >= n => Dated(b, m) BY <1>2 DEF Dated
  <2> QED BY <1>2, <2>1, <2>2
<1> QED BY <1>1, <1>2 DEF Dated

(* Every copy belongs to one group, which it names by its first alias. *)
LEMMA OwnerIs ==
    ASSUME NEW c, NEW n, CacheOK(c, n), NEW x \in DOMAIN c.entries
    PROVE  \E k \in DOMAIN c.groups : /\ x \in Al(c.groups[k]) /\ c.entries[x] = c.groups[k]
                                      /\ c.entries[x].aliases[1] = k /\ c.entries[x] \in Entry
<1>1. PICK k \in DOMAIN c.groups : x \in Al(c.groups[k]) BY DEF CacheOK, EntriesOK
<1> QED BY <1>1 DEF CacheOK, EntriesOK, GroupsOK

LEMMA RemoveIs ==
    ASSUME NEW c, NEW n \in Nat, CacheOK(c, n), NEW K \in SUBSET (DOMAIN c.groups)
    PROVE  LET r == RemoveGroups(c, GroupsAt(c, K))
           IN  /\ CacheOK(r, n)
               /\ DOMAIN r.groups = DOMAIN c.groups \ K
               /\ \A k \in DOMAIN c.groups \ K : r.groups[k] = c.groups[k]
               /\ DOMAIN r.entries = DOMAIN c.entries \ UNION {Al(c.groups[k]) : k \in K}
               /\ \A x \in DOMAIN r.entries : r.entries[x] = c.entries[x]
<1> DEFINE E == GroupsAt(c, K)
           r == RemoveGroups(c, E)
           gone == {e \in E : e.aliases[1] \in DOMAIN c.groups /\ SameGroup(c.groups[e.aliases[1]], e)}
           keys == {e.aliases[1] : e \in gone}
           stale == {x \in DOMAIN c.entries : \E e \in E : Contains(e.aliases, x) /\ SameGroup(c.entries[x], e)}
           D == DOMAIN c.groups
           kept == {i \in DOMAIN c.order : c.order[i] \notin K}
<1>1. \A k \in D : c.groups[k] \in Entry /\ c.groups[k].aliases[1] = k /\ Dated(c.groups[k].binding, n)
  BY DEF CacheOK, GroupsOK
<1>2. \A e \in E : \E k \in K : e = c.groups[k] /\ e.aliases[1] = k BY <1>1 DEF GroupsAt
<1>3. \A k \in K : c.groups[k] \in E /\ c.groups[k].aliases[1] = k BY <1>1 DEF GroupsAt
<1>4. gone = E BY <1>2 DEF SameGroup
<1>5. keys = K
  <2>1. keys = {e.aliases[1] : e \in E} BY <1>4
  <2> HIDE DEF E, keys, gone
  <2>2. ASSUME NEW k \in K PROVE k \in keys BY <1>3, <2>1
  <2>3. ASSUME NEW k \in keys PROVE k \in K BY <1>2, <2>1
  <2> QED BY <2>2, <2>3
<1>6. \A k \in D : \A x : Contains(c.groups[k].aliases, x) <=> x \in Al(c.groups[k])
  <2> SUFFICES ASSUME NEW k \in D, NEW x PROVE Contains(c.groups[k].aliases, x) <=> x \in Al(c.groups[k]) OBVIOUS
  <2>1. c.groups[k].aliases \in Seq(Alias) BY <1>1, EntryIs, AliasSeqIs
  <2> QED BY <2>1, LenProperties DEF Contains, Al, ToSet
<1>7. stale = UNION {Al(c.groups[k]) : k \in K}
  <2>1. ASSUME NEW x \in stale PROVE \E k \in K : x \in Al(c.groups[k])
    <3>1. PICK e \in E : Contains(e.aliases, x) OBVIOUS
    <3>2. PICK k \in K : e = c.groups[k] BY <1>2
    <3> QED BY <1>6, <3>1, <3>2
  <2>2. ASSUME NEW k \in K, NEW x \in Al(c.groups[k]) PROVE x \in stale
    <3>1. x \in DOMAIN c.entries /\ c.entries[x] = c.groups[k] BY DEF CacheOK, EntriesOK
    <3>2. c.groups[k] \in E /\ Contains(c.groups[k].aliases, x) BY <1>3, <1>6
    <3>3. SameGroup(c.entries[x], c.groups[k]) BY <3>1 DEF SameGroup
    <3> QED BY <3>1, <3>2, <3>3
  <2> HIDE DEF stale
  <2> QED BY <2>1, <2>2
<1>8. r = [entries |-> Without(c.entries, stale), groups |-> Without(c.groups, keys),
           order |-> At(c.order, {i \in DOMAIN c.order : c.order[i] \notin keys}), index |-> Unindex(c.index, gone)]
  BY DEF RemoveGroups
<1> HIDE DEF gone, keys, stale, E
<1>9. /\ r.entries = Without(c.entries, stale) /\ r.groups = Without(c.groups, K)
      /\ r.order = At(c.order, kept) /\ r.index = Unindex(c.index, E)
  BY <1>4, <1>5, <1>8
<1> HIDE DEF r
<1>10. DOMAIN r.groups = D \ K /\ \A k \in D \ K : r.groups[k] = c.groups[k] BY <1>9 DEF Without, Restrict
<1>11. DOMAIN r.entries = DOMAIN c.entries \ stale /\ \A x \in DOMAIN r.entries : r.entries[x] = c.entries[x]
  BY <1>9 DEF Without, Restrict
<1>12. GroupsOK(r, n)
  <2>1. \A k \in D \ K : r.groups[k] \in Entry /\ r.groups[k].aliases[1] = k /\ Dated(r.groups[k].binding, n) BY <1>1, <1>10
  <2>2. D \subseteq Alias BY DEF CacheOK, GroupsOK
  <2>3. \A k, l \in D \ K : k # l =>
           /\ Al(r.groups[k]) \cap Al(r.groups[l]) = {}
           /\ r.groups[k].binding.sequence # 0 => r.groups[k].binding.sequence # r.groups[l].binding.sequence
    BY <1>10 DEF CacheOK, GroupsOK
  <2> QED BY <1>10, <2>1, <2>2, <2>3 DEF GroupsOK
<1>13. EntriesOK(r)
  <2>1. IsFiniteSet(DOMAIN r.entries) BY <1>11, FS_Subset DEF CacheOK, EntriesOK
  <2>2. ASSUME NEW x \in DOMAIN r.entries PROVE \E k \in DOMAIN r.groups : x \in Al(r.groups[k])
    <3>1. PICK k \in D : x \in Al(c.groups[k]) BY <1>11, OwnerIs
    <3>2. k \notin K BY <1>7, <1>11, <3>1
    <3> QED BY <1>10, <3>1, <3>2
  <2>3. ASSUME NEW k \in DOMAIN r.groups, NEW x \in Al(r.groups[k]) PROVE x \in DOMAIN r.entries /\ r.entries[x] = r.groups[k]
    <3>1. k \in D \ K /\ r.groups[k] = c.groups[k] BY <1>10
    <3>2. x \in DOMAIN c.entries /\ c.entries[x] = c.groups[k] BY <3>1 DEF CacheOK, EntriesOK
    <3>3. x \notin stale
      <4> SUFFICES ASSUME NEW l \in K, x \in Al(c.groups[l]) PROVE FALSE BY <1>7
      <4>1. k # l /\ l \in D BY <3>1
      <4>2. Al(c.groups[k]) \cap Al(c.groups[l]) = {} BY <3>1, <4>1 DEF CacheOK, GroupsOK
      <4> QED BY <3>1, <4>2
    <3> QED BY <1>11, <3>1, <3>2, <3>3
  <2> QED BY <2>1, <2>2, <2>3 DEF EntriesOK
<1>14. OrderOK(r)
  <2>1. c.order \in Seq(Alias) /\ IsInjective(c.order) /\ ToSet(c.order) = D BY DEF CacheOK, OrderOK
  <2>2. kept \in SUBSET (DOMAIN c.order) OBVIOUS
  <2>3. \A i, j \in kept : c.order[i] = c.order[j] => i = j BY <2>1 DEF IsInjective
  <2>4. {c.order[i] : i \in kept} = D \ K BY <2>1 DEF ToSet
  <2> HIDE DEF kept
  <2>5. At(c.order, kept) \in Seq(Alias) /\ IsInjective(At(c.order, kept)) BY <2>1, <2>2, <2>3, AtIs
  <2>6. ToSet(At(c.order, kept)) = {c.order[i] : i \in kept} BY <2>1, <2>2, AtIs
  <2> QED BY <1>9, <1>10, <2>4, <2>5, <2>6 DEF OrderOK
<1>15. IndexOK(r)
  <2>1. c.index \in [Session \cup {None} -> SUBSET Alias] /\ \A s \in Session \cup {None} : c.index[s] = Indexed(c, s)
    BY DEF CacheOK, IndexOK
  <2>2. r.index = [s \in Session \cup {None} |-> c.index[s] \ {e.aliases[1] : e \in {f \in E : f.binding.session = s}}]
    BY <1>9, <2>1 DEF Unindex
  <2>3. ASSUME NEW s \in Session \cup {None} PROVE r.index[s] = Indexed(r, s)
    <3> DEFINE out == {e.aliases[1] : e \in {f \in E : f.binding.session = s}}
    <3>1. r.index[s] = Indexed(c, s) \ out BY <2>1, <2>2
    <3>2. ASSUME NEW k \in Indexed(c, s) PROVE k \in out <=> k \in K
      <4>1. k \in D /\ c.groups[k].binding.session = s BY DEF Indexed
      <4>2. ASSUME k \in K PROVE k \in out BY <1>3, <4>1, <4>2
      <4>3. ASSUME k \in out PROVE k \in K BY <1>2, <4>3
      <4> QED BY <4>2, <4>3
    <3> HIDE DEF out
    <3>3. Indexed(r, s) = Indexed(c, s) \ K BY <1>10 DEF Indexed
    <3> QED BY <3>1, <3>2, <3>3
  <2>4. r.index \in [Session \cup {None} -> SUBSET Alias]
    <3>1. \A s \in Session \cup {None} : c.index[s] \ {e.aliases[1] : e \in {f \in E : f.binding.session = s}} \in SUBSET Alias
      BY <2>1
    <3> QED BY <2>2, <3>1
  <2> QED BY <2>3, <2>4 DEF IndexOK
<1>16. CacheOK(r, n) BY <1>12, <1>13, <1>14, <1>15 DEF CacheOK
<1> QED BY <1>7, <1>10, <1>11, <1>16 DEF r, E

LEMMA InsertIs ==
    ASSUME NEW c, NEW n \in Nat, CacheOK(c, n), NEW e \in Entry, Dated(e.binding, n),
           Al(e) \cap DOMAIN c.entries = {},
           e.binding.sequence # 0 =>
               \A k \in DOMAIN c.groups : c.groups[k].binding.sequence # e.binding.sequence
    PROVE  LET d   == Insert(c, e)
               key == e.aliases[1]
           IN  /\ CacheOK(d, n)
               /\ key \notin DOMAIN c.groups /\ DOMAIN d.groups = DOMAIN c.groups \cup {key} /\ d.groups[key] = e
               /\ \A k \in DOMAIN c.groups : d.groups[k] = c.groups[k]
               /\ DOMAIN d.entries = DOMAIN c.entries \cup Al(e)
               /\ d.order # <<>> /\ d.order[Len(d.order)] = key
<1> DEFINE d == Insert(c, e)
           key == e.aliases[1]
           D == DOMAIN c.groups
<1>1. key \in Al(e) /\ Al(e) \subseteq Alias /\ IsFiniteSet(Al(e)) BY EntryIs
<1>2. \A k \in D : c.groups[k] \in Entry /\ c.groups[k].aliases[1] = k /\ Dated(c.groups[k].binding, n)
  BY DEF CacheOK, GroupsOK
<1>3. \A k \in D : Al(c.groups[k]) \subseteq DOMAIN c.entries /\ k \in DOMAIN c.entries
  <2> SUFFICES ASSUME NEW k \in D PROVE Al(c.groups[k]) \subseteq DOMAIN c.entries /\ k \in DOMAIN c.entries OBVIOUS
  <2>1. Al(c.groups[k]) \subseteq DOMAIN c.entries BY DEF CacheOK, EntriesOK
  <2>2. k \in Al(c.groups[k]) BY <1>2, EntryIs
  <2> QED BY <2>1, <2>2
<1>4. key \notin D BY <1>1, <1>3
<1>5. d = [entries |-> [x \in DOMAIN c.entries \cup Al(e) |-> IF x \in Al(e) THEN e ELSE c.entries[x]],
           groups |-> [k \in D \cup {key} |-> IF k = key THEN e ELSE c.groups[k]],
           order |-> Append(c.order, key),
           index |-> IF e.binding.sequence = 0 THEN c.index
                     ELSE [c.index EXCEPT ![e.binding.session] = @ \cup {key}]]
  BY DEF Insert, Al
<1> HIDE DEF d
<1>6. /\ d.entries = [x \in DOMAIN c.entries \cup Al(e) |-> IF x \in Al(e) THEN e ELSE c.entries[x]]
      /\ d.groups = [k \in D \cup {key} |-> IF k = key THEN e ELSE c.groups[k]]
      /\ d.order = Append(c.order, key)
      /\ d.index = IF e.binding.sequence = 0 THEN c.index ELSE [c.index EXCEPT ![e.binding.session] = @ \cup {key}]
  BY <1>5
<1>7. DOMAIN d.groups = D \cup {key} /\ d.groups[key] = e /\ \A k \in D : d.groups[k] = c.groups[k] BY <1>4, <1>6
<1>8. DOMAIN d.entries = DOMAIN c.entries \cup Al(e) BY <1>6
<1>9. (\A x \in Al(e) : d.entries[x] = e) /\ \A x \in DOMAIN c.entries : d.entries[x] = c.entries[x] BY <1>6
<1> HIDE DEF key
<1>10. GroupsOK(d, n)
  <2>1. \A k \in D \cup {key} : d.groups[k] \in Entry /\ d.groups[k].aliases[1] = k /\ Dated(d.groups[k].binding, n)
    BY <1>2, <1>7 DEF key
  <2>2. D \cup {key} \subseteq Alias BY <1>1 DEF CacheOK, GroupsOK
  <2>3. ASSUME NEW k \in D, NEW l \in D, k # l
        PROVE  /\ Al(d.groups[k]) \cap Al(d.groups[l]) = {}
               /\ d.groups[k].binding.sequence # 0 => d.groups[k].binding.sequence # d.groups[l].binding.sequence
    <3>1. GroupsOK(c, n) BY DEF CacheOK
    <3>2. /\ Al(c.groups[k]) \cap Al(c.groups[l]) = {}
          /\ c.groups[k].binding.sequence # 0 => c.groups[k].binding.sequence # c.groups[l].binding.sequence
      BY <2>3, <3>1 DEF GroupsOK
    <3> QED BY <1>7, <3>2
  <2>4. ASSUME NEW k \in D
        PROVE  /\ Al(d.groups[k]) \cap Al(d.groups[key]) = {}
               /\ d.groups[k].binding.sequence # 0 => d.groups[k].binding.sequence # d.groups[key].binding.sequence
               /\ d.groups[key].binding.sequence # 0 => d.groups[k].binding.sequence # d.groups[key].binding.sequence
    BY <1>3, <1>7
  <2>5. ASSUME NEW k \in D \cup {key}, NEW l \in D \cup {key}, k # l
        PROVE  /\ Al(d.groups[k]) \cap Al(d.groups[l]) = {}
               /\ d.groups[k].binding.sequence # 0 => d.groups[k].binding.sequence # d.groups[l].binding.sequence
    <3>1. CASE k \in D /\ l \in D BY <2>3, <2>5, <3>1
    <3>2. CASE k \in D /\ l = key BY <2>4, <3>2
    <3>3. CASE k = key /\ l \in D BY <2>4, <3>3
    <3> QED BY <2>5, <3>1, <3>2, <3>3
  <2> QED BY <1>7, <2>1, <2>2, <2>5 DEF GroupsOK
<1>11. EntriesOK(d)
  <2>1. IsFiniteSet(DOMAIN d.entries)
    <3>1. IsFiniteSet(DOMAIN c.entries) BY DEF CacheOK, EntriesOK
    <3>2. IsFiniteSet(DOMAIN c.entries \cup Al(e)) BY <1>1, <3>1, FS_Union
    <3> QED BY <1>8, <3>2
  <2>2. DOMAIN d.entries = UNION {Al(d.groups[k]) : k \in DOMAIN d.groups}
    <3>1. DOMAIN c.entries = UNION {Al(c.groups[k]) : k \in D} BY DEF CacheOK, EntriesOK
    <3>2. \A x : x \in DOMAIN d.entries <=> x \in Al(e) \/ \E k \in D : x \in Al(c.groups[k]) BY <1>8, <3>1
    <3>3. \A x : (\E k \in DOMAIN d.groups : x \in Al(d.groups[k])) <=> x \in Al(e) \/ \E k \in D : x \in Al(c.groups[k])
      BY <1>7
    <3> QED BY <3>2, <3>3
  <2>3. ASSUME NEW k \in DOMAIN d.groups, NEW x \in Al(d.groups[k]) PROVE d.entries[x] = d.groups[k]
    <3>1. CASE k = key BY <1>7, <1>9, <3>1
    <3>2. CASE k \in D
      <4>1. d.groups[k] = c.groups[k] /\ x \in DOMAIN c.entries BY <1>3, <1>7, <3>2
      <4>2. c.entries[x] = c.groups[k] BY <3>2, <4>1 DEF CacheOK, EntriesOK
      <4> QED BY <1>9, <4>1, <4>2
    <3> QED BY <1>7, <3>1, <3>2
  <2> QED BY <2>1, <2>2, <2>3 DEF EntriesOK
<1>12. c.order \in Seq(Alias) /\ IsInjective(c.order) /\ ToSet(c.order) = D BY DEF CacheOK, OrderOK
<1>13. key \in Alias BY <1>1 DEF key
<1>14. /\ d.order \in Seq(Alias) /\ Len(d.order) = Len(c.order) + 1 /\ d.order[Len(d.order)] = key
       /\ \A i \in 1 .. Len(c.order) : d.order[i] = c.order[i]
  BY <1>6, <1>12, <1>13, AppendProperties
<1>15. /\ Len(c.order) \in Nat /\ DOMAIN c.order = 1 .. Len(c.order) /\ DOMAIN d.order = 1 .. (Len(c.order) + 1)
       /\ 1 .. (Len(c.order) + 1) = (1 .. Len(c.order)) \cup {Len(c.order) + 1}
  <2>1. Len(c.order) \in Nat /\ DOMAIN c.order = 1 .. Len(c.order) BY <1>12, LenProperties
  <2>2. DOMAIN d.order = 1 .. Len(d.order) BY <1>14, LenProperties
  <2> QED BY <1>14, <2>1, <2>2
<1>16. d.order # <<>>
  <2> SUFFICES ASSUME d.order = <<>> PROVE FALSE OBVIOUS
  <2>1. Len(d.order) = 0 OBVIOUS
  <2> QED BY <1>14, <1>15, <2>1
<1>17. OrderOK(d)
  <2>1. \A i \in 1 .. Len(c.order) : d.order[i] \in D BY <1>12, <1>14, <1>15 DEF ToSet
  <2>2. IsInjective(d.order)
    <3> SUFFICES ASSUME NEW i \in DOMAIN d.order, NEW j \in DOMAIN d.order, d.order[i] = d.order[j] PROVE i = j
      BY DEF IsInjective
    <3>1. CASE i \in 1 .. Len(c.order) /\ j \in 1 .. Len(c.order)
      BY <1>12, <1>14, <1>15, <3>1 DEF IsInjective
    <3>2. CASE i = Len(c.order) + 1 /\ j # Len(c.order) + 1 BY <1>4, <1>14, <1>15, <2>1, <3>2
    <3>3. CASE i # Len(c.order) + 1 /\ j = Len(c.order) + 1 BY <1>4, <1>14, <1>15, <2>1, <3>3
    <3> QED BY <1>15, <3>1, <3>2, <3>3
  <2>3. ToSet(d.order) = D \cup {key}
    <3>1. ToSet(d.order) = {d.order[i] : i \in (1 .. Len(c.order)) \cup {Len(c.order) + 1}} BY <1>15 DEF ToSet
    <3>2. D = {c.order[i] : i \in 1 .. Len(c.order)} BY <1>12, <1>15 DEF ToSet
    <3>3. {d.order[i] : i \in 1 .. Len(c.order)} = D BY <1>14, <3>2
    <3>4. ToSet(d.order) = {d.order[i] : i \in 1 .. Len(c.order)} \cup {d.order[Len(c.order) + 1]} BY <3>1
    <3>5. d.order[Len(c.order) + 1] = key BY <1>14
    <3> QED BY <3>3, <3>4, <3>5
  <2> QED BY <1>7, <1>14, <2>2, <2>3 DEF OrderOK
<1>18. IndexOK(d)
  <2>1. c.index \in [Session \cup {None} -> SUBSET Alias] /\ \A s \in Session \cup {None} : c.index[s] = Indexed(c, s)
    BY DEF CacheOK, IndexOK
  <2>2. \A s : \A k \in D : k \in Indexed(d, s) <=> k \in Indexed(c, s) BY <1>7 DEF Indexed
  <2>3. \A s : key \in Indexed(d, s) <=> e.binding.sequence # 0 /\ e.binding.session = s BY <1>7 DEF Indexed
  <2>4. \A s : Indexed(d, s) \subseteq D \cup {key} /\ Indexed(c, s) \subseteq D BY <1>7 DEF Indexed
  <2>5. CASE e.binding.sequence = 0
    <3>1. d.index = c.index BY <1>6, <2>5
    <3>2. \A s : Indexed(d, s) = Indexed(c, s) BY <2>2, <2>3, <2>4, <2>5
    <3> QED BY <2>1, <3>1, <3>2 DEF IndexOK
  <2>6. CASE e.binding.sequence # 0
    <3> DEFINE s0 == e.binding.session
    <3>1. s0 \in Session BY <2>6, DatedIs
    <3>2. d.index = [c.index EXCEPT ![s0] = @ \cup {key}] BY <1>6, <2>6
    <3> HIDE DEF s0
    <3>3. d.index \in [Session \cup {None} -> SUBSET Alias] BY <1>13, <2>1, <3>1, <3>2
    <3>4. ASSUME NEW s \in Session \cup {None} PROVE d.index[s] = Indexed(d, s)
      <4>1. CASE s = s0
        <5>1. d.index[s] = Indexed(c, s) \cup {key} BY <2>1, <3>2, <4>1
        <5>2. key \in Indexed(d, s) BY <2>3, <2>6, <4>1 DEF s0
        <5> QED BY <2>2, <2>4, <5>1, <5>2
      <4>2. CASE s # s0
        <5>1. d.index[s] = Indexed(c, s) BY <2>1, <3>2, <4>2
        <5>2. key \notin Indexed(d, s) BY <2>3, <4>2 DEF s0
        <5> QED BY <2>2, <2>4, <5>1, <5>2
      <4> QED BY <4>1, <4>2
    <3> QED BY <3>3, <3>4 DEF IndexOK
  <2> QED BY <2>5, <2>6
<1>19. CacheOK(d, n) BY <1>10, <1>11, <1>17, <1>18 DEF CacheOK
<1> QED BY <1>4, <1>7, <1>8, <1>14, <1>16, <1>19 DEF d, key

(* Eviction takes the oldest groups, never the newest, and makes the cache fit. *)
LEMMA EvictIs ==
    ASSUME NEW c, NEW n \in Nat, CacheOK(c, n), c.order # <<>>
    PROVE  LET r    == Evict(c)
               last == c.order[Len(c.order)]
           IN  \E K \in SUBSET (DOMAIN c.groups \ {last}) :
                   /\ CacheOK(r, n) /\ Cardinality(DOMAIN r.entries) <= MaxEntries
                   /\ DOMAIN r.groups = DOMAIN c.groups \ K
                   /\ \A k \in DOMAIN c.groups \ K : r.groups[k] = c.groups[k]
                   /\ Cardinality(DOMAIN c.entries) <= MaxEntries => K = {}
<1> DEFINE last == c.order[Len(c.order)]
           D == DOMAIN c.groups
           L == Len(c.order)
           First(m) == {c.order[i] : i \in 1 .. m}
           After(m) == RemoveGroups(c, {c.groups[c.order[i]] : i \in 1 .. m})
           Fits(d) == Cardinality(DOMAIN d.entries) <= MaxEntries
           Good(m) == m \in 1 .. L /\ Fits(After(m)) /\ ~Fits(After(m - 1))
<1>1. c.order \in Seq(Alias) /\ IsInjective(c.order) /\ ToSet(c.order) = D BY DEF CacheOK, OrderOK
<1>2. L \in Nat /\ L # 0 /\ DOMAIN c.order = 1 .. L BY <1>1, LenProperties, EmptySeq
<1>3. Evict(c) = IF Fits(c) THEN c ELSE After(CHOOSE m \in 1 .. L : Fits(After(m)) /\ ~Fits(After(m - 1))) BY DEF Evict
<1>4. ASSUME Fits(c) PROVE Evict(c) = c BY <1>3, <1>4
<1>5. ASSUME NEW m \in 0 .. L
      PROVE  /\ First(m) \in SUBSET D /\ After(m) = RemoveGroups(c, GroupsAt(c, First(m)))
             /\ CacheOK(After(m), n) /\ DOMAIN After(m).groups = D \ First(m)
             /\ \A k \in D \ First(m) : After(m).groups[k] = c.groups[k]
             /\ DOMAIN After(m).entries = DOMAIN c.entries \ UNION {Al(c.groups[k]) : k \in First(m)}
  <2>1. \A i \in 1 .. m : i \in 1 .. L BY <1>2
  <2>2. First(m) \in SUBSET D BY <1>1, <1>2, <2>1 DEF ToSet
  <2>3. {c.groups[c.order[i]] : i \in 1 .. m} = GroupsAt(c, First(m)) BY DEF GroupsAt
  <2>4. After(m) = RemoveGroups(c, GroupsAt(c, First(m))) BY <2>3
  <2> HIDE DEF First, After
  <2> QED BY <2>2, <2>4, RemoveIs
<1>6. ~Fits(c) => ~Fits(After(0))
  <2>1. 0 \in 0 .. L BY <1>2
  <2>2. First(0) = {} OBVIOUS
  <2> HIDE DEF First, After
  <2>3. DOMAIN After(0).entries = DOMAIN c.entries BY <1>5, <2>1, <2>2
  <2> QED BY <2>3
<1>7. Fits(After(L - 1))
  <2>1. L - 1 \in 0 .. L /\ L - 1 \in Nat BY <1>2
  <2>2. D \ First(L - 1) \subseteq {last}
    <3> SUFFICES ASSUME NEW k \in D, k \notin First(L - 1) PROVE k = last OBVIOUS
    <3>1. PICK i \in 1 .. L : k = c.order[i] BY <1>1, <1>2 DEF ToSet
    <3>2. i \notin 1 .. L - 1 BY <3>1
    <3>3. i = L BY <1>2, <3>2
    <3> QED BY <3>1, <3>3
  <2>3. last \in D
    <3>1. L \in DOMAIN c.order BY <1>2
    <3> QED BY <1>1, <3>1 DEF ToSet
  <2>4. c.groups[last] \in Entry BY <2>3 DEF CacheOK, GroupsOK
  <2> HIDE DEF First, last, After
  <2>5. DOMAIN After(L - 1).entries \subseteq Al(c.groups[last])
    <3> SUFFICES ASSUME NEW x \in DOMAIN After(L - 1).entries PROVE x \in Al(c.groups[last]) OBVIOUS
    <3>1. CacheOK(After(L - 1), n) BY <1>5, <2>1
    <3>2. PICK k \in DOMAIN After(L - 1).groups : x \in Al(After(L - 1).groups[k]) BY <3>1, OwnerIs
    <3>3. k \in D \ First(L - 1) /\ After(L - 1).groups[k] = c.groups[k] BY <1>5, <2>1, <3>2
    <3> QED BY <2>2, <3>2, <3>3
  <2>6. IsFiniteSet(Al(c.groups[last])) /\ Cardinality(Al(c.groups[last])) <= MaxEntries BY <2>4, EntryIs
  <2>7. IsFiniteSet(DOMAIN After(L - 1).entries)
        /\ Cardinality(DOMAIN After(L - 1).entries) <= Cardinality(Al(c.groups[last]))
    BY <2>5, <2>6, FS_Subset
  <2>8. Cardinality(DOMAIN After(L - 1).entries) \in Nat /\ Cardinality(Al(c.groups[last])) \in Nat
    BY <2>6, <2>7, FS_CardinalityType
  <2>9. MaxEntries \in Nat BY CacheAssumption
  <2> QED BY <2>6, <2>7, <2>8, <2>9
<1>8. ASSUME ~Fits(c) PROVE \E m \in 1 .. L : Fits(After(m)) /\ ~Fits(After(m - 1))
  <2> HIDE DEF After, Fits
  <2> DEFINE T == {m \in 0 .. L : Fits(After(m))}
  <2>1. L - 1 \in T BY <1>2, <1>7
  <2>2. T \in SUBSET Nat OBVIOUS
  <2> HIDE DEF T
  <2>3. PICK m \in T : \A k \in T : m <= k BY <2>1, <2>2, LeastPosition
  <2>4. m \in 0 .. L /\ Fits(After(m)) BY <2>3 DEF T
  <2>5. m # 0 BY <1>6, <1>8, <2>4
  <2>6. m \in 1 .. L /\ m - 1 \in 0 .. L /\ ~(m <= m - 1) BY <1>2, <2>4, <2>5
  <2>7. m - 1 \notin T BY <2>3, <2>6
  <2>8. ~Fits(After(m - 1)) BY <2>6, <2>7 DEF T
  <2> QED BY <2>4, <2>6, <2>8
<1>9. CASE Fits(c)
  <2>1. {} \in SUBSET (D \ {last}) OBVIOUS
  <2> QED BY <1>4, <1>9, <2>1
<1>10. CASE ~Fits(c)
  <2> DEFINE m == CHOOSE m \in 1 .. L : Fits(After(m)) /\ ~Fits(After(m - 1))
  <2>1. m \in 1 .. L /\ Fits(After(m)) /\ ~Fits(After(m - 1))
    <3> HIDE DEF After, Fits
    <3> QED BY <1>8, <1>10
  <2>2. Evict(c) = After(m) BY <1>3, <1>10
  <2> HIDE DEF m, After
  <2>3. m # L BY <1>7, <2>1
  <2>4. m \in 0 .. L /\ m < L BY <1>2, <2>1, <2>3
  <2>5. last \notin First(m)
    <3> SUFFICES ASSUME NEW i \in 1 .. m, last = c.order[i] PROVE FALSE OBVIOUS
    <3>1. i \in 1 .. L /\ L \in 1 .. L /\ i # L BY <1>2, <2>4
    <3> QED BY <1>1, <1>2, <3>1 DEF IsInjective
  <2> HIDE DEF First, last
  <2>6. First(m) \in SUBSET (D \ {last}) BY <1>5, <2>4, <2>5
  <2>7. /\ CacheOK(After(m), n) /\ DOMAIN After(m).groups = D \ First(m)
        /\ \A k \in D \ First(m) : After(m).groups[k] = c.groups[k]
    BY <1>5, <2>4
  <2> QED BY <1>10, <2>1, <2>2, <2>6, <2>7 DEF last
<1> QED BY <1>9, <1>10

(* The cache c without the groups in K and whichever were evicted, with e. *)
Replaced(c, R, e, K) ==
    \E D \in SUBSET (DOMAIN c.groups \ K) :
        /\ e.aliases[1] \notin D
        /\ DOMAIN R.groups = D \cup {e.aliases[1]}
        /\ R.groups[e.aliases[1]] = e
        /\ \A k \in D : R.groups[k] = c.groups[k]
        /\ (Cardinality((DOMAIN c.entries \ UNION {Al(c.groups[k]) : k \in K}) \cup Al(e)) <= MaxEntries
               => D = DOMAIN c.groups \ K)

LEMMA ReplaceIs ==
    ASSUME NEW c, NEW n \in Nat, CacheOK(c, n), NEW K \in SUBSET (DOMAIN c.groups), NEW e \in Entry, Dated(e.binding, n),
           \A k \in DOMAIN c.groups \ K :
               /\ Al(e) \cap Al(c.groups[k]) = {}
               /\ e.binding.sequence # 0 => c.groups[k].binding.sequence # e.binding.sequence
    PROVE  LET R == ReplaceGroups(c, e, GroupsAt(c, K))
           IN  CacheOK(R, n) /\ Cardinality(DOMAIN R.entries) <= MaxEntries /\ Replaced(c, R, e, K)
<1> DEFINE r == RemoveGroups(c, GroupsAt(c, K))
           key == e.aliases[1]
           d == Insert(r, e)
           R == Evict(d)
           Others == DOMAIN c.groups \ K
<1>1. /\ CacheOK(r, n) /\ DOMAIN r.groups = Others
      /\ \A k \in Others : r.groups[k] = c.groups[k]
      /\ DOMAIN r.entries = DOMAIN c.entries \ UNION {Al(c.groups[k]) : k \in K}
  BY RemoveIs
<1>2. ReplaceGroups(c, e, GroupsAt(c, K)) =
          Evict(Insert(IF key \in DOMAIN r.groups THEN RemoveGroups(r, {r.groups[key]}) ELSE r, e))
  BY DEF ReplaceGroups
<1> HIDE DEF r
<1>3. Al(e) \cap DOMAIN r.entries = {}
  <2> SUFFICES ASSUME NEW x \in DOMAIN r.entries PROVE x \notin Al(e) OBVIOUS
  <2>1. PICK k \in DOMAIN r.groups : x \in Al(r.groups[k]) BY <1>1, OwnerIs
  <2>2. k \in Others /\ x \in Al(c.groups[k]) BY <1>1, <2>1
  <2> QED BY <2>2
<1>4. e.binding.sequence # 0 => \A k \in DOMAIN r.groups : r.groups[k].binding.sequence # e.binding.sequence BY <1>1
<1>5. /\ CacheOK(d, n) /\ key \notin DOMAIN r.groups /\ DOMAIN d.groups = DOMAIN r.groups \cup {key} /\ d.groups[key] = e
      /\ \A k \in DOMAIN r.groups : d.groups[k] = r.groups[k]
      /\ DOMAIN d.entries = DOMAIN r.entries \cup Al(e)
      /\ d.order # <<>> /\ d.order[Len(d.order)] = key
  BY <1>1, <1>3, <1>4, InsertIs
<1>6. ReplaceGroups(c, e, GroupsAt(c, K)) = R BY <1>2, <1>5
<1> HIDE DEF d
<1>7. PICK E \in SUBSET (DOMAIN d.groups \ {key}) :
          /\ CacheOK(R, n) /\ Cardinality(DOMAIN R.entries) <= MaxEntries
          /\ DOMAIN R.groups = DOMAIN d.groups \ E
          /\ \A k \in DOMAIN d.groups \ E : R.groups[k] = d.groups[k]
          /\ Cardinality(DOMAIN d.entries) <= MaxEntries => E = {}
  BY <1>5, EvictIs
<1> HIDE DEF R
<1>8. Replaced(c, R, e, K)
  <2> DEFINE D == Others \ E
  <2>1. D \in SUBSET (DOMAIN c.groups \ K) OBVIOUS
  <2>2. key \notin D BY <1>1, <1>5
  <2>3. DOMAIN R.groups = D \cup {key} BY <1>1, <1>5, <1>7
  <2>4. R.groups[key] = e BY <1>5, <1>7
  <2>5. \A k \in D : R.groups[k] = c.groups[k] BY <1>1, <1>5, <1>7
  <2>6. Cardinality((DOMAIN c.entries \ UNION {Al(c.groups[k]) : k \in K}) \cup Al(e)) <= MaxEntries => D = Others
    BY <1>1, <1>5, <1>7
  <2> HIDE DEF D, key
  <2> QED BY <2>1, <2>2, <2>3, <2>4, <2>5, <2>6 DEF Replaced, key
<1> QED BY <1>6, <1>7, <1>8

-----------------------------------------------------------------------------
(* The inductive invariant, and what each call makes of the groups. *)

CacheInv ==
    /\ CacheOK(cache, bindingSequence) /\ Cardinality(DOMAIN cache.entries) <= MaxEntries
    /\ bindingSequence \in 0 .. MaxSequence
    /\ now \in 0 .. MaxTime

LEMMA Numbers ==
    /\ MaxSequence \in Nat /\ MaxTime \in Nat /\ TTL \in Nat /\ TTL # 0
    /\ \A t \in 0 .. MaxTime : t \in Nat /\ t + TTL \in 0 .. MaxTime + TTL /\ t < t + TTL
    /\ \A n \in 0 .. MaxSequence : n \in Nat
<1>1. MaxSequence \in Nat /\ MaxTime \in Nat /\ TTL \in Nat /\ TTL # 0 BY BindingsAssumption, CacheAssumption
<1> QED BY <1>1

(* The groups in K go: what Get, InvalidateAuth, cleanup and a call on an expired alias do. *)
Dropped(c, R, K) ==
    /\ K \in SUBSET (DOMAIN c.groups)
    /\ DOMAIN R.groups = DOMAIN c.groups \ K
    /\ \A k \in DOMAIN c.groups \ K : R.groups[k] = c.groups[k]

LEMMA DropStep ==
    ASSUME CacheInv, NEW K \in SUBSET (DOMAIN cache.groups), cache' = RemoveGroups(cache, GroupsAt(cache, K)),
           UNCHANGED <<bindingSequence, now>>
    PROVE  CacheInv' /\ Dropped(cache, cache', K)
<1> DEFINE r == RemoveGroups(cache, GroupsAt(cache, K))
<1>1. bindingSequence \in Nat BY Numbers DEF CacheInv
<1>2. /\ CacheOK(r, bindingSequence) /\ DOMAIN r.groups = DOMAIN cache.groups \ K
      /\ \A k \in DOMAIN cache.groups \ K : r.groups[k] = cache.groups[k]
      /\ DOMAIN r.entries = DOMAIN cache.entries \ UNION {Al(cache.groups[k]) : k \in K}
  BY <1>1, RemoveIs DEF CacheInv
<1> HIDE DEF r
<1>3. Cardinality(DOMAIN r.entries) <= MaxEntries
  <2>1. IsFiniteSet(DOMAIN cache.entries) /\ Cardinality(DOMAIN cache.entries) <= MaxEntries
    BY DEF CacheInv, CacheOK, EntriesOK
  <2>2. IsFiniteSet(DOMAIN r.entries) /\ Cardinality(DOMAIN r.entries) <= Cardinality(DOMAIN cache.entries)
    BY <1>2, <2>1, FS_Subset
  <2>3. Cardinality(DOMAIN r.entries) \in Nat /\ Cardinality(DOMAIN cache.entries) \in Nat
    BY <2>1, <2>2, FS_CardinalityType
  <2>4. MaxEntries \in Nat BY CacheAssumption
  <2> QED BY <2>1, <2>2, <2>3, <2>4
<1>4. cache' = r BY DEF r
<1>5. CacheInv' BY <1>2, <1>3, <1>4 DEF CacheInv
<1> QED BY <1>2, <1>4, <1>5 DEF Dropped

(* The copy of an alias is its group. *)
LEMMA KnownIs ==
    ASSUME CacheInv, NEW x, Known(x)
    PROVE  \E k \in DOMAIN cache.groups :
               /\ cache.entries[x] = cache.groups[k] /\ {cache.entries[x]} = GroupsAt(cache, {k})
               /\ x \in Al(cache.groups[k]) /\ cache.groups[k] \in Entry /\ k = cache.groups[k].aliases[1]
               /\ Dated(cache.groups[k].binding, bindingSequence)
<1>1. PICK k \in DOMAIN cache.groups : x \in Al(cache.groups[k]) /\ cache.entries[x] = cache.groups[k]
  BY OwnerIs DEF CacheInv, Known
<1>2. cache.groups[k] \in Entry /\ k = cache.groups[k].aliases[1] /\ Dated(cache.groups[k].binding, bindingSequence)
  BY DEF CacheInv, CacheOK, GroupsOK
<1>3. {cache.entries[x]} = GroupsAt(cache, {k}) BY <1>1 DEF GroupsAt
<1> QED BY <1>1, <1>2, <1>3

(* A group is replaced by one with some of its aliases and a selection that is its own. *)
LEMMA ReplaceStep ==
    ASSUME CacheInv, NEW K \in SUBSET (DOMAIN cache.groups), NEW e \in Entry,
           bindingSequence' \in 0 .. MaxSequence, bindingSequence' >= bindingSequence, Dated(e.binding, bindingSequence'),
           \A k \in DOMAIN cache.groups \ K :
               /\ Al(e) \cap Al(cache.groups[k]) = {}
               /\ e.binding.sequence # 0 => cache.groups[k].binding.sequence # e.binding.sequence,
           cache' = ReplaceGroups(cache, e, GroupsAt(cache, K)), UNCHANGED now
    PROVE  CacheInv' /\ Replaced(cache, cache', e, K)
<1> DEFINE m == bindingSequence'
<1>1. bindingSequence \in Nat /\ m \in Nat /\ m >= bindingSequence BY Numbers DEF CacheInv
<1>2. CacheOK(cache, m)
  <2>1. \A k \in DOMAIN cache.groups : Dated(cache.groups[k].binding, m)
    BY <1>1, DatedIs DEF CacheInv, CacheOK, GroupsOK
  <2> HIDE DEF m
  <2>2. GroupsOK(cache, m) BY <2>1 DEF CacheInv, CacheOK, GroupsOK
  <2> QED BY <2>2 DEF CacheInv, CacheOK
<1> HIDE DEF m
<1>3. LET R == ReplaceGroups(cache, e, GroupsAt(cache, K))
      IN  CacheOK(R, m) /\ Cardinality(DOMAIN R.entries) <= MaxEntries /\ Replaced(cache, R, e, K)
  BY <1>1, <1>2, ReplaceIs DEF m
<1>4. CacheOK(cache', m) /\ Cardinality(DOMAIN cache'.entries) <= MaxEntries /\ Replaced(cache, cache', e, K) BY <1>3
<1> QED BY <1>4 DEF CacheInv, m

(* Get, GetAndRefresh of an expired alias: its group goes. *)
LEMMA ExpireStep ==
    ASSUME CacheInv, NEW x, Known(x), ~Live(cache.entries[x]), cache' = RemoveGroups(cache, {cache.entries[x]}),
           UNCHANGED <<bindingSequence, now>>
    PROVE  CacheInv' /\ \E K : Dropped(cache, cache', K) /\ \A k \in K : ~Live(cache.groups[k])
<1>1. PICK k \in DOMAIN cache.groups :
          cache.entries[x] = cache.groups[k] /\ {cache.entries[x]} = GroupsAt(cache, {k})
  BY KnownIs
<1>2. CacheInv' /\ Dropped(cache, cache', {k}) BY <1>1, DropStep
<1> QED BY <1>1, <1>2

(* GetAndRefresh and Touch: the group keeps its credential and its selection. *)
LEMMA RefreshStep ==
    ASSUME CacheInv, NEW x \in Alias, Known(x), Live(cache.entries[x]),
           cache' = ReplaceGroups(cache, [cache.entries[x] EXCEPT !.expires = now + TTL, !.aliases = Fronted(x, cache.entries[x])],
                                  {cache.entries[x]}),
           UNCHANGED <<bindingSequence, now>>
    PROVE  CacheInv' /\ \E k \in DOMAIN cache.groups, e \in Entry :
               /\ Live(cache.groups[k]) /\ Replaced(cache, cache', e, {k}) /\ now < e.expires
               /\ x \in Al(cache.groups[k]) /\ x \in Al(e) /\ Al(e) \subseteq Al(cache.groups[k])
               /\ e.auth = cache.groups[k].auth /\ e.binding = cache.groups[k].binding
<1> DEFINE g == cache.entries[x]
           e == [g EXCEPT !.expires = now + TTL, !.aliases = Fronted(x, g)]
<1>1. PICK k \in DOMAIN cache.groups :
          /\ g = cache.groups[k] /\ {g} = GroupsAt(cache, {k})
          /\ x \in Al(cache.groups[k]) /\ cache.groups[k] \in Entry
          /\ Dated(cache.groups[k].binding, bindingSequence)
  BY KnownIs
<1>2. g \in Entry /\ x \in Al(g) /\ Dated(g.binding, bindingSequence) /\ Live(g) BY <1>1
<1>3. cache' = ReplaceGroups(cache, e, GroupsAt(cache, {k})) BY <1>1
<1> HIDE DEF g
<1>4. g.aliases \in AliasSeq /\ g.aliases \in Seq(Alias) BY <1>2, EntryIs, AliasSeqIs
<1>5. /\ Fronted(x, g) \in AliasSeq /\ Fronted(x, g)[1] = x /\ ToSet(Fronted(x, g)) \subseteq Al(g)
  <2> DEFINE one == <<x>>
             list == one \o g.aliases
  <2>1. one \in Seq(Alias) /\ one # <<>> /\ one[1] = x /\ ToSet(one) = {x} BY DEF ToSet
  <2> HIDE DEF one
  <2>2. list \in Seq(Alias) /\ list # <<>> /\ list[1] = x /\ ToSet(list) \subseteq {x} \cup ToSet(g.aliases)
    BY <1>4, <2>1, JoinIs
  <2>3. Fronted(x, g) = Compact(Merge(list)) BY DEF Fronted, one
  <2> HIDE DEF list
  <2>4. Compact(Merge(list)) \in AliasSeq /\ Compact(Merge(list))[1] = x /\ ToSet(Compact(Merge(list))) \subseteq ToSet(list)
    BY <2>2, CombinedIs
  <2> QED BY <1>2, <2>2, <2>3, <2>4 DEF Al
<1>6. now \in 0 .. MaxTime /\ bindingSequence \in 0 .. MaxSequence BY DEF CacheInv
<1>7. now + TTL \in 0 .. MaxTime + TTL /\ now < now + TTL /\ bindingSequence \in Nat BY <1>6, Numbers
<1>8. /\ e \in Entry /\ e.expires = now + TTL /\ e.aliases = Fronted(x, g)
      /\ e.auth = g.auth /\ e.binding = g.binding
  BY <1>2, <1>5, <1>7 DEF Entry
<1> HIDE DEF e
<1>9. Al(e) \subseteq Al(g) /\ x \in Al(e) BY <1>5, <1>8, EntryIs DEF Al
<1>10. \A l \in DOMAIN cache.groups \ {k} :
          /\ Al(e) \cap Al(cache.groups[l]) = {}
          /\ e.binding.sequence # 0 => cache.groups[l].binding.sequence # e.binding.sequence
  <2> SUFFICES ASSUME NEW l \in DOMAIN cache.groups, l # k
               PROVE  /\ Al(e) \cap Al(cache.groups[l]) = {}
                      /\ e.binding.sequence # 0 => cache.groups[l].binding.sequence # e.binding.sequence
    OBVIOUS
  <2>1. GroupsOK(cache, bindingSequence) BY DEF CacheInv, CacheOK
  <2>2. /\ Al(cache.groups[k]) \cap Al(cache.groups[l]) = {}
        /\ cache.groups[k].binding.sequence # 0 => cache.groups[k].binding.sequence # cache.groups[l].binding.sequence
    BY <2>1 DEF GroupsOK
  <2> QED BY <1>1, <1>8, <1>9, <2>2
<1>11. CacheInv' /\ Replaced(cache, cache', e, {k})
  <2>1. bindingSequence' = bindingSequence /\ UNCHANGED now OBVIOUS
  <2>2. Dated(e.binding, bindingSequence') BY <1>2, <1>8, <2>1
  <2>3. bindingSequence' \in 0 .. MaxSequence /\ bindingSequence' >= bindingSequence BY <1>6, <1>7, <2>1
  <2>4. {k} \in SUBSET (DOMAIN cache.groups) OBVIOUS
  <2> QED BY <1>3, <1>8, <1>10, <2>1, <2>2, <2>3, <2>4, ReplaceStep
<1> QED BY <1>1, <1>2, <1>7, <1>8, <1>9, <1>11

(* Invalidate, CompareAndDelete: the alias leaves its group, which goes when nothing is left. *)
LEMMA InvalidateStep ==
    ASSUME CacheInv, NEW x, Invalidate(x)
    PROVE  CacheInv' /\ \E k \in DOMAIN cache.groups :
               /\ x \in Al(cache.groups[k])
               /\ \/ Al(cache.groups[k]) = {x} /\ Dropped(cache, cache', {k})
                  \/ \E e \in Entry :
                        /\ Al(cache.groups[k]) # {x} /\ Al(e) = Al(cache.groups[k]) \ {x}
                        /\ e.auth = cache.groups[k].auth /\ e.binding = cache.groups[k].binding
                        /\ e.expires = cache.groups[k].expires
                        /\ e.aliases[1] \notin DOMAIN cache.groups \ {k}
                        /\ DOMAIN cache'.groups = (DOMAIN cache.groups \ {k}) \cup {e.aliases[1]}
                        /\ cache'.groups[e.aliases[1]] = e
                        /\ \A l \in DOMAIN cache.groups \ {k} : cache'.groups[l] = cache.groups[l]
<1> DEFINE g == cache.entries[x]
           I == {i \in DOMAIN g.aliases : g.aliases[i] # x}
           left == At(g.aliases, I)
           removed == RemoveGroups(cache, {g})
           e == [g EXCEPT !.aliases = left]
<1>1. Known(x) /\ UNCHANGED <<bindingSequence, now>> BY DEF Invalidate
<1>2. cache' = IF left = <<>> THEN removed ELSE ReplaceGroups(removed, e, {}) BY DEF Invalidate
<1>3. PICK k \in DOMAIN cache.groups :
          /\ g = cache.groups[k] /\ {g} = GroupsAt(cache, {k})
          /\ x \in Al(cache.groups[k]) /\ cache.groups[k] \in Entry
          /\ Dated(cache.groups[k].binding, bindingSequence)
  BY <1>1, KnownIs
<1>4. g \in Entry /\ x \in Al(g) /\ Dated(g.binding, bindingSequence) BY <1>3
<1>5. removed = RemoveGroups(cache, GroupsAt(cache, {k})) BY <1>3
<1> HIDE DEF g
<1>6. g.aliases \in AliasSeq BY <1>4, EntryIs
<1>7. ToSet(left) = Al(g) \ {x} /\ (left = <<>> <=> Al(g) \subseteq {x}) /\ (left # <<>> => left \in AliasSeq)
  BY <1>6, LeftIs DEF Al
<1> HIDE DEF left
<1>8. CASE left = <<>>
  <2>1. Al(g) = {x} BY <1>4, <1>7, <1>8
  <2>2. cache' = RemoveGroups(cache, GroupsAt(cache, {k})) BY <1>2, <1>5, <1>8
  <2>3. CacheInv' /\ Dropped(cache, cache', {k}) BY <1>1, <2>2, DropStep
  <2> QED BY <1>3, <2>1, <2>3
<1>9. CASE left # <<>>
  <2>1. e \in Entry /\ e.aliases = left /\ e.auth = g.auth /\ e.binding = g.binding /\ e.expires = g.expires
    BY <1>4, <1>7, <1>9 DEF Entry
  <2> HIDE DEF e
  <2>2. Al(e) = Al(g) \ {x} BY <1>7, <2>1 DEF Al
  <2>3. Al(g) # {x} BY <1>7, <1>9
  <2> DEFINE c == removed
             Rest == DOMAIN cache.groups \ {k}
             n == bindingSequence
  <2>4. n \in Nat /\ CacheOK(cache, n) /\ MaxEntries \in Nat BY Numbers, CacheAssumption DEF CacheInv
  <2>5. /\ CacheOK(c, n) /\ DOMAIN c.groups = Rest
        /\ \A l \in Rest : c.groups[l] = cache.groups[l]
        /\ DOMAIN c.entries = DOMAIN cache.entries \ UNION {Al(cache.groups[l]) : l \in {k}}
    <3>1. {k} \in SUBSET (DOMAIN cache.groups) OBVIOUS
    <3> HIDE DEF removed, n
    <3> QED BY <1>5, <2>4, <3>1, RemoveIs
  <2> HIDE DEF removed
  <2>6. DOMAIN c.entries = DOMAIN cache.entries \ Al(g) BY <1>3, <2>5
  <2>7. cache' = ReplaceGroups(c, e, GroupsAt(c, {}))
    <3>1. GroupsAt(c, {}) = {} BY DEF GroupsAt
    <3> QED BY <1>2, <1>9, <3>1
  <2>8. \A l \in Rest :
            /\ Al(e) \cap Al(cache.groups[l]) = {}
            /\ e.binding.sequence # 0 => cache.groups[l].binding.sequence # e.binding.sequence
    <3> SUFFICES ASSUME NEW l \in DOMAIN cache.groups, l # k
                 PROVE  /\ Al(e) \cap Al(cache.groups[l]) = {}
                        /\ e.binding.sequence # 0 => cache.groups[l].binding.sequence # e.binding.sequence
      OBVIOUS
    <3>1. GroupsOK(cache, n) BY <2>4 DEF CacheOK
    <3>2. /\ Al(cache.groups[k]) \cap Al(cache.groups[l]) = {}
          /\ cache.groups[k].binding.sequence # 0 => cache.groups[k].binding.sequence # cache.groups[l].binding.sequence
      BY <3>1 DEF GroupsOK
    <3> QED BY <1>3, <2>1, <2>2, <3>2
  <2>9. \A l \in DOMAIN c.groups \ {} :
            /\ Al(e) \cap Al(c.groups[l]) = {}
            /\ e.binding.sequence # 0 => c.groups[l].binding.sequence # e.binding.sequence
    BY <2>5, <2>8
  <2>10. Dated(e.binding, n) BY <1>4, <2>1
  <2>11. {} \in SUBSET (DOMAIN c.groups) OBVIOUS
  <2>12. CacheOK(cache', n) /\ Cardinality(DOMAIN cache'.entries) <= MaxEntries /\ Replaced(c, cache', e, {})
    <3> HIDE DEF c, n
    <3> QED BY <2>1, <2>4, <2>5, <2>7, <2>9, <2>10, <2>11, ReplaceIs
  <2>13. CacheInv' BY <1>1, <2>12 DEF CacheInv
  <2> DEFINE All == (DOMAIN c.entries \ UNION {Al(c.groups[l]) : l \in {}}) \cup Al(e)
  <2>14. Cardinality(All) <= MaxEntries
    <3>1. Al(g) \subseteq DOMAIN cache.entries BY <1>3, <2>4 DEF CacheOK, EntriesOK
    <3>2. All \subseteq DOMAIN cache.entries BY <2>2, <2>6, <3>1
    <3>3. IsFiniteSet(DOMAIN cache.entries) /\ Cardinality(DOMAIN cache.entries) <= MaxEntries
      BY DEF CacheInv, CacheOK, EntriesOK
    <3> HIDE DEF All
    <3>4. IsFiniteSet(All) /\ Cardinality(All) <= Cardinality(DOMAIN cache.entries) BY <3>2, <3>3, FS_Subset
    <3>5. Cardinality(All) \in Nat /\ Cardinality(DOMAIN cache.entries) \in Nat BY <3>3, <3>4, FS_CardinalityType
    <3> QED BY <2>4, <3>3, <3>4, <3>5
  <2>15. PICK D \in SUBSET (DOMAIN c.groups \ {}) :
            /\ e.aliases[1] \notin D
            /\ DOMAIN cache'.groups = D \cup {e.aliases[1]}
            /\ cache'.groups[e.aliases[1]] = e
            /\ \A l \in D : cache'.groups[l] = c.groups[l]
            /\ Cardinality(All) <= MaxEntries => D = DOMAIN c.groups \ {}
    BY <2>12 DEF Replaced
  <2>16. D = Rest BY <2>5, <2>14, <2>15
  <2> HIDE DEF c
  <2>17. /\ e.aliases[1] \notin Rest /\ DOMAIN cache'.groups = Rest \cup {e.aliases[1]} /\ cache'.groups[e.aliases[1]] = e
         /\ \A l \in Rest : cache'.groups[l] = cache.groups[l]
    BY <2>5, <2>15, <2>16
  <2> QED BY <1>3, <2>1, <2>2, <2>3, <2>13, <2>17
<1> QED BY <1>8, <1>9

(* The newest of several selections. *)
LEMMA LatestIs ==
    ASSUME NEW n \in Nat, NEW G, \A g \in G : Dated(g.binding, n)
    PROVE  /\ G = {} => Latest(G) = NoBinding
           /\ G # {} => \E g \in G : /\ Latest(G) = g.binding
                                     /\ \A h \in G : h.binding.sequence <= g.binding.sequence
           /\ Dated(Latest(G), n)
<1>1. \A g \in G : g.binding.sequence \in 0 .. n /\ (g.binding.sequence = 0 <=> g.binding = NoBinding) BY DatedIs
<1>2. Dated(NoBinding, n) BY DEF Dated
<1>3. CASE \A g \in G : g.binding.sequence = 0
  <2>1. Latest(G) = NoBinding BY <1>3 DEF Latest
  <2>2. \A g, h \in G : g.binding = NoBinding /\ h.binding.sequence <= g.binding.sequence BY <1>1, <1>3
  <2> QED BY <1>2, <2>1, <2>2
<1>4. CASE ~\A g \in G : g.binding.sequence = 0
  <2> DEFINE T == {n - g.binding.sequence : g \in G}
             Top(g) == \A h \in G : h.binding.sequence <= g.binding.sequence
  <2>1. T \in SUBSET Nat /\ T # {}
    <3>1. \A g \in G : n - g.binding.sequence \in Nat BY <1>1
    <3> QED BY <1>4, <3>1
  <2> HIDE DEF T
  <2>2. PICK t \in T : \A u \in T : t <= u BY <2>1, LeastPosition
  <2>3. PICK g \in G : t = n - g.binding.sequence BY <2>2 DEF T
  <2>4. Top(g)
    <3> SUFFICES ASSUME NEW h \in G PROVE h.binding.sequence <= g.binding.sequence OBVIOUS
    <3>1. n - h.binding.sequence \in T BY DEF T
    <3>2. n - g.binding.sequence <= n - h.binding.sequence BY <2>2, <2>3, <3>1
    <3>3. g.binding.sequence \in 0 .. n /\ h.binding.sequence \in 0 .. n BY <1>1
    <3> QED BY <3>2, <3>3
  <2> DEFINE c == CHOOSE f \in G : Top(f)
  <2>5. c \in G /\ Top(c)
    <3> HIDE DEF Top
    <3> QED BY <2>4
  <2>6. Latest(G) = c.binding BY <1>4 DEF Latest
  <2> HIDE DEF c
  <2> QED BY <2>5, <2>6
<1> QED BY <1>3, <1>4

(* One or two different aliases. *)
LEMMA KeysIs ==
    ASSUME NEW keys \in Keys
    PROVE  /\ keys \in Seq(Alias) /\ keys # <<>> /\ DOMAIN keys = 1 .. Len(keys)
           /\ Len(keys) \in 1 .. 2 /\ keys[1] \in ToSet(keys)
           /\ \A i, j \in DOMAIN keys : keys[i] = keys[j] => i = j
<1>1. CASE \E x \in Alias : keys = <<x>>
  <2>1. PICK x \in Alias : keys = <<x>> BY <1>1
  <2>2. keys \in Seq(Alias) /\ Len(keys) = 1 /\ keys[1] = x /\ keys # <<>> BY <2>1
  <2>3. DOMAIN keys = 1 .. 1 /\ 1 \in 1 .. 1 BY <2>1
  <2>4. \A i \in 1 .. 1 : i = 1 OBVIOUS
  <2> QED BY <2>2, <2>3, <2>4 DEF ToSet
<1>2. CASE keys \in Alias \X Alias /\ keys[1] # keys[2]
  <2>1. PICK x \in Alias, y \in Alias : keys = <<x, y>> BY <1>2
  <2>2. keys \in Seq(Alias) /\ Len(keys) = 2 /\ keys # <<>> BY <2>1
  <2>3. DOMAIN keys = 1 .. 2 /\ 1 \in 1 .. 2 BY <2>1
  <2>4. \A i \in 1 .. 2 : i = 1 \/ i = 2 OBVIOUS
  <2> QED BY <1>2, <2>2, <2>3, <2>4 DEF ToSet
<1> QED BY <1>1, <1>2 DEF Keys

(* The live groups with an alias in N. *)
Touches(N) == {k \in DOMAIN cache.groups : Live(cache.groups[k]) /\ Al(cache.groups[k]) \cap N # {}}

(* setAliases: the live groups of the keys become one. *)
LEMMA SetStep ==
    ASSUME CacheInv, NEW a \in Auth, NEW keys \in Keys, NEW b, SetAliases(a, keys, b), UNCHANGED now,
           bindingSequence' \in 0 .. MaxSequence, bindingSequence' >= bindingSequence,
           \/ b = NoBinding
           \/ Dated(b, bindingSequence') /\ b.sequence > bindingSequence
    PROVE  CacheInv' /\ \E e \in Entry, D \in SUBSET (DOMAIN cache.groups) :
               /\ \A k \in D : Al(cache.groups[k]) \cap ToSet(keys) = {}
               /\ e.aliases[1] \notin D
               /\ DOMAIN cache'.groups = D \cup {e.aliases[1]}
               /\ cache'.groups[e.aliases[1]] = e
               /\ \A k \in D : cache'.groups[k] = cache.groups[k]
               /\ e.auth = a /\ now < e.expires
               /\ e.binding = IF b = NoBinding THEN Latest(GroupsAt(cache, Touches(ToSet(keys)))) ELSE b
               /\ keys[1] \in Al(e)
               /\ Al(e) \subseteq ToSet(keys) \cup UNION {Al(cache.groups[k]) : k \in Touches(ToSet(keys))}
<1> DEFINE n == bindingSequence
           m == bindingSequence'
           D0 == DOMAIN cache.groups
           named == ToSet(keys)
           hit == {k \in D0 : Al(cache.groups[k]) \cap named # {}}
           merged == {k \in D0 : Live(cache.groups[k]) /\ Al(cache.groups[k]) \cap named # {}}
           dead == {k \in D0 : ~Live(cache.groups[k]) /\ Al(cache.groups[k]) \cap named # {}}
           known == {i \in DOMAIN keys : Known(keys[i])}
           live == {i \in known : Live(cache.entries[keys[i]])}
           previous == {cache.entries[keys[i]] : i \in live}
           expired == {cache.entries[keys[i]] : i \in known \ live}
           found == At(keys, live)
           lists == [i \in DOMAIN found |-> cache.entries[found[i]].aliases]
           others == FlattenSeq(lists)
           list == Compact(Merge(keys \o others))
           binding == IF b = NoBinding THEN Latest(previous) ELSE b
           e == [auth |-> a, expires |-> now + TTL, aliases |-> list, binding |-> binding]
           c == RemoveGroups(cache, expired)
<1>1. /\ keys \in Seq(Alias) /\ keys # <<>> /\ DOMAIN keys = 1 .. Len(keys) /\ Len(keys) \in 1 .. 2 /\ keys[1] \in named
      /\ \A i, j \in DOMAIN keys : keys[i] = keys[j] => i = j
  BY KeysIs
<1>2. cache' = ReplaceGroups(c, e, previous) BY DEF SetAliases
<1>3. n \in Nat /\ m \in Nat /\ m >= n /\ now \in 0 .. MaxTime /\ CacheOK(cache, n) BY Numbers DEF CacheInv
<1>4. GroupsOK(cache, n) /\ EntriesOK(cache) BY <1>3 DEF CacheOK
<1>5. \A k \in D0 : cache.groups[k] \in Entry /\ k = cache.groups[k].aliases[1] /\ Dated(cache.groups[k].binding, n)
  BY <1>4 DEF GroupsOK
<1>6. \A i \in known : \E k \in D0 : keys[i] \in Al(cache.groups[k]) /\ cache.entries[keys[i]] = cache.groups[k]
  BY <1>3, OwnerIs DEF Known
<1>7. \A k \in D0 : \A i \in DOMAIN keys : keys[i] \in Al(cache.groups[k]) =>
          i \in known /\ cache.entries[keys[i]] = cache.groups[k]
  BY <1>4 DEF EntriesOK, Known
<1>8. \A k \in D0 : Al(cache.groups[k]) \cap named # {} => \E i \in DOMAIN keys : keys[i] \in Al(cache.groups[k])
  BY DEF ToSet
<1>9. \A i \in DOMAIN keys : keys[i] \in named BY DEF ToSet
<1>10. previous = GroupsAt(cache, merged)
  <2>1. ASSUME NEW g \in previous PROVE g \in GroupsAt(cache, merged)
    <3>1. PICK i \in live : g = cache.entries[keys[i]] OBVIOUS
    <3>2. PICK k \in D0 : keys[i] \in Al(cache.groups[k]) /\ cache.entries[keys[i]] = cache.groups[k] BY <1>6
    <3>3. k \in merged BY <1>9, <3>1, <3>2
    <3> QED BY <3>1, <3>2, <3>3 DEF GroupsAt
  <2>2. ASSUME NEW k \in merged PROVE cache.groups[k] \in previous
    <3>1. PICK i \in DOMAIN keys : keys[i] \in Al(cache.groups[k]) BY <1>8
    <3>2. i \in known /\ cache.entries[keys[i]] = cache.groups[k] BY <1>7, <3>1
    <3>3. i \in live BY <3>2
    <3> QED BY <3>2, <3>3
  <2> HIDE DEF previous, merged
  <2> QED BY <2>1, <2>2 DEF GroupsAt
<1>11. expired = GroupsAt(cache, dead)
  <2>1. ASSUME NEW g \in expired PROVE g \in GroupsAt(cache, dead)
    <3>1. PICK i \in known \ live : g = cache.entries[keys[i]] OBVIOUS
    <3>2. PICK k \in D0 : keys[i] \in Al(cache.groups[k]) /\ cache.entries[keys[i]] = cache.groups[k] BY <1>6
    <3>3. k \in dead BY <1>9, <3>1, <3>2
    <3> QED BY <3>1, <3>2, <3>3 DEF GroupsAt
  <2>2. ASSUME NEW k \in dead PROVE cache.groups[k] \in expired
    <3>1. PICK i \in DOMAIN keys : keys[i] \in Al(cache.groups[k]) BY <1>8
    <3>2. i \in known /\ cache.entries[keys[i]] = cache.groups[k] BY <1>7, <3>1
    <3>3. i \in known \ live BY <3>2
    <3> QED BY <3>2, <3>3
  <2> HIDE DEF expired, dead
  <2> QED BY <2>1, <2>2 DEF GroupsAt
<1>12. found \in Seq(Alias) /\ Len(found) \in 0 .. 2 /\ DOMAIN found = 1 .. Len(found) /\ ToSet(found) = {keys[i] : i \in live}
  <2>1. live \in SUBSET (DOMAIN keys) OBVIOUS
  <2> HIDE DEF live
  <2>2. /\ found \in Seq(Alias) /\ Len(found) = Cardinality(live) /\ DOMAIN found = 1 .. Cardinality(live)
        /\ ToSet(found) = {keys[i] : i \in live} /\ IsFiniteSet(live) /\ Cardinality(live) \in Nat
    BY <1>1, <2>1, AtIs
  <2>3. Cardinality(live) <= 2
    <3>1. 1 \in Int /\ Len(keys) \in Int /\ Len(keys) <= 2 /\ Len(keys) >= 1 BY <1>1
    <3>2. IsFiniteSet(1 .. Len(keys)) /\ Cardinality(1 .. Len(keys)) = IF 1 > Len(keys) THEN 0 ELSE Len(keys) - 1 + 1
      BY <3>1, FS_Interval
    <3>3. Cardinality(1 .. Len(keys)) = Len(keys) BY <3>1, <3>2
    <3>4. Cardinality(live) <= Cardinality(1 .. Len(keys)) BY <1>1, <2>1, <3>2, FS_Subset
    <3> QED BY <2>2, <3>1, <3>3, <3>4
  <2> QED BY <2>2, <2>3
<1>13. ASSUME NEW i \in 1 .. Len(found)
       PROVE  lists[i] \in Seq(Alias) /\ \E k \in merged : ToSet(lists[i]) = Al(cache.groups[k])
  <2>1. i \in DOMAIN found BY <1>12
  <2>2. found[i] \in ToSet(found) BY <2>1 DEF ToSet
  <2>3. PICK j \in live : found[i] = keys[j] BY <1>12, <2>2
  <2>4. PICK k \in D0 : keys[j] \in Al(cache.groups[k]) /\ cache.entries[keys[j]] = cache.groups[k] BY <1>6
  <2>5. lists[i] = cache.groups[k].aliases BY <2>1, <2>3, <2>4
  <2>6. k \in merged BY <1>9, <2>3, <2>4
  <2>7. cache.groups[k].aliases \in Seq(Alias) BY <1>5, EntryIs, AliasSeqIs
  <2> QED BY <2>5, <2>6, <2>7 DEF Al
<1>14. lists \in [1 .. Len(found) -> Seq(Alias)] BY <1>12, <1>13
<1> HIDE DEF previous, expired, found, live, known
<1>15. others \in Seq(Alias) /\ \A x \in ToSet(others) : \E i \in 1 .. Len(found) : x \in ToSet(lists[i])
  <2> HIDE DEF lists
  <2> QED BY <1>12, <1>14, FlattenIs
<1>16. ToSet(others) \subseteq UNION {Al(cache.groups[k]) : k \in merged}
  <2> HIDE DEF lists, others, merged
  <2> QED BY <1>13, <1>15
<1> HIDE DEF others, lists
<1>17. list \in AliasSeq /\ list[1] = keys[1] /\ ToSet(list) \subseteq named \cup UNION {Al(cache.groups[k]) : k \in merged}
  <2> DEFINE both == keys \o others
  <2>1. both \in Seq(Alias) /\ both # <<>> /\ both[1] = keys[1] /\ ToSet(both) \subseteq named \cup ToSet(others)
    BY <1>1, <1>15, JoinIs
  <2> HIDE DEF both, merged
  <2>2. /\ Compact(Merge(both)) \in AliasSeq /\ Compact(Merge(both))[1] = both[1]
        /\ ToSet(Compact(Merge(both))) \subseteq ToSet(both)
    BY <2>1, CombinedIs
  <2>3. list = Compact(Merge(both)) BY DEF both
  <2> QED BY <1>16, <2>1, <2>2, <2>3
<1>18. /\ \A g \in previous : Dated(g.binding, n)
       /\ previous = {} => Latest(previous) = NoBinding
       /\ previous # {} => \E g \in previous : Latest(previous) = g.binding
       /\ Dated(Latest(previous), n)
  <2>1. \A g \in previous : Dated(g.binding, n) BY <1>5, <1>10 DEF GroupsAt
  <2> QED BY <1>3, <2>1, LatestIs
<1>19. Dated(binding, m) /\ binding \in Binding
  <2>1. Dated(binding, m)
    <3>1. CASE b = NoBinding BY <1>3, <1>18, <3>1, DatedIs
    <3>2. CASE b # NoBinding BY <3>2
    <3> QED BY <3>1, <3>2
  <2>2. NoBinding \in Binding
    <3>1. 0 \in 0 .. MaxSequence BY Numbers
    <3> QED BY <3>1 DEF NoBinding, Binding
  <2> HIDE DEF binding
  <2> QED BY <2>1, <2>2 DEF Dated
<1>20. \A k \in D0 \ merged : binding.sequence # 0 => cache.groups[k].binding.sequence # binding.sequence
  <2> SUFFICES ASSUME NEW k \in D0, k \notin merged, binding.sequence # 0
               PROVE  cache.groups[k].binding.sequence # binding.sequence
    OBVIOUS
  <2>1. CASE b = NoBinding
    <3>1. binding = Latest(previous) BY <2>1
    <3>2. NoBinding.sequence = 0 BY DEF NoBinding
    <3>3. PICK g \in previous : binding = g.binding BY <1>18, <3>1, <3>2
    <3>4. PICK l \in merged : g = cache.groups[l] BY <1>10 DEF GroupsAt
    <3>5. l \in D0 /\ l # k BY <3>4
    <3>6. cache.groups[l].binding.sequence # 0 => cache.groups[l].binding.sequence # cache.groups[k].binding.sequence
      BY <1>4, <3>5 DEF GroupsOK
    <3> QED BY <3>3, <3>4, <3>6
  <2>2. CASE b # NoBinding
    <3>1. binding = b /\ b.sequence > n /\ Dated(b, m) BY <2>2
    <3>2. b.sequence \in 0 .. m BY <1>3, <3>1, DatedIs
    <3>3. cache.groups[k].binding.sequence \in 0 .. n BY <1>3, <1>5, DatedIs
    <3> HIDE DEF binding
    <3> QED BY <1>3, <3>1, <3>2, <3>3
  <2> QED BY <2>1, <2>2
<1> HIDE DEF list, binding
<1>21. now + TTL \in 0 .. MaxTime + TTL /\ now < now + TTL BY <1>3, Numbers
<1>22. e \in Entry /\ e.auth = a /\ e.expires = now + TTL /\ e.aliases = list /\ e.binding = binding
  BY <1>17, <1>19, <1>21 DEF Entry
<1> HIDE DEF e
<1>23. keys[1] \in Al(e) /\ Al(e) \subseteq named \cup UNION {Al(cache.groups[k]) : k \in merged}
  BY <1>17, <1>22, EntryIs DEF Al
<1>24. CacheOK(cache, m)
  <2>1. \A k \in D0 : Dated(cache.groups[k].binding, m) BY <1>3, <1>5, DatedIs
  <2> HIDE DEF m, n
  <2>2. GroupsOK(cache, m) BY <1>4, <2>1 DEF GroupsOK
  <2> QED BY <1>3, <2>2 DEF CacheOK
<1>25. /\ CacheOK(c, m) /\ DOMAIN c.groups = D0 \ dead
       /\ \A k \in D0 \ dead : c.groups[k] = cache.groups[k]
  <2>1. dead \in SUBSET D0 OBVIOUS
  <2>2. c = RemoveGroups(cache, GroupsAt(cache, dead)) BY <1>11
  <2> HIDE DEF c, dead, m
  <2> QED BY <1>3, <1>24, <2>1, <2>2, RemoveIs DEF m
<1> HIDE DEF c
<1>26. merged \in SUBSET (DOMAIN c.groups) BY <1>25
<1>27. previous = GroupsAt(c, merged) BY <1>10, <1>25, <1>26 DEF GroupsAt
<1>28. \A k \in DOMAIN c.groups \ merged :
           /\ k \in D0 /\ k \notin merged /\ k \notin dead /\ Al(cache.groups[k]) \cap named = {}
           /\ c.groups[k] = cache.groups[k]
  BY <1>25
<1>29. \A k \in DOMAIN c.groups \ merged :
           /\ Al(e) \cap Al(c.groups[k]) = {}
           /\ e.binding.sequence # 0 => c.groups[k].binding.sequence # e.binding.sequence
  <2> SUFFICES ASSUME NEW k \in DOMAIN c.groups \ merged
               PROVE  /\ Al(e) \cap Al(c.groups[k]) = {}
                      /\ e.binding.sequence # 0 => c.groups[k].binding.sequence # e.binding.sequence
    OBVIOUS
  <2>1. k \in D0 /\ k \notin merged /\ Al(cache.groups[k]) \cap named = {} /\ c.groups[k] = cache.groups[k] BY <1>28
  <2>2. \A l \in merged : l \in D0 /\ l # k BY <2>1
  <2> HIDE DEF merged, named
  <2>3. \A l \in merged : Al(cache.groups[l]) \cap Al(cache.groups[k]) = {} BY <1>4, <2>1, <2>2 DEF GroupsOK
  <2>4. Al(e) \cap Al(cache.groups[k]) = {} BY <1>23, <2>1, <2>3
  <2> QED BY <1>20, <1>22, <2>1, <2>4
<1>30. CacheOK(cache', m) /\ Cardinality(DOMAIN cache'.entries) <= MaxEntries /\ Replaced(c, cache', e, merged)
  <2>1. cache' = ReplaceGroups(c, e, GroupsAt(c, merged)) BY <1>2, <1>27
  <2>2. m \in Nat /\ Dated(e.binding, m) BY <1>3, <1>19, <1>22
  <2> HIDE DEF merged, m
  <2> QED BY <1>22, <1>25, <1>26, <1>29, <2>1, <2>2, ReplaceIs
<1>31. CacheInv' BY <1>3, <1>30 DEF CacheInv
<1>32. PICK D \in SUBSET (DOMAIN c.groups \ merged) :
           /\ e.aliases[1] \notin D
           /\ DOMAIN cache'.groups = D \cup {e.aliases[1]}
           /\ cache'.groups[e.aliases[1]] = e
           /\ \A k \in D : cache'.groups[k] = c.groups[k]
  BY <1>30 DEF Replaced
<1>33. D \in SUBSET D0 /\ \A k \in D : Al(cache.groups[k]) \cap named = {} /\ cache'.groups[k] = cache.groups[k]
  BY <1>28, <1>32
<1>34. e.binding = IF b = NoBinding THEN Latest(GroupsAt(cache, merged)) ELSE b BY <1>10, <1>22 DEF binding
<1>35. e.auth = a /\ now < e.expires BY <1>21, <1>22
<1>36. merged = Touches(named) BY DEF Touches
<1> HIDE DEF n, m, merged
<1> QED BY <1>22, <1>23, <1>31, <1>32, <1>33, <1>34, <1>35, <1>36

(* The numbered selection of a call. *)
LEMMA SelectedIs ==
    ASSUME CacheInv, NEW a \in Auth, NEW keys \in Keys, bindingSequence < MaxSequence
    PROVE  LET b == [session |-> SessionOf[keys[1]], provider |-> ProviderOf[a], sequence |-> bindingSequence + 1]
           IN  /\ Dated(b, bindingSequence + 1) /\ b.sequence > bindingSequence /\ b # NoBinding
               /\ bindingSequence + 1 \in 0 .. MaxSequence /\ bindingSequence + 1 >= bindingSequence
<1> DEFINE b == [session |-> SessionOf[keys[1]], provider |-> ProviderOf[a], sequence |-> bindingSequence + 1]
<1>1. bindingSequence \in 0 .. MaxSequence /\ bindingSequence \in Nat /\ MaxSequence \in Nat BY Numbers DEF CacheInv
<1>2. /\ bindingSequence + 1 \in 0 .. MaxSequence /\ bindingSequence + 1 >= bindingSequence
      /\ bindingSequence + 1 \in 1 .. bindingSequence + 1 /\ bindingSequence + 1 > bindingSequence
  BY <1>1
<1>3. keys \in Seq(Alias) /\ 1 \in 1 .. Len(keys) BY KeysIs
<1>4. keys[1] \in Alias BY <1>3, ElementOfSeq
<1>5. SessionOf[keys[1]] \in Session /\ ProviderOf[a] \in Provider BY <1>4, BindingsAssumption
<1>6. b.session \in Session /\ b.provider \in Provider /\ b.sequence = bindingSequence + 1 BY <1>5
<1>7. b \in Binding BY <1>2, <1>5 DEF Binding
<1> HIDE DEF b
<1>8. Dated(b, bindingSequence + 1) BY <1>2, <1>6, <1>7 DEF Dated
<1>9. b # NoBinding
  <2>1. NoBinding.sequence = 0 BY DEF NoBinding
  <2> QED BY <1>1, <1>6, <2>1
<1> QED BY <1>2, <1>6, <1>8, <1>9 DEF b

(* InvalidateAuth and cleanup. *)
LEMMA RemoveAllStep ==
    ASSUME CacheInv, NEW gone, gone \subseteq Entries, RemoveAll(gone)
    PROVE  CacheInv' /\ \E K : Dropped(cache, cache', K)
<1> DEFINE K == {k \in DOMAIN cache.groups : cache.groups[k] \in gone}
<1>1. K \in SUBSET (DOMAIN cache.groups) OBVIOUS
<1>2. gone = GroupsAt(cache, K) BY DEF GroupsAt, Entries
<1>3. cache' = RemoveGroups(cache, GroupsAt(cache, K)) /\ UNCHANGED <<bindingSequence, now>> BY <1>2 DEF RemoveAll
<1> HIDE DEF K
<1>4. CacheInv' /\ Dropped(cache, cache', K) BY <1>1, <1>3, DropStep
<1> QED BY <1>4

(* Initially the cache is empty. *)
LEMMA CacheInit == Init => CacheInv
<1> SUFFICES ASSUME Init PROVE CacheInv OBVIOUS
<1>1. /\ cache.entries = <<>> /\ cache.groups = <<>> /\ cache.order = <<>>
      /\ cache.index = [s \in Session \cup {None} |-> {}] /\ bindingSequence = 0 /\ now = 0
  BY DEF Init
<1>2. DOMAIN cache.entries = {} /\ DOMAIN cache.groups = {} /\ DOMAIN cache.order = {} BY <1>1
<1>3. GroupsOK(cache, bindingSequence) BY <1>2 DEF GroupsOK
<1>4. EntriesOK(cache) BY <1>2, FS_EmptySet DEF EntriesOK
<1>5. OrderOK(cache)
  <2>1. <<>> \in Seq(Alias) OBVIOUS
  <2> QED BY <1>1, <1>2, <2>1 DEF OrderOK, IsInjective, ToSet
<1>6. IndexOK(cache)
  <2>1. \A s : Indexed(cache, s) = {} BY <1>2 DEF Indexed
  <2> QED BY <1>1, <2>1 DEF IndexOK
<1>7. Cardinality(DOMAIN cache.entries) <= MaxEntries
  <2>1. Cardinality(DOMAIN cache.entries) = 0 BY <1>2, FS_EmptySet
  <2> QED BY <2>1, CacheAssumption
<1>8. bindingSequence \in 0 .. MaxSequence /\ now \in 0 .. MaxTime BY <1>1, Numbers
<1> QED BY <1>3, <1>4, <1>5, <1>6, <1>7, <1>8 DEF CacheInv, CacheOK

(* Every call keeps the copies, the order and the index in agreement. *)
LEMMA CacheStep == CacheInv /\ [CacheNext]_cacheVars => CacheInv'
<1> SUFFICES ASSUME CacheInv, [CacheNext]_cacheVars PROVE CacheInv' OBVIOUS
<1>1. ASSUME NEW x \in Alias, Get(x) PROVE CacheInv'
  BY <1>1, ExpireStep DEF Get
<1>2. ASSUME NEW x \in Alias, GetAndRefresh(x) PROVE CacheInv'
  <2>1. CASE Live(cache.entries[x]) BY <1>2, <2>1, RefreshStep DEF GetAndRefresh
  <2>2. CASE ~Live(cache.entries[x]) BY <1>2, <2>2, ExpireStep DEF GetAndRefresh
  <2> QED BY <2>1, <2>2
<1>3. ASSUME NEW x \in Alias, Invalidate(x) PROVE CacheInv' BY <1>3, InvalidateStep
<1>4. ASSUME NEW x \in Alias, NEW a \in Auth, Touch(x, a) PROVE CacheInv' BY <1>4, RefreshStep DEF Touch
<1>5. ASSUME NEW x \in Alias, NEW a \in Auth, CompareAndDelete(x, a) PROVE CacheInv'
  BY <1>5, InvalidateStep DEF CompareAndDelete
<1>6. ASSUME NEW a \in Auth, NEW keys \in Keys, Preserve(a, keys) PROVE CacheInv'
  <2>1. SetAliases(a, keys, NoBinding) /\ bindingSequence' = bindingSequence /\ UNCHANGED now BY <1>6 DEF Preserve
  <2>2. bindingSequence \in 0 .. MaxSequence /\ bindingSequence >= bindingSequence BY Numbers DEF CacheInv
  <2>3. bindingSequence' \in 0 .. MaxSequence /\ bindingSequence' >= bindingSequence BY <2>1, <2>2
  <2> QED BY <2>1, <2>3, SetStep
<1>7. ASSUME NEW a \in Auth, NEW keys \in Keys, SetSessionAliases(a, keys) PROVE CacheInv'
  <2> DEFINE b == [session |-> SessionOf[keys[1]], provider |-> ProviderOf[a], sequence |-> bindingSequence + 1]
  <2>1. SetAliases(a, keys, b) /\ bindingSequence' = bindingSequence + 1 /\ UNCHANGED now /\ bindingSequence < MaxSequence
    BY <1>7 DEF SetSessionAliases
  <2>2. /\ Dated(b, bindingSequence + 1) /\ b.sequence > bindingSequence
        /\ bindingSequence + 1 \in 0 .. MaxSequence /\ bindingSequence + 1 >= bindingSequence
    BY <2>1, SelectedIs
  <2> HIDE DEF b
  <2>3. /\ Dated(b, bindingSequence') /\ bindingSequence' \in 0 .. MaxSequence /\ bindingSequence' >= bindingSequence
    BY <2>1, <2>2
  <2> QED BY <2>1, <2>2, <2>3, SetStep
<1>8. ASSUME NEW a \in Auth, InvalidateAuth(a) PROVE CacheInv'
  <2>1. {e \in Entries : e.auth = a} \subseteq Entries OBVIOUS
  <2> QED BY <1>8, <2>1, RemoveAllStep DEF InvalidateAuth
<1>9. ASSUME cleanup PROVE CacheInv'
  <2>1. {e \in Entries : ~Live(e)} \subseteq Entries OBVIOUS
  <2> QED BY <1>9, <2>1, RemoveAllStep DEF cleanup
<1>10. ASSUME Tick PROVE CacheInv'
  <2>1. now' \in 0 .. MaxTime BY <1>10, Numbers DEF Tick, CacheInv
  <2> QED BY <1>10, <2>1 DEF Tick, CacheInv
<1>11. ASSUME UNCHANGED cacheVars PROVE CacheInv' BY <1>11 DEF cacheVars, CacheInv
<1> QED BY <1>1, <1>2, <1>3, <1>4, <1>5, <1>6, <1>7, <1>8, <1>9, <1>10, <1>11 DEF CacheNext

(* The invariant says what WellFormed says. *)
LEMMA CacheTyped == CacheInv => CacheTypeOK
<1> SUFFICES ASSUME CacheInv PROVE CacheTypeOK OBVIOUS
<1>1. \A k \in DOMAIN cache.groups : cache.groups[k] \in Entry BY DEF CacheInv, CacheOK, GroupsOK
<1>2. \A x \in DOMAIN cache.entries : cache.entries[x] \in Entry /\ x \in Alias
  <2> SUFFICES ASSUME NEW x \in DOMAIN cache.entries PROVE cache.entries[x] \in Entry /\ x \in Alias OBVIOUS
  <2>1. PICK k \in DOMAIN cache.groups : x \in Al(cache.groups[k]) /\ cache.entries[x] = cache.groups[k]
    BY OwnerIs DEF CacheInv
  <2>2. Al(cache.groups[k]) \subseteq Alias BY <1>1, EntryIs
  <2> QED BY <1>1, <2>1, <2>2
<1>3. DOMAIN cache.groups \subseteq Alias BY DEF CacheInv, CacheOK, GroupsOK
<1>4. cache.order \in Seq(Alias) BY DEF CacheInv, CacheOK, OrderOK
<1>5. cache.index \in [Session \cup {None} -> SUBSET Alias] BY DEF CacheInv, CacheOK, IndexOK
<1> QED BY <1>1, <1>2, <1>3, <1>4, <1>5 DEF CacheInv, CacheTypeOK

LEMMA CacheAgrees == CacheInv => CopiesAgree /\ Evictable
<1> SUFFICES ASSUME CacheInv PROVE CopiesAgree /\ Evictable OBVIOUS
<1>1. CacheOK(cache, bindingSequence) BY DEF CacheInv
<1>2. ASSUME NEW x \in DOMAIN cache.entries
      PROVE  LET e == cache.entries[x]
             IN  Contains(e.aliases, x) /\ e.aliases[1] \in DOMAIN cache.groups /\ cache.groups[e.aliases[1]] = e
  <2>1. PICK k \in DOMAIN cache.groups :
            /\ x \in Al(cache.groups[k]) /\ cache.entries[x] = cache.groups[k]
            /\ cache.entries[x].aliases[1] = k /\ cache.entries[x] \in Entry
    BY <1>1, OwnerIs
  <2>2. cache.groups[k].aliases \in Seq(Alias) BY <2>1, EntryIs, AliasSeqIs
  <2>3. Contains(cache.groups[k].aliases, x) BY <2>1, <2>2, LenProperties DEF Contains, Al, ToSet
  <2> QED BY <2>1, <2>3
<1>3. ASSUME NEW k \in DOMAIN cache.groups
      PROVE  /\ cache.groups[k].aliases[1] = k
             /\ \A x \in ToSet(cache.groups[k].aliases) : x \in DOMAIN cache.entries /\ cache.entries[x] = cache.groups[k]
  BY <1>1 DEF CacheOK, GroupsOK, EntriesOK, Al
<1>4. CopiesAgree BY <1>2, <1>3 DEF CopiesAgree
<1>5. Evictable BY DEF CacheInv, CacheOK, OrderOK, Evictable
<1> QED BY <1>4, <1>5

LEMMA CacheNewest == CacheInv => LatestIsNewest
<1> SUFFICES ASSUME CacheInv, NEW s \in Session, NEW ps \in SUBSET Provider
             PROVE  LET scan == {e \in {cache.entries[x] : x \in DOMAIN cache.entries} :
                                    e.binding.session = s /\ e.binding.provider \in ps /\ Live(e)}
                    IN  /\ LatestSessionAuth(s, ps) =
                              {e.auth : e \in {e \in scan : \A f \in scan : f.binding.sequence <= e.binding.sequence}}
                        /\ Cardinality(LatestSessionAuth(s, ps)) <= 1
  BY DEF LatestIsNewest
<1> DEFINE scan == {e \in {cache.entries[x] : x \in DOMAIN cache.entries} :
                       e.binding.session = s /\ e.binding.provider \in ps /\ Live(e)}
           keys == {k \in cache.index[s] \cap DOMAIN cache.groups :
                       cache.groups[k].binding.provider \in ps /\ Live(cache.groups[k])}
           seen == {cache.groups[k] : k \in keys}
           top == {e \in seen : \A f \in seen : f.binding.sequence <= e.binding.sequence}
<1>1. CacheOK(cache, bindingSequence) /\ bindingSequence \in Nat BY Numbers DEF CacheInv
<1>2. LatestSessionAuth(s, ps) = {e.auth : e \in top} BY DEF LatestSessionAuth
<1>3. s # None BY BindingsAssumption
<1>4. \A k \in DOMAIN cache.groups :
          /\ cache.groups[k] \in Entry /\ k = cache.groups[k].aliases[1]
          /\ Dated(cache.groups[k].binding, bindingSequence)
  BY <1>1 DEF CacheOK, GroupsOK
<1>5. cache.index[s] = {k \in DOMAIN cache.groups :
                           cache.groups[k].binding.sequence # 0 /\ cache.groups[k].binding.session = s}
  BY <1>1 DEF CacheOK, IndexOK, Indexed
<1>6. \A k \in DOMAIN cache.groups : cache.groups[k].binding.session = s => cache.groups[k].binding.sequence # 0
  <2> SUFFICES ASSUME NEW k \in DOMAIN cache.groups, cache.groups[k].binding.session = s
               PROVE  cache.groups[k].binding.sequence # 0
    OBVIOUS
  <2>1. NoBinding.session = None BY DEF NoBinding
  <2>2. cache.groups[k].binding # NoBinding BY <1>3, <2>1
  <2> QED BY <1>1, <1>4, <2>2, DatedIs
<1>7. seen = scan
  <2>1. ASSUME NEW k \in keys PROVE cache.groups[k] \in scan
    <3>1. k \in DOMAIN cache.groups /\ cache.groups[k].binding.session = s BY <1>5
    <3>2. k \in Al(cache.groups[k]) BY <1>4, <3>1, EntryIs
    <3>3. k \in DOMAIN cache.entries /\ cache.entries[k] = cache.groups[k] BY <1>1, <3>1, <3>2 DEF CacheOK, EntriesOK
    <3> QED BY <3>1, <3>3
  <2>2. ASSUME NEW e \in scan PROVE e \in seen
    <3>1. PICK x \in DOMAIN cache.entries : e = cache.entries[x] OBVIOUS
    <3>2. PICK k \in DOMAIN cache.groups : cache.entries[x] = cache.groups[k] BY <1>1, OwnerIs
    <3>3. k \in keys BY <1>5, <1>6, <3>1, <3>2
    <3> QED BY <3>1, <3>2, <3>3
  <2> HIDE DEF scan, keys
  <2> QED BY <2>1, <2>2
<1>8. \A e, f \in seen : e.binding.sequence = f.binding.sequence => e = f
  <2> SUFFICES ASSUME NEW k \in keys, NEW l \in keys,
                      cache.groups[k].binding.sequence = cache.groups[l].binding.sequence
               PROVE  k = l
    OBVIOUS
  <2>1. k \in DOMAIN cache.groups /\ l \in DOMAIN cache.groups /\ cache.groups[k].binding.sequence # 0 BY <1>5
  <2> HIDE DEF keys
  <2> QED BY <1>1, <2>1 DEF CacheOK, GroupsOK
<1>9. \A e \in seen : e.binding.sequence \in Nat
  <2> SUFFICES ASSUME NEW k \in keys PROVE cache.groups[k].binding.sequence \in Nat OBVIOUS
  <2>1. k \in DOMAIN cache.groups OBVIOUS
  <2>2. cache.groups[k].binding.sequence \in 0 .. bindingSequence BY <1>1, <1>4, <2>1, DatedIs
  <2> QED BY <1>1, <2>2
<1>10. \A e, f \in top : e = f
  <2> HIDE DEF seen
  <2> SUFFICES ASSUME NEW e \in top, NEW f \in top PROVE e = f OBVIOUS
  <2>1. e \in seen /\ f \in seen BY DEF top
  <2>2. e.binding.sequence <= f.binding.sequence /\ f.binding.sequence <= e.binding.sequence BY <2>1 DEF top
  <2>3. e.binding.sequence \in Nat /\ f.binding.sequence \in Nat BY <1>9, <2>1
  <2>4. e.binding.sequence = f.binding.sequence BY <2>2, <2>3
  <2> QED BY <1>8, <2>1, <2>4
<1>11. Cardinality({e.auth : e \in top}) <= 1
  <2> HIDE DEF top
  <2>1. CASE top = {}
    <3>1. {e.auth : e \in top} = {} BY <2>1
    <3>2. Cardinality({e.auth : e \in top}) = 0 BY <3>1, FS_EmptySet
    <3> QED BY <3>2
  <2>2. CASE top # {}
    <3>1. PICK e \in top : TRUE BY <2>2
    <3>2. {f.auth : f \in top} = {e.auth} BY <1>10, <3>1
    <3>3. Cardinality({f.auth : f \in top}) = 1 BY <3>2, FS_Singleton
    <3> QED BY <3>3
  <2> QED BY <2>1, <2>2
<1>12. LatestSessionAuth(s, ps) = {e.auth : e \in {e \in scan : \A f \in scan : f.binding.sequence <= e.binding.sequence}}
  <2>1. top = {e \in scan : \A f \in scan : f.binding.sequence <= e.binding.sequence}
    <3> HIDE DEF seen, scan
    <3> QED BY <1>7
  <2> HIDE DEF top
  <2> QED BY <1>2, <2>1
<1> HIDE DEF top, scan
<1>13. Cardinality(LatestSessionAuth(s, ps)) <= 1 BY <1>2, <1>11
<1> QED BY <1>12, <1>13 DEF scan

(* Whatever sequence of calls, expiries and evictions: every copy is its group's, eviction finds every group     *)
(* once and keeps the cache within its bound, and the index of a session leads to its newest selection.          *)
THEOREM CacheCorrect == CacheSpec => []WellFormed
<1>1. CacheInv => WellFormed BY CacheTyped, CacheAgrees, CacheNewest DEF WellFormed
<1> QED BY <1>1, CacheInit, CacheStep, PTL DEF CacheSpec

-----------------------------------------------------------------------------
(* The cache implements SessionBindings. *)

(* A group as the session that it is. *)
Sess(g) == [aliases |-> Al(g), auth |-> g.auth, binding |-> g.binding]

Lives(c, t) == {k \in DOMAIN c.groups : t < c.groups[k].expires}

(* The operators that the two modules share mean the same in both. *)
LEMMA SharedAre ==
    /\ \A G : Bindings!Latest(G) = Latest(G)
    /\ Bindings!Keys = Keys
<1>1. Bindings!NoBinding = NoBinding BY DEF Bindings!NoBinding, NoBinding
<1>2. \A G : Bindings!Latest(G) = Latest(G) BY <1>1 DEF Bindings!Latest, Latest
<1>3. Bindings!Keys = Keys BY DEF Bindings!Keys, Keys
<1> QED BY <1>2, <1>3

LEMMA SessionsAre ==
    /\ Sessions = {Sess(cache.groups[k]) : k \in Lives(cache, now)}
    /\ Sessions' = {Sess(cache'.groups[k]) : k \in Lives(cache', now')}
    /\ \A k \in DOMAIN cache.groups : k \in Lives(cache, now) <=> Live(cache.groups[k])
  BY DEF Sessions, Sess, Lives, Live, Al

(* Fewer live groups, unchanged: sessions are forgotten, or nothing happens. *)
LEMMA ForgetStep ==
    ASSUME \A k \in Lives(cache', now') : k \in Lives(cache, now) /\ cache'.groups[k] = cache.groups[k],
           UNCHANGED bindingSequence
    PROVE  [Bindings!AbsNext]_<<Sessions, bindingSequence>>
<1>1. Sessions' \subseteq Sessions BY SessionsAre
<1>2. CASE Sessions' = Sessions BY <1>2
<1>3. CASE Sessions' # Sessions
  <2>1. Sessions' \in SUBSET Sessions BY <1>1
  <2>2. Bindings!Forget BY <1>3, <2>1 DEF Bindings!Forget
  <2> QED BY <2>2 DEF Bindings!AbsNext
<1> QED BY <1>2, <1>3

LEMMA DroppedIs ==
    ASSUME NEW K, Dropped(cache, cache', K), UNCHANGED <<bindingSequence, now>>
    PROVE  [Bindings!AbsNext]_<<Sessions, bindingSequence>>
<1>1. \A k \in Lives(cache', now') : k \in Lives(cache, now) /\ cache'.groups[k] = cache.groups[k]
  BY DEF Dropped, Lives
<1> QED BY <1>1, ForgetStep

(* What a call puts in place of the live groups that it merges. *)
LEMMA PutIs ==
    ASSUME NEW e \in Entry, NEW D \in SUBSET (DOMAIN cache.groups), NEW keys,
           \A k \in D : Live(cache.groups[k]) => Al(cache.groups[k]) \cap ToSet(keys) = {},
           e.aliases[1] \notin D, DOMAIN cache'.groups = D \cup {e.aliases[1]}, cache'.groups[e.aliases[1]] = e,
           \A k \in D : cache'.groups[k] = cache.groups[k],
           UNCHANGED now, now < e.expires, keys[1] \in Al(e),
           Al(e) \subseteq ToSet(keys) \cup UNION {Al(cache.groups[k]) : k \in Touches(ToSet(keys))}
    PROVE  /\ Bindings!Put(e.auth, keys, e.binding)
           /\ Bindings!Touched(ToSet(keys)) = {Sess(cache.groups[k]) : k \in Touches(ToSet(keys))}
<1> DEFINE key == e.aliases[1]
           N == ToSet(keys)
           merged == Touches(N)
           Kept == {Sess(cache.groups[k]) : k \in D \cap Lives(cache, now)}
           T == {Sess(cache.groups[k]) : k \in merged}
<1>0. merged = {k \in DOMAIN cache.groups : Live(cache.groups[k]) /\ Al(cache.groups[k]) \cap N # {}} BY DEF Touches
<1> HIDE DEF N, merged
<1>1. Bindings!Touched(N) = T
  <2>1. Bindings!Touched(N) = {g \in Sessions : g.aliases \cap N # {}} BY DEF Bindings!Touched
  <2>2. \A k : Sess(cache.groups[k]).aliases = Al(cache.groups[k]) BY DEF Sess
  <2>3. ASSUME NEW g \in Bindings!Touched(N) PROVE g \in T
    <3>1. PICK k \in Lives(cache, now) : g = Sess(cache.groups[k]) BY <2>1, SessionsAre
    <3>2. k \in merged BY <1>0, <2>1, <2>2, <3>1, SessionsAre DEF Lives
    <3> QED BY <3>1, <3>2
  <2>4. ASSUME NEW k \in merged PROVE Sess(cache.groups[k]) \in Bindings!Touched(N)
    <3>1. k \in Lives(cache, now) BY <1>0, SessionsAre
    <3>2. Sess(cache.groups[k]) \in Sessions BY <3>1, SessionsAre
    <3> QED BY <1>0, <2>1, <2>2, <3>2
  <2> HIDE DEF T
  <2> QED BY <2>3, <2>4 DEF T
<1>2. Kept \in SUBSET (Sessions \ T)
  <2> SUFFICES ASSUME NEW k \in D, k \in Lives(cache, now)
               PROVE  Sess(cache.groups[k]) \in Sessions /\ Sess(cache.groups[k]) \notin T
    OBVIOUS
  <2>1. Sess(cache.groups[k]) \in Sessions BY SessionsAre
  <2>2. Al(cache.groups[k]) \cap N = {} BY SessionsAre DEF N
  <2>3. \A g \in T : g.aliases \cap N # {} BY <1>0 DEF Sess
  <2>4. Sess(cache.groups[k]).aliases = Al(cache.groups[k]) BY DEF Sess
  <2> HIDE DEF T
  <2> QED BY <2>1, <2>2, <2>3, <2>4
<1>3. Al(e) \in SUBSET (N \cup UNION {g.aliases : g \in T})
  <2>1. ASSUME NEW x \in Al(e), x \notin N PROVE x \in UNION {g.aliases : g \in T}
    <3>1. PICK k \in merged : x \in Al(cache.groups[k]) BY <2>1 DEF N, merged
    <3>2. Sess(cache.groups[k]) \in T /\ x \in Sess(cache.groups[k]).aliases BY <3>1 DEF Sess
    <3> HIDE DEF T
    <3> QED BY <3>2
  <2> HIDE DEF T
  <2> QED BY <2>1
<1>4. Sessions' = Kept \cup {[aliases |-> Al(e), auth |-> e.auth, binding |-> e.binding]}
  <2>1. Lives(cache', now') = (D \cap Lives(cache, now)) \cup {key} BY DEF Lives
  <2>2. \A k \in D : Sess(cache'.groups[k]) = Sess(cache.groups[k]) OBVIOUS
  <2>3. Sess(cache'.groups[key]) = [aliases |-> Al(e), auth |-> e.auth, binding |-> e.binding] BY DEF Sess
  <2>4. Sessions' = {Sess(cache'.groups[k]) : k \in (D \cap Lives(cache, now)) \cup {key}} BY <2>1, SessionsAre
  <2> HIDE DEF key
  <2> QED BY <2>2, <2>3, <2>4
<1> HIDE DEF Kept, T
<1>5. Bindings!Put(e.auth, keys, e.binding)
  <2>1. keys[1] \in Al(e) OBVIOUS
  <2>2. Bindings!Put(e.auth, keys, e.binding) <=>
           \E kept \in SUBSET (Sessions \ Bindings!Touched(N)) :
           \E known \in SUBSET (N \cup UNION {g.aliases : g \in Bindings!Touched(N)}) :
               /\ keys[1] \in known
               /\ Sessions' = kept \cup {[aliases |-> known, auth |-> e.auth, binding |-> e.binding]}
    BY DEF Bindings!Put, N, ToSet
  <2>3. Kept \in SUBSET (Sessions \ Bindings!Touched(N)) BY <1>1, <1>2
  <2>4. Al(e) \in SUBSET (N \cup UNION {g.aliases : g \in Bindings!Touched(N)}) BY <1>1, <1>3
  <2> QED BY <1>4, <2>1, <2>2, <2>3, <2>4
<1> QED BY <1>1, <1>5 DEF T, N, merged

(* Of two sets of the same selections the newest is the same. *)
LEMMA LatestSame ==
    ASSUME CacheInv, NEW M \in SUBSET (DOMAIN cache.groups)
    PROVE  Latest({Sess(cache.groups[k]) : k \in M}) = Latest(GroupsAt(cache, M))
<1> DEFINE G == {Sess(cache.groups[k]) : k \in M}
           H == GroupsAt(cache, M)
           n == bindingSequence
<1>1. n \in Nat /\ GroupsOK(cache, n) BY Numbers DEF CacheInv, CacheOK
<1>2. \A k \in M : Dated(cache.groups[k].binding, n) /\ Sess(cache.groups[k]).binding = cache.groups[k].binding
  BY <1>1 DEF GroupsOK, Sess
<1>3. \A g \in G : \E k \in M : g.binding = cache.groups[k].binding BY <1>2
<1>4. \A h \in H : \E k \in M : h.binding = cache.groups[k].binding BY DEF GroupsAt
<1>5. (\A k \in M : Sess(cache.groups[k]) \in G /\ cache.groups[k] \in H) /\ (M = {} => G = {} /\ H = {})
  BY DEF GroupsAt
<1>6. ASSUME NEW k \in M, NEW l \in M, cache.groups[k].binding.sequence = cache.groups[l].binding.sequence
      PROVE  cache.groups[k].binding = cache.groups[l].binding
  <2>1. CASE cache.groups[k].binding.sequence = 0
    <3>1. cache.groups[k].binding = NoBinding BY <1>1, <1>2, <2>1, DatedIs
    <3>2. cache.groups[l].binding.sequence = 0 BY <1>6, <2>1
    <3>3. cache.groups[l].binding = NoBinding BY <1>1, <1>2, <3>2, DatedIs
    <3> QED BY <3>1, <3>3
  <2>2. CASE cache.groups[k].binding.sequence # 0
    <3>1. k = l BY <1>1, <1>6, <2>2 DEF GroupsOK
    <3> QED BY <3>1
  <2> QED BY <2>1, <2>2
<1>7. \A k \in M : cache.groups[k].binding.sequence \in Nat
  <2> SUFFICES ASSUME NEW k \in M PROVE cache.groups[k].binding.sequence \in Nat OBVIOUS
  <2>1. cache.groups[k].binding.sequence \in 0 .. n BY <1>1, <1>2, DatedIs
  <2> QED BY <1>1, <2>1
<1> HIDE DEF G, H, n
<1>8. CASE M = {}
  <2>1. G = {} /\ H = {} BY <1>5, <1>8
  <2> QED BY <2>1 DEF G, H
<1>9. CASE M # {}
  <2>1. G # {} /\ H # {} BY <1>5, <1>9
  <2>2. \A g \in G : Dated(g.binding, n) BY <1>2, <1>3
  <2>3. \A h \in H : Dated(h.binding, n) BY <1>2, <1>4
  <2>4. PICK g \in G : Latest(G) = g.binding /\ \A f \in G : f.binding.sequence <= g.binding.sequence
    BY <1>1, <2>1, <2>2, LatestIs
  <2>5. PICK h \in H : Latest(H) = h.binding /\ \A f \in H : f.binding.sequence <= h.binding.sequence
    BY <1>1, <2>1, <2>3, LatestIs
  <2>6. PICK k \in M : g.binding = cache.groups[k].binding BY <1>3
  <2>7. PICK l \in M : h.binding = cache.groups[l].binding BY <1>4
  <2>8. /\ cache.groups[l].binding.sequence <= cache.groups[k].binding.sequence
        /\ cache.groups[k].binding.sequence <= cache.groups[l].binding.sequence
    BY <1>2, <1>5, <2>4, <2>5, <2>6, <2>7
  <2>9. cache.groups[k].binding.sequence = cache.groups[l].binding.sequence BY <1>7, <2>8
  <2>10. cache.groups[k].binding = cache.groups[l].binding BY <1>6, <2>9
  <2> QED BY <2>4, <2>5, <2>6, <2>7, <2>10 DEF G, H
<1> QED BY <1>8, <1>9

LEMMA RefreshImplements ==
    ASSUME CacheInv, NEW x \in Alias, NEW k \in DOMAIN cache.groups, NEW e \in Entry,
           Live(cache.groups[k]), Replaced(cache, cache', e, {k}), now < e.expires,
           x \in Al(cache.groups[k]), x \in Al(e), Al(e) \subseteq Al(cache.groups[k]),
           e.auth = cache.groups[k].auth, e.binding = cache.groups[k].binding,
           UNCHANGED <<bindingSequence, now>>
    PROVE  [Bindings!AbsNext]_<<Sessions, bindingSequence>>
<1> DEFINE keys == <<x>>
           N == ToSet(keys)
           merged == Touches(N)
<1>1. N = {x} /\ keys[1] = x /\ keys \in Keys BY DEF Keys, ToSet
<1>2. GroupsOK(cache, bindingSequence) /\ cache.groups[k] \in Entry BY DEF CacheInv, CacheOK, GroupsOK
<1>3. merged = {k}
  <2>1. \A l \in DOMAIN cache.groups : l # k => x \notin Al(cache.groups[l]) BY <1>2 DEF GroupsOK
  <2> QED BY <1>1, <2>1 DEF Touches
<1> HIDE DEF keys, N, merged
<1>4. PICK D \in SUBSET (DOMAIN cache.groups \ {k}) :
          /\ e.aliases[1] \notin D
          /\ DOMAIN cache'.groups = D \cup {e.aliases[1]}
          /\ cache'.groups[e.aliases[1]] = e
          /\ \A l \in D : cache'.groups[l] = cache.groups[l]
  BY DEF Replaced
<1>5. \A l \in D : Live(cache.groups[l]) => Al(cache.groups[l]) \cap N = {} BY <1>3 DEF merged, Touches
<1>6. Al(e) \subseteq N \cup UNION {Al(cache.groups[l]) : l \in merged} BY <1>3
<1>7. D \in SUBSET (DOMAIN cache.groups) /\ keys[1] \in Al(e) BY <1>1
<1>8. /\ Bindings!Put(e.auth, keys, e.binding)
      /\ Bindings!Touched(N) = {Sess(cache.groups[l]) : l \in merged}
  <2>1. UNCHANGED now OBVIOUS
  <2> QED BY <1>4, <1>5, <1>6, <1>7, <2>1, PutIs DEF N, merged
<1>9. Latest(Bindings!Touched(N)) = e.binding
  <2>1. Latest(Bindings!Touched(N)) = Latest(GroupsAt(cache, {k})) BY <1>3, <1>8, LatestSame
  <2>2. GroupsAt(cache, {k}) = {cache.groups[k]} BY DEF GroupsAt
  <2>3. bindingSequence \in Nat /\ Dated(cache.groups[k].binding, bindingSequence)
    BY <1>2, Numbers DEF CacheInv, GroupsOK
  <2>4. Latest({cache.groups[k]}) = cache.groups[k].binding BY <2>3, LatestIs
  <2> QED BY <2>1, <2>2, <2>4
<1>10. Bindings!Rebind(e.auth, keys)
  <2>1. Bindings!Rebind(e.auth, keys) <=> UNCHANGED bindingSequence /\ Bindings!Put(e.auth, keys, Latest(Bindings!Touched(N)))
    BY SharedAre DEF Bindings!Rebind, N, ToSet
  <2> QED BY <1>8, <1>9, <2>1
<1>11. e.auth \in Auth BY EntryIs
<1> QED BY <1>1, <1>10, <1>11, SharedAre DEF Bindings!AbsNext

LEMMA SetImplements ==
    ASSUME CacheInv, NEW a \in Auth, NEW keys \in Keys, NEW b, SetAliases(a, keys, b), UNCHANGED now,
           bindingSequence' \in 0 .. MaxSequence, bindingSequence' >= bindingSequence,
           \/ b = NoBinding
           \/ Dated(b, bindingSequence') /\ b.sequence > bindingSequence
    PROVE  Bindings!Put(a, keys, IF b = NoBinding THEN Latest(Bindings!Touched(ToSet(keys))) ELSE b)
<1> DEFINE N == ToSet(keys)
           merged == Touches(N)
<1>2. PICK e \in Entry, D \in SUBSET (DOMAIN cache.groups) :
          /\ \A k \in D : Al(cache.groups[k]) \cap N = {}
          /\ e.aliases[1] \notin D
          /\ DOMAIN cache'.groups = D \cup {e.aliases[1]}
          /\ cache'.groups[e.aliases[1]] = e
          /\ \A k \in D : cache'.groups[k] = cache.groups[k]
          /\ e.auth = a /\ now < e.expires
          /\ e.binding = IF b = NoBinding THEN Latest(GroupsAt(cache, merged)) ELSE b
          /\ keys[1] \in Al(e)
          /\ Al(e) \subseteq N \cup UNION {Al(cache.groups[k]) : k \in merged}
  BY SetStep
<1> HIDE DEF N, merged
<1>3. /\ Bindings!Put(e.auth, keys, e.binding)
      /\ Bindings!Touched(N) = {Sess(cache.groups[k]) : k \in merged}
  <2>1. UNCHANGED now OBVIOUS
  <2>2. \A k \in D : Live(cache.groups[k]) => Al(cache.groups[k]) \cap N = {} BY <1>2
  <2> QED BY <1>2, <2>1, <2>2, PutIs DEF N, merged
<1>4. merged \in SUBSET (DOMAIN cache.groups) BY DEF merged, Touches
<1>5. Latest(Bindings!Touched(N)) = Latest(GroupsAt(cache, merged)) BY <1>3, <1>4, LatestSame
<1> QED BY <1>2, <1>3, <1>5 DEF N

(* An alias is unbound: its session goes on under the others, if it is live and there are others. *)
LEMMA InvalidateImplements ==
    ASSUME CacheInv, NEW x \in Alias, Invalidate(x)
    PROVE  [Bindings!AbsNext]_<<Sessions, bindingSequence>>
<1>1. UNCHANGED <<bindingSequence, now>> BY DEF Invalidate
<1>2. PICK k \in DOMAIN cache.groups :
          /\ x \in Al(cache.groups[k])
          /\ \/ Al(cache.groups[k]) = {x} /\ Dropped(cache, cache', {k})
             \/ \E e \in Entry :
                   /\ Al(cache.groups[k]) # {x} /\ Al(e) = Al(cache.groups[k]) \ {x}
                   /\ e.auth = cache.groups[k].auth /\ e.binding = cache.groups[k].binding
                   /\ e.expires = cache.groups[k].expires
                   /\ e.aliases[1] \notin DOMAIN cache.groups \ {k}
                   /\ DOMAIN cache'.groups = (DOMAIN cache.groups \ {k}) \cup {e.aliases[1]}
                   /\ cache'.groups[e.aliases[1]] = e
                   /\ \A l \in DOMAIN cache.groups \ {k} : cache'.groups[l] = cache.groups[l]
  BY InvalidateStep
<1> DEFINE g == cache.groups[k]
           Rest == DOMAIN cache.groups \ {k}
           Others == {Sess(cache.groups[l]) : l \in Rest \cap Lives(cache, now)}
<1>3. \A l \in Rest : x \notin Al(cache.groups[l])
  <2>1. GroupsOK(cache, bindingSequence) BY DEF CacheInv, CacheOK
  <2> QED BY <1>2, <2>1 DEF GroupsOK
<1>4. CASE Dropped(cache, cache', {k}) BY <1>1, <1>4, DroppedIs
<1>5. ASSUME NEW e \in Entry, Al(g) # {x}, Al(e) = Al(g) \ {x}, e.auth = g.auth, e.binding = g.binding, e.expires = g.expires,
             e.aliases[1] \notin Rest, DOMAIN cache'.groups = Rest \cup {e.aliases[1]}, cache'.groups[e.aliases[1]] = e,
             \A l \in Rest : cache'.groups[l] = cache.groups[l]
      PROVE  [Bindings!AbsNext]_<<Sessions, bindingSequence>>
  <2> DEFINE key == e.aliases[1]
  <2>1. \A l \in Rest : l \in Lives(cache', now') <=> l \in Lives(cache, now) BY <1>1, <1>5 DEF Lives
  <2>2. key \in Lives(cache', now') <=> k \in Lives(cache, now) BY <1>1, <1>5 DEF Lives
  <2>3. Lives(cache', now') \subseteq Rest \cup {key} /\ Lives(cache, now) \subseteq Rest \cup {k} BY <1>5 DEF Lives
  <2>4. \A l \in Rest : Sess(cache'.groups[l]) = Sess(cache.groups[l]) BY <1>5
  <2>5. Sess(cache'.groups[key]) = Sess(e) BY <1>5
  <2> HIDE DEF key, Rest, g
  <2>6. CASE k \notin Lives(cache, now)
    <3>1. Lives(cache', now') = Rest \cap Lives(cache, now) /\ Lives(cache, now) = Rest \cap Lives(cache, now)
      <4>1. key \notin Lives(cache', now') BY <2>2, <2>6
      <4> QED BY <2>1, <2>3, <2>6, <4>1
    <3>2. Sessions' = {Sess(cache'.groups[l]) : l \in Rest \cap Lives(cache, now)} BY <3>1, SessionsAre
    <3>3. Sessions = Others BY <3>1, SessionsAre
    <3>4. Sessions' = Sessions BY <2>4, <3>2, <3>3
    <3> QED BY <1>1, <3>4
  <2>7. CASE k \in Lives(cache, now)
    <3>1. Lives(cache, now) = (Rest \cap Lives(cache, now)) \cup {k} BY <2>3, <2>7
    <3>2. Lives(cache', now') = (Rest \cap Lives(cache, now)) \cup {key} BY <2>1, <2>2, <2>3, <2>7
    <3>3. Sessions = Others \cup {Sess(g)} BY <3>1, SessionsAre DEF g
    <3>4. Sessions' = Others \cup {Sess(e)}
      <4>1. Sessions' = {Sess(cache'.groups[l]) : l \in (Rest \cap Lives(cache, now)) \cup {key}} BY <3>2, SessionsAre
      <4> QED BY <2>4, <2>5, <4>1
    <3>5. \A f \in Others : x \notin f.aliases BY <1>3 DEF Sess
    <3>6. x \in Sess(g).aliases BY <1>2 DEF Sess, g
    <3> HIDE DEF Others
    <3>7. Bindings!Touched({x}) = {Sess(g)}
      <4>1. Bindings!Touched({x}) = {f \in Sessions : f.aliases \cap {x} # {}} BY DEF Bindings!Touched
      <4> QED BY <3>3, <3>5, <3>6, <4>1
    <3>8. Sess(g) \notin Others BY <3>5, <3>6
    <3>9. Sessions \ {Sess(g)} = Others BY <3>3, <3>8
    <3>10. [Sess(g) EXCEPT !.aliases = @ \ {x}] = Sess(e) /\ Sess(g).aliases # {x}
      <4>1. Al(e) = Al(g) \ {x} /\ e.auth = g.auth /\ e.binding = g.binding /\ Al(g) # {x} BY <1>5 DEF g
      <4>2. Sess(g).aliases = Al(g) BY DEF Sess
      <4>3. [Sess(g) EXCEPT !.aliases = @ \ {x}] = [aliases |-> Al(g) \ {x}, auth |-> g.auth, binding |-> g.binding]
        BY DEF Sess
      <4>4. Sess(e) = [aliases |-> Al(g) \ {x}, auth |-> g.auth, binding |-> g.binding] BY <4>1 DEF Sess
      <4> QED BY <4>1, <4>2, <4>3, <4>4
    <3>11. {h \in {Sess(g)} : h.aliases # {x}} = {Sess(g)} BY <3>10
    <3>12. {[f EXCEPT !.aliases = @ \ {x}] : f \in {h \in {Sess(g)} : h.aliases # {x}}} = {Sess(e)} BY <3>10, <3>11
    <3>13. Bindings!Unbind(x)
      <4>1. Bindings!Unbind(x) <=>
                /\ Bindings!Touched({x}) # {}
                /\ Sessions' = (Sessions \ Bindings!Touched({x})) \cup
                       {[f EXCEPT !.aliases = @ \ {x}] : f \in {h \in Bindings!Touched({x}) : h.aliases # {x}}}
                /\ UNCHANGED bindingSequence
        BY DEF Bindings!Unbind
      <4> QED BY <1>1, <3>4, <3>7, <3>9, <3>12, <4>1
    <3> QED BY <3>13 DEF Bindings!AbsNext
  <2> QED BY <2>6, <2>7
<1> QED BY <1>2, <1>4, <1>5

LEMMA CacheStepImplements ==
    CacheInv /\ [CacheNext]_cacheVars => [Bindings!AbsNext]_<<Sessions, bindingSequence>>
<1> DEFINE Abs == [Bindings!AbsNext]_<<Sessions, bindingSequence>>
<1> SUFFICES ASSUME CacheInv, [CacheNext]_cacheVars PROVE Abs OBVIOUS
<1>1. ASSUME NEW x \in Alias, Get(x) PROVE Abs
  <2>1. UNCHANGED <<bindingSequence, now>> BY <1>1 DEF Get
  <2>2. PICK K : Dropped(cache, cache', K) BY <1>1, ExpireStep DEF Get
  <2> QED BY <2>1, <2>2, DroppedIs
<1>2. ASSUME NEW x \in Alias, Known(x), Live(cache.entries[x]), UNCHANGED <<bindingSequence, now>>,
             cache' = ReplaceGroups(cache, [cache.entries[x] EXCEPT !.expires = now + TTL,
                                                                    !.aliases = Fronted(x, cache.entries[x])],
                                    {cache.entries[x]})
      PROVE  Abs
  <2>1. PICK k \in DOMAIN cache.groups, e \in Entry :
            /\ Live(cache.groups[k]) /\ Replaced(cache, cache', e, {k}) /\ now < e.expires
            /\ x \in Al(cache.groups[k]) /\ x \in Al(e) /\ Al(e) \subseteq Al(cache.groups[k])
            /\ e.auth = cache.groups[k].auth /\ e.binding = cache.groups[k].binding
    BY <1>2, RefreshStep
  <2> QED BY <1>2, <2>1, RefreshImplements
<1>3. ASSUME NEW x \in Alias, GetAndRefresh(x) PROVE Abs
  <2>1. Known(x) /\ UNCHANGED <<bindingSequence, now>> BY <1>3 DEF GetAndRefresh
  <2>2. CASE Live(cache.entries[x]) BY <1>2, <1>3, <2>1, <2>2 DEF GetAndRefresh
  <2>3. CASE ~Live(cache.entries[x])
    <3>1. PICK K : Dropped(cache, cache', K) BY <1>3, <2>1, <2>3, ExpireStep DEF GetAndRefresh
    <3> QED BY <2>1, <3>1, DroppedIs
  <2> QED BY <2>2, <2>3
<1>4. ASSUME NEW x \in Alias, Invalidate(x) PROVE Abs BY <1>4, InvalidateImplements
<1>5. ASSUME NEW x \in Alias, NEW a \in Auth, Touch(x, a) PROVE Abs BY <1>2, <1>5 DEF Touch
<1>6. ASSUME NEW x \in Alias, NEW a \in Auth, CompareAndDelete(x, a) PROVE Abs
  BY <1>4, <1>6 DEF CompareAndDelete
<1>7. ASSUME NEW a \in Auth, NEW keys \in Keys, Preserve(a, keys) PROVE Abs
  <2>1. SetAliases(a, keys, NoBinding) /\ bindingSequence' = bindingSequence /\ UNCHANGED now BY <1>7 DEF Preserve
  <2>2. bindingSequence \in 0 .. MaxSequence /\ bindingSequence >= bindingSequence BY Numbers DEF CacheInv
  <2>3. bindingSequence' \in 0 .. MaxSequence /\ bindingSequence' >= bindingSequence BY <2>1, <2>2
  <2>4. Bindings!Put(a, keys, Latest(Bindings!Touched(ToSet(keys)))) BY <2>1, <2>3, SetImplements
  <2>5. Bindings!Rebind(a, keys) BY <2>1, <2>4, SharedAre DEF Bindings!Rebind, ToSet
  <2> QED BY <2>5, SharedAre DEF Bindings!AbsNext
<1>8. ASSUME NEW a \in Auth, NEW keys \in Keys, SetSessionAliases(a, keys) PROVE Abs
  <2> DEFINE b == [session |-> SessionOf[keys[1]], provider |-> ProviderOf[a], sequence |-> bindingSequence + 1]
  <2>1. SetAliases(a, keys, b) /\ bindingSequence' = bindingSequence + 1 /\ UNCHANGED now /\ bindingSequence < MaxSequence
    BY <1>8 DEF SetSessionAliases
  <2>2. /\ Dated(b, bindingSequence + 1) /\ b.sequence > bindingSequence /\ b # NoBinding
        /\ bindingSequence + 1 \in 0 .. MaxSequence /\ bindingSequence + 1 >= bindingSequence
    BY <2>1, SelectedIs
  <2>3. Bindings!Select(a, keys) <=>
            bindingSequence < MaxSequence /\ bindingSequence' = bindingSequence + 1 /\ Bindings!Put(a, keys, b)
    BY DEF Bindings!Select
  <2> HIDE DEF b
  <2>4. Dated(b, bindingSequence') /\ bindingSequence' \in 0 .. MaxSequence /\ bindingSequence' >= bindingSequence
    BY <2>1, <2>2
  <2>5. Bindings!Put(a, keys, b) BY <2>1, <2>2, <2>4, SetImplements
  <2>6. Bindings!Select(a, keys) BY <2>1, <2>3, <2>5
  <2> QED BY <2>6, SharedAre DEF Bindings!AbsNext
<1>9. ASSUME NEW gone, gone \subseteq Entries, RemoveAll(gone) PROVE Abs
  <2>1. UNCHANGED <<bindingSequence, now>> BY <1>9 DEF RemoveAll
  <2>2. PICK K : Dropped(cache, cache', K) BY <1>9, RemoveAllStep
  <2> QED BY <2>1, <2>2, DroppedIs
<1>10. ASSUME NEW a \in Auth, InvalidateAuth(a) PROVE Abs
  <2>1. {e \in Entries : e.auth = a} \subseteq Entries OBVIOUS
  <2> QED BY <1>9, <1>10, <2>1 DEF InvalidateAuth
<1>11. ASSUME cleanup PROVE Abs
  <2>1. {e \in Entries : ~Live(e)} \subseteq Entries OBVIOUS
  <2> QED BY <1>9, <1>11, <2>1 DEF cleanup
<1>12. ASSUME Tick PROVE Abs
  <2>1. UNCHANGED <<cache, bindingSequence>> /\ now' = now + 1 /\ now \in Nat BY <1>12, Numbers DEF Tick, CacheInv
  <2>2. \A k \in Lives(cache', now') : k \in Lives(cache, now) /\ cache'.groups[k] = cache.groups[k]
    <3> SUFFICES ASSUME NEW k \in DOMAIN cache.groups, now + 1 < cache.groups[k].expires PROVE now < cache.groups[k].expires
      BY <2>1 DEF Lives
    <3>1. cache.groups[k] \in Entry BY DEF CacheInv, CacheOK, GroupsOK
    <3>2. cache.groups[k].expires \in Nat BY <3>1, EntryIs
    <3> QED BY <2>1, <3>2
  <2> QED BY <2>1, <2>2, ForgetStep
<1>13. ASSUME UNCHANGED cacheVars PROVE Abs
  <2>1. UNCHANGED <<cache, bindingSequence, now>> BY <1>13 DEF cacheVars
  <2>2. \A k \in Lives(cache', now') : k \in Lives(cache, now) /\ cache'.groups[k] = cache.groups[k] BY <2>1 DEF Lives
  <2> QED BY <2>1, <2>2, ForgetStep
<1> HIDE DEF Abs
<1> QED BY <1>1, <1>3, <1>4, <1>5, <1>6, <1>7, <1>8, <1>10, <1>11, <1>12, <1>13 DEF CacheNext

(* Every behaviour of the cache is one of SessionBindings: refreshes change no binding, an alias that was unbound *)
(* is not brought back, what was just bound survives the eviction it caused, and expiry and eviction drop whole    *)
(* sessions only.                                                                                                  *)
THEOREM CacheImplements == CacheSpec => Implements
<1>1. Init => Bindings!AbsInit
  <2> SUFFICES ASSUME Init PROVE Bindings!AbsInit OBVIOUS
  <2>1. cache.groups = <<>> /\ bindingSequence = 0 BY DEF Init
  <2>2. DOMAIN cache.groups = {} BY <2>1
  <2>3. Sessions = {} BY <2>2 DEF Sessions
  <2> QED BY <2>1, <2>3 DEF Bindings!AbsInit
<1>2. CacheInv /\ [CacheNext]_cacheVars => [Bindings!AbsNext]_Bindings!absVars
  BY CacheStepImplements DEF Bindings!absVars
<1>3. CacheSpec => []CacheInv BY CacheInit, CacheStep, PTL DEF CacheSpec
<1> QED BY <1>1, <1>2, <1>3, PTL DEF CacheSpec, Implements, Bindings!AbsSpec

=============================================================================
