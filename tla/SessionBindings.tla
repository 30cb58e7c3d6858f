--------------------------- MODULE SessionBindings ---------------------------
(***************************************************************************)
(* What the session cache promises to the selector that uses it            *)
(* (sdk/cliproxy/auth/session_cache.go): a set of logical sessions, each   *)
(* known under one or more aliases and bound to one credential.  Expiry,   *)
(* eviction, the two maps, the index and the eviction list do not appear:  *)
(* a session that expires or is evicted is simply forgotten.               *)
(* SessionCache implements this module; SessionAffinity runs on it.        *)
(***************************************************************************)
EXTENDS SessionKeys

VARIABLES sessions,     \* the bound logical sessions
          sequence      \* bindingSequence: recorded selections so far

absVars == <<sessions, sequence>>

Group == [aliases : (SUBSET Alias) \ {{}}, auth : Auth, binding : Binding]

(* The sessions known under one of the aliases in S: at most one per alias. *)
Touched(S) == {g \in sessions : g.aliases \cap S # {}}

-----------------------------------------------------------------------------
AbsInit == sessions = {} /\ sequence = 0

(* Mutant: sessions whose aliases are taken over stay known under them. *)
PutBeside(a, keys, binding) ==
    \E kept \in SUBSET sessions :
        sessions' = kept \cup {[aliases |-> {keys[i] : i \in DOMAIN keys},
                               auth |-> a, binding |-> binding]}

(* The sessions that a key of the call names become one, bound to a.  It    *)
(* keeps the first key; other aliases may be dropped to bound the group,    *)
(* and other sessions may be forgotten to bound the cache.                  *)
Put(a, keys, binding) ==
    LET named  == {keys[i] : i \in DOMAIN keys}
        merged == Touched(named)
    IN  \E kept \in SUBSET (sessions \ merged) :
        \E known \in SUBSET (named \cup UNION {g.aliases : g \in merged}) :
            /\ keys[1] \in known
            /\ sessions' = kept \cup
                   {[aliases |-> known, auth |-> a, binding |-> binding]}

(* setSessionAliases: a real selection, newer than every earlier one. *)
Select(a, keys) ==
    /\ sequence < MaxSequence
    /\ sequence' = sequence + 1
    /\ Put(a, keys, [session  |-> SessionOf[keys[1]],
                     provider |-> ProviderOf[a],
                     sequence |-> sequence + 1])

(* SetAliases: no new selection; the newest of the merged ones is kept. *)
Rebind(a, keys) ==
    /\ UNCHANGED sequence
    /\ Put(a, keys, Latest(Touched({keys[i] : i \in DOMAIN keys})))

(* Invalidate and CompareAndDelete: only the named alias is unbound. *)
Unbind(x) ==
    /\ Touched({x}) # {}
    /\ sessions' =
           (sessions \ Touched({x})) \cup
           {[g EXCEPT !.aliases = @ \ {x}] : g \in
               {h \in Touched({x}) : h.aliases # {x}}}
    /\ UNCHANGED sequence

(* Expiry, cleanup and InvalidateAuth: whole sessions are forgotten. *)
Forget ==
    /\ \E kept \in SUBSET sessions : kept # sessions /\ sessions' = kept
    /\ UNCHANGED sequence

AbsNext ==
    \/ Forget
    \/ \E x \in Alias : Unbind(x)
    \/ \E a \in Auth, keys \in Keys : Select(a, keys) \/ Rebind(a, keys)

AbsSpec == AbsInit /\ [][AbsNext]_absVars

=============================================================================
