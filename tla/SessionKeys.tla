----------------------------- MODULE SessionKeys -----------------------------
(***************************************************************************)
(* What the session cache and the selector that uses it have in common     *)
(* (sdk/cliproxy/auth/session_cache.go, selector.go): the aliases that     *)
(* sessions are known under and the selections that bindings date from.    *)
(***************************************************************************)
EXTENDS Naturals, Sequences, FiniteSets

CONSTANTS Alias,        \* cache keys: provider::session::model
          Auth,         \* credentials
          Session,      \* session identifiers
          Provider,     \* real providers
          SessionOf,    \* alias -> the session in the key
          ProviderOf,   \* credential -> its provider
          MaxSequence,  \* bound on the number of recorded selections
          None          \* no session, provider, alias or credential

ASSUME BindingsAssumption ==
    /\ SessionOf \in [Alias -> Session]
    /\ ProviderOf \in [Auth -> Provider]
    /\ MaxSequence \in Nat
    /\ None \notin Session \cup Provider \cup Alias \cup Auth

(* The selection that a binding dates from; sequence 0: none was recorded. *)
Binding == [session : Session \cup {None}, provider : Provider \cup {None},
            sequence : 0 .. MaxSequence]

NoBinding == [session |-> None, provider |-> None, sequence |-> 0]

(* The most recent of the selections that the groups in G date from. *)
Latest(G) ==
    IF \A g \in G : g.binding.sequence = 0 THEN NoBinding
    ELSE (CHOOSE g \in G : \A h \in G :
              h.binding.sequence <= g.binding.sequence).binding

(* One or two keys: a request's session and its fallback session. *)
Keys == {<<x>> : x \in Alias} \cup
        {k \in Alias \X Alias : k[1] # k[2]}

=============================================================================
