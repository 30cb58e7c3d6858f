------------------------- MODULE MCSessionAffinity -------------------------
(***************************************************************************)
(* Small instances of SessionAffinity.  In a behaviour either a parent, its *)
(* guardian child and a fork make requests, or three requests share a       *)
(* prompt cache key and its conversation while credentials are removed, or  *)
(* two of these do while credentials go through all their conditions.       *)
(***************************************************************************)
EXTENDS SessionAffinity, TLC

CONSTANTS parent, child, branch,  \* aliases with one client prefix
          cacheKey, conv,         \* a prompt cache key and its conversation
          rp, rc, rf, rk, rm, rq,    \* requests
          a1, a2

MCPrefixOf ==
    [x \in Alias |-> CASE x \in {parent, child, branch} -> "codex"
                       [] x = cacheKey                  -> "pck"
                       [] x = conv                      -> "conv"]
MCSessionOf == [x \in Alias |-> x]
MCProviderOf == [a \in Auth |-> "p"]

MCKeyOf ==
    [r \in Request |-> CASE r = rp -> parent [] r = rc -> child
                         [] r = rf -> branch [] r \in {rk, rm} -> cacheKey
                         [] r = rq -> conv]
MCFallbackOf ==
    [r \in Request |-> CASE r \in {rc, rf} -> parent
                         [] r \in {rk, rm} -> conv
                         [] OTHER -> None]

VARIABLE active     \* the requests of this behaviour

Family == {rp, rc, rf}
Shared == {rk, rm, rq}
Pair == {rk, rq}

Allowed ==
    CASE active = Family -> {"ready", "transient"}
      [] active = Shared -> {"ready", "removed"}
      [] active = Pair   -> {"ready", "full", "transient", "blocked", "removed"}

Within ==
    /\ \A r \in Request \ active : pc[r] = "start"
    /\ \A a \in Auth : status[a] \in Allowed

MCInit == AffinityInit /\ active \in {Family, Shared, Pair}
MCNext == Next /\ UNCHANGED active /\ Within'
MCSpec == MCInit /\ [][MCNext]_<<vars, active>>

MCSymmetry == Permutations(Auth)

=============================================================================
