---------------------------- MODULE SessionCache ----------------------------
(***************************************************************************)
(* The cache behind session affinity                                       *)
(* (sdk/cliproxy/auth/session_cache.go).  Every alias of a logical session *)
(* maps to its own copy of the session's entry; groups holds the entry     *)
(* once more under the first alias; the eviction list and the per-session  *)
(* index name groups by that first alias.  Each operation runs under c.mu  *)
(* and is one action; what can go wrong is that a long sequence of them    *)
(* leaves the four structures in disagreement.                             *)
(***************************************************************************)
EXTENDS SessionKeys, SequencesExt, Functions

CONSTANTS Prompt,       \* the aliases made from a prompt cache key
          MaxStable,    \* maxStableSessionAliases
          MaxEntries,   \* maxEntries
          TTL,          \* ttl, in ticks
          MaxTime       \* bound on time

ASSUME CacheAssumption ==
    /\ Prompt \subseteq Alias
    /\ MaxStable \in Nat \ {0} /\ TTL \in Nat \ {0} /\ MaxTime \in Nat
    /\ MaxEntries \in Nat /\ MaxEntries > MaxStable

VARIABLES cache,            \* entries, groups, order and index (below)
          bindingSequence,
          now               \* time.Now

cacheVars == <<cache, bindingSequence, now>>

(* The alias lists of groups: at most MaxStable stable aliases, and one     *)
(* that is made from a prompt cache key.                                    *)
AliasSeq == {s \in Seq(Alias) :
                /\ s # <<>> /\ IsInjective(s)
                /\ Cardinality({i \in DOMAIN s : s[i] \in Prompt}) <= 1
                /\ Cardinality({i \in DOMAIN s : s[i] \notin Prompt})
                       <= MaxStable}

Entry == [auth : Auth, expires : 0 .. MaxTime + TTL, aliases : AliasSeq,
          binding : Binding]

Live(e) == now < e.expires

-----------------------------------------------------------------------------
(* Alias lists *)

(* The elements of list at the positions in I, in order. *)
At(list, I) ==
    [n \in 1 .. Cardinality(I) |->
        list[CHOOSE i \in I : Cardinality({j \in I : j <= i}) = n]]

(* Mutant: the last occurrence of each alias is kept, so that a full group *)
(* may drop the alias that was just named. *)
MergeLast(list) ==
    At(list, {i \in DOMAIN list : \A j \in i + 1 .. Len(list) :
                                     list[j] # list[i]})

(* mergeSessionAliases: the first occurrence of each alias, in order. *)
Merge(list) ==
    At(list, {i \in DOMAIN list : \A j \in 1 .. i - 1 : list[j] # list[i]})

(* Mutant: a group keeps every alias it was ever given. *)
CompactNothing(list) == list

(* compactSessionAliases: the first prompt cache alias, and the first       *)
(* MaxStable of the others.                                                 *)
Compact(list) ==
    LET Before(i) == {j \in 1 .. i - 1 :
                         (list[j] \in Prompt) <=> (list[i] \in Prompt)}
    IN  At(list, {i \in DOMAIN list :
                     Cardinality(Before(i)) <
                         IF list[i] \in Prompt THEN 1 ELSE MaxStable})

(* The alias named by the call comes first, then the group's others. *)
Fronted(x, e) == Compact(Merge(<<x>> \o e.aliases))

-----------------------------------------------------------------------------
(* The structures.  entries and groups are functions on the aliases that    *)
(* have one; order is evictionOrder, oldest first; index is sessionGroups.  *)

(* sameSessionEntryGroup: the binding is not compared. *)
SameGroup(e, f) ==
    e.auth = f.auth /\ e.expires = f.expires /\ e.aliases = f.aliases

Without(f, S) == Restrict(f, DOMAIN f \ S)

(* Mutant: removed groups stay in their session's index. *)
UnindexNothing(index, gone) == index

(* The groups in gone leave the index of the session they are bound for. *)
Unindex(index, gone) ==
    [s \in DOMAIN index |-> index[s] \ {e.aliases[1] : e \in
                               {f \in gone : f.binding.session = s}}]

(* removeAliasGroupLocked for each entry in E: the copies equal to it go,   *)
(* and, if the group is still the same, its place in the other structures.  *)
(* Removals of different groups do not affect each other.                   *)
RemoveGroups(c, E) ==
    LET gone  == {e \in E : /\ e.aliases[1] \in DOMAIN c.groups
                            /\ SameGroup(c.groups[e.aliases[1]], e)}
        keys  == {e.aliases[1] : e \in gone}
        stale == {x \in DOMAIN c.entries : \E e \in E :
                     Contains(e.aliases, x) /\ SameGroup(c.entries[x], e)}
    IN  [entries |-> Without(c.entries, stale),
         groups  |-> Without(c.groups, keys),
         order   |-> At(c.order, {i \in DOMAIN c.order :
                                     c.order[i] \notin keys}),
         index   |-> Unindex(c.index, gone)]

(* Mutant: one group at most is evicted. *)
EvictOne(c) ==
    IF Cardinality(DOMAIN c.entries) <= MaxEntries THEN c
    ELSE RemoveGroups(c, {c.groups[c.order[1]]})

(* evictExcessLocked: the oldest groups go, as many as it takes. *)
Evict(c) ==
    LET After(n) == RemoveGroups(c, {c.groups[c.order[i]] : i \in 1 .. n})
        Fits(d)  == Cardinality(DOMAIN d.entries) <= MaxEntries
    IN  IF Fits(c) THEN c
        ELSE After(CHOOSE n \in 1 .. Len(c.order) :
                       Fits(After(n)) /\ ~Fits(After(n - 1)))

(* Each alias of e gets a copy of it; its group is the newest. *)
Insert(c, e) ==
    LET key == e.aliases[1]
    IN  [entries |-> [x \in DOMAIN c.entries \cup ToSet(e.aliases) |->
                         IF x \in ToSet(e.aliases) THEN e ELSE c.entries[x]],
         groups  |-> [k \in DOMAIN c.groups \cup {key} |->
                         IF k = key THEN e ELSE c.groups[k]],
         order   |-> Append(c.order, key),
         index   |-> IF e.binding.sequence = 0 THEN c.index
                     ELSE [c.index EXCEPT ![e.binding.session] =
                               @ \cup {key}]]

(* replaceAliasGroupsLocked *)
ReplaceGroups(c, e, previous) ==
    LET key == e.aliases[1]
        r   == RemoveGroups(c, previous)
        q   == IF key \in DOMAIN r.groups THEN RemoveGroups(r, {r.groups[key]})
               ELSE r
    IN  Evict(Insert(q, e))

-----------------------------------------------------------------------------
Init ==
    /\ cache = [entries |-> <<>>, groups |-> <<>>, order |-> <<>>,
                index |-> [s \in Session \cup {None} |-> {}]]
    /\ bindingSequence = 0
    /\ now = 0

Known(x) == x \in DOMAIN cache.entries

(* Get: no refresh; an expired binding takes its whole group with it. *)
Get(x) ==
    /\ Known(x) /\ ~Live(cache.entries[x])
    /\ cache' = RemoveGroups(cache, {cache.entries[x]})
    /\ UNCHANGED <<bindingSequence, now>>

(* GetAndRefresh, and Touch when the credential still matches: the group's  *)
(* expiry moves, its recorded selection does not.                           *)
GetAndRefresh(x) ==
    /\ Known(x)
    /\ LET e == cache.entries[x]
       IN  cache' = IF Live(e)
                    THEN ReplaceGroups(cache,
                           [e EXCEPT !.expires = now + TTL,
                                     !.aliases = Fronted(x, e)], {e})
                    ELSE RemoveGroups(cache, {e})
    /\ UNCHANGED <<bindingSequence, now>>

Touch(x, a) ==
    /\ Known(x) /\ cache.entries[x].auth = a /\ Live(cache.entries[x])
    /\ LET e == cache.entries[x]
       IN  cache' = ReplaceGroups(cache,
                        [e EXCEPT !.expires = now + TTL,
                                  !.aliases = Fronted(x, e)], {e})
    /\ UNCHANGED <<bindingSequence, now>>

(* setAliases.  The groups of the keys are merged into one; a key whose     *)
(* group has expired loses it.                                              *)
SetAliases(a, keys, binding) ==
    LET known    == {i \in DOMAIN keys : Known(keys[i])}
        live     == {i \in known : Live(cache.entries[keys[i]])}
        previous == {cache.entries[keys[i]] : i \in live}
        expired  == {cache.entries[keys[i]] : i \in known \ live}
        found    == At(keys, live)
        others   == FlattenSeq([n \in DOMAIN found |->
                                    cache.entries[found[n]].aliases])
    IN  cache' = ReplaceGroups(RemoveGroups(cache, expired),
                     [auth    |-> a,
                      expires |-> now + TTL,
                      aliases |-> Compact(Merge(keys \o others)),
                      binding |-> IF binding = NoBinding THEN Latest(previous)
                                  ELSE binding],
                     previous)

(* SetAliases called for a binding that is preserved: no selection. *)
Preserve(a, keys) ==
    /\ SetAliases(a, keys, NoBinding)
    /\ UNCHANGED <<bindingSequence, now>>

(* setSessionAliases: a real selection, numbered. *)
SetSessionAliases(a, keys) ==
    /\ bindingSequence < MaxSequence
    /\ bindingSequence' = bindingSequence + 1
    /\ SetAliases(a, keys, [session  |-> SessionOf[keys[1]],
                            provider |-> ProviderOf[a],
                            sequence |-> bindingSequence + 1])
    /\ UNCHANGED now

(* Mutant: the survivors' copies still list the removed alias. *)
InvalidateOnlyEntry(x) ==
    /\ Known(x)
    /\ cache' = [cache EXCEPT !.entries = Without(@, {x})]
    /\ UNCHANGED <<bindingSequence, now>>

(* Invalidate; CompareAndDelete calls it when the credential matches.  The  *)
(* surviving aliases keep expiry and selection, expired or not.             *)
Invalidate(x) ==
    /\ Known(x)
    /\ LET e       == cache.entries[x]
           removed == RemoveGroups(cache, {e})
           left    == At(e.aliases, {i \in DOMAIN e.aliases :
                                        e.aliases[i] # x})
       IN  cache' = IF left = <<>> THEN removed
                    ELSE ReplaceGroups(removed, [e EXCEPT !.aliases = left],
                                       {})
    /\ UNCHANGED <<bindingSequence, now>>

CompareAndDelete(x, a) ==
    /\ Known(x) /\ cache.entries[x].auth = a
    /\ Invalidate(x)

(* InvalidateAuth and cleanup walk groups in map order; removals commute. *)
RemoveAll(gone) ==
    /\ gone # {}
    /\ cache' = RemoveGroups(cache, gone)
    /\ UNCHANGED <<bindingSequence, now>>

Entries == {cache.groups[k] : k \in DOMAIN cache.groups}

InvalidateAuth(a) == RemoveAll({e \in Entries : e.auth = a})

cleanup == RemoveAll({e \in Entries : ~Live(e)})

Tick ==
    /\ now < MaxTime
    /\ now' = now + 1
    /\ UNCHANGED <<cache, bindingSequence>>

CacheNext ==
    \/ \E x \in Alias : Get(x) \/ GetAndRefresh(x) \/ Invalidate(x)
    \/ \E x \in Alias, a \in Auth : Touch(x, a) \/ CompareAndDelete(x, a)
    \/ \E a \in Auth, keys \in Keys :
           Preserve(a, keys) \/ SetSessionAliases(a, keys)
    \/ \E a \in Auth : InvalidateAuth(a)
    \/ cleanup
    \/ Tick

CacheSpec == Init /\ [][CacheNext]_cacheVars

-----------------------------------------------------------------------------
(* latestSessionAuth, by the index: the answer a guardian request inherits. *)
LatestSessionAuth(s, providers) ==
    LET seen == {cache.groups[k] : k \in
                    {k \in cache.index[s] \cap DOMAIN cache.groups :
                        /\ cache.groups[k].binding.provider \in providers
                        /\ Live(cache.groups[k])}}
    IN  {e.auth : e \in {e \in seen : \A f \in seen :
                            f.binding.sequence <= e.binding.sequence}}

(* The structures hold what their types say. *)
CacheTypeOK ==
    /\ DOMAIN cache.entries \subseteq Alias
    /\ DOMAIN cache.groups \subseteq Alias
    /\ \A x \in DOMAIN cache.entries : cache.entries[x] \in Entry
    /\ \A k \in DOMAIN cache.groups : cache.groups[k] \in Entry
    /\ cache.order \in Seq(Alias)
    /\ cache.index \in [Session \cup {None} -> SUBSET Alias]
    /\ bindingSequence \in 0 .. MaxSequence
    /\ now \in 0 .. MaxTime

(* The copies agree: an alias has an entry exactly when one group lists it, *)
(* and its entry is that group's.  A copy left behind would keep answering  *)
(* for a session whose binding has moved or been removed.                   *)
CopiesAgree ==
    /\ \A x \in DOMAIN cache.entries :
           LET e == cache.entries[x]
           IN  /\ Contains(e.aliases, x)
               /\ e.aliases[1] \in DOMAIN cache.groups
               /\ cache.groups[e.aliases[1]] = e
    /\ \A k \in DOMAIN cache.groups :
           /\ cache.groups[k].aliases[1] = k
           /\ \A x \in ToSet(cache.groups[k].aliases) :
                  x \in DOMAIN cache.entries /\ cache.entries[x] = cache.groups[k]

(* Eviction can reach every group and finds each once; without this the     *)
(* cache would outgrow its bound or evictExcessLocked would stop early.     *)
Evictable ==
    /\ IsInjective(cache.order)
    /\ ToSet(cache.order) = DOMAIN cache.groups
    /\ Cardinality(DOMAIN cache.entries) <= MaxEntries

(* "observes the newest live selection on the requested real providers":   *)
(* the answer from the index is the one a scan of all bindings gives, and  *)
(* it never depends on the order in which the map is walked.               *)
LatestIsNewest ==
    \A s \in Session, ps \in SUBSET Provider :
        LET scan == {e \in {cache.entries[x] : x \in DOMAIN cache.entries} :
                        /\ e.binding.session = s
                        /\ e.binding.provider \in ps
                        /\ Live(e)}
        IN  /\ LatestSessionAuth(s, ps) =
                  {e.auth : e \in {e \in scan : \A f \in scan :
                              f.binding.sequence <= e.binding.sequence}}
            /\ Cardinality(LatestSessionAuth(s, ps)) <= 1

(* The copies, the order of eviction and the index tell one story.         *)
WellFormed == CacheTypeOK /\ CopiesAgree /\ Evictable /\ LatestIsNewest

-----------------------------------------------------------------------------
(* The cache implements SessionBindings: a live group is a session.  So a   *)
(* refresh changes no binding and no selection order, an unbound alias is   *)
(* not brought back by the aliases it shared a session with, an alias that  *)
(* was just bound survives the eviction it caused, and merging, expiry and  *)
(* eviction drop whole sessions only.                                       *)
Sessions == {[aliases |-> ToSet(cache.groups[k].aliases),
              auth    |-> cache.groups[k].auth,
              binding |-> cache.groups[k].binding] :
                 k \in {j \in DOMAIN cache.groups : Live(cache.groups[j])}}

Bindings == INSTANCE SessionBindings
            WITH sessions <- Sessions, sequence <- bindingSequence

Implements == Bindings!AbsSpec

=============================================================================
