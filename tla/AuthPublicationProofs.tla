------------------------ MODULE AuthPublicationProofs ------------------------
(***************************************************************************)
(* Theorems about a credential and its copy in the scheduler, for any      *)
(* number of goroutines and of operations.                                 *)
(***************************************************************************)
EXTENDS AuthPublication, TLAPS

-----------------------------------------------------------------------------
(* The inductive invariant.  r is a goroutine's job, a the credential, n the *)
(* newest epoch committed.                                                   *)

Mutates(r) == r.at \in {"edit", "io", "commit"}
InSave(r) == r.at \in {"io", "commit"}
IsNew(r) == r.kind \in {"register", "load"}

(* A goroutine that works on a copy has one; the gate is held from the      *)
(* reading of a credential to the commit.                                   *)
Started(r) ==
    /\ r.at \in {"upstream", "executing"} => r.base # NoAuth
    /\ r.at = "upstream" => r.kind \in {"refresh", "prepare"}
    /\ r.at = "found" => r.kind \in {"watch", "load"}
    /\ Mutates(r) => r.kind # "remove"
Control == \A p \in Procs : Started(job[p]) /\ (gate = p <=> Mutates(job[p]))

(* The newest epoch that has been committed: a registration under way has   *)
(* drawn the next one.                                                      *)
Settled == IF gate \in Procs /\ InSave(job[gate]) /\ IsNew(job[gate]) THEN authEpochs - 1 ELSE authEpochs

(* The credential has the settled epoch.  A mutation keeps it in place, and *)
(* its draft is the credential's successor.                                 *)
Successor(r, a) ==
    /\ r.draft.epoch = a.epoch
    /\ r.draft.gen <= a.gen + 1
    /\ r.draft.ver = IF r.draft.tok # a.tok THEN a.ver + 1 ELSE a.ver
    /\ r.kind \in {"mark", "reset"} => r.draft.tok = a.tok
    /\ r.kind = "refresh" => r.base.epoch = a.epoch /\ r.base.tok = a.tok
Stands(r, a, n) ==
    /\ InSave(r) /\ IsNew(r) => r.draft.epoch = n
    /\ InSave(r) /\ ~IsNew(r) => a # NoAuth /\ Successor(r, a)
    /\ r.at = "edit" => a # NoAuth /\ r.draft.gen <= a.gen /\ r.draft.tok = a.tok
Registered ==
    /\ auth # NoAuth => auth.epoch = Settled
    /\ \A p \in Procs : Stands(job[p], auth, authEpochs)

(* A copy s of the credential is of a registration before this one, or it   *)
(* is no newer, and then has the same token or an older version.            *)
Behind(s, a, n) ==
    /\ s.epoch <= n
    /\ a = NoAuth => s.epoch < n
    /\ a # NoAuth /\ s.epoch = a.epoch =>
           s.gen <= a.gen /\ s.ver <= a.ver /\ (s.ver = a.ver => s.tok = a.tok)

(* A copy is on its way to the scheduler. *)
Offers(r) ==
    /\ r.draft # NoAuth
    /\ r.at \in {"publish", "rebuild"} \/ (InSave(r) /\ r.kind = "reset")
Unpublishes(r) == r.at = "publish" /\ r.kind = "remove"
Copies(r, a, n) ==
    /\ r.at = "executing" => Behind(r.base, a, n)
    /\ Offers(r) => Behind(r.draft, a, n)
    /\ Unpublishes(r) => r.draft = NoAuth /\ r.seen <= n /\ (a # NoAuth => r.seen < n)
Mirrors(s, a, n) ==
    /\ s.entry # NoAuth => /\ Behind(s.entry, a, n) /\ s.entry.on
                           /\ s.entry.epoch = s.epoch /\ s.entry.gen = s.gen
    /\ s.epoch <= n
    /\ a # NoAuth /\ s.epoch = a.epoch => s.gen <= a.gen
Snapshots == Mirrors(sched, auth, Settled) /\ \A p \in Procs : Copies(job[p], auth, Settled)

(* Nothing newer than the credential, or its successor, was saved. *)
Persisted ==
    /\ persistLock.epoch <= authEpochs
    /\ auth # NoAuth /\ persistLock.epoch = auth.epoch => persistLock.gen <= auth.gen + 1
    /\ \A p \in Procs : InSave(job[p]) => ~PersistIsOld(job[p].draft)

(* The file holds the token of the credential, or the one about to be       *)
(* committed, unless it is known to be apart.                               *)
Ahead(r) == r.at = "commit" \/ (r.at = "io" /\ SkipPersist(r.kind))
Filed ==
    /\ store.apart = "no" =>
           /\ \A p \in Procs : Ahead(job[p]) => store.tok = job[p].draft.tok
           /\ auth # NoAuth /\ (\A p \in Procs : ~Ahead(job[p])) => store.tok = auth.tok
    /\ \A p \in Procs : At(p, "commit") /\ MustSave(job[p].kind) =>
           store.tok = job[p].draft.tok \/ store.apart = "edited"

(* One goroutine rebuilds the scheduler, and knows that it was due. *)
Rebuilds(r) == r.at \in {"check", "snapshot", "rebuild", "verify"}
Syncing ==
    /\ synced <= version
    /\ \A p \in Procs : syncMu = p <=> Rebuilds(job[p])
    /\ \A p \in Procs : syncMu = p => synced < version /\ job[p].seen <= version

(* From generation g on, every copy shows what the credential shows now, a  *)
(* copy from then on has reached the scheduler or is on its way, and only a *)
(* rebuild that will be repeated has dropped it there.                      *)
Fresh(s, a) == s.tok = a.tok /\ s.on = a.on /\ s.run = a.run
Since(s, a, g) == s.epoch = a.epoch /\ s.gen >= g
Arrives(r, a, g) ==
    \/ InSave(r) /\ r.kind = "mark"
    \/ /\ r.at = "publish" \/ (InSave(r) /\ r.kind = "reset")
       /\ r.draft # NoAuth /\ Since(r.draft, a, g)
Latest(g) ==
    /\ \A p \in Procs : Offers(job[p]) /\ Since(job[p].draft, auth, g) => Fresh(job[p].draft, auth)
    /\ sched.entry # NoAuth /\ Since(sched, auth, g) => Fresh(sched.entry, auth)
    /\ sched.entry = NoAuth /\ Since(sched, auth, g) /\ auth.on => version # synced
    /\ Since(sched, auth, g) \/ \E p \in Procs : Arrives(job[p], auth, g)
Published ==
    /\ auth # NoAuth => \E g \in 0 .. auth.gen : Latest(g)
    /\ auth = NoAuth => \/ sched.epoch = Settled /\ sched.entry = NoAuth
                        \/ \E p \in Procs : Unpublishes(job[p]) /\ job[p].seen = Settled

-----------------------------------------------------------------------------
(* Credentials and jobs. *)

(* What an edit of a credential leaves and changes. *)
LEMMA AuthEdits ==
    ASSUME NEW a \in Auth, NEW t \in Nat, NEW r \in Nat, NEW o \in BOOLEAN
    PROVE  /\ [a EXCEPT !.gen = @ + 1] \in Auth
           /\ [a EXCEPT !.gen = @ + 1, !.run = r] \in Auth
           /\ [a EXCEPT !.gen = 0, !.tok = t, !.on = o, !.run = r] \in Auth
           /\ [a EXCEPT !.gen = 0, !.tok = t, !.run = r] \in Auth
           /\ [a EXCEPT !.tok = t, !.run = r] \in Auth
           /\ [a EXCEPT !.on = ~@] \in Auth
<1>1. a.gen + 1 \in Nat BY DEF Auth
<1> QED BY <1>1 DEF Auth

(* updateInternalLocked makes a successor of the credential. *)
LEMMA NextAuthIs ==
    ASSUME auth \in Auth, authEpochs \in Nat, NEW d \in Auth
    PROVE  /\ NextAuth(d) \in Auth
           /\ NextAuth(d).epoch = authEpochs /\ NextAuth(d).tok = d.tok
           /\ NextAuth(d).gen = Larger(d.gen, auth.gen) + 1
           /\ NextAuth(d).ver = IF d.tok # auth.tok THEN auth.ver + 1 ELSE auth.ver
<1>1. Larger(d.gen, auth.gen) + 1 \in Nat BY DEF Auth, Larger
<1>2. CredentialVersion(d) \in Nat BY DEF Auth, CredentialVersion
<1>3. /\ NextAuth(d) \in Auth
      /\ NextAuth(d).epoch = authEpochs /\ NextAuth(d).tok = d.tok
      /\ NextAuth(d).gen = Larger(d.gen, auth.gen) + 1 /\ NextAuth(d).ver = CredentialVersion(d)
  BY <1>1, <1>2 DEF NextAuth, Auth
<1> QED BY <1>3 DEF CredentialVersion

(* A registration makes a credential of the next epoch. *)
LEMMA NewAuthIs ==
    ASSUME auth \in AuthOrNone, authEpochs \in Nat, NEW tok \in Nat, NEW on \in BOOLEAN
    PROVE  /\ NewAuth(tok, on) \in Auth /\ NewAuth(tok, on).epoch = authEpochs + 1
           /\ NewAuth(tok, on).tok = tok
<1>1. (IF auth = NoAuth THEN 1 ELSE auth.ver + 1) \in Nat BY DEF AuthOrNone, Auth
<1> QED BY <1>1 DEF NewAuth, Auth

(* What a commit makes of the draft and of the writes during its save. *)
LEMMA MergedIs ==
    ASSUME auth \in Auth, NEW p \in Procs, job[p].draft \in Auth
    PROVE  LET a == MergeSaveDelta(p)
           IN  /\ a \in Auth /\ a.epoch = job[p].draft.epoch /\ a.tok = job[p].draft.tok
               /\ a.ver = job[p].draft.ver /\ a.gen = Larger(job[p].draft.gen, auth.gen + 1)
               /\ auth.run # job[p].seen => a.run = auth.run
<1>1. Larger(job[p].draft.gen, auth.gen + 1) \in Nat BY DEF Larger, Auth
<1>2. (IF auth.run # job[p].seen THEN auth.run ELSE job[p].draft.run) \in Nat BY DEF Auth
<1> QED BY <1>1, <1>2 DEF MergeSaveDelta, Auth

(* Goroutine p turns to something else; the others go on. *)
Turn(p, at, kind, base, draft, seen) ==
    /\ Busy(at, kind, base, draft, seen) \in Job
    /\ Carries(Busy(at, kind, base, draft, seen))
    /\ job' = [job EXCEPT ![p] = Busy(at, kind, base, draft, seen)]

(* What a turn leaves in the job it is about, and that it leaves the others. *)
LEMMA TurnIs ==
    ASSUME JobType, NEW p \in Procs, NEW at, NEW kind, NEW base, NEW draft, NEW seen,
           Turn(p, at, kind, base, draft, seen)
    PROVE  /\ \A q \in Procs : q # p => job'[q] = job[q]
           /\ job'[p].at = at /\ job'[p].kind = kind /\ job'[p].base = base
           /\ job'[p].draft = draft /\ job'[p].seen = seen
           /\ JobType'
<1> DEFINE r == Busy(at, kind, base, draft, seen)
<1>1. r \in Job /\ Carries(r) /\ job' = [job EXCEPT ![p] = r] BY DEF Turn
<1>2. r.at = at /\ r.kind = kind /\ r.base = base /\ r.draft = draft /\ r.seen = seen BY DEF Busy
<1> HIDE DEF r
<1>3. \A q \in Procs : job'[q] = IF q = p THEN r ELSE job[q] BY <1>1 DEF JobType
<1>4. job' \in [Procs -> Job] BY <1>1 DEF JobType
<1>5. \A q \in Procs : Carries(job'[q]) BY <1>1, <1>3 DEF JobType
<1>6. JobType' BY <1>4, <1>5 DEF JobType, Carries
<1> QED BY <1>2, <1>3, <1>6

(* The three ways in which the operations turn. *)
LEMMA BusyTurn ==
    ASSUME NEW p \in Procs, NEW at \in Places, NEW kind \in Kinds,
           NEW base \in AuthOrNone, NEW draft \in AuthOrNone, NEW seen \in Nat,
           \/ at \notin {"edit", "io", "commit", "publish"} \/ draft # NoAuth
           \/ at = "publish" /\ kind = "remove",
           job' = [job EXCEPT ![p] = Busy(at, kind, base, draft, seen)]
    PROVE  Turn(p, at, kind, base, draft, seen)
<1>1. Busy(at, kind, base, draft, seen) \in Job BY DEF Busy, Job
<1>2. Carries(Busy(at, kind, base, draft, seen)) BY DEF Busy, Carries
<1> QED BY <1>1, <1>2 DEF Turn

(* Moving on to another place is a turn. *)
LEMMA GotoTurn ==
    ASSUME JobType, NEW p \in Procs, NEW at \in Places, Goto(p, at),
           at \in {"edit", "io", "commit", "publish"} => job[p].draft # NoAuth
    PROVE  Turn(p, at, job[p].kind, job[p].base, job[p].draft, job[p].seen)
<1>1. job[p] \in Job /\ job' = [job EXCEPT ![p] = [job[p] EXCEPT !.at = at]]
  BY DEF JobType, Goto
<1>2. [job[p] EXCEPT !.at = at] = Busy(at, job[p].kind, job[p].base, job[p].draft, job[p].seen)
  BY <1>1 DEF Job, Busy
<1>3. /\ job[p].kind \in Kinds /\ job[p].base \in AuthOrNone /\ job[p].draft \in AuthOrNone
      /\ job[p].seen \in Nat
  BY <1>1 DEF Job
<1> QED BY <1>1, <1>2, <1>3, BusyTurn

Idles(p) == Turn(p, "idle", "none", NoAuth, NoAuth, 0)

(* Finishing is a turn. *)
LEMMA FinishTurn == ASSUME NEW p \in Procs, Finish(p) PROVE Idles(p)
<1>1. Idle = Busy("idle", "none", NoAuth, NoAuth, 0) BY DEF Idle, Busy
<1>2. "idle" \in Places /\ "none" \in Kinds /\ NoAuth \in AuthOrNone BY DEF Places, Kinds, AuthOrNone
<1> QED BY <1>1, <1>2, BusyTurn DEF Finish, Idles

(* The fields that the steps read. *)
LEMMA Fields ==
    ASSUME TypeOK
    PROVE  /\ auth # NoAuth => auth \in Auth
           /\ auth \in AuthOrNone /\ NoAuth \in AuthOrNone /\ Auth \subseteq AuthOrNone
           /\ NoAuth \notin Auth
           /\ authEpochs \in Nat /\ Now \in Nat
           /\ \A p \in Procs :
                 /\ job[p] \in Job /\ job[p].at \in Places /\ job[p].kind \in Kinds
                 /\ job[p].base \in AuthOrNone /\ job[p].draft \in AuthOrNone /\ job[p].seen \in Nat
                 /\ job[p].base # NoAuth => job[p].base \in Auth
                 /\ job[p].draft # NoAuth => job[p].draft \in Auth
                 /\ Mutates(job[p]) => job[p].draft \in Auth
<1>1. /\ auth # NoAuth => auth \in Auth
      /\ auth \in AuthOrNone /\ NoAuth \in AuthOrNone /\ Auth \subseteq AuthOrNone
      /\ NoAuth \notin Auth /\ authEpochs \in Nat /\ Now \in Nat
  BY ConstantsAssumption DEF TypeOK, ManagerType, AuthOrNone, Now
<1>2. \A p \in Procs : job[p] \in Job /\ Carries(job[p]) BY DEF TypeOK, JobType
<1>3. \A p \in Procs : /\ job[p].base \in AuthOrNone /\ job[p].draft \in AuthOrNone
                       /\ job[p].seen \in Nat /\ job[p].kind \in Kinds /\ job[p].at \in Places
  BY <1>2 DEF Job
<1>4. \A p \in Procs : /\ job[p].base # NoAuth => job[p].base \in Auth
                       /\ job[p].draft # NoAuth => job[p].draft \in Auth
  BY <1>3 DEF AuthOrNone
<1>5. \A p \in Procs : Mutates(job[p]) => job[p].draft \in Auth
  BY <1>2, <1>4 DEF Mutates, Carries
<1> QED BY <1>1, <1>2, <1>3, <1>4, <1>5

(* A credential's fields are numbers, its switch a Boolean. *)
LEMMA Numbers ==
    ASSUME NEW a \in Auth
    PROVE  /\ a.epoch \in Nat /\ a.gen \in Nat /\ a.ver \in Nat /\ a.tok \in Nat /\ a.run \in Nat
           /\ a.on \in BOOLEAN
  BY DEF Auth

(* Two fields of a job change. *)
LEMMA JobExcept ==
    ASSUME NEW r \in Job, NEW x \in Places, NEW y \in Kinds, NEW z \in AuthOrNone
    PROVE  /\ [r EXCEPT !.at = x, !.kind = y] = Busy(x, y, r.base, r.draft, r.seen)
           /\ [r EXCEPT !.at = x, !.draft = z] = Busy(x, r.kind, r.base, z, r.seen)
<1> DEFINE q == [r EXCEPT !.at = x, !.kind = y]
           s == [r EXCEPT !.at = x, !.draft = z]
           b == Busy(x, y, r.base, r.draft, r.seen)
           c == Busy(x, r.kind, r.base, z, r.seen)
<1>1. q \in Job /\ s \in Job BY DEF Job
<1>2. b \in Job /\ c \in Job BY DEF Job, Busy
<1>3. /\ q.at = x /\ q.kind = y /\ q.base = r.base /\ q.draft = r.draft /\ q.seen = r.seen
      /\ s.at = x /\ s.kind = r.kind /\ s.base = r.base /\ s.draft = z /\ s.seen = r.seen
  BY DEF Job
<1>4. /\ b.at = x /\ b.kind = y /\ b.base = r.base /\ b.draft = r.draft /\ b.seen = r.seen
      /\ c.at = x /\ c.kind = r.kind /\ c.base = r.base /\ c.draft = z /\ c.seen = r.seen
  BY DEF Busy
<1>5. \A u, v \in Job : /\ u.at = v.at /\ u.kind = v.kind /\ u.base = v.base
                        /\ u.draft = v.draft /\ u.seen = v.seen
                        => u = v
  BY DEF Job
<1> HIDE DEF q, s, b, c
<1>6. q = b /\ s = c BY <1>1, <1>2, <1>3, <1>4, <1>5
<1> QED BY <1>6 DEF q, s, b, c

-----------------------------------------------------------------------------
(* What the actions come to, as far as the invariant can tell. *)

Outside == {"idle", "watched", "found", "upstream", "executing"}
SyncVars == <<version, synced, syncMu>>

(* A step outside the gate that touches neither the credential nor the scheduler. *)
Calm(p) ==
    /\ job[p].at \in Outside \cup {"bump"}
    /\ \E at \in Outside, kind \in Kinds, base \in AuthOrNone, draft \in AuthOrNone, seen \in Nat :
          /\ Turn(p, at, kind, base, draft, seen)
          /\ at \in {"upstream", "executing"} => base # NoAuth
          /\ at = "upstream" => kind \in {"refresh", "prepare"}
          /\ at = "found" => kind \in {"watch", "load"}
          /\ at = "executing" => base = sched.entry
    /\ version' \in {version, version + 1}
    /\ UNCHANGED <<auth, authEpochs, gate, storeVars, sched, synced, syncMu>>

(* A write without the gate: published at once if it changes the availability. *)
Touch ==
    /\ auth \in Auth /\ auth' \in Auth
    /\ auth'.epoch = auth.epoch /\ auth'.gen = auth.gen + 1 /\ auth'.ver = auth.ver
    /\ auth'.tok = auth.tok /\ auth'.on = auth.on
    /\ (UNCHANGED sched /\ auth'.run = auth.run) \/ upsertAuth(auth')
    /\ UNCHANGED job \/ \E p \in Procs : job[p].at \in Outside /\ Idles(p)
    /\ UNCHANGED <<authEpochs, gate, storeVars, SyncVars>>

(* A refresh is given up: the credential is published as it is. *)
Cancels(p) ==
    /\ auth # NoAuth /\ job[p].at \in Outside /\ Idles(p)
    /\ upsertAuth(auth)
    /\ UNCHANGED <<auth, authEpochs, gate, storeVars, SyncVars>>

(* An edit takes its copy. *)
Edits(p) ==
    /\ gate = NoProc /\ gate' = p /\ job[p].at \in Outside
    /\ auth # NoAuth
    /\ \E d \in Auth : d.gen = auth.gen /\ d.tok = auth.tok /\ Turn(p, "edit", "modify", NoAuth, d, 0)
    /\ UNCHANGED <<auth, authEpochs, storeVars, sched, SyncVars>>

(* A registration draws its epoch. *)
Registers(p) ==
    /\ gate = NoProc /\ gate' = p /\ job[p].at \in Outside
    /\ authEpochs' = authEpochs + 1
    /\ \E kind \in {"register", "load"}, d \in Auth, seen \in Nat :
          /\ Turn(p, "io", kind, NoAuth, d, seen)
          /\ d.epoch = authEpochs + 1
          /\ store'.tok = store.tok
          /\ kind = "register" => UNCHANGED store
          /\ kind = "load" /\ store'.apart = "no" => d.tok = store.tok
    /\ UNCHANGED <<auth, persistLock, sched, SyncVars>>

(* A mutation has the credential's successor ready to be saved. *)
Replaces(p) ==
    /\ \/ gate = NoProc /\ job[p].at \in Outside
       \/ gate = p /\ job[p].at = "edit"
    /\ gate' = p /\ auth # NoAuth
    /\ \E kind \in {"update", "watch", "modify", "refresh", "prepare"}, base \in AuthOrNone, d \in Auth :
          /\ Turn(p, "io", kind, base, d, auth.run)
          /\ d.epoch = authEpochs /\ d.gen = auth.gen + 1
          /\ d.ver = IF d.tok # auth.tok THEN auth.ver + 1 ELSE auth.ver
          /\ kind = "refresh" => base.epoch = auth.epoch /\ base.tok = auth.tok
          /\ store'.tok = store.tok
          /\ IF kind = "watch" THEN d.tok = store.tok ELSE UNCHANGED store
    /\ UNCHANGED <<auth, authEpochs, persistLock, sched, SyncVars>>

(* A result or a reset is written in place, and is to be saved. *)
Writes(p) ==
    /\ gate = NoProc /\ gate' = p /\ job[p].at \in Outside
    /\ auth # NoAuth /\ auth' \in Auth
    /\ auth'.epoch = auth.epoch /\ auth'.gen = auth.gen + 1 /\ auth'.ver = auth.ver
    /\ auth'.tok = auth.tok /\ auth'.on = auth.on
    /\ \E kind \in {"mark", "reset"}, base \in AuthOrNone : Turn(p, "io", kind, base, auth', auth'.run)
    /\ UNCHANGED <<authEpochs, storeVars, sched, SyncVars>>

(* The save is over, whether it succeeded or not. *)
Returns(p) ==
    /\ job[p].at = "io"
    /\ Turn(p, "commit", job[p].kind, job[p].base, job[p].draft, job[p].seen)
    /\ \/ PersistIsOld(job[p].draft) /\ UNCHANGED storeVars
       \/ /\ persistLock' = [epoch |-> job[p].draft.epoch, gen |-> job[p].draft.gen]
          /\ \/ SkipPersist(job[p].kind) /\ UNCHANGED store
             \/ store'.tok = job[p].draft.tok /\ store'.apart = "no"
             \/ /\ ~SkipPersist(job[p].kind) /\ ~MustSave(job[p].kind)
                /\ store'.tok = store.tok
                /\ store'.apart = "no" => store.tok = job[p].draft.tok
    /\ UNCHANGED <<auth, authEpochs, gate, sched, SyncVars>>

(* A Meta key that could not be saved is dropped. *)
Withholds(p) ==
    /\ job[p].at = "io" /\ ~SkipPersist(job[p].kind)
    /\ job[p].kind \in {"refresh", "prepare"}
    /\ persistLock' = [epoch |-> job[p].draft.epoch, gen |-> job[p].draft.gen]
    /\ Idles(p) /\ gate' = NoProc
    /\ UNCHANGED <<auth, authEpochs, store, sched, SyncVars>>

(* After a write in place, a snapshot goes to the scheduler. *)
Hands(p) ==
    /\ job[p].at = "commit" /\ job[p].kind \in {"mark", "reset"}
    /\ gate' = NoProc
    /\ Turn(p, "publish", job[p].kind, NoAuth, IF job[p].kind = "mark" THEN auth ELSE job[p].draft, 0)
    /\ UNCHANGED <<auth, authEpochs, storeVars, sched, SyncVars>>

(* The draft becomes the credential. *)
Commits(p) ==
    /\ job[p].at = "commit" /\ job[p].kind \notin {"mark", "reset"}
    /\ gate' = NoProc
    /\ auth' \in Auth
    /\ Turn(p, "publish", job[p].kind, NoAuth, auth', 0)
    /\ auth'.epoch = authEpochs /\ auth'.tok = job[p].draft.tok /\ auth'.ver = job[p].draft.ver
    /\ IsNew(job[p]) => auth'.gen = job[p].draft.gen
    /\ ~IsNew(job[p]) => /\ auth'.gen = auth.gen + 1
                         /\ auth.run # job[p].seen => auth'.run = auth.run
    /\ UNCHANGED <<authEpochs, storeVars, sched, SyncVars>>

(* The credential is removed; its tombstone follows. *)
Removes(p) ==
    /\ gate = NoProc /\ job[p].at \in Outside
    /\ auth # NoAuth /\ auth' = NoAuth
    /\ authEpochs' = authEpochs + 1
    /\ Turn(p, "publish", "remove", NoAuth, NoAuth, authEpochs + 1)
    /\ UNCHANGED <<gate, storeVars, sched, SyncVars>>

(* The current state is published once more. *)
Repeats(p) ==
    /\ job[p].at \in Outside /\ auth # NoAuth
    /\ version' = version + 1
    /\ Turn(p, "publish", "entry", NoAuth, auth, 0)
    /\ UNCHANGED <<auth, authEpochs, gate, storeVars, sched, synced, syncMu>>

(* A publication arrives. *)
Publishes(p) ==
    /\ job[p].at = "publish"
    /\ IF job[p].kind = "remove" THEN RecordRemovalTombstone(job[p].seen) ELSE upsertAuth(job[p].draft)
    /\ Idles(p) \/ Turn(p, "bump", "none", NoAuth, NoAuth, 0)
    /\ UNCHANGED <<auth, authEpochs, gate, storeVars, SyncVars>>

(* The rebuild of the scheduler. *)
Checks(p) ==
    /\ job[p].at \in Outside
    /\ syncMu = NoProc /\ syncMu' = p /\ version # synced
    /\ Turn(p, "check", "sync", NoAuth, NoAuth, version)
    /\ UNCHANGED <<auth, authEpochs, gate, storeVars, schedVars>>
Decides(p) ==
    /\ job[p].at = "check"
    /\ Turn(p, "snapshot", job[p].kind, job[p].base, job[p].draft, job[p].seen)
    /\ UNCHANGED <<auth, authEpochs, gate, storeVars, schedVars, syncMu>>
Snaps(p) ==
    /\ job[p].at = "snapshot"
    /\ Turn(p, "rebuild", job[p].kind, job[p].base, auth, job[p].seen)
    /\ UNCHANGED <<auth, authEpochs, gate, storeVars, schedVars, syncMu>>
Restores(p) ==
    /\ job[p].at = "rebuild"
    /\ rebuild(job[p].draft)
    /\ Turn(p, "verify", job[p].kind, job[p].base, NoAuth, job[p].seen)
    /\ UNCHANGED <<auth, authEpochs, gate, storeVars, SyncVars>>
Ends(p) ==
    /\ job[p].at \in {"check", "verify"}
    /\ UNCHANGED synced \/ (~needsSync /\ synced' = Larger(synced, job[p].seen))
    /\ syncMu' = NoProc /\ Idles(p)
    /\ UNCHANGED <<auth, authEpochs, gate, storeVars, sched, version>>

Events(p) ==
    \/ Calm(p) \/ Cancels(p) \/ Edits(p) \/ Registers(p) \/ Replaces(p) \/ Writes(p)
    \/ Returns(p) \/ Withholds(p) \/ Hands(p) \/ Commits(p) \/ Removes(p) \/ Repeats(p) \/ Publishes(p)
    \/ Checks(p) \/ Decides(p) \/ Snaps(p) \/ Restores(p) \/ Ends(p)

(* Steps outside the gate. *)
LEMMA CalmSteps ==
    ASSUME TypeOK, Control, NEW p \in Procs,
           \/ WatchRead(p) \/ WatchLookup(p) \/ WatchDiscard(p) \/ PrepareBegin(p) \/ PrepareFails(p)
           \/ RefreshBegin(p) \/ UpdateRejected(p) \/ Execute(p) \/ BumpStructuralEpoch(p)
    PROVE  Calm(p)
<1>1. /\ auth # NoAuth => auth \in Auth
      /\ auth \in AuthOrNone /\ NoAuth \in AuthOrNone /\ Now \in Nat
      /\ job[p] \in Job /\ job[p].kind \in Kinds /\ job[p].base \in AuthOrNone
      /\ job[p].draft \in AuthOrNone /\ job[p].seen \in Nat
  BY Fields
<1>2. JobType BY DEF TypeOK
<1>3. /\ {"idle", "watched", "found", "upstream", "executing"} \subseteq Places
      /\ {"none", "watch", "load", "prepare", "refresh", "mark"} \subseteq Kinds
  BY DEF Places, Kinds
<1>4. ASSUME Finish(p), job[p].at \in Outside \cup {"bump"}, version' \in {version, version + 1},
             UNCHANGED <<auth, authEpochs, gate, storeVars, sched, synced, syncMu>>
      PROVE  Calm(p)
  <2>1. Turn(p, "idle", "none", NoAuth, NoAuth, 0) BY <1>4, FinishTurn DEF Idles
  <2> QED BY <1>1, <1>3, <1>4, <2>1 DEF Calm, Outside
<1>5. CASE WatchRead(p)
  <2>1. store.tok \in Nat BY DEF TypeOK, StoreType
  <2>2. job' = [job EXCEPT ![p] = Busy("watched", "watch", NoAuth, NoAuth, store.tok)]
    BY <1>5 DEF WatchRead
  <2>3. Turn(p, "watched", "watch", NoAuth, NoAuth, store.tok)
    BY <1>1, <1>3, <2>1, <2>2, BusyTurn
  <2> QED BY <1>1, <1>3, <1>5, <2>1, <2>3 DEF WatchRead, Calm, Outside, At, schedVars, lockVars
<1>6. CASE WatchLookup(p)
  <2> DEFINE k == IF auth = NoAuth THEN "load" ELSE "watch"
  <2>1. job' = [job EXCEPT ![p] = [job[p] EXCEPT !.at = "found", !.kind = k]]
    BY <1>2, <1>6 DEF WatchLookup, JobType
  <2>2. k \in Kinds /\ k \in {"watch", "load"} BY <1>3
  <2> HIDE DEF k
  <2>3. [job[p] EXCEPT !.at = "found", !.kind = k]
          = Busy("found", k, job[p].base, job[p].draft, job[p].seen)
    BY <1>1, <1>3, <2>2, JobExcept
  <2>4. Turn(p, "found", k, job[p].base, job[p].draft, job[p].seen)
    BY <1>1, <1>3, <2>3, <2>1, <2>2, BusyTurn
  <2> QED BY <1>1, <1>6, <2>2, <2>4 DEF WatchLookup, Calm, Outside, At, schedVars, lockVars
<1>7. CASE WatchDiscard(p)
  BY <1>4, <1>7 DEF WatchDiscard, At, Outside, schedVars, lockVars
<1>8. CASE PrepareBegin(p)
  <2>1. job' = [job EXCEPT ![p] = Busy("upstream", "prepare", auth, NoAuth, Now)] /\ auth # NoAuth
    BY <1>8 DEF PrepareBegin
  <2>2. Turn(p, "upstream", "prepare", auth, NoAuth, Now) BY <1>1, <1>3, <2>1, BusyTurn
  <2> QED BY <1>1, <1>3, <1>8, <2>1, <2>2 DEF PrepareBegin, Calm, Outside, At, schedVars
<1>9. CASE RefreshBegin(p)
  <2>1. job' = [job EXCEPT ![p] = Busy("upstream", "refresh", auth, NoAuth, Now)] /\ auth # NoAuth
    BY <1>9 DEF RefreshBegin
  <2>2. Turn(p, "upstream", "refresh", auth, NoAuth, Now) BY <1>1, <1>3, <2>1, BusyTurn
  <2> QED BY <1>1, <1>3, <1>9, <2>1, <2>2 DEF RefreshBegin, Calm, Outside, At, schedVars
<1>10. CASE PrepareFails(p) \/ UpdateRejected(p)
  BY <1>4, <1>10 DEF PrepareFails, UpdateRejected, Done, At, Outside, schedVars
<1>11. CASE Execute(p)
  <2>1. job' = [job EXCEPT ![p] = Busy("executing", "mark", sched.entry, NoAuth, Now)]
    BY <1>11 DEF Execute
  <2>2. sched.entry \in AuthOrNone BY DEF TypeOK, SchedType
  <2>3. Turn(p, "executing", "mark", sched.entry, NoAuth, Now) BY <1>1, <1>3, <2>1, <2>2, BusyTurn
  <2> QED BY <1>1, <1>3, <1>11, <2>2, <2>3 DEF Execute, Calm, Outside, At, schedVars, lockVars
<1>12. CASE BumpStructuralEpoch(p)
  BY <1>4, <1>12 DEF BumpStructuralEpoch, Done, At
<1> QED BY <1>5, <1>6, <1>7, <1>8, <1>9, <1>10, <1>11, <1>12

(* Writes without the gate. *)
LEMMA TouchSteps ==
    ASSUME TypeOK,
           \/ RefreshPending \/ markRejectedAccessToken
           \/ \E p \in Procs : /\ MarkResultDropped(p) \/ RefreshFails(p) \/ RefreshCancelled(p)
                               /\ ~Calm(p) /\ ~Cancels(p)
    PROVE  Touch
<1>1. /\ auth # NoAuth => auth \in Auth
      /\ NoAuth \in AuthOrNone /\ NoAuth \notin Auth
      /\ \A p \in Procs : job[p].seen \in Nat
  BY Fields
<1>2. ASSUME auth # NoAuth, auth' = [auth EXCEPT !.gen = @ + 1],
             UNCHANGED sched \/ upsertAuth(auth'),
             UNCHANGED job \/ \E p \in Procs : job[p].at \in Outside /\ Finish(p),
             UNCHANGED <<authEpochs, gate, storeVars, SyncVars>>
      PROVE  Touch
  <2>1. auth \in Auth /\ auth' \in Auth BY <1>1, <1>2, AuthEdits
  <2>2. /\ auth'.epoch = auth.epoch /\ auth'.gen = auth.gen + 1 /\ auth'.ver = auth.ver
        /\ auth'.tok = auth.tok /\ auth'.on = auth.on /\ auth'.run = auth.run
    BY <1>2, <2>1 DEF Auth
  <2>3. UNCHANGED job \/ \E p \in Procs : job[p].at \in Outside /\ Idles(p) BY <1>2, FinishTurn
  <2> QED BY <1>2, <2>1, <2>2, <2>3 DEF Touch
<1>3. CASE RefreshPending
  BY <1>2, <1>3 DEF RefreshPending, lockVars, schedVars, SyncVars
<1>4. CASE markRejectedAccessToken
  BY <1>2, <1>4 DEF markRejectedAccessToken, lockVars, SyncVars
<1>5. ASSUME NEW p \in Procs, MarkResultDropped(p), ~Calm(p) PROVE Touch
  <2>1. Finish(p) /\ At(p, "executing") BY <1>5 DEF MarkResultDropped
  <2>2. Turn(p, "idle", "none", NoAuth, NoAuth, 0) BY <2>1, FinishTurn DEF Idles
  <2>3. UNCHANGED <<authEpochs, gate, storeVars, sched, SyncVars>>
    BY <1>5 DEF MarkResultDropped, lockVars, schedVars, SyncVars
  <2>4. auth' # auth
    <3>1. "none" \in Kinds BY DEF Kinds
    <3> QED BY <1>1, <1>5, <2>1, <2>2, <2>3, <3>1 DEF Calm, Outside, At, SyncVars
  <2>5. auth # NoAuth /\ auth' = [auth EXCEPT !.gen = @ + 1]
    BY <1>5, <2>4 DEF MarkResultDropped
  <2> QED BY <1>2, <2>1, <2>3, <2>5 DEF At, Outside
<1>6. ASSUME NEW p \in Procs, RefreshFails(p), ~Calm(p) PROVE Touch
  <2>1. Finish(p) /\ At(p, "upstream") BY <1>6 DEF RefreshFails, Done
  <2>2. Turn(p, "idle", "none", NoAuth, NoAuth, 0) BY <2>1, FinishTurn DEF Idles
  <2>3. UNCHANGED <<authEpochs, gate, storeVars, SyncVars>> BY <1>6 DEF RefreshFails, SyncVars
  <2>4. ~UNCHANGED <<auth, sched>>
    <3>1. "none" \in Kinds BY DEF Kinds
    <3> QED BY <1>1, <1>6, <2>1, <2>2, <2>3, <3>1 DEF Calm, Outside, At, SyncVars
  <2>5. auth # NoAuth /\ auth' = [auth EXCEPT !.gen = @ + 1, !.run = job[p].seen] /\ upsertAuth(auth')
    BY <1>6, <2>4, ZenonT(60) DEF RefreshFails, InPlace
  <2>6. auth \in Auth /\ auth' \in Auth BY <1>1, <2>5, AuthEdits
  <2>7. /\ auth'.epoch = auth.epoch /\ auth'.gen = auth.gen + 1 /\ auth'.ver = auth.ver
        /\ auth'.tok = auth.tok /\ auth'.on = auth.on
    BY <2>5, <2>6 DEF Auth
  <2> QED BY <2>1, <2>2, <2>3, <2>5, <2>6, <2>7 DEF Touch, Idles, At, Outside
<1>7. ASSUME NEW p \in Procs, RefreshCancelled(p) PROVE Calm(p) \/ Cancels(p)
  <2>1. Finish(p) /\ At(p, "upstream") BY <1>7 DEF RefreshCancelled, Done
  <2>2. Turn(p, "idle", "none", NoAuth, NoAuth, 0) BY <2>1, FinishTurn DEF Idles
  <2>3. UNCHANGED <<auth, authEpochs, gate, storeVars, SyncVars>> BY <1>7 DEF RefreshCancelled, SyncVars
  <2>4. CASE auth # NoAuth
    BY <1>7, <2>1, <2>2, <2>3, <2>4 DEF RefreshCancelled, Cancels, Idles, At, Outside
  <2>5. CASE auth = NoAuth
    <3>1. "none" \in Kinds BY DEF Kinds
    <3> QED BY <1>1, <1>7, <2>1, <2>2, <2>3, <2>5, <3>1
          DEF RefreshCancelled, Calm, Outside, At, SyncVars
  <2> QED BY <2>4, <2>5
<1> QED BY <1>3, <1>4, <1>5, <1>6, <1>7

(* The start of a mutation. *)
LEMMA MutationSteps ==
    ASSUME TypeOK, Control, Registered, NEW p \in Procs,
           \/ Register(p) \/ Update(p) \/ WatchUpdate(p) \/ WatchRegister(p) \/ ModifyRead(p)
           \/ ModifyApply(p) \/ UpdateMerged(p) \/ MarkResult(p) \/ ResetQuota(p)
    PROVE  Edits(p) \/ Registers(p) \/ Replaces(p) \/ Writes(p)
<1>1. /\ auth # NoAuth => auth \in Auth
      /\ auth \in AuthOrNone /\ NoAuth \in AuthOrNone /\ Auth \subseteq AuthOrNone
      /\ NoAuth \notin Auth /\ authEpochs \in Nat /\ Now \in Nat
      /\ job[p] \in Job /\ job[p].kind \in Kinds /\ job[p].base \in AuthOrNone
      /\ job[p].draft \in AuthOrNone /\ job[p].seen \in Nat
      /\ Mutates(job[p]) => job[p].draft \in Auth
  BY Fields
<1>2. /\ {"edit", "io"} \subseteq Places
      /\ {"register", "load", "update", "watch", "modify", "refresh", "prepare", "mark", "reset"}
           \subseteq Kinds
  BY DEF Places, Kinds
<1>3. auth # NoAuth => auth.gen \in Nat /\ auth.tok \in Nat /\ auth.run \in Nat BY <1>1, Numbers
<1>4. store.tok \in Nat BY DEF TypeOK, StoreType
<1>5. ASSUME NEW kind \in Kinds, NEW base \in AuthOrNone, NEW d \in Auth, Save(p, kind, base, d)
      PROVE  Turn(p, "io", kind, base, d, IF auth = NoAuth THEN 0 ELSE auth.run)
  <2>1. (IF auth = NoAuth THEN 0 ELSE auth.run) \in Nat BY <1>3
  <2> QED BY <1>1, <1>2, <1>5, <2>1, BusyTurn DEF Save
<1>6. CASE Register(p)
  <2>1. PICK on \in BOOLEAN : Save(p, "register", NoAuth, NewAuth(Now, on)) BY <1>6 DEF Register
  <2>2. NewAuth(Now, on) \in Auth /\ NewAuth(Now, on).epoch = authEpochs + 1 BY <1>1, NewAuthIs
  <2>3. Turn(p, "io", "register", NoAuth, NewAuth(Now, on), IF auth = NoAuth THEN 0 ELSE auth.run)
    BY <1>1, <1>2, <1>5, <2>1, <2>2
  <2>4. (IF auth = NoAuth THEN 0 ELSE auth.run) \in Nat BY <1>3
  <2>5. /\ gate = NoProc /\ gate' = p /\ job[p].at \in Outside /\ authEpochs' = authEpochs + 1
        /\ UNCHANGED <<auth, storeVars, sched, SyncVars>>
    BY <1>6 DEF Register, Lock, At, Outside, schedVars, SyncVars
  <2> QED BY <2>2, <2>3, <2>4, <2>5 DEF Registers, storeVars
<1>7. CASE WatchRegister(p)
  <2>1. Save(p, "load", NoAuth, NewAuth(job[p].seen, TRUE)) BY <1>7 DEF WatchRegister
  <2> DEFINE d == NewAuth(job[p].seen, TRUE)
  <2>2. d \in Auth /\ d.epoch = authEpochs + 1 /\ d.tok = job[p].seen BY <1>1, NewAuthIs
  <2> HIDE DEF d
  <2>3. Turn(p, "io", "load", NoAuth, d, IF auth = NoAuth THEN 0 ELSE auth.run)
    BY <1>1, <1>2, <1>5, <2>1, <2>2 DEF d
  <2>4. (IF auth = NoAuth THEN 0 ELSE auth.run) \in Nat BY <1>3
  <2>5. /\ gate = NoProc /\ gate' = p /\ job[p].at \in Outside /\ authEpochs' = authEpochs + 1
        /\ UNCHANGED <<auth, persistLock, sched, SyncVars>>
    BY <1>7 DEF WatchRegister, Lock, At, Outside, schedVars, SyncVars
  <2>6. store'.tok = store.tok /\ (store'.apart = "no" => d.tok = store.tok)
    <3>1. store' = [store EXCEPT !.apart = IF job[p].seen # store.tok THEN "late" ELSE "no"]
      BY <1>7 DEF WatchRegister
    <3> QED BY <2>2, <3>1 DEF TypeOK, StoreType
  <2> QED BY <2>2, <2>3, <2>4, <2>5, <2>6 DEF Registers
<1>8. ASSUME NEW kind \in {"update", "watch", "modify", "refresh", "prepare"}, NEW base \in AuthOrNone,
             NEW e \in Auth, auth # NoAuth, e.gen <= auth.gen, Save(p, kind, base, NextAuth(e)),
             kind = "refresh" => base.epoch = auth.epoch /\ base.tok = auth.tok,
             store'.tok = store.tok, IF kind = "watch" THEN e.tok = store.tok ELSE UNCHANGED store,
             (gate = NoProc /\ job[p].at \in Outside) \/ (gate = p /\ job[p].at = "edit"), gate' = p,
             UNCHANGED <<auth, authEpochs, persistLock, sched, SyncVars>>
      PROVE  Replaces(p)
  <2> DEFINE d == NextAuth(e)
  <2>1. /\ d \in Auth /\ d.epoch = authEpochs /\ d.tok = e.tok
        /\ d.gen = Larger(e.gen, auth.gen) + 1
        /\ d.ver = IF e.tok # auth.tok THEN auth.ver + 1 ELSE auth.ver
    BY <1>1, <1>8, NextAuthIs
  <2>2. Turn(p, "io", kind, base, d, IF auth = NoAuth THEN 0 ELSE auth.run)
    <3>1. kind \in Kinds BY <1>2
    <3> QED BY <1>5, <1>8, <2>1, <3>1
  <2> HIDE DEF d
  <2>3. d.gen = auth.gen + 1
    <3>1. e.gen \in Nat /\ auth.gen \in Nat BY <1>1, <1>8, Numbers
    <3> QED BY <1>8, <2>1, <3>1 DEF Larger
  <2>4. Turn(p, "io", kind, base, d, auth.run) BY <1>8, <2>2
  <2>5. kind = "refresh" => base.epoch = auth.epoch /\ base.tok = auth.tok BY <1>8
  <2>6. IF kind = "watch" THEN d.tok = store.tok ELSE UNCHANGED store BY <1>8, <2>1
  <2>7. /\ auth # NoAuth /\ store'.tok = store.tok /\ gate' = p
        /\ (gate = NoProc /\ job[p].at \in Outside) \/ (gate = p /\ job[p].at = "edit")
        /\ UNCHANGED <<auth, authEpochs, persistLock, sched, SyncVars>>
    BY <1>8
  <2>8. d.ver = IF d.tok # auth.tok THEN auth.ver + 1 ELSE auth.ver BY <2>1
  <2> QED BY <2>1, <2>3, <2>4, <2>5, <2>6, <2>7, <2>8 DEF Replaces
<1>9. CASE Update(p)
  <2>1. PICK on \in BOOLEAN, tok \in {auth.tok, Now} :
            Save(p, "update", NoAuth,
                 NextAuth([auth EXCEPT !.gen = 0, !.tok = tok, !.on = on, !.run = Now]))
    BY <1>9 DEF Update
  <2>2. auth # NoAuth BY <1>9, ZenonT(60) DEF Update
  <2> DEFINE e == [auth EXCEPT !.gen = 0, !.tok = tok, !.on = on, !.run = Now]
  <2>3. e \in Auth BY <1>1, <1>3, <2>2, AuthEdits
  <2>4. e.gen <= auth.gen
    <3>1. e.gen = 0 BY <1>1, <2>2 DEF Auth
    <3> QED BY <1>3, <2>2, <3>1
  <2>5. /\ gate = NoProc /\ gate' = p /\ job[p].at \in Outside
        /\ UNCHANGED <<auth, authEpochs, storeVars, sched, SyncVars>>
    BY <1>9 DEF Update, Lock, At, Outside, schedVars, SyncVars
  <2> HIDE DEF e
  <2>6. Save(p, "update", NoAuth, NextAuth(e)) BY <2>1 DEF e
  <2>7. UNCHANGED store /\ UNCHANGED persistLock BY <2>5 DEF storeVars
  <2> QED BY <1>1, <1>8, <2>2, <2>3, <2>4, <2>5, <2>6, <2>7, SMTT(40)
<1>10. CASE WatchUpdate(p)
  <2>1. PICK run \in {auth.run, 0} :
            Save(p, "watch", NoAuth, NextAuth([auth EXCEPT !.gen = 0, !.tok = job[p].seen, !.run = run]))
    BY <1>10 DEF WatchUpdate
  <2>2. auth # NoAuth BY <1>10 DEF WatchUpdate
  <2> DEFINE e == [auth EXCEPT !.gen = 0, !.tok = job[p].seen, !.run = run]
  <2>3. e \in Auth BY <1>1, <1>3, <2>2, AuthEdits
  <2>4. e.gen <= auth.gen /\ e.tok = job[p].seen
    <3>1. e.gen = 0 /\ e.tok = job[p].seen BY <1>1, <2>2 DEF Auth
    <3> QED BY <1>3, <2>2, <3>1
  <2>5. /\ gate = NoProc /\ gate' = p /\ job[p].at \in Outside /\ job[p].seen = store.tok
        /\ store' = [store EXCEPT !.apart = "no"]
        /\ UNCHANGED <<auth, authEpochs, persistLock, sched, SyncVars>>
    BY <1>10 DEF WatchUpdate, Lock, At, Outside, schedVars, SyncVars, FileSnapshotMatchesDisk
  <2>6. store'.tok = store.tok BY <2>5 DEF TypeOK, StoreType
  <2> HIDE DEF e
  <2>7. Save(p, "watch", NoAuth, NextAuth(e)) BY <2>1 DEF e
  <2> QED BY <1>1, <1>8, <2>2, <2>3, <2>4, <2>5, <2>6, <2>7
<1>11. CASE UpdateMerged(p)
  <2>1. PICK tok \in {auth.tok, job[p].seen} :
          Save(p, job[p].kind, job[p].base,
               NextAuth([auth EXCEPT !.tok = tok,
                                     !.run = IF job[p].kind = "refresh" THEN job[p].seen ELSE @]))
    BY <1>11 DEF UpdateMerged
  <2>2. auth # NoAuth BY <1>11 DEF UpdateMerged
  <2> DEFINE e == [auth EXCEPT !.tok = tok, !.run = IF job[p].kind = "refresh" THEN job[p].seen ELSE @]
  <2>3. e \in Auth BY <1>1, <1>3, <2>2, AuthEdits, ZenonT(60)
  <2>4. e.gen <= auth.gen
    <3>1. e.gen = auth.gen BY <1>1, <2>2 DEF Auth
    <3> QED BY <1>3, <2>2, <3>1
  <2>5. /\ gate = NoProc /\ gate' = p /\ job[p].at \in Outside
        /\ UNCHANGED <<auth, authEpochs, storeVars, sched, SyncVars>>
    BY <1>11 DEF UpdateMerged, Lock, At, Outside, schedVars, SyncVars
  <2>6. job[p].kind \in {"refresh", "prepare"} BY <1>11 DEF UpdateMerged, At, Control, Started
  <2>7. job[p].kind = "refresh" => job[p].base.epoch = auth.epoch /\ job[p].base.tok = auth.tok
    BY <1>11 DEF UpdateMerged, StaleRefresh
  <2> HIDE DEF e
  <2>8. Save(p, job[p].kind, job[p].base, NextAuth(e)) BY <2>1 DEF e
  <2>9. UNCHANGED store /\ UNCHANGED persistLock BY <2>5 DEF storeVars
  <2> QED BY <1>1, <1>8, <2>2, <2>3, <2>4, <2>5, <2>6, <2>7, <2>8, <2>9
<1>12. CASE ModifyRead(p)
  <2> DEFINE d == [auth EXCEPT !.on = ~@]
  <2>1. auth # NoAuth /\ job' = [job EXCEPT ![p] = Busy("edit", "modify", NoAuth, d, 0)]
    BY <1>12 DEF ModifyRead
  <2>2. d \in Auth /\ d.gen = auth.gen /\ d.tok = auth.tok
    <3>1. d \in Auth BY <1>1, <2>1, AuthEdits
    <3> QED BY <1>1, <2>1, <3>1 DEF Auth
  <2> HIDE DEF d
  <2>3. Turn(p, "edit", "modify", NoAuth, d, 0) BY <1>1, <1>2, <2>1, <2>2, BusyTurn
  <2>4. /\ gate = NoProc /\ gate' = p /\ job[p].at \in Outside
        /\ UNCHANGED <<auth, authEpochs, storeVars, sched, SyncVars>>
    BY <1>12 DEF ModifyRead, Lock, At, Outside, schedVars, SyncVars
  <2> QED BY <2>1, <2>2, <2>3, <2>4 DEF Edits
<1>13. CASE ModifyApply(p)
  <2>1. job[p].at = "edit" BY <1>13 DEF ModifyApply, At
  <2>2. auth # NoAuth /\ job[p].draft.gen <= auth.gen BY <2>1 DEF Registered, Stands
  <2>3. gate = p /\ job[p].draft \in Auth BY <1>1, <2>1 DEF Control, Mutates
  <2>4. /\ gate' = gate /\ Save(p, "modify", NoAuth, NextAuth(job[p].draft))
        /\ UNCHANGED <<auth, authEpochs, storeVars, sched, SyncVars>>
    BY <1>13, <2>2 DEF ModifyApply, schedVars, SyncVars
  <2>5. UNCHANGED store /\ UNCHANGED persistLock BY <2>4 DEF storeVars
  <2> QED BY <1>1, <1>8, <2>1, <2>2, <2>3, <2>4, <2>5
<1>14. ASSUME NEW kind \in {"mark", "reset"}, NEW base \in AuthOrNone, NEW run \in Nat,
              auth # NoAuth, InPlace(run),
              job' = [job EXCEPT ![p] = Busy("io", kind, base, auth', run)],
              gate = NoProc, gate' = p, job[p].at \in Outside,
              UNCHANGED <<authEpochs, storeVars, sched, SyncVars>>
       PROVE  Writes(p)
  <2>1. auth' = [auth EXCEPT !.gen = @ + 1, !.run = run] /\ auth \in Auth BY <1>1, <1>14, SMTT(40) DEF InPlace
  <2>2. auth' \in Auth BY <2>1, AuthEdits
  <2>3. /\ auth'.epoch = auth.epoch /\ auth'.gen = auth.gen + 1 /\ auth'.ver = auth.ver
        /\ auth'.tok = auth.tok /\ auth'.on = auth.on /\ auth'.run = run
    BY <2>1 DEF Auth
  <2>4. Turn(p, "io", kind, base, auth', run) BY <1>1, <1>2, <1>14, <2>2, BusyTurn
  <2> QED BY <1>14, <2>2, <2>3, <2>4 DEF Writes
<1>15. CASE MarkResult(p)
  <2>1. /\ auth # NoAuth /\ InPlace(job[p].seen)
        /\ job' = [job EXCEPT ![p] = Busy("io", "mark", job[p].base, auth', job[p].seen)]
        /\ gate = NoProc /\ gate' = p /\ job[p].at \in Outside
        /\ UNCHANGED <<authEpochs, storeVars, sched, SyncVars>>
    BY <1>15 DEF MarkResult, Lock, At, Outside, schedVars, SyncVars
  <2> QED BY <1>1, <1>14, <2>1
<1>16. CASE ResetQuota(p)
  <2>1. /\ auth # NoAuth /\ InPlace(Now)
        /\ job' = [job EXCEPT ![p] = Busy("io", "reset", NoAuth, auth', Now)]
        /\ gate = NoProc /\ gate' = p /\ job[p].at \in Outside
        /\ UNCHANGED <<authEpochs, storeVars, sched, SyncVars>>
    BY <1>16 DEF ResetQuota, Lock, At, Outside, schedVars, SyncVars
  <2> QED BY <1>1, <1>14, <2>1
<1> QED BY <1>6, <1>7, <1>9, <1>10, <1>11, <1>12, <1>13, <1>15, <1>16

(* The save and the commit. *)
LEMMA SaveSteps ==
    ASSUME TypeOK, Control, Registered, NEW p \in Procs, SaveOk(p) \/ SaveFails(p) \/ Commit(p)
    PROVE  Returns(p) \/ Withholds(p) \/ Hands(p) \/ Commits(p)
<1>1. /\ auth # NoAuth => auth \in Auth
      /\ NoAuth \in AuthOrNone /\ Auth \subseteq AuthOrNone
      /\ NoAuth \notin Auth /\ authEpochs \in Nat
      /\ job[p] \in Job /\ job[p].kind \in Kinds
      /\ Mutates(job[p]) => job[p].draft \in Auth
  BY Fields
<1>2. JobType BY DEF TypeOK
<1>3. "commit" \in Places /\ "publish" \in Places BY DEF Places
<1>4. SaveOk(p) \/ SaveFails(p) => job[p].at = "io" /\ job[p].draft # NoAuth
  BY <1>1 DEF SaveOk, SaveFails, At, Mutates
<1>5. ASSUME Goto(p, "commit"), job[p].at = "io"
      PROVE  Turn(p, "commit", job[p].kind, job[p].base, job[p].draft, job[p].seen)
  BY <1>1, <1>2, <1>3, <1>5, GotoTurn DEF Mutates
<1>6. CASE SaveOk(p)
  <2>1. Turn(p, "commit", job[p].kind, job[p].base, job[p].draft, job[p].seen)
    BY <1>4, <1>5, <1>6 DEF SaveOk
  <2>2. UNCHANGED <<auth, authEpochs, gate, sched, SyncVars>>
    BY <1>6 DEF SaveOk, lockVars, schedVars, SyncVars
  <2>3. CASE PersistIsOld(job[p].draft)
    BY <1>4, <1>6, <2>1, <2>2, <2>3 DEF SaveOk, Returns
  <2>4. CASE ~PersistIsOld(job[p].draft)
    <3>1. /\ persistLock' = [epoch |-> job[p].draft.epoch, gen |-> job[p].draft.gen]
          /\ store' = IF SkipPersist(job[p].kind) THEN store ELSE [tok |-> job[p].draft.tok, apart |-> "no"]
      BY <1>6, <2>4 DEF SaveOk
    <3>2. \/ SkipPersist(job[p].kind) /\ UNCHANGED store
          \/ store'.tok = job[p].draft.tok /\ store'.apart = "no"
      BY <3>1
    <3> QED BY <1>4, <1>6, <2>1, <2>2, <3>1, <3>2 DEF Returns
  <2> QED BY <2>3, <2>4
<1>7. CASE SaveFails(p)
  <2>1. /\ ~SkipPersist(job[p].kind)
        /\ persistLock' = [epoch |-> job[p].draft.epoch, gen |-> job[p].draft.gen]
        /\ UNCHANGED <<auth, authEpochs, sched, SyncVars>>
    BY <1>7 DEF SaveFails, schedVars, SyncVars
  <2>2. CASE MustSave(job[p].kind)
    <3>1. gate' = NoProc /\ Finish(p) /\ UNCHANGED store BY <1>7, <2>2 DEF SaveFails, Done
    <3> QED BY <1>4, <1>7, <2>1, <2>2, <3>1, FinishTurn DEF Withholds, MustSave
  <2>3. CASE ~MustSave(job[p].kind)
    <3>1. /\ Goto(p, "commit") /\ UNCHANGED gate
          /\ store' = [store EXCEPT !.apart = IF store.tok # job[p].draft.tok THEN "unsaved" ELSE @]
      BY <1>7, <2>3 DEF SaveFails
    <3>2. store'.tok = store.tok /\ (store'.apart = "no" => store.tok = job[p].draft.tok)
      BY <3>1 DEF TypeOK, StoreType
    <3>3. Turn(p, "commit", job[p].kind, job[p].base, job[p].draft, job[p].seen)
      BY <1>4, <1>5, <1>7, <3>1
    <3> QED BY <1>4, <1>7, <2>1, <2>3, <3>1, <3>2, <3>3 DEF Returns
  <2> QED BY <2>2, <2>3
<1>8. CASE Commit(p)
  <2>1. /\ job[p].at = "commit" /\ gate' = NoProc /\ gate = p /\ job[p].draft \in Auth
        /\ UNCHANGED <<authEpochs, storeVars, sched, SyncVars>>
    BY <1>1, <1>8 DEF Commit, At, schedVars, SyncVars, Control, Mutates
  <2>2. /\ IsNew(job[p]) => job[p].draft.epoch = authEpochs
        /\ ~IsNew(job[p]) => auth \in Auth /\ Successor(job[p], auth)
    BY <1>1, <2>1 DEF Registered, Stands, InSave
  <2>3. ~IsNew(job[p]) => job[p].draft.epoch = authEpochs
    BY <1>1, <2>1, <2>2 DEF Registered, Settled, Successor
  <2>4. ASSUME NEW a \in Auth, Publish(p, a)
        PROVE  Turn(p, "publish", job[p].kind, NoAuth, a, 0)
    BY <1>1, <1>3, <2>4, BusyTurn DEF Publish
  <2>5. CASE job[p].kind = "mark"
    <3>1. Publish(p, auth) /\ UNCHANGED auth BY <1>8, <2>5 DEF Commit
    <3>2. auth \in Auth BY <2>2, <2>5 DEF IsNew
    <3> QED BY <2>1, <2>4, <2>5, <3>1, <3>2 DEF Hands
  <2>6. CASE job[p].kind = "reset"
    <3>1. Publish(p, job[p].draft) /\ UNCHANGED auth BY <1>8, <2>6 DEF Commit
    <3> QED BY <2>1, <2>4, <2>6, <3>1 DEF Hands
  <2>7. CASE job[p].kind \notin {"mark", "reset"}
    <3>1. /\ auth' = IF job[p].kind \in {"register", "load"} THEN job[p].draft ELSE MergeSaveDelta(p)
          /\ Publish(p, auth')
      BY <1>8, <2>2, <2>3, <2>7 DEF Commit
    <3>2. CASE IsNew(job[p])
      <4>1. auth' = job[p].draft BY <3>1, <3>2 DEF IsNew
      <4> QED BY <2>1, <2>2, <2>4, <2>7, <3>1, <3>2, <4>1 DEF Commits
    <3>3. CASE ~IsNew(job[p])
      <4>1. auth' = MergeSaveDelta(p) BY <3>1, <3>3 DEF IsNew
      <4>2. /\ auth' \in Auth /\ auth'.epoch = job[p].draft.epoch /\ auth'.tok = job[p].draft.tok
            /\ auth'.ver = job[p].draft.ver /\ auth'.gen = Larger(job[p].draft.gen, auth.gen + 1)
            /\ auth.run # job[p].seen => auth'.run = auth.run
        BY <2>1, <2>2, <3>3, <4>1, MergedIs
      <4>3. auth'.gen = auth.gen + 1
        <5>1. auth.gen \in Nat /\ job[p].draft.gen \in Nat BY <2>1, <2>2, <3>3, Numbers
        <5>2. job[p].draft.gen <= auth.gen + 1 BY <2>2, <3>3 DEF Successor
        <5> QED BY <4>2, <5>1, <5>2 DEF Larger
      <4> QED BY <2>1, <2>3, <2>4, <2>7, <3>1, <3>3, <4>2, <4>3 DEF Commits
    <3> QED BY <3>2, <3>3
  <2> QED BY <2>5, <2>6, <2>7
<1> QED BY <1>6, <1>7, <1>8

(* Removal, publication and the rebuild of the scheduler. *)
LEMMA SchedulerSteps ==
    ASSUME TypeOK, NEW p \in Procs,
           \/ Remove(p) \/ RefreshSchedulerEntry(p) \/ PublishToScheduler(p)
           \/ SyncBegin(p) \/ SyncCheck(p) \/ SyncSnapshot(p) \/ SyncRebuild(p) \/ SyncVerify(p)
    PROVE  \/ Removes(p) \/ Repeats(p) \/ Publishes(p)
           \/ Checks(p) \/ Decides(p) \/ Snaps(p) \/ Restores(p) \/ Ends(p)
<1>1. /\ auth # NoAuth => auth \in Auth
      /\ auth \in AuthOrNone /\ NoAuth \in AuthOrNone /\ authEpochs + 1 \in Nat
      /\ job[p] \in Job /\ job[p].kind \in Kinds /\ job[p].base \in AuthOrNone
      /\ job[p].draft \in AuthOrNone /\ job[p].seen \in Nat
  BY Fields
<1>2. JobType /\ version \in Nat BY DEF TypeOK, SchedType
<1>3. /\ {"publish", "bump", "check", "snapshot", "rebuild", "verify"} \subseteq Places
      /\ {"remove", "entry", "none", "sync"} \subseteq Kinds
  BY DEF Places, Kinds
<1>4. CASE Remove(p)
  <2>1. Turn(p, "publish", "remove", NoAuth, NoAuth, authEpochs + 1)
    BY <1>1, <1>3, <1>4, BusyTurn DEF Remove
  <2> QED BY <1>4, <2>1 DEF Remove, Removes, At, Outside, GateFree, lockVars, schedVars, SyncVars
<1>5. CASE RefreshSchedulerEntry(p)
  <2>1. Turn(p, "publish", "entry", NoAuth, auth, 0)
    BY <1>1, <1>3, <1>5, BusyTurn DEF RefreshSchedulerEntry
  <2> QED BY <1>5, <2>1 DEF RefreshSchedulerEntry, Repeats, At, Outside, lockVars
<1>6. CASE PublishToScheduler(p)
  <2>1. Finish(p) \/ job' = [job EXCEPT ![p] = Busy("bump", "none", NoAuth, NoAuth, 0)]
    BY <1>6 DEF PublishToScheduler
  <2>2. Idles(p) \/ Turn(p, "bump", "none", NoAuth, NoAuth, 0)
    BY <1>1, <1>3, <2>1, BusyTurn, FinishTurn
  <2> QED BY <1>6, <2>2 DEF PublishToScheduler, Publishes, At, lockVars, SyncVars
<1>7. CASE SyncBegin(p)
  <2>1. Turn(p, "check", "sync", NoAuth, NoAuth, version)
    BY <1>1, <1>2, <1>3, <1>7, BusyTurn DEF SyncBegin
  <2> QED BY <1>7, <2>1 DEF SyncBegin, Checks, At, Outside
<1>8. CASE SyncCheck(p) /\ needsSync
  <2>1. Goto(p, "snapshot") BY <1>8 DEF SyncCheck
  <2>2. Turn(p, "snapshot", job[p].kind, job[p].base, job[p].draft, job[p].seen)
    BY <1>2, <1>3, <2>1, GotoTurn
  <2> QED BY <1>8, <2>2 DEF SyncCheck, Decides, At, schedVars
<1>9. CASE SyncCheck(p) /\ ~needsSync
  BY <1>9, FinishTurn DEF SyncCheck, SyncEnd, advanceSyncedVersion, Ends, At
<1>10. CASE SyncVerify(p)
  BY <1>10, FinishTurn DEF SyncVerify, Verified, SyncEnd, advanceSyncedVersion, Ends, At
<1>11. ASSUME NEW at \in {"rebuild", "verify"}, NEW draft \in AuthOrNone,
              job' = [job EXCEPT ![p].at = at, ![p].draft = draft]
       PROVE  Turn(p, at, job[p].kind, job[p].base, draft, job[p].seen)
  <2>1. job' = [job EXCEPT ![p] = [job[p] EXCEPT !.at = at, !.draft = draft]]
    BY <1>2, <1>11 DEF JobType
  <2>2. [job[p] EXCEPT !.at = at, !.draft = draft] = Busy(at, job[p].kind, job[p].base, draft, job[p].seen)
    BY <1>1, <1>3, JobExcept
  <2> QED BY <1>1, <1>3, <2>1, <2>2, BusyTurn
<1>12. CASE SyncSnapshot(p)
  <2>1. Turn(p, "rebuild", job[p].kind, job[p].base, auth, job[p].seen)
    BY <1>1, <1>11, <1>12 DEF SyncSnapshot
  <2> QED BY <1>12, <2>1 DEF SyncSnapshot, Snaps, At, lockVars
<1>13. CASE SyncRebuild(p)
  <2>1. Turn(p, "verify", job[p].kind, job[p].base, NoAuth, job[p].seen)
    BY <1>1, <1>11, <1>13 DEF SyncRebuild
  <2> QED BY <1>13, <2>1 DEF SyncRebuild, Restores, At, lockVars, SyncVars
<1> QED BY <1>4, <1>5, <1>6, <1>7, <1>8, <1>9, <1>10, <1>12, <1>13

(* Every step is one of these. *)
LEMMA StepEvents ==
    ASSUME TypeOK, Control, Registered, Next
    PROVE  EditFile \/ Touch \/ \E p \in Procs : Events(p)
<1>1. CASE RefreshPending \/ markRejectedAccessToken BY <1>1, TouchSteps
<1>2. ASSUME NEW p \in Procs, Step(p) PROVE Touch \/ Events(p)
  <2>1. CASE \/ WatchRead(p) \/ WatchLookup(p) \/ WatchDiscard(p) \/ PrepareBegin(p) \/ PrepareFails(p)
             \/ RefreshBegin(p) \/ UpdateRejected(p) \/ Execute(p) \/ BumpStructuralEpoch(p)
    BY <2>1, CalmSteps DEF Events
  <2>2. CASE MarkResultDropped(p) \/ RefreshFails(p) \/ RefreshCancelled(p)
    BY <2>2, TouchSteps DEF Events
  <2>3. CASE \/ Register(p) \/ Update(p) \/ WatchUpdate(p) \/ WatchRegister(p) \/ ModifyRead(p)
             \/ ModifyApply(p) \/ UpdateMerged(p) \/ MarkResult(p) \/ ResetQuota(p)
    BY <2>3, MutationSteps DEF Events
  <2>4. CASE SaveOk(p) \/ SaveFails(p) \/ Commit(p) BY <2>4, SaveSteps DEF Events
  <2>5. CASE \/ Remove(p) \/ RefreshSchedulerEntry(p) \/ PublishToScheduler(p)
             \/ SyncBegin(p) \/ SyncCheck(p) \/ SyncSnapshot(p) \/ SyncRebuild(p) \/ SyncVerify(p)
    BY <2>5, SchedulerSteps DEF Events
  <2> QED BY <1>2, <2>1, <2>2, <2>3, <2>4, <2>5 DEF Step
<1> QED BY <1>1, <1>2 DEF Next

-----------------------------------------------------------------------------
(* Type correctness. *)

(* What a publication leaves in the scheduler. *)
LEMMA UpsertIs ==
    ASSUME SchedType, NEW a \in Auth, upsertAuth(a)
    PROVE  /\ sched' \in [epoch : Nat, gen : Nat, entry : AuthOrNone]
           /\ isStaleScheduledAuth(a) => sched' = sched
           /\ ~isStaleScheduledAuth(a) =>
                 /\ sched'.epoch = a.epoch /\ sched'.gen = a.gen
                 /\ sched'.entry = IF a.on THEN a ELSE NoAuth
<1>1. a.epoch \in Nat /\ a.gen \in Nat BY Numbers
<1>2. (IF a.on THEN a ELSE NoAuth) \in AuthOrNone BY DEF AuthOrNone
<1>3. /\ Scheduled(a) \in [epoch : Nat, gen : Nat, entry : AuthOrNone]
      /\ Scheduled(a).epoch = a.epoch /\ Scheduled(a).gen = a.gen
      /\ Scheduled(a).entry = IF a.on THEN a ELSE NoAuth
  BY <1>1, <1>2 DEF Scheduled
<1> QED BY <1>3 DEF upsertAuth, SchedType

(* What a tombstone leaves there. *)
LEMMA TombstoneIs ==
    ASSUME SchedType, NEW n \in Nat, RecordRemovalTombstone(n)
    PROVE  /\ sched' \in [epoch : Nat, gen : Nat, entry : AuthOrNone]
           /\ n < sched.epoch => sched' = sched
           /\ ~(n < sched.epoch) => sched'.epoch = n /\ sched'.gen = 0 /\ sched'.entry = NoAuth
<1>1. NoAuth \in AuthOrNone BY DEF AuthOrNone
<1> QED BY <1>1 DEF RecordRemovalTombstone, SchedType

(* What a rebuild leaves there. *)
LEMMA RebuildIs ==
    ASSUME SchedType, NEW a \in AuthOrNone, rebuild(a)
    PROVE  /\ sched' \in [epoch : Nat, gen : Nat, entry : AuthOrNone]
           /\ \/ sched' = sched
              \/ sched'.epoch = sched.epoch /\ sched'.gen = sched.gen /\ sched'.entry = NoAuth
              \/ /\ a \in Auth /\ a.on /\ ~isStaleScheduledAuth(a)
                 /\ sched'.epoch = a.epoch /\ sched'.gen = a.gen /\ sched'.entry = a
<1>1. sched \in [epoch : Nat, gen : Nat, entry : AuthOrNone] /\ NoAuth \in AuthOrNone
  BY DEF SchedType, AuthOrNone
<1>2. CASE sched' = sched BY <1>1, <1>2
<1>3. CASE sched' = [sched EXCEPT !.entry = NoAuth] BY <1>1, <1>3
<1>4. CASE a # NoAuth /\ ~(sched.epoch > a.epoch) /\ ~NewerThan(a) /\ a.on /\ sched' = Scheduled(a)
  <2>1. a \in Auth BY <1>4 DEF AuthOrNone
  <2>2. a.epoch \in Nat /\ a.gen \in Nat BY <2>1, Numbers
  <2>3. ~isStaleScheduledAuth(a) BY <1>4, <2>2 DEF isStaleScheduledAuth, NewerThan
  <2> QED BY <1>4, <2>1, <2>2, <2>3 DEF Scheduled
<1> QED BY <1>2, <1>3, <1>4 DEF rebuild

(* The jobs stay well typed. *)
LEMMA JobTypeStep ==
    ASSUME JobType, EditFile \/ Touch \/ \E p \in Procs : Events(p)
    PROVE  JobType'
<1>1. ASSUME NEW p \in Procs, NEW at, NEW kind, NEW base, NEW draft, NEW seen,
             Turn(p, at, kind, base, draft, seen)
      PROVE  JobType'
  BY <1>1, TurnIs
<1>2. CASE UNCHANGED job BY <1>2 DEF JobType, Carries
<1>3. CASE EditFile BY <1>2, <1>3 DEF EditFile
<1>4. ASSUME NEW p \in Procs, Idles(p) PROVE JobType' BY <1>1, <1>4 DEF Idles
<1>5. CASE Touch BY <1>2, <1>4, <1>5 DEF Touch
<1> SUFFICES ASSUME NEW p \in Procs, Events(p) PROVE JobType' BY <1>3, <1>5
<1>6. CASE Calm(p) BY <1>1, <1>6 DEF Calm
<1>7. CASE Cancels(p) \/ Withholds(p) \/ Ends(p) BY <1>4, <1>7 DEF Cancels, Withholds, Ends
<1>8. CASE Edits(p) BY <1>1, <1>8 DEF Edits
<1>9. CASE Registers(p) BY <1>1, <1>9 DEF Registers
<1>10. CASE Replaces(p) BY <1>1, <1>10 DEF Replaces
<1>11. CASE Writes(p) BY <1>1, <1>11 DEF Writes
<1>12. CASE Returns(p) \/ Hands(p) \/ Commits(p) BY <1>1, <1>12 DEF Returns, Hands, Commits
<1>13. CASE Removes(p) \/ Repeats(p) BY <1>1, <1>13 DEF Removes, Repeats
<1>14. CASE Publishes(p) BY <1>1, <1>4, <1>14 DEF Publishes
<1>15. CASE Checks(p) \/ Decides(p) \/ Snaps(p) \/ Restores(p)
  BY <1>1, <1>15 DEF Checks, Decides, Snaps, Restores
<1> QED BY <1>6, <1>7, <1>8, <1>9, <1>10, <1>11, <1>12, <1>13, <1>14, <1>15 DEF Events

(* So does the manager's record of the credential. *)
LEMMA ManagerTypeStep ==
    ASSUME TypeOK, Next, EditFile \/ Touch \/ \E p \in Procs : Events(p)
    PROVE  ManagerType'
<1>1. auth \in AuthOrNone /\ authEpochs \in Nat /\ isMeta \in BOOLEAN /\ ops \in 0 .. MaxOps
  BY DEF TypeOK, ManagerType
<1>2. isMeta' \in BOOLEAN BY <1>1 DEF Next
<1>3. UNCHANGED ops \/ Begin
  <2>1. CASE EditFile \/ RefreshPending \/ markRejectedAccessToken
    BY <2>1 DEF EditFile, RefreshPending, markRejectedAccessToken
  <2>2. ASSUME NEW p \in Procs, Step(p) PROVE UNCHANGED ops \/ Begin
    <3>1. CASE Register(p) \/ Update(p) \/ ModifyRead(p) \/ ModifyApply(p) \/ Remove(p)
      BY <3>1 DEF Register, Update, ModifyRead, ModifyApply, Remove
    <3>2. CASE WatchRead(p) \/ WatchLookup(p) \/ WatchDiscard(p) \/ WatchUpdate(p) \/ WatchRegister(p)
      BY <3>2 DEF WatchRead, WatchLookup, WatchDiscard, WatchUpdate, WatchRegister
    <3>3. CASE PrepareBegin(p) \/ PrepareFails(p) \/ RefreshBegin(p) \/ UpdateRejected(p) \/ UpdateMerged(p)
      BY <3>3 DEF PrepareBegin, PrepareFails, RefreshBegin, UpdateRejected, UpdateMerged
    <3>4. CASE RefreshFails(p) \/ RefreshCancelled(p) \/ Execute(p) \/ MarkResultDropped(p)
      BY <3>4 DEF RefreshFails, RefreshCancelled, Execute, MarkResultDropped
    <3>5. CASE MarkResult(p) \/ ResetQuota(p) \/ SaveOk(p) \/ SaveFails(p) \/ Commit(p)
      BY <3>5 DEF MarkResult, ResetQuota, SaveOk, SaveFails, Commit
    <3>6. CASE RefreshSchedulerEntry(p) \/ PublishToScheduler(p) \/ BumpStructuralEpoch(p)
      BY <3>6 DEF RefreshSchedulerEntry, PublishToScheduler, BumpStructuralEpoch
    <3>7. CASE SyncBegin(p) \/ SyncCheck(p) \/ SyncSnapshot(p) \/ SyncRebuild(p) \/ SyncVerify(p)
      BY <3>7 DEF SyncBegin, SyncCheck, SyncSnapshot, SyncRebuild, SyncVerify
    <3> QED BY <2>2, <3>1, <3>2, <3>3, <3>4, <3>5, <3>6, <3>7 DEF Step
  <2> QED BY <2>1, <2>2 DEF Next
<1>4. ops' \in 0 .. MaxOps BY <1>1, <1>3, ConstantsAssumption DEF Begin
<1>5. auth' \in AuthOrNone /\ authEpochs' \in Nat
  <2>1. CASE EditFile BY <1>1, <2>1 DEF EditFile
  <2>2. CASE Touch BY <1>1, <2>2 DEF Touch, AuthOrNone
  <2>3. ASSUME NEW p \in Procs, Events(p) PROVE auth' \in AuthOrNone /\ authEpochs' \in Nat
    <3>1. CASE Calm(p) \/ Cancels(p) \/ Edits(p) \/ Registers(p) \/ Replaces(p) \/ Returns(p)
      BY <1>1, <3>1 DEF Calm, Cancels, Edits, Registers, Replaces, Returns
    <3>2. CASE Writes(p) \/ Commits(p) \/ Removes(p)
      BY <1>1, <3>2 DEF Writes, Commits, Removes, AuthOrNone
    <3>3. CASE Withholds(p) \/ Hands(p) \/ Repeats(p) \/ Publishes(p)
      BY <1>1, <3>3 DEF Withholds, Hands, Repeats, Publishes
    <3>4. CASE Checks(p) \/ Decides(p) \/ Snaps(p) \/ Restores(p) \/ Ends(p)
      BY <1>1, <3>4 DEF Checks, Decides, Snaps, Restores, Ends
    <3> QED BY <2>3, <3>1, <3>2, <3>3, <3>4 DEF Events
  <2> QED BY <2>1, <2>2, <2>3
<1> QED BY <1>2, <1>4, <1>5 DEF ManagerType

(* Only goroutines hold locks. *)
LEMMA LockTypeStep == ASSUME LockType, Next PROVE LockType'
<1> DEFINE L == Procs \cup {NoProc}
<1>1. gate \in L /\ refreshLock \in L /\ prepareLock \in L /\ syncMu \in L BY DEF LockType
<1> DEFINE Good == gate' \in L /\ refreshLock' \in L /\ prepareLock' \in L /\ syncMu' \in L
<1>2. CASE EditFile \/ RefreshPending \/ markRejectedAccessToken
  <2>1. UNCHANGED <<gate, refreshLock, prepareLock, syncMu>>
    BY <1>2 DEF EditFile, RefreshPending, markRejectedAccessToken, lockVars, loginLocks
  <2> QED BY <1>1, <2>1 DEF LockType
<1>3. ASSUME NEW p \in Procs, Step(p) PROVE Good
  <2>1. Unlocked(refreshLock, p) \in L /\ Unlocked(prepareLock, p) \in L BY <1>1 DEF Unlocked
  <2>2. NoProc \in L /\ p \in L OBVIOUS
  <2> HIDE DEF L
  <2>3. CASE Register(p) \/ Update(p) \/ ModifyRead(p) \/ ModifyApply(p) \/ Remove(p)
    BY <1>1, <2>2, <2>3 DEF Register, Update, ModifyRead, ModifyApply, Remove, Lock, lockVars, loginLocks
  <2>4. CASE WatchRead(p) \/ WatchLookup(p) \/ WatchDiscard(p) \/ WatchUpdate(p) \/ WatchRegister(p)
    BY <1>1, <2>2, <2>4
       DEF WatchRead, WatchLookup, WatchDiscard, WatchUpdate, WatchRegister, Lock, lockVars, loginLocks
  <2>5. CASE PrepareBegin(p) \/ PrepareFails(p) \/ RefreshBegin(p) \/ UpdateRejected(p) \/ UpdateMerged(p)
    BY <1>1, <2>1, <2>2, <2>5
       DEF PrepareBegin, PrepareFails, RefreshBegin, UpdateRejected, UpdateMerged, Lock, Done, loginLocks
  <2>6. CASE RefreshFails(p) \/ RefreshCancelled(p) \/ Execute(p) \/ MarkResultDropped(p)
    BY <1>1, <2>1, <2>6
       DEF RefreshFails, RefreshCancelled, Execute, MarkResultDropped, Done, lockVars, loginLocks
  <2>7. CASE MarkResult(p) \/ ResetQuota(p) \/ SaveOk(p) \/ SaveFails(p)
    BY <1>1, <2>1, <2>2, <2>7
       DEF MarkResult, ResetQuota, SaveOk, SaveFails, Lock, Done, lockVars, loginLocks
  <2>8. CASE Commit(p)
    <3>1. gate' = NoProc /\ UNCHANGED syncMu BY <2>8 DEF Commit
    <3>2. Done(p) \/ UNCHANGED loginLocks BY <2>8 DEF Commit
    <3> QED BY <1>1, <2>1, <2>2, <3>1, <3>2 DEF Done, loginLocks
  <2>9. CASE RefreshSchedulerEntry(p) \/ PublishToScheduler(p) \/ BumpStructuralEpoch(p)
    BY <1>1, <2>1, <2>9
       DEF RefreshSchedulerEntry, PublishToScheduler, BumpStructuralEpoch, Done, lockVars, loginLocks
  <2>10. CASE SyncBegin(p) \/ SyncCheck(p) \/ SyncSnapshot(p) \/ SyncRebuild(p) \/ SyncVerify(p)
    BY <1>1, <2>2, <2>10
       DEF SyncBegin, SyncCheck, SyncSnapshot, SyncRebuild, SyncVerify, SyncEnd, lockVars, loginLocks
  <2> QED BY <1>3, <2>3, <2>4, <2>5, <2>6, <2>7, <2>8, <2>9, <2>10 DEF Step
<1>4. ASSUME Good PROVE LockType' BY <1>4 DEF LockType
<1> QED BY <1>2, <1>3, <1>4 DEF Next

(* The file and its lock stay well typed. *)
LEMMA StoreTypeStep == ASSUME TypeOK, Next PROVE StoreType'
<1>1. /\ persistLock \in [epoch : Nat, gen : Nat]
      /\ store \in [tok : Nat, apart : {"no", "unsaved", "edited", "late"}]
  BY DEF TypeOK, StoreType
<1>2. Now \in Nat /\ \A p \in Procs : InSave(job[p]) => job[p].draft \in Auth
  BY Fields DEF InSave, Mutates
<1>3. CASE UNCHANGED storeVars BY <1>1, <1>3 DEF storeVars, StoreType
<1>4. CASE EditFile BY <1>1, <1>2, <1>4 DEF EditFile, StoreType
<1>5. CASE RefreshPending \/ markRejectedAccessToken
  BY <1>3, <1>5 DEF RefreshPending, markRejectedAccessToken
<1>6. ASSUME NEW p \in Procs, Step(p) PROVE StoreType'
  <2>1. CASE Register(p) \/ Update(p) \/ ModifyRead(p) \/ ModifyApply(p) \/ Remove(p)
    BY <1>3, <2>1 DEF Register, Update, ModifyRead, ModifyApply, Remove
  <2>2. CASE WatchRead(p) \/ WatchLookup(p) \/ WatchDiscard(p)
    BY <1>3, <2>2 DEF WatchRead, WatchLookup, WatchDiscard
  <2>3. CASE WatchUpdate(p) \/ WatchRegister(p)
    BY <1>1, <2>3 DEF WatchUpdate, WatchRegister, StoreType
  <2>4. CASE PrepareBegin(p) \/ PrepareFails(p) \/ RefreshBegin(p) \/ UpdateRejected(p) \/ UpdateMerged(p)
    BY <1>3, <2>4 DEF PrepareBegin, PrepareFails, RefreshBegin, UpdateRejected, UpdateMerged
  <2>5. CASE RefreshFails(p) \/ RefreshCancelled(p) \/ Execute(p) \/ MarkResultDropped(p)
    BY <1>3, <2>5 DEF RefreshFails, RefreshCancelled, Execute, MarkResultDropped
  <2>6. CASE MarkResult(p) \/ ResetQuota(p) \/ Commit(p)
    BY <1>3, <2>6 DEF MarkResult, ResetQuota, Commit
  <2>7. CASE SaveOk(p) \/ SaveFails(p)
    <3>1. job[p].draft \in Auth BY <1>2, <2>7 DEF SaveOk, SaveFails, At, InSave
    <3>2. [epoch |-> job[p].draft.epoch, gen |-> job[p].draft.gen] \in [epoch : Nat, gen : Nat]
      BY <3>1, Numbers
    <3>3. [tok |-> job[p].draft.tok, apart |-> "no"]
            \in [tok : Nat, apart : {"no", "unsaved", "edited", "late"}]
      BY <3>1, Numbers
    <3>4. CASE SaveOk(p) BY <1>1, <1>3, <3>2, <3>3, <3>4 DEF SaveOk, StoreType, storeVars
    <3>5. CASE SaveFails(p)
      <4>1. persistLock' \in [epoch : Nat, gen : Nat] BY <3>2, <3>5 DEF SaveFails
      <4>2. \/ UNCHANGED store
            \/ store' = [store EXCEPT !.apart = IF store.tok # job[p].draft.tok THEN "unsaved" ELSE @]
        BY <3>5 DEF SaveFails
      <4> QED BY <1>1, <4>1, <4>2 DEF StoreType
    <3> QED BY <2>7, <3>4, <3>5
  <2>8. CASE RefreshSchedulerEntry(p) \/ PublishToScheduler(p) \/ BumpStructuralEpoch(p)
    BY <1>3, <2>8 DEF RefreshSchedulerEntry, PublishToScheduler, BumpStructuralEpoch
  <2>9. CASE SyncBegin(p) \/ SyncCheck(p) \/ SyncSnapshot(p) \/ SyncRebuild(p) \/ SyncVerify(p)
    BY <1>3, <2>9 DEF SyncBegin, SyncCheck, SyncSnapshot, SyncRebuild, SyncVerify
  <2> QED BY <1>6, <2>1, <2>2, <2>3, <2>4, <2>5, <2>6, <2>7, <2>8, <2>9, SMTT(40) DEF Step
<1> QED BY <1>4, <1>5, <1>6 DEF Next

(* So does the scheduler. *)
LEMMA SchedTypeStep ==
    ASSUME TypeOK, EditFile \/ Touch \/ \E p \in Procs : Events(p)
    PROVE  SchedType'
<1> DEFINE S == [epoch : Nat, gen : Nat, entry : AuthOrNone]
<1>1. SchedType /\ sched \in S /\ version \in Nat /\ synced \in Nat BY DEF TypeOK, SchedType
<1>2. /\ auth # NoAuth => auth \in Auth
      /\ \A p \in Procs : /\ job[p].draft \in AuthOrNone /\ job[p].seen \in Nat
                          /\ job[p].draft # NoAuth => job[p].draft \in Auth
  BY Fields
<1>3. \A p \in Procs : Carries(job[p]) BY DEF TypeOK, JobType
<1> HIDE DEF S
<1>4. ASSUME NEW a \in Auth, upsertAuth(a) PROVE sched' \in S BY <1>1, <1>4, UpsertIs DEF S
<1>5. ASSUME sched' \in S, version' \in {version, version + 1}, UNCHANGED synced PROVE SchedType'
  BY <1>1, <1>5 DEF SchedType, S
<1>6. CASE EditFile BY <1>1, <1>5, <1>6 DEF EditFile, schedVars
<1>7. CASE Touch
  <2>1. sched' \in S BY <1>1, <1>4, <1>7 DEF Touch
  <2> QED BY <1>5, <1>7, <2>1 DEF Touch, SyncVars
<1> SUFFICES ASSUME NEW p \in Procs, Events(p) PROVE SchedType' BY <1>6, <1>7
<1>8. CASE Calm(p) \/ Edits(p) \/ Registers(p) \/ Replaces(p) \/ Writes(p) \/ Returns(p)
  BY <1>1, <1>5, <1>8 DEF Calm, Edits, Registers, Replaces, Writes, Returns, SyncVars
<1>9. CASE Cancels(p)
  <2>1. sched' \in S BY <1>2, <1>4, <1>9 DEF Cancels
  <2> QED BY <1>5, <1>9, <2>1 DEF Cancels, SyncVars
<1>10. CASE Withholds(p) \/ Hands(p) \/ Commits(p) \/ Removes(p) \/ Repeats(p)
  BY <1>1, <1>5, <1>10 DEF Withholds, Hands, Commits, Removes, Repeats, SyncVars
<1>11. CASE Publishes(p)
  <2>1. CASE job[p].kind = "remove"
    <3>1. sched' \in S BY <1>1, <1>2, <1>11, <2>1, TombstoneIs DEF Publishes, S
    <3> QED BY <1>5, <1>11, <3>1 DEF Publishes, SyncVars
  <2>2. CASE job[p].kind # "remove"
    <3>1. job[p].draft \in Auth BY <1>2, <1>3, <1>11, <2>2 DEF Publishes, Carries
    <3>2. sched' \in S BY <1>4, <1>11, <2>2, <3>1 DEF Publishes
    <3> QED BY <1>5, <1>11, <3>2 DEF Publishes, SyncVars
  <2> QED BY <2>1, <2>2
<1>12. CASE Checks(p) \/ Decides(p) \/ Snaps(p)
  BY <1>1, <1>5, <1>12 DEF Checks, Decides, Snaps, schedVars
<1>13. CASE Restores(p)
  <2>1. sched' \in S BY <1>1, <1>2, <1>13, RebuildIs DEF Restores, S
  <2> QED BY <1>5, <1>13, <2>1 DEF Restores, SyncVars
<1>14. CASE Ends(p)
  <2>1. synced' \in Nat BY <1>1, <1>2, <1>14 DEF Ends, Larger
  <2> QED BY <1>1, <1>14, <2>1 DEF Ends, SchedType, S
<1> QED BY <1>8, <1>9, <1>10, <1>11, <1>12, <1>13, <1>14 DEF Events

(* Every step keeps the types. *)
LEMMA TypeStep ==
    ASSUME TypeOK, Control, Registered, Next PROVE TypeOK'
<1>1. EditFile \/ Touch \/ \E p \in Procs : Events(p) BY StepEvents
<1>2. JobType' BY <1>1, JobTypeStep DEF TypeOK
<1>3. LockType' BY LockTypeStep DEF TypeOK
<1> QED BY <1>1, <1>2, <1>3, ManagerTypeStep, StoreTypeStep, SchedTypeStep DEF TypeOK

-----------------------------------------------------------------------------
(* Control and registration. *)

(* A step of p that leaves the credential, its file and its gate alone. *)
Quiet(p) ==
    /\ ~Mutates(job[p]) /\ ~Mutates(job'[p]) /\ Started(job'[p])
    /\ \A q \in Procs : q # p => job'[q] = job[q]
    /\ UNCHANGED <<auth, authEpochs, gate, storeVars>>

(* The events that neither commit nor save leave the credential alone. *)
LEMMA QuietEvents ==
    ASSUME TypeOK, NEW p \in Procs,
           \/ Calm(p) \/ Cancels(p) \/ Repeats(p) \/ Publishes(p)
           \/ Checks(p) \/ Decides(p) \/ Snaps(p) \/ Restores(p) \/ Ends(p)
    PROVE  Quiet(p)
<1>1. JobType BY DEF TypeOK
<1>2. ASSUME NEW at, NEW kind, NEW base, NEW draft, NEW seen, Turn(p, at, kind, base, draft, seen),
             at \notin {"edit", "io", "commit"}, job[p].at \notin {"edit", "io", "commit"},
             at \in {"upstream", "executing"} => base # NoAuth,
             at = "upstream" => kind \in {"refresh", "prepare"},
             at = "found" => kind \in {"watch", "load"},
             UNCHANGED <<auth, authEpochs, gate, storeVars>>
      PROVE  Quiet(p)
  <2>1. /\ \A q \in Procs : q # p => job'[q] = job[q]
        /\ job'[p].at = at /\ job'[p].kind = kind /\ job'[p].base = base
    BY <1>1, <1>2, TurnIs
  <2> QED BY <1>2, <2>1 DEF Quiet, Mutates, Started
<1>3. CASE Calm(p)
  <2>1. PICK at \in Outside, kind \in Kinds, base \in AuthOrNone, draft \in AuthOrNone, seen \in Nat :
          /\ Turn(p, at, kind, base, draft, seen)
          /\ at \in {"upstream", "executing"} => base # NoAuth
          /\ at = "upstream" => kind \in {"refresh", "prepare"}
          /\ at = "found" => kind \in {"watch", "load"}
    BY <1>3 DEF Calm
  <2>2. at \notin {"edit", "io", "commit"} /\ job[p].at \notin {"edit", "io", "commit"}
    BY <1>3 DEF Calm, Outside
  <2>3. UNCHANGED <<auth, authEpochs, gate, storeVars>> BY <1>3 DEF Calm
  <2> QED BY <1>2, <2>1, <2>2, <2>3
<1>4. CASE Cancels(p) BY <1>2, <1>4 DEF Cancels, Outside, Idles
<1>5. CASE Repeats(p) BY <1>2, <1>5 DEF Repeats, Outside
<1>6. CASE Publishes(p) BY <1>2, <1>6 DEF Publishes, Idles
<1>7. CASE Checks(p) BY <1>2, <1>7 DEF Checks, Outside
<1>8. CASE Decides(p) BY <1>2, <1>8 DEF Decides
<1>9. CASE Snaps(p) BY <1>2, <1>9 DEF Snaps
<1>10. CASE Restores(p) BY <1>2, <1>10 DEF Restores
<1>11. CASE Ends(p) BY <1>2, <1>11 DEF Ends, Idles
<1> QED BY <1>3, <1>4, <1>5, <1>6, <1>7, <1>8, <1>9, <1>10, <1>11

(* So is what a write without the gate does to the jobs. *)
LEMMA TouchJobs ==
    ASSUME JobType, Touch
    PROVE  \/ UNCHANGED job
           \/ \E p \in Procs :
                 /\ job[p].at \in Outside /\ job'[p].at = "idle"
                 /\ \A q \in Procs : q # p => job'[q] = job[q]
<1>1. CASE UNCHANGED job BY <1>1
<1>2. ASSUME NEW p \in Procs, job[p].at \in Outside, Idles(p)
      PROVE  job'[p].at = "idle" /\ \A q \in Procs : q # p => job'[q] = job[q]
  BY <1>2, TurnIs DEF Idles
<1> QED BY <1>1, <1>2 DEF Touch

(* The gate is held by the goroutine that mutates. *)
LEMMA ControlStep ==
    ASSUME TypeOK, Control, EditFile \/ Touch \/ \E p \in Procs : Events(p)
    PROVE  Control'
<1>1. JobType BY DEF TypeOK
<1>2. ASSUME NEW p \in Procs, \A q \in Procs : q # p => job'[q] = job[q], Started(job'[p]),
             gate' = p <=> Mutates(job'[p]), \A q \in Procs : q # p => (gate' = q <=> gate = q)
      PROVE  Control'
  BY <1>2 DEF Control, Started, Mutates
<1>3. ASSUME NEW p \in Procs, NEW at \in {"edit", "io", "commit"}, NEW kind, NEW base, NEW draft, NEW seen,
             Turn(p, at, kind, base, draft, seen), gate \in {NoProc, p}, gate' = p, kind # "remove"
      PROVE  Control'
  <2>1. (\A q \in Procs : q # p => job'[q] = job[q]) /\ job'[p].at = at /\ job'[p].kind = kind
    BY <1>1, <1>3, TurnIs
  <2>2. Started(job'[p]) /\ Mutates(job'[p]) BY <1>3, <2>1 DEF Started, Mutates
  <2> QED BY <1>2, <1>3, <2>1, <2>2, ConstantsAssumption
<1>4. ASSUME NEW p \in Procs, NEW at \in {"idle", "publish"}, NEW kind, NEW base, NEW draft, NEW seen,
             Turn(p, at, kind, base, draft, seen), gate \in {NoProc, p}, gate' = NoProc
      PROVE  Control'
  <2>1. (\A q \in Procs : q # p => job'[q] = job[q]) /\ job'[p].at = at BY <1>1, <1>4, TurnIs
  <2>2. Started(job'[p]) /\ ~Mutates(job'[p]) BY <2>1 DEF Started, Mutates
  <2> QED BY <1>2, <1>4, <2>1, <2>2, ConstantsAssumption
<1>5. CASE EditFile BY <1>5 DEF EditFile, Control, lockVars
<1>6. CASE Touch
  <2>1. UNCHANGED gate BY <1>6 DEF Touch
  <2>2. CASE UNCHANGED job BY <2>1, <2>2 DEF Control
  <2>3. ASSUME NEW p \in Procs, job[p].at \in Outside, job'[p].at = "idle",
               \A q \in Procs : q # p => job'[q] = job[q]
        PROVE  Control'
    <3>1. ~Mutates(job[p]) /\ ~Mutates(job'[p]) /\ Started(job'[p])
      BY <2>3 DEF Mutates, Started, Outside
    <3> QED BY <1>2, <2>1, <2>3, <3>1 DEF Control
  <2> QED BY <1>1, <1>6, <2>2, <2>3, TouchJobs
<1> SUFFICES ASSUME NEW p \in Procs, Events(p) PROVE Control' BY <1>5, <1>6
<1>7. CASE Quiet(p)
  <2>1. UNCHANGED gate /\ ~Mutates(job[p]) /\ ~Mutates(job'[p]) /\ Started(job'[p])
    BY <1>7 DEF Quiet
  <2>2. gate # p BY <2>1 DEF Control
  <2> QED BY <1>2, <1>7, <2>1, <2>2 DEF Quiet
<1>8. job[p].at \in {"edit", "io", "commit"} => gate = p /\ job[p].kind # "remove"
  BY DEF Control, Mutates, Started
<1>9. CASE Edits(p) BY <1>3, <1>9 DEF Edits
<1>10. CASE Registers(p) BY <1>3, <1>10 DEF Registers
<1>11. CASE Replaces(p) BY <1>3, <1>11 DEF Replaces
<1>12. CASE Writes(p) BY <1>3, <1>12 DEF Writes
<1>13. CASE Returns(p) BY <1>3, <1>8, <1>13 DEF Returns
<1>14. CASE Withholds(p) BY <1>4, <1>8, <1>14 DEF Withholds, Idles
<1>15. CASE Hands(p) BY <1>4, <1>8, <1>15 DEF Hands
<1>16. CASE Commits(p) BY <1>4, <1>8, <1>16 DEF Commits
<1>17. CASE Removes(p) BY <1>4, <1>17 DEF Removes
<1> QED BY <1>7, <1>9, <1>10, <1>11, <1>12, <1>13, <1>14, <1>15, <1>16, <1>17, QuietEvents DEF Events

(* How the credential and the settled epoch move together. *)
Ages ==
    \/ UNCHANGED auth /\ Settled' = Settled
    \/ /\ auth \in Auth /\ auth' \in Auth /\ Settled' = Settled
       /\ auth'.epoch = auth.epoch /\ auth'.gen = auth.gen + 1
       /\ auth'.ver >= auth.ver /\ (auth'.ver = auth.ver => auth'.tok = auth.tok)
    \/ /\ Settled' = Settled + 1
       /\ auth # NoAuth \/ auth' # NoAuth
       /\ auth' # NoAuth => auth' \in Auth /\ auth'.epoch = Settled'

(* The settled epoch, by who holds the gate. *)
LEMMA SettledIs ==
    ASSUME TypeOK
    PROVE  /\ gate = NoProc => Settled = authEpochs
           /\ \A p \in Procs : gate = p =>
                 Settled = IF InSave(job[p]) /\ IsNew(job[p]) THEN authEpochs - 1 ELSE authEpochs
           /\ gate' = NoProc => Settled' = authEpochs'
           /\ \A p \in Procs : gate' = p =>
                 Settled' = IF InSave(job'[p]) /\ IsNew(job'[p]) THEN authEpochs' - 1 ELSE authEpochs'
  BY ConstantsAssumption DEF Settled, InSave, IsNew

(* Every step ages the credential, or registers or removes it. *)
LEMMA AgesStep ==
    ASSUME TypeOK, Control, Registered, EditFile \/ Touch \/ \E p \in Procs : Events(p)
    PROVE  Ages
<1>1. JobType /\ authEpochs \in Nat BY DEF TypeOK, ManagerType
<1>2. CASE UNCHANGED <<auth, authEpochs, gate, job>>
  BY <1>2 DEF Ages, Settled, InSave, IsNew
<1>3. ASSUME NEW p \in Procs, ~Mutates(job[p]), \A q \in Procs : q # p => job'[q] = job[q],
             UNCHANGED <<authEpochs, gate>>
      PROVE  Settled' = Settled
  <2>1. gate # p BY <1>3 DEF Control
  <2>2. gate \in Procs => job'[gate] = job[gate] BY <1>3, <2>1
  <2> QED BY <1>3, <2>2 DEF Settled, InSave, IsNew
<1>4. CASE EditFile BY <1>2, <1>4 DEF EditFile, lockVars
<1>5. CASE Touch
  <2>1. Settled' = Settled
    <3>1. UNCHANGED <<authEpochs, gate>> BY <1>5 DEF Touch
    <3>2. CASE UNCHANGED job BY <3>1, <3>2 DEF Settled, InSave, IsNew
    <3>3. ASSUME NEW p \in Procs, job[p].at \in Outside, \A q \in Procs : q # p => job'[q] = job[q]
          PROVE  Settled' = Settled
      <4>1. ~Mutates(job[p]) BY <3>3 DEF Mutates, Outside
      <4> QED BY <1>3, <3>1, <3>3, <4>1
    <3> QED BY <1>1, <1>5, <3>2, <3>3, TouchJobs
  <2>2. auth'.ver \in Nat BY <1>5, Numbers DEF Touch
  <2> QED BY <1>5, <2>1, <2>2 DEF Touch, Ages
<1> SUFFICES ASSUME NEW p \in Procs, Events(p) PROVE Ages BY <1>4, <1>5
<1>6. CASE Quiet(p) BY <1>3, <1>6 DEF Quiet, Ages
<1>7. job[p].at \in {"edit", "io", "commit"} => gate = p BY DEF Control, Mutates
<1>8. job[p].at \notin {"io", "commit"} => (gate = p => Settled = authEpochs)
  BY SettledIs DEF InSave
<1>9. CASE Edits(p)
  <2>1. Turn(p, "edit", "modify", NoAuth, job'[p].draft, 0)
    BY <1>1, <1>9, TurnIs DEF Edits
  <2>2. job'[p].at = "edit" BY <1>1, <2>1, TurnIs
  <2> QED BY <1>9, <2>2, SettledIs DEF Edits, Ages, InSave
<1>10. CASE Registers(p)
  <2>1. job'[p].at = "io" /\ job'[p].kind \in {"register", "load"}
    BY <1>1, <1>10, TurnIs DEF Registers
  <2> QED BY <1>1, <1>10, <2>1, SettledIs DEF Registers, Ages, InSave, IsNew
<1>11. CASE Replaces(p)
  <2>1. job'[p].kind \notin {"register", "load"} BY <1>1, <1>11, TurnIs DEF Replaces
  <2> QED BY <1>8, <1>11, <2>1, SettledIs DEF Replaces, Ages, IsNew
<1>12. CASE Writes(p)
  <2>1. job'[p].kind \notin {"register", "load"} BY <1>1, <1>12, TurnIs DEF Writes
  <2>2. Settled' = Settled BY <1>12, <2>1, SettledIs DEF Writes, IsNew
  <2>3. auth \in Auth BY <1>12, Fields DEF Writes
  <2>4. auth'.ver \in Nat BY <1>12, Numbers DEF Writes
  <2> QED BY <1>12, <2>2, <2>3, <2>4 DEF Writes, Ages
<1>13. CASE Returns(p)
  <2>1. job'[p].at = "commit" /\ job'[p].kind = job[p].kind BY <1>1, <1>13, TurnIs DEF Returns
  <2> QED BY <1>7, <1>13, <2>1, SettledIs DEF Returns, Ages, InSave, IsNew
<1>14. CASE Withholds(p)
  BY <1>7, <1>14, SettledIs DEF Withholds, Ages, IsNew
<1>15. CASE Hands(p)
  BY <1>7, <1>15, SettledIs DEF Hands, Ages, IsNew
<1>16. CASE Commits(p)
  <2>1. gate = p /\ Settled' = authEpochs' BY <1>7, <1>16, SettledIs DEF Commits
  <2>2. CASE IsNew(job[p])
    <3>1. Settled = authEpochs - 1 BY <1>16, <2>1, <2>2, SettledIs DEF Commits, InSave
    <3> QED BY <1>1, <1>16, <2>1, <3>1, ConstantsAssumption DEF Commits, Ages
  <2>3. CASE ~IsNew(job[p])
    <3>1. Settled = authEpochs BY <2>1, <2>3, SettledIs
    <3>2. auth # NoAuth /\ Successor(job[p], auth) BY <1>16, <2>3 DEF Commits, Registered, Stands, InSave
    <3>3. auth \in Auth BY <3>2, Fields
    <3>4. auth.ver \in Nat BY <3>3, Numbers
    <3>5. /\ auth'.epoch = auth.epoch
          /\ auth'.ver >= auth.ver /\ (auth'.ver = auth.ver => auth'.tok = auth.tok)
      <4>1. /\ auth'.ver = job[p].draft.ver /\ auth'.tok = job[p].draft.tok
            /\ auth'.epoch = authEpochs
        BY <1>16 DEF Commits
      <4>2. auth.epoch = authEpochs BY <3>1, <3>2 DEF Registered
      <4> QED BY <3>2, <3>4, <4>1, <4>2 DEF Successor
    <3> QED BY <1>16, <2>1, <2>3, <3>1, <3>3, <3>5 DEF Commits, Ages
  <2> QED BY <2>2, <2>3
<1>17. CASE Removes(p)
  BY <1>17, SettledIs DEF Removes, Ages
<1> QED BY <1>6, <1>9, <1>10, <1>11, <1>12, <1>13, <1>14, <1>15, <1>16, <1>17, QuietEvents DEF Events

(* A mutation keeps its registration, and its draft stays the successor. *)
LEMMA RegisteredStep ==
    ASSUME TypeOK, Control, Registered, EditFile \/ Touch \/ \E p \in Procs : Events(p)
    PROVE  Registered'
<1>1. JobType /\ authEpochs \in Nat BY DEF TypeOK, ManagerType
<1>2. auth' # NoAuth => auth'.epoch = Settled' BY AgesStep, ConstantsAssumption DEF Ages, Registered
<1>3. \A q \in Procs : ~Mutates(job'[q]) => Stands(job'[q], auth', authEpochs')
  BY DEF Stands, Mutates, InSave
<1>4. ASSUME \A q \in Procs : Mutates(job'[q]) => Stands(job'[q], auth', authEpochs') PROVE Registered'
  BY <1>2, <1>3, <1>4 DEF Registered
<1>5. ASSUME NEW p \in Procs, gate \in {NoProc, p}, \A q \in Procs : q # p => job'[q] = job[q],
             Mutates(job'[p]) => Stands(job'[p], auth', authEpochs')
      PROVE  Registered'
  <2>1. \A q \in Procs : q # p => ~Mutates(job'[q]) BY <1>5, ConstantsAssumption DEF Control
  <2> QED BY <1>4, <1>5, <2>1
<1>6. CASE EditFile BY <1>4, <1>6 DEF EditFile, Registered
<1>7. CASE Touch
  <2>1. \A q \in Procs : Mutates(job'[q]) => job'[q] = job[q]
    BY <1>1, <1>7, TouchJobs DEF Mutates
  <2>2. ASSUME NEW q \in Procs, Mutates(job[q]) PROVE Stands(job[q], auth', authEpochs')
    <3>1. job[q].draft \in Auth BY <2>2, Fields
    <3>2. job[q].draft.gen \in Nat /\ auth.gen \in Nat BY <1>7, <3>1, Numbers DEF Touch
    <3>3. Stands(job[q], auth, authEpochs) BY DEF Registered
    <3>4. /\ UNCHANGED authEpochs /\ auth' # NoAuth
          /\ auth'.epoch = auth.epoch /\ auth'.gen = auth.gen + 1 /\ auth'.ver = auth.ver
          /\ auth'.tok = auth.tok
      BY <1>7, ConstantsAssumption DEF Touch
    <3> QED BY <3>2, <3>3, <3>4 DEF Stands, Successor
  <2> QED BY <1>4, <2>1, <2>2
<1> SUFFICES ASSUME NEW p \in Procs, Events(p) PROVE Registered' BY <1>6, <1>7
<1>8. CASE Quiet(p)
  <2>1. \A q \in Procs : Mutates(job'[q]) => job'[q] = job[q] BY <1>8 DEF Quiet
  <2> QED BY <1>4, <1>8, <2>1 DEF Quiet, Registered
<1>9. job[p].at \in {"edit", "io", "commit"} => gate = p BY DEF Control, Mutates
<1>10. CASE Edits(p)
  <2>1. PICK d \in Auth : d.gen = auth.gen /\ d.tok = auth.tok /\ Turn(p, "edit", "modify", NoAuth, d, 0)
    BY <1>10 DEF Edits
  <2>2. /\ \A q \in Procs : q # p => job'[q] = job[q]
        /\ job'[p].at = "edit" /\ job'[p].draft = d
    BY <1>1, <2>1, TurnIs
  <2>3. auth # NoAuth /\ auth' = auth /\ gate = NoProc /\ d.gen \in Nat BY <1>10, Numbers DEF Edits
  <2>4. Stands(job'[p], auth', authEpochs') BY <2>1, <2>2, <2>3 DEF Stands, InSave
  <2> QED BY <1>5, <2>2, <2>3, <2>4
<1>11. CASE Registers(p)
  <2>1. PICK kind \in {"register", "load"}, d \in Auth, seen \in Nat :
            Turn(p, "io", kind, NoAuth, d, seen) /\ d.epoch = authEpochs + 1
    BY <1>11 DEF Registers
  <2>2. /\ \A q \in Procs : q # p => job'[q] = job[q]
        /\ job'[p].at = "io" /\ job'[p].draft = d /\ job'[p].kind = kind
    BY <1>1, <2>1, TurnIs
  <2>3. gate = NoProc /\ authEpochs' = authEpochs + 1 BY <1>11 DEF Registers
  <2>4. Stands(job'[p], auth', authEpochs') BY <2>1, <2>2, <2>3 DEF Stands, InSave, IsNew
  <2> QED BY <1>5, <2>2, <2>3, <2>4
<1>12. CASE Replaces(p)
  <2>1. PICK kind \in {"update", "watch", "modify", "refresh", "prepare"}, base \in AuthOrNone, d \in Auth :
          /\ Turn(p, "io", kind, base, d, auth.run)
          /\ d.epoch = authEpochs /\ d.gen = auth.gen + 1
          /\ d.ver = IF d.tok # auth.tok THEN auth.ver + 1 ELSE auth.ver
          /\ kind = "refresh" => base.epoch = auth.epoch /\ base.tok = auth.tok
    BY <1>12 DEF Replaces
  <2>2. /\ \A q \in Procs : q # p => job'[q] = job[q]
        /\ job'[p].at = "io" /\ job'[p].draft = d /\ job'[p].kind = kind /\ job'[p].base = base
    BY <1>1, <2>1, TurnIs
  <2>3. auth # NoAuth /\ auth' = auth /\ gate \in {NoProc, p} BY <1>12 DEF Replaces
  <2>4. auth.epoch = authEpochs
    <3>1. Settled = authEpochs BY <1>12, SettledIs DEF Replaces, InSave
    <3> QED BY <2>3, <3>1 DEF Registered
  <2>5. d.gen \in Nat BY Numbers
  <2>6. d.gen <= auth.gen + 1 BY <2>1, <2>5
  <2>7. Successor(job'[p], auth') BY <2>1, <2>2, <2>3, <2>4, <2>6 DEF Successor
  <2>8. Stands(job'[p], auth', authEpochs') BY <2>2, <2>3, <2>7 DEF Stands, IsNew
  <2> QED BY <1>5, <2>2, <2>3, <2>8
<1>13. CASE Writes(p)
  <2>1. PICK kind \in {"mark", "reset"}, base \in AuthOrNone : Turn(p, "io", kind, base, auth', auth'.run)
    BY <1>13 DEF Writes
  <2>2. /\ \A q \in Procs : q # p => job'[q] = job[q]
        /\ job'[p].at = "io" /\ job'[p].draft = auth' /\ job'[p].kind = kind
    BY <1>1, <2>1, TurnIs
  <2>3. auth' \in Auth /\ auth' # NoAuth /\ gate = NoProc BY <1>13, ConstantsAssumption DEF Writes
  <2>4. auth'.gen \in Nat BY <2>3, Numbers
  <2>5. Successor(job'[p], auth') BY <2>2, <2>4 DEF Successor
  <2>6. Stands(job'[p], auth', authEpochs') BY <2>2, <2>3, <2>5 DEF Stands, IsNew
  <2> QED BY <1>5, <2>2, <2>3, <2>6
<1>14. CASE Returns(p)
  <2>1. /\ \A q \in Procs : q # p => job'[q] = job[q]
        /\ job'[p].at = "commit" /\ job'[p].kind = job[p].kind /\ job'[p].base = job[p].base
        /\ job'[p].draft = job[p].draft
    BY <1>1, <1>14, TurnIs DEF Returns
  <2>2. job[p].at = "io" /\ UNCHANGED <<auth, authEpochs>> BY <1>14 DEF Returns
  <2>3. Stands(job'[p], auth', authEpochs')
    BY <2>1, <2>2 DEF Registered, Stands, InSave, IsNew, Successor
  <2> QED BY <1>5, <1>9, <2>1, <2>2, <2>3
<1>15. ASSUME NEW at \in {"idle", "publish"}, NEW kind, NEW base, NEW draft, NEW seen,
              Turn(p, at, kind, base, draft, seen), gate \in {NoProc, p}
       PROVE  Registered'
  <2>1. (\A q \in Procs : q # p => job'[q] = job[q]) /\ job'[p].at = at BY <1>1, <1>15, TurnIs
  <2>2. ~Mutates(job'[p]) BY <2>1 DEF Mutates
  <2> QED BY <1>5, <1>15, <2>1, <2>2
<1>16. CASE Withholds(p) BY <1>9, <1>15, <1>16 DEF Withholds, Idles
<1>17. CASE Hands(p) BY <1>9, <1>15, <1>17 DEF Hands
<1>18. CASE Commits(p) BY <1>9, <1>15, <1>18 DEF Commits
<1>19. CASE Removes(p) BY <1>15, <1>19 DEF Removes
<1> QED BY <1>8, <1>10, <1>11, <1>12, <1>13, <1>14, <1>16, <1>17, <1>18, <1>19, QuietEvents DEF Events

(* Type, control and registration are inductive together. *)
LEMMA CoreInit == Init => TypeOK /\ Control /\ Registered
<1> SUFFICES ASSUME Init PROVE TypeOK /\ Control /\ Registered OBVIOUS
<1>1. Loaded \in Auth BY DEF Loaded, Auth
<1>2. auth = Loaded /\ auth # NoAuth /\ auth.epoch = 1 BY <1>1, ConstantsAssumption DEF Init, Loaded
<1>3. \A p \in Procs : job[p] = Idle BY DEF Init
<1>4. Idle.at = "idle" BY DEF Idle
<1>5. TypeOK
  <2>1. ManagerType BY <1>1, ConstantsAssumption DEF Init, ManagerType, AuthOrNone
  <2>2. LockType BY DEF Init, LockType
  <2>3. StoreType BY DEF Init, StoreType
  <2>4. SchedType
    <3>1. Scheduled(Loaded) \in [epoch : Nat, gen : Nat, entry : AuthOrNone]
      BY <1>1 DEF Scheduled, Loaded, AuthOrNone
    <3> QED BY <3>1 DEF Init, SchedType
  <2>5. JobType
    <3>1. Idle \in Job /\ Carries(Idle) BY DEF Idle, Job, Places, Kinds, AuthOrNone, Carries
    <3> QED BY <3>1 DEF Init, JobType
  <2> QED BY <2>1, <2>2, <2>3, <2>4, <2>5 DEF TypeOK
<1>6. Control BY <1>3, <1>4, ConstantsAssumption DEF Init, Control, Started, Mutates
<1>7. Registered
  <2>1. Settled = 1 BY SettledIs, <1>5 DEF Init
  <2> QED BY <1>2, <1>3, <1>4, <2>1 DEF Registered, Stands, InSave
<1> QED BY <1>5, <1>6, <1>7

(* The core of the invariant is inductive. *)
LEMMA CoreStep ==
    ASSUME TypeOK, Control, Registered, [Next]_vars PROVE TypeOK' /\ Control' /\ Registered'
<1>1. CASE Next
  <2>1. EditFile \/ Touch \/ \E p \in Procs : Events(p) BY <1>1, StepEvents
  <2> QED BY <1>1, <2>1, TypeStep, ControlStep, RegisteredStep
<1>2. CASE UNCHANGED vars
  <2>1. TypeOK'
    BY <1>2 DEF vars, lockVars, loginLocks, storeVars, schedVars, TypeOK, ManagerType, LockType,
         StoreType, SchedType, JobType, Carries
  <2>2. Control' BY <1>2 DEF vars, lockVars, Control, Started, Mutates
  <2>3. Registered'
    BY <1>2 DEF vars, lockVars, Registered, Settled, Stands, Successor, InSave, IsNew
  <2> QED BY <2>1, <2>2, <2>3
<1> QED BY <1>1, <1>2

(* The core of the invariant holds throughout. *)
LEMMA CoreHolds == Spec => [](TypeOK /\ Control /\ Registered)
<1> DEFINE IInv == TypeOK /\ Control /\ Registered
<1>1. Init => IInv BY CoreInit
<1>2. IInv /\ [Next]_vars => IInv' BY CoreStep
<1> HIDE DEF IInv
<1>3. Spec => []IInv BY <1>1, <1>2, PTL DEF Spec
<1> QED BY <1>3 DEF IInv

(* Every variable holds a value of its kind, and what is saved or published *)
(* is a credential.                                                         *)
THEOREM TypeCorrect == Spec => []TypeOK
  BY CoreHolds, PTL

(* A mutation's registration is the current one when its save returns:      *)
(* authMutationLocks keeps Register, Update, Modify and Remove apart.       *)
THEOREM RegistrationCorrect == Spec => []RegistrationStable
<1>1. TypeOK /\ Control /\ Registered => RegistrationStable
  <2> SUFFICES ASSUME TypeOK, Control, Registered, NEW p \in Procs, Saving(p)
               PROVE  /\ authEpochs = job[p].draft.epoch
                      /\ job[p].kind \notin {"register", "load"} =>
                             auth # NoAuth /\ auth.epoch = job[p].draft.epoch
    BY DEF RegistrationStable
  <2>1. InSave(job[p]) /\ gate = p BY DEF Saving, InSave, Control, Mutates
  <2>2. CASE IsNew(job[p]) BY <2>1, <2>2 DEF Registered, Stands, IsNew
  <2>3. CASE ~IsNew(job[p])
    <3>1. auth # NoAuth /\ auth.epoch = job[p].draft.epoch
      BY <2>1, <2>3 DEF Registered, Stands, Successor
    <3>2. auth.epoch = authEpochs BY <2>1, <2>3, <3>1, SettledIs DEF Registered
    <3> QED BY <3>1, <3>2
  <2> QED BY <2>2, <2>3
<1> QED BY <1>1, CoreHolds, PTL

-----------------------------------------------------------------------------
(* Copies of the credential. *)

(* The settled epoch is a number. *)
LEMMA SettledType == ASSUME TypeOK PROVE Settled \in Int
  BY DEF TypeOK, ManagerType, Settled

(* A copy that was behind the credential stays behind it. *)
LEMMA BehindStays ==
    ASSUME TypeOK, TypeOK', Registered, Ages, NEW s \in Auth, Behind(s, auth, Settled)
    PROVE  Behind(s, auth', Settled')
<1>1. Settled \in Int BY SettledType
<1>2. s.epoch \in Nat /\ s.gen \in Nat /\ s.ver \in Nat BY Numbers
<1>3. CASE UNCHANGED auth /\ Settled' = Settled BY <1>3
<1>4. CASE /\ auth \in Auth /\ auth' \in Auth /\ Settled' = Settled
           /\ auth'.epoch = auth.epoch /\ auth'.gen = auth.gen + 1
           /\ auth'.ver >= auth.ver /\ (auth'.ver = auth.ver => auth'.tok = auth.tok)
  <2>1. /\ auth.gen \in Nat /\ auth.ver \in Nat /\ auth'.gen \in Nat /\ auth'.ver \in Nat
        /\ auth # NoAuth /\ auth' # NoAuth
    BY <1>4, Numbers, ConstantsAssumption
  <2> QED BY <1>1, <1>2, <1>4, <2>1 DEF Behind
<1>5. CASE Settled' = Settled + 1 /\ (auth' # NoAuth => auth' \in Auth /\ auth'.epoch = Settled')
  BY <1>1, <1>2, <1>5 DEF Behind
<1> QED BY <1>3, <1>4, <1>5 DEF Ages

(* The credential is a copy of itself. *)
LEMMA BehindItself ==
    ASSUME TypeOK, Registered, auth # NoAuth PROVE auth \in Auth /\ Behind(auth, auth, Settled)
<1>1. auth \in Auth BY Fields
<1>2. auth.epoch \in Nat /\ auth.gen \in Nat /\ auth.ver \in Nat BY <1>1, Numbers
<1> QED BY <1>1, <1>2 DEF Behind, Registered

(* A goroutine's copies stay behind the credential as it ages. *)
LEMMA CopiesStay ==
    ASSUME TypeOK, TypeOK', Control, Registered, Ages, NEW p \in Procs, Copies(job[p], auth, Settled)
    PROVE  Copies(job[p], auth', Settled')
<1>1. /\ job[p].base # NoAuth => job[p].base \in Auth
      /\ job[p].draft # NoAuth => job[p].draft \in Auth /\ job[p].seen \in Nat
      /\ job[p].seen \in Nat
  BY Fields
<1>2. Settled \in Int /\ (Settled' = Settled \/ Settled' = Settled + 1) BY SettledType DEF Ages
<1>3. job[p].at = "executing" => Behind(job[p].base, auth', Settled')
  BY <1>1, BehindStays DEF Copies, Control, Started
<1>4. Offers(job[p]) => Behind(job[p].draft, auth', Settled')
  BY <1>1, BehindStays DEF Copies, Offers
<1>5. Unpublishes(job[p]) =>
          /\ job[p].draft = NoAuth /\ job[p].seen <= Settled'
          /\ auth' # NoAuth => job[p].seen < Settled'
  <2>1. CASE Settled' = Settled + 1 BY <1>1, <1>2, <2>1 DEF Copies
  <2>2. CASE Settled' = Settled /\ (auth' # NoAuth => auth # NoAuth) BY <2>2 DEF Copies
  <2> QED BY <2>1, <2>2, ConstantsAssumption DEF Ages
<1> QED BY <1>3, <1>4, <1>5 DEF Copies

(* The scheduler's entry stays behind the credential as it ages. *)
LEMMA MirrorsStay ==
    ASSUME TypeOK, TypeOK', Registered, Ages, Mirrors(sched, auth, Settled)
    PROVE  Mirrors(sched, auth', Settled')
<1>1. /\ sched.epoch \in Nat /\ sched.gen \in Nat
      /\ sched.entry # NoAuth => sched.entry \in Auth
  BY DEF TypeOK, SchedType, AuthOrNone
<1>2. Settled \in Int BY SettledType
<1>3. sched.entry # NoAuth => Behind(sched.entry, auth', Settled') BY <1>1, BehindStays DEF Mirrors
<1>4. sched.epoch <= Settled' BY <1>1, <1>2 DEF Mirrors, Ages
<1>5. auth' # NoAuth /\ sched.epoch = auth'.epoch => sched.gen <= auth'.gen
  <2>1. CASE UNCHANGED auth /\ Settled' = Settled BY <2>1 DEF Mirrors
  <2>2. CASE /\ auth \in Auth /\ auth' \in Auth /\ Settled' = Settled
             /\ auth'.epoch = auth.epoch /\ auth'.gen = auth.gen + 1
    <3>1. auth # NoAuth /\ auth.gen \in Nat BY <2>2, Numbers, ConstantsAssumption
    <3> QED BY <1>1, <2>2, <3>1 DEF Mirrors
  <2>3. CASE Settled' = Settled + 1 /\ (auth' # NoAuth => auth' \in Auth /\ auth'.epoch = Settled')
    BY <1>1, <1>2, <2>3 DEF Mirrors
  <2> QED BY <2>1, <2>2, <2>3 DEF Ages
<1> QED BY <1>3, <1>4, <1>5 DEF Mirrors

(* The scheduler holds a copy after it has been given one. *)
LEMMA MirrorsUpsert ==
    ASSUME TypeOK, NEW a \in Auth, NEW b, NEW n, upsertAuth(a), Mirrors(sched, b, n), Behind(a, b, n)
    PROVE  Mirrors(sched', b, n)
<1>1. /\ isStaleScheduledAuth(a) => sched' = sched
      /\ ~isStaleScheduledAuth(a) =>
            /\ sched'.epoch = a.epoch /\ sched'.gen = a.gen
            /\ sched'.entry = IF a.on THEN a ELSE NoAuth
  BY UpsertIs DEF TypeOK
<1>2. CASE isStaleScheduledAuth(a) BY <1>1, <1>2
<1>3. CASE ~isStaleScheduledAuth(a) BY <1>1, <1>3 DEF Mirrors, Behind
<1> QED BY <1>2, <1>3

(* Every copy is behind the credential. *)
LEMMA SnapshotsStep ==
    ASSUME TypeOK, TypeOK', Control, Registered, Registered', Snapshots,
           EditFile \/ Touch \/ \E p \in Procs : Events(p)
    PROVE  Snapshots'
<1>1. JobType BY DEF TypeOK
<1>2. Ages BY AgesStep
<1>3. Mirrors(sched, auth', Settled') BY <1>2, MirrorsStay DEF Snapshots
<1>4. \A q \in Procs : Copies(job[q], auth', Settled') BY <1>2, CopiesStay DEF Snapshots
<1>5. ASSUME UNCHANGED job, Mirrors(sched', auth', Settled') PROVE Snapshots'
  BY <1>4, <1>5 DEF Snapshots
<1>6. ASSUME NEW p \in Procs, NEW at, NEW kind, NEW base, NEW draft, NEW seen,
             Turn(p, at, kind, base, draft, seen), Mirrors(sched', auth', Settled'),
             at = "executing" => Behind(base, auth', Settled'),
             /\ draft # NoAuth
             /\ at \in {"publish", "rebuild"} \/ (at \in {"io", "commit"} /\ kind = "reset")
             => Behind(draft, auth', Settled'),
             at = "publish" /\ kind = "remove" => draft = NoAuth /\ seen <= Settled' /\ auth' = NoAuth
      PROVE  Snapshots'
  <2>1. /\ \A q \in Procs : q # p => job'[q] = job[q]
        /\ job'[p].at = at /\ job'[p].kind = kind /\ job'[p].base = base
        /\ job'[p].draft = draft /\ job'[p].seen = seen
    BY <1>1, <1>6, TurnIs
  <2>2. Copies(job'[p], auth', Settled') BY <1>6, <2>1 DEF Copies, Offers, Unpublishes, InSave
  <2>3. \A q \in Procs : Copies(job'[q], auth', Settled') BY <1>4, <2>1, <2>2
  <2> QED BY <1>6, <2>3 DEF Snapshots
<1>7. ASSUME NEW p \in Procs, Idles(p), Mirrors(sched', auth', Settled') PROVE Snapshots'
  BY <1>6, <1>7 DEF Idles
<1>8. auth # NoAuth => auth \in Auth /\ Behind(auth, auth, Settled) BY BehindItself
<1>9. auth' # NoAuth => auth' \in Auth /\ Behind(auth', auth', Settled')
  <2>1. auth' # NoAuth => auth' \in Auth BY DEF TypeOK, ManagerType, AuthOrNone
  <2>2. auth' # NoAuth => auth'.epoch \in Nat /\ auth'.gen \in Nat /\ auth'.ver \in Nat BY <2>1, Numbers
  <2>3. auth' # NoAuth => auth'.epoch = Settled' BY DEF Registered
  <2> QED BY <2>1, <2>2, <2>3 DEF Behind
<1>10. CASE EditFile BY <1>3, <1>5, <1>10 DEF EditFile, schedVars
<1>11. CASE Touch
  <2>1. Mirrors(sched', auth', Settled')
    <3>1. auth' # NoAuth BY <1>11, ConstantsAssumption DEF Touch
    <3>2. CASE upsertAuth(auth') BY <1>3, <1>9, <3>1, <3>2, MirrorsUpsert
    <3>3. CASE UNCHANGED sched BY <1>3, <3>3
    <3> QED BY <1>11, <3>2, <3>3 DEF Touch
  <2> QED BY <1>5, <1>7, <1>11, <2>1 DEF Touch
<1> SUFFICES ASSUME NEW p \in Procs, Events(p) PROVE Snapshots' BY <1>10, <1>11
<1>12. CASE Calm(p)
  <2>1. PICK at \in Outside, kind \in Kinds, base \in AuthOrNone, draft \in AuthOrNone, seen \in Nat :
          /\ Turn(p, at, kind, base, draft, seen)
          /\ at \in {"upstream", "executing"} => base # NoAuth
          /\ at = "executing" => base = sched.entry
    BY <1>12 DEF Calm
  <2>2. Mirrors(sched', auth', Settled') BY <1>3, <1>12 DEF Calm
  <2>3. at = "executing" => Behind(base, auth', Settled') BY <1>3, <2>1 DEF Mirrors
  <2>4. at \notin {"publish", "rebuild", "io", "commit"} BY DEF Outside
  <2> QED BY <1>6, <2>1, <2>2, <2>3, <2>4
<1>13. CASE Cancels(p)
  <2>1. Mirrors(sched', auth', Settled') BY <1>3, <1>8, <1>9, <1>13, MirrorsUpsert DEF Cancels
  <2> QED BY <1>7, <1>13, <2>1 DEF Cancels
<1>14. CASE Edits(p) BY <1>3, <1>6, <1>14 DEF Edits
<1>15. CASE Registers(p) BY <1>3, <1>6, <1>15 DEF Registers
<1>16. CASE Replaces(p) BY <1>3, <1>6, <1>16 DEF Replaces
<1>17. CASE Writes(p)
  <2>1. Behind(auth', auth', Settled') BY <1>9, <1>17, ConstantsAssumption DEF Writes
  <2>2. UNCHANGED sched BY <1>17 DEF Writes
  <2>3. PICK kind \in {"mark", "reset"}, base \in AuthOrNone : Turn(p, "io", kind, base, auth', auth'.run)
    BY <1>17 DEF Writes
  <2> QED BY <1>3, <1>6, <2>1, <2>2, <2>3
<1>18. CASE Returns(p)
  <2>1. job[p].draft # NoAuth /\ job[p].kind = "reset" => Behind(job[p].draft, auth', Settled')
    BY <1>4, <1>18 DEF Returns, Copies, Offers, InSave
  <2> QED BY <1>3, <1>6, <1>18, <2>1 DEF Returns
<1>19. CASE Withholds(p) BY <1>3, <1>7, <1>19 DEF Withholds
<1>20. CASE Hands(p)
  <2> DEFINE d == IF job[p].kind = "mark" THEN auth ELSE job[p].draft
  <2>1. UNCHANGED <<auth, sched>> /\ job[p].at = "commit" /\ job[p].kind \in {"mark", "reset"}
    BY <1>20 DEF Hands
  <2>2. d # NoAuth => Behind(d, auth', Settled')
    BY <1>4, <1>9, <2>1 DEF Copies, Offers, InSave
  <2>3. Turn(p, "publish", job[p].kind, NoAuth, d, 0) BY <1>20 DEF Hands
  <2> HIDE DEF d
  <2> QED BY <1>3, <1>6, <2>1, <2>2, <2>3
<1>21. CASE Commits(p)
  <2>1. /\ Turn(p, "publish", job[p].kind, NoAuth, auth', 0)
        /\ auth' # NoAuth /\ auth' \in Auth /\ UNCHANGED sched
    BY <1>21, ConstantsAssumption DEF Commits
  <2>2. job[p].kind # "remove" BY <1>21 DEF Commits, Control, Started, Mutates
  <2> QED BY <1>3, <1>6, <1>9, <2>1, <2>2
<1>22. CASE Removes(p)
  <2>1. Settled' = authEpochs' BY <1>22, SettledIs DEF Removes
  <2>2. authEpochs' = authEpochs + 1 /\ authEpochs' \in Nat BY <1>22 DEF Removes, TypeOK, ManagerType
  <2>3. authEpochs + 1 <= Settled' BY <2>1, <2>2
  <2> QED BY <1>3, <1>6, <1>22, <2>3 DEF Removes
<1>23. CASE Repeats(p)
  <2>1. Turn(p, "publish", "entry", NoAuth, auth, 0) /\ auth # NoAuth /\ UNCHANGED <<auth, sched>>
    BY <1>23 DEF Repeats
  <2> QED BY <1>3, <1>6, <1>9, <2>1
<1>24. CASE Publishes(p)
  <2>1. Mirrors(sched', auth', Settled')
    <3>1. CASE job[p].kind = "remove"
      <4>1. job[p].seen \in Nat /\ RecordRemovalTombstone(job[p].seen)
        BY <1>24, <3>1, Fields DEF Publishes
      <4>2. /\ job[p].seen < sched.epoch => sched' = sched
            /\ ~(job[p].seen < sched.epoch) =>
                  sched'.epoch = job[p].seen /\ sched'.gen = 0 /\ sched'.entry = NoAuth
        BY <4>1, TombstoneIs DEF TypeOK
      <4>3. job[p].seen <= Settled' BY <1>4, <1>24, <3>1 DEF Publishes, Copies, Unpublishes
      <4>4. auth' # NoAuth => 0 <= auth'.gen BY <1>9, Numbers
      <4> QED BY <1>3, <4>2, <4>3, <4>4 DEF Mirrors
    <3>2. CASE job[p].kind # "remove"
      <4>1. upsertAuth(job[p].draft) /\ job[p].draft # NoAuth
        BY <1>1, <1>24, <3>2 DEF Publishes, JobType, Carries
      <4>2. job[p].draft \in Auth BY <4>1, Fields
      <4>3. Behind(job[p].draft, auth', Settled')
        BY <1>4, <1>24, <4>1 DEF Publishes, Copies, Offers
      <4> QED BY <1>3, <4>1, <4>2, <4>3, MirrorsUpsert
    <3> QED BY <3>1, <3>2
  <2> QED BY <1>6, <1>7, <1>24, <2>1 DEF Publishes
<1>25. CASE Checks(p) BY <1>3, <1>6, <1>25 DEF Checks, schedVars
<1>26. CASE Decides(p) BY <1>3, <1>6, <1>26 DEF Decides, schedVars
<1>27. CASE Snaps(p)
  <2>1. auth # NoAuth => Behind(auth, auth', Settled') BY <1>9, <1>27 DEF Snaps
  <2> QED BY <1>3, <1>6, <1>27, <2>1 DEF Snaps, schedVars
<1>28. CASE Restores(p)
  <2>1. job[p].draft \in AuthOrNone /\ rebuild(job[p].draft) BY <1>28, Fields DEF Restores
  <2>2. \/ sched' = sched
        \/ sched'.epoch = sched.epoch /\ sched'.gen = sched.gen /\ sched'.entry = NoAuth
        \/ /\ job[p].draft \in Auth /\ job[p].draft.on
           /\ sched'.epoch = job[p].draft.epoch /\ sched'.gen = job[p].draft.gen
           /\ sched'.entry = job[p].draft
    BY <2>1, RebuildIs DEF TypeOK
  <2>3. job[p].draft \in Auth => Behind(job[p].draft, auth', Settled')
    BY <1>4, <1>28, ConstantsAssumption DEF Restores, Copies, Offers
  <2>4. Mirrors(sched', auth', Settled')
    <3>1. CASE job[p].draft \in Auth /\ sched'.entry = job[p].draft
      BY <1>3, <2>2, <2>3, <3>1 DEF Mirrors, Behind
    <3>2. CASE ~(job[p].draft \in Auth /\ sched'.entry = job[p].draft)
      BY <1>3, <2>2, <3>2 DEF Mirrors
    <3> QED BY <3>1, <3>2
  <2> QED BY <1>6, <1>28, <2>4 DEF Restores
<1>29. CASE Ends(p) BY <1>3, <1>7, <1>29 DEF Ends
<1> QED BY <1>12, <1>13, <1>14, <1>15, <1>16, <1>17, <1>18, <1>19, <1>20, <1>21, <1>22, <1>23, <1>24,
           <1>25, <1>26, <1>27, <1>28, <1>29 DEF Events

-----------------------------------------------------------------------------
(* The file and its lock. *)

(* What was saved last has a number. *)
LEMMA PersistIs ==
    ASSUME TypeOK
    PROVE  persistLock.epoch \in Nat /\ persistLock.gen \in Nat
  BY DEF TypeOK, StoreType

(* Nothing newer than the credential, or its successor, was saved: the save *)
(* of a mutation is never taken for an old one.                             *)
LEMMA PersistedStep ==
    ASSUME TypeOK, TypeOK', Control, Control', Registered, Registered', Persisted,
           EditFile \/ Touch \/ \E p \in Procs : Events(p)
    PROVE  Persisted'
<1>1. JobType /\ authEpochs \in Nat BY DEF TypeOK, ManagerType
<1>2. persistLock.epoch \in Nat /\ persistLock.gen \in Nat BY PersistIs
<1>3. auth # NoAuth => auth \in Auth /\ auth.epoch \in Nat /\ auth.gen \in Nat BY Fields, Numbers
<1>4. ASSUME UNCHANGED persistLock, authEpochs' >= authEpochs,
             auth' # NoAuth /\ persistLock.epoch = auth'.epoch => persistLock.gen <= auth'.gen + 1,
             \A q \in Procs : InSave(job'[q]) => ~PersistIsOld(job'[q].draft)
      PROVE  Persisted'
  <2>1. \A q \in Procs : InSave(job'[q]) => (~PersistIsOld(job[q].draft))'
    <3> TAKE q \in Procs
    <3>1. UNCHANGED persistLock /\ (InSave(job'[q]) => ~PersistIsOld(job'[q].draft)) BY <1>4
    <3> QED BY <3>1 DEF PersistIsOld
  <2>2. authEpochs' \in Nat BY DEF TypeOK, ManagerType
  <2>3. persistLock'.epoch <= authEpochs' BY <1>1, <1>2, <1>4, <2>2 DEF Persisted
  <2> QED BY <1>4, <2>1, <2>3 DEF Persisted, InSave
<1>5. ASSUME NEW p \in Procs, gate \in {NoProc, p}, \A q \in Procs : q # p => job'[q] = job[q]
      PROVE  \A q \in Procs : q # p => ~InSave(job'[q])
  BY <1>5, ConstantsAssumption DEF Control, Mutates, InSave
<1>6. auth # NoAuth /\ persistLock.epoch = auth.epoch => persistLock.gen <= auth.gen + 1
  BY DEF Persisted
<1>7. \A q \in Procs : InSave(job[q]) => ~PersistIsOld(job[q].draft) BY DEF Persisted
<1>8. CASE EditFile
  BY <1>1, <1>4, <1>6, <1>7, <1>8 DEF EditFile
<1>9. CASE Touch
  <2>1. \A q \in Procs : InSave(job'[q]) => job'[q] = job[q]
    BY <1>1, <1>9, TouchJobs DEF InSave
  <2>2. auth # NoAuth BY <1>9, ConstantsAssumption DEF Touch
  <2>3. auth' # NoAuth /\ persistLock.epoch = auth'.epoch => persistLock.gen <= auth'.gen + 1
    BY <1>2, <1>3, <1>6, <1>9, <2>2 DEF Touch
  <2>4. UNCHANGED <<persistLock, authEpochs>> BY <1>9 DEF Touch, storeVars
  <2> QED BY <1>1, <1>4, <1>7, <2>1, <2>3, <2>4
<1> SUFFICES ASSUME NEW p \in Procs, Events(p) PROVE Persisted' BY <1>8, <1>9
<1>10. CASE Quiet(p)
  <2>1. \A q \in Procs : InSave(job'[q]) => job'[q] = job[q] BY <1>10 DEF Quiet, Mutates, InSave
  <2>2. UNCHANGED <<auth, authEpochs, persistLock>> BY <1>10 DEF Quiet, storeVars
  <2> QED BY <1>1, <1>4, <1>6, <1>7, <2>1, <2>2
<1>11. job[p].at \in {"edit", "io", "commit"} => gate = p BY DEF Control, Mutates
<1>12. ASSUME NEW at \in {"idle", "edit", "publish"}, NEW kind, NEW base, NEW draft, NEW seen,
              Turn(p, at, kind, base, draft, seen), gate \in {NoProc, p}
       PROVE  \A q \in Procs : ~InSave(job'[q])
  <2>1. (\A q \in Procs : q # p => job'[q] = job[q]) /\ job'[p].at = at BY <1>1, <1>12, TurnIs
  <2> QED BY <1>5, <1>12, <2>1 DEF InSave
<1>13. CASE Edits(p)
  <2>1. \A q \in Procs : ~InSave(job'[q]) BY <1>12, <1>13 DEF Edits
  <2>2. UNCHANGED <<auth, authEpochs, persistLock>> BY <1>13 DEF Edits, storeVars
  <2> QED BY <1>1, <1>4, <1>6, <2>1, <2>2
<1>14. CASE Registers(p)
  <2>1. PICK kind \in {"register", "load"}, d \in Auth, seen \in Nat :
            Turn(p, "io", kind, NoAuth, d, seen) /\ d.epoch = authEpochs + 1
    BY <1>14 DEF Registers
  <2>2. (\A q \in Procs : q # p => job'[q] = job[q]) /\ job'[p].draft = d BY <1>1, <2>1, TurnIs
  <2>3. /\ gate = NoProc /\ authEpochs' = authEpochs + 1 /\ UNCHANGED <<auth, persistLock>>
    BY <1>14 DEF Registers
  <2>4. ~PersistIsOld(d) BY <1>1, <1>2, <2>1 DEF PersistIsOld, Persisted
  <2>5. \A q \in Procs : InSave(job'[q]) => ~PersistIsOld(job'[q].draft) BY <1>5, <2>2, <2>3, <2>4
  <2>6. authEpochs' >= authEpochs BY <1>1, <2>3
  <2> QED BY <1>4, <1>6, <2>3, <2>5, <2>6
<1>15. CASE Replaces(p)
  <2>1. PICK kind \in {"update", "watch", "modify", "refresh", "prepare"}, base \in AuthOrNone, d \in Auth :
          /\ Turn(p, "io", kind, base, d, auth.run)
          /\ d.epoch = authEpochs /\ d.gen = auth.gen + 1
    BY <1>15 DEF Replaces
  <2>2. (\A q \in Procs : q # p => job'[q] = job[q]) /\ job'[p].draft = d BY <1>1, <2>1, TurnIs
  <2>3. auth # NoAuth /\ gate \in {NoProc, p} /\ UNCHANGED <<auth, authEpochs, persistLock>>
    BY <1>15 DEF Replaces
  <2>4. auth.epoch = authEpochs
    <3>1. Settled = authEpochs BY <1>15, SettledIs DEF Replaces, InSave
    <3> QED BY <2>3, <3>1 DEF Registered
  <2>5. ~PersistIsOld(d) BY <1>1, <1>2, <1>3, <1>6, <2>1, <2>3, <2>4 DEF PersistIsOld, Persisted
  <2>6. \A q \in Procs : InSave(job'[q]) => ~PersistIsOld(job'[q].draft) BY <1>5, <2>2, <2>3, <2>5
  <2> QED BY <1>1, <1>4, <1>6, <2>3, <2>6
<1>16. CASE Writes(p)
  <2>1. PICK kind \in {"mark", "reset"}, base \in AuthOrNone : Turn(p, "io", kind, base, auth', auth'.run)
    BY <1>16 DEF Writes
  <2>2. (\A q \in Procs : q # p => job'[q] = job[q]) /\ job'[p].draft = auth' BY <1>1, <2>1, TurnIs
  <2>3. /\ auth # NoAuth /\ gate = NoProc /\ UNCHANGED <<authEpochs, persistLock>>
        /\ auth'.epoch = auth.epoch /\ auth'.gen = auth.gen + 1
    BY <1>16 DEF Writes, storeVars
  <2>4. auth.epoch = authEpochs BY <2>3, SettledIs DEF Registered
  <2>5. ~PersistIsOld(auth') BY <1>1, <1>2, <1>3, <1>6, <2>3, <2>4 DEF PersistIsOld, Persisted
  <2>6. \A q \in Procs : InSave(job'[q]) => ~PersistIsOld(job'[q].draft) BY <1>5, <2>2, <2>3, <2>5
  <2>7. auth' # NoAuth /\ persistLock.epoch = auth'.epoch => persistLock.gen <= auth'.gen + 1
    BY <1>2, <1>3, <1>6, <2>3
  <2> QED BY <1>1, <1>4, <2>3, <2>6, <2>7
<1>17. InSave(job[p]) => job[p].draft \in Auth /\ job[p].draft.epoch \in Nat /\ job[p].draft.gen \in Nat
  <2>1. InSave(job[p]) => job[p].draft \in Auth BY Fields DEF InSave, Mutates
  <2> QED BY <2>1, Numbers
<1>18. InSave(job[p]) => job[p].draft.epoch = authEpochs
  <2>1. InSave(job[p]) => gate = p BY DEF Control, InSave, Mutates
  <2>2. CASE InSave(job[p]) /\ IsNew(job[p]) BY <2>2 DEF Registered, Stands
  <2>3. CASE InSave(job[p]) /\ ~IsNew(job[p])
    <3>1. auth # NoAuth /\ job[p].draft.epoch = auth.epoch BY <2>3 DEF Registered, Stands, Successor
    <3> QED BY <2>1, <2>3, <3>1, SettledIs DEF Registered
  <2> QED BY <2>2, <2>3
<1>19. InSave(job[p]) /\ auth # NoAuth /\ job[p].draft.epoch = auth.epoch => job[p].draft.gen <= auth.gen + 1
  <2>1. ASSUME InSave(job[p]), IsNew(job[p]), auth # NoAuth, job[p].draft.epoch = auth.epoch PROVE FALSE
    <3>1. gate = p /\ job[p].draft.epoch = authEpochs BY <2>1, <1>18 DEF Control, InSave, Mutates
    <3>2. Settled = authEpochs - 1 BY <2>1, <3>1, SettledIs
    <3> QED BY <1>1, <2>1, <3>1, <3>2 DEF Registered
  <2>2. CASE InSave(job[p]) /\ ~IsNew(job[p]) BY <2>2 DEF Registered, Stands, Successor
  <2> QED BY <2>1, <2>2
<1>20. ASSUME InSave(job[p]), UNCHANGED <<auth, authEpochs>>,
              persistLock' = [epoch |-> job[p].draft.epoch, gen |-> job[p].draft.gen],
              \A q \in Procs : q # p => ~InSave(job'[q]),
              InSave(job'[p]) => job'[p].draft = job[p].draft
       PROVE  Persisted'
  <2>1. persistLock'.epoch = job[p].draft.epoch /\ persistLock'.gen = job[p].draft.gen BY <1>20
  <2>2. \A q \in Procs : InSave(job'[q]) => (~PersistIsOld(job[q].draft))'
    BY <1>17, <1>20, <2>1 DEF PersistIsOld
  <2>3. persistLock'.epoch <= authEpochs' BY <1>17, <1>18, <1>20, <2>1
  <2>4. auth' # NoAuth /\ persistLock'.epoch = auth'.epoch => persistLock'.gen <= auth'.gen + 1
    BY <1>19, <1>20, <2>1
  <2> QED BY <2>2, <2>3, <2>4 DEF Persisted, InSave
<1>21. CASE Returns(p)
  <2>1. /\ \A q \in Procs : q # p => job'[q] = job[q]
        /\ job'[p].draft = job[p].draft
    BY <1>1, <1>21, TurnIs DEF Returns
  <2>2. job[p].at = "io" /\ UNCHANGED <<auth, authEpochs>> BY <1>21 DEF Returns
  <2>3. \A q \in Procs : q # p => ~InSave(job'[q]) BY <1>5, <1>11, <2>1, <2>2
  <2>4. InSave(job[p]) BY <2>2 DEF InSave
  <2>5. persistLock' = [epoch |-> job[p].draft.epoch, gen |-> job[p].draft.gen]
    BY <1>7, <1>21, <2>4 DEF Returns
  <2> QED BY <1>20, <2>1, <2>2, <2>3, <2>4, <2>5
<1>22. CASE Withholds(p)
  <2>1. \A q \in Procs : ~InSave(job'[q]) BY <1>11, <1>12, <1>22 DEF Withholds, Idles
  <2>2. InSave(job[p]) BY <1>22 DEF Withholds, InSave
  <2> QED BY <1>20, <1>22, <2>1, <2>2 DEF Withholds
<1>23. CASE Hands(p)
  <2>1. \A q \in Procs : ~InSave(job'[q]) BY <1>11, <1>12, <1>23 DEF Hands
  <2>2. UNCHANGED <<auth, authEpochs, persistLock>> BY <1>23 DEF Hands, storeVars
  <2> QED BY <1>1, <1>4, <1>6, <2>1, <2>2
<1>24. CASE Commits(p)
  <2>1. \A q \in Procs : ~InSave(job'[q]) BY <1>11, <1>12, <1>24 DEF Commits
  <2>2. UNCHANGED <<authEpochs, persistLock>> /\ InSave(job[p]) BY <1>24 DEF Commits, storeVars, InSave
  <2>3. auth' # NoAuth /\ persistLock.epoch = auth'.epoch => persistLock.gen <= auth'.gen + 1
    <3>1. CASE IsNew(job[p])
      <4>1. auth'.gen = job[p].draft.gen /\ auth'.epoch = job[p].draft.epoch
        BY <1>18, <1>24, <2>2, <3>1 DEF Commits
      <4> QED BY <1>2, <1>7, <1>17, <2>2, <4>1 DEF PersistIsOld
    <3>2. CASE ~IsNew(job[p])
      <4>1. auth # NoAuth /\ job[p].draft.epoch = auth.epoch
        BY <2>2, <3>2 DEF Registered, Stands, Successor
      <4>2. auth'.gen = auth.gen + 1 /\ auth'.epoch = auth.epoch
        BY <1>18, <1>24, <2>2, <3>2, <4>1 DEF Commits
      <4> QED BY <1>2, <1>3, <1>6, <4>1, <4>2
    <3> QED BY <3>1, <3>2
  <2> QED BY <1>1, <1>4, <2>1, <2>2, <2>3
<1>25. CASE Removes(p)
  <2>1. \A q \in Procs : ~InSave(job'[q]) BY <1>12, <1>25 DEF Removes
  <2>2. auth' = NoAuth /\ authEpochs' >= authEpochs /\ UNCHANGED persistLock
    BY <1>1, <1>25 DEF Removes, storeVars
  <2> QED BY <1>4, <2>1, <2>2
<1> QED BY <1>10, <1>13, <1>14, <1>15, <1>16, <1>21, <1>22, <1>23, <1>24, <1>25, QuietEvents DEF Events

(* The file holds the current token, or the one about to be committed. *)
LEMMA FiledStep ==
    ASSUME TypeOK, Control, Registered, Persisted, Filed, UNCHANGED isMeta,
           EditFile \/ Touch \/ \E p \in Procs : Events(p)
    PROVE  Filed'
<1>1. JobType BY DEF TypeOK
<1> DEFINE Held == \A q \in Procs : Ahead(job[q]) => store.tok = job[q].draft.tok
           Rest == auth # NoAuth /\ (\A q \in Procs : ~Ahead(job[q])) => store.tok = auth.tok
           Kept == \A q \in Procs : job[q].at = "commit" /\ isMeta /\ job[q].kind \in {"refresh", "prepare"}
                                      => store.tok = job[q].draft.tok \/ store.apart = "edited"
<1>2. (store.apart = "no" => Held /\ Rest) /\ Kept BY DEF Filed, At, MustSave
<1>3. ASSUME store'.apart = "no" => Held' /\ Rest', Kept' PROVE Filed'
  BY <1>3 DEF Filed, At, MustSave
<1>4. \A q \in Procs : Ahead(job[q]) => InSave(job[q]) BY DEF Ahead, InSave
<1>5. \A q \in Procs : job'[q] = job[q] => (Ahead(job'[q]) <=> Ahead(job[q])) OBVIOUS
<1>6. CASE EditFile
  <2>1. store'.apart = "edited" BY <1>6 DEF EditFile
  <2>2. Kept' BY <2>1
  <2> QED BY <1>3, <2>1, <2>2
<1>7. ASSUME auth' # NoAuth => auth # NoAuth /\ auth'.tok = auth.tok, UNCHANGED store,
             \A q \in Procs : job'[q] = job[q] \/ (job[q].at \notin {"io", "commit"} /\ job'[q].at \notin {"io", "commit"})
      PROVE  Filed'
  <2>1. \A q \in Procs : Ahead(job'[q]) <=> Ahead(job[q]) BY <1>7 DEF Ahead
  <2>2. \A q \in Procs : Ahead(job'[q]) => job'[q] = job[q] BY <1>7 DEF Ahead
  <2>3. store'.apart = "no" => Held' /\ Rest' BY <1>2, <1>7, <2>1, <2>2
  <2>4. Kept' BY <1>2, <1>7
  <2> QED BY <1>3, <2>3, <2>4
<1>8. CASE Touch
  <2>1. \A q \in Procs : job'[q] = job[q] \/ (job[q].at \notin {"io", "commit"} /\ job'[q].at \notin {"io", "commit"})
    BY <1>1, <1>8, TouchJobs DEF Outside
  <2>2. auth # NoAuth /\ auth'.tok = auth.tok /\ UNCHANGED store
    BY <1>8, ConstantsAssumption DEF Touch, storeVars
  <2> QED BY <1>7, <2>1, <2>2
<1> SUFFICES ASSUME NEW p \in Procs, Events(p) PROVE Filed' BY <1>6, <1>8
<1>9. CASE Quiet(p)
  <2>1. \A q \in Procs : job'[q] = job[q] \/ (job[q].at \notin {"io", "commit"} /\ job'[q].at \notin {"io", "commit"})
    BY <1>9 DEF Quiet, Mutates
  <2>2. UNCHANGED <<auth, store>> BY <1>9 DEF Quiet, storeVars
  <2> QED BY <1>7, <2>1, <2>2
<1>10. job[p].at \in {"edit", "io", "commit"} => gate = p BY DEF Control, Mutates
<1>11. ASSUME NEW at, NEW kind, NEW base, NEW draft, NEW seen, Turn(p, at, kind, base, draft, seen),
              gate \in {NoProc, p}
       PROVE  /\ job'[p].at = at /\ job'[p].kind = kind /\ job'[p].draft = draft
              /\ \A q \in Procs : q # p => job'[q] = job[q] /\ job[q].at \notin {"io", "commit"}
  BY <1>1, <1>11, TurnIs, ConstantsAssumption DEF Control, Mutates
<1>12. CASE Edits(p)
  <2>1. PICK d \in Auth : Turn(p, "edit", "modify", NoAuth, d, 0) BY <1>12 DEF Edits
  <2>2. gate = NoProc /\ UNCHANGED <<auth, store>> BY <1>12 DEF Edits, storeVars
  <2>3. \A q \in Procs : job'[q] = job[q] \/ (job[q].at \notin {"io", "commit"} /\ job'[q].at \notin {"io", "commit"})
    BY <1>11, <1>12, <2>1, <2>2 DEF Edits, Outside
  <2> QED BY <1>7, <2>2, <2>3
<1>13. CASE Registers(p)
  <2>1. PICK kind \in {"register", "load"}, d \in Auth, seen \in Nat :
          /\ Turn(p, "io", kind, NoAuth, d, seen)
          /\ store'.tok = store.tok
          /\ kind = "register" => UNCHANGED store
          /\ kind = "load" /\ store'.apart = "no" => d.tok = store.tok
    BY <1>13 DEF Registers
  <2>2. gate = NoProc /\ UNCHANGED auth BY <1>13 DEF Registers
  <2>3. /\ job'[p].at = "io" /\ job'[p].kind = kind /\ job'[p].draft = d
        /\ \A q \in Procs : q # p => job'[q] = job[q] /\ job[q].at \notin {"io", "commit"}
    BY <1>11, <2>1, <2>2
  <2>4. (\A q \in Procs : ~Ahead(job[q])) /\ (\A q \in Procs : q # p => ~Ahead(job'[q]))
    BY <1>13, <2>3 DEF Registers, Outside, Ahead
  <2>5. Ahead(job'[p]) <=> kind = "load" BY <2>3 DEF Ahead, SkipPersist
  <2>6. store'.apart = "no" => Held' BY <2>1, <2>3, <2>4, <2>5
  <2>7. store'.apart = "no" => Rest' BY <1>2, <2>1, <2>2, <2>4, <2>5
  <2>8. Kept' BY <2>3
  <2> QED BY <1>3, <2>6, <2>7, <2>8
<1>14. CASE Replaces(p)
  <2>1. PICK kind \in {"update", "watch", "modify", "refresh", "prepare"}, base \in AuthOrNone, d \in Auth :
          /\ Turn(p, "io", kind, base, d, auth.run)
          /\ store'.tok = store.tok
          /\ IF kind = "watch" THEN d.tok = store.tok ELSE UNCHANGED store
    BY <1>14 DEF Replaces
  <2>2. gate \in {NoProc, p} /\ UNCHANGED auth BY <1>14 DEF Replaces
  <2>3. /\ job'[p].at = "io" /\ job'[p].kind = kind /\ job'[p].draft = d
        /\ \A q \in Procs : q # p => job'[q] = job[q] /\ job[q].at \notin {"io", "commit"}
    BY <1>11, <2>1, <2>2
  <2>4. (\A q \in Procs : ~Ahead(job[q])) /\ (\A q \in Procs : q # p => ~Ahead(job'[q]))
    BY <1>14, <2>3 DEF Replaces, Outside, Ahead
  <2>5. Ahead(job'[p]) <=> kind = "watch" BY <2>3 DEF Ahead, SkipPersist
  <2>6. store'.apart = "no" => Held' BY <2>1, <2>3, <2>4, <2>5
  <2>7. store'.apart = "no" => Rest' BY <1>2, <2>1, <2>2, <2>4, <2>5
  <2>8. Kept' BY <2>3
  <2> QED BY <1>3, <2>6, <2>7, <2>8
<1>15. CASE Writes(p)
  <2>1. PICK kind \in {"mark", "reset"}, base \in AuthOrNone : Turn(p, "io", kind, base, auth', auth'.run)
    BY <1>15 DEF Writes
  <2>2. gate = NoProc /\ auth # NoAuth /\ auth'.tok = auth.tok /\ UNCHANGED store
    BY <1>15 DEF Writes, storeVars
  <2>3. /\ job'[p].at = "io" /\ job'[p].kind = kind
        /\ \A q \in Procs : q # p => job'[q] = job[q] /\ job[q].at \notin {"io", "commit"}
    BY <1>11, <2>1, <2>2
  <2>4. (\A q \in Procs : ~Ahead(job[q])) /\ (\A q \in Procs : ~Ahead(job'[q]))
    BY <1>15, <2>3 DEF Writes, Outside, Ahead, SkipPersist
  <2>5. store'.apart = "no" => Held' /\ Rest' BY <1>2, <2>2, <2>4
  <2>6. Kept' BY <2>3
  <2> QED BY <1>3, <2>5, <2>6
<1>16. CASE Returns(p)
  <2>1. Turn(p, "commit", job[p].kind, job[p].base, job[p].draft, job[p].seen) /\ job[p].at = "io"
    BY <1>16 DEF Returns
  <2>2. /\ job'[p].at = "commit" /\ job'[p].kind = job[p].kind /\ job'[p].draft = job[p].draft
        /\ \A q \in Procs : q # p => job'[q] = job[q] /\ job[q].at \notin {"io", "commit"}
    BY <1>10, <1>11, <2>1
  <2>3. Ahead(job'[p]) /\ \A q \in Procs : q # p => ~Ahead(job'[q]) BY <2>2 DEF Ahead
  <2>4. ~PersistIsOld(job[p].draft) BY <2>1 DEF Persisted, InSave
  <2>5. \/ SkipPersist(job[p].kind) /\ UNCHANGED store
        \/ store'.tok = job[p].draft.tok /\ store'.apart = "no"
        \/ /\ ~MustSave(job[p].kind) /\ store'.tok = store.tok
           /\ store'.apart = "no" => store.tok = job[p].draft.tok
    BY <1>16, <2>4 DEF Returns
  <2>6. store'.apart = "no" => store'.tok = job'[p].draft.tok
    BY <1>2, <2>1, <2>2, <2>5 DEF Ahead
  <2>7. MustSave(job[p].kind) => store'.tok = job'[p].draft.tok
    BY <2>2, <2>5 DEF MustSave, SkipPersist
  <2>8. store'.apart = "no" => Held' /\ Rest' BY <2>3, <2>6
  <2>9. Kept' BY <2>2, <2>7 DEF MustSave
  <2> QED BY <1>3, <2>8, <2>9
<1>17. CASE Withholds(p)
  <2>1. Idles(p) /\ UNCHANGED <<auth, store>> /\ job[p].at = "io" /\ ~SkipPersist(job[p].kind)
    BY <1>17 DEF Withholds
  <2>2. job'[p].at = "idle" /\ \A q \in Procs : q # p => job'[q] = job[q] /\ job[q].at \notin {"io", "commit"}
    BY <1>10, <1>11, <2>1 DEF Idles
  <2>3. (\A q \in Procs : ~Ahead(job[q])) /\ (\A q \in Procs : ~Ahead(job'[q]))
    BY <2>1, <2>2 DEF Ahead
  <2>4. store'.apart = "no" => Held' /\ Rest' BY <1>2, <2>1, <2>3
  <2>5. Kept' BY <2>2
  <2> QED BY <1>3, <2>4, <2>5
<1>18. ASSUME job[p].at = "commit", NEW kind, NEW draft, Turn(p, "publish", kind, NoAuth, draft, 0),
              UNCHANGED store, auth'.tok = job[p].draft.tok
       PROVE  Filed'
  <2>1. job'[p].at = "publish" /\ \A q \in Procs : q # p => job'[q] = job[q] /\ job[q].at \notin {"io", "commit"}
    BY <1>10, <1>11, <1>18
  <2>2. Ahead(job[p]) /\ \A q \in Procs : ~Ahead(job'[q]) BY <1>18, <2>1 DEF Ahead
  <2>3. store'.apart = "no" => Held' /\ Rest' BY <1>2, <1>18, <2>2
  <2>4. Kept' BY <2>1
  <2> QED BY <1>3, <2>3, <2>4
<1>19. CASE Hands(p)
  <2>1. job[p].at = "commit" /\ job[p].kind \in {"mark", "reset"} /\ UNCHANGED <<auth, store>>
    BY <1>19 DEF Hands, storeVars
  <2>2. auth.tok = job[p].draft.tok BY <2>1 DEF Registered, Stands, InSave, IsNew, Successor
  <2> QED BY <1>18, <1>19, <2>1, <2>2 DEF Hands
<1>20. CASE Commits(p)
  BY <1>18, <1>20 DEF Commits, storeVars
<1>21. CASE Removes(p)
  <2>1. /\ Turn(p, "publish", "remove", NoAuth, NoAuth, authEpochs + 1) /\ gate = NoProc
        /\ job[p].at \in Outside /\ auth' = NoAuth /\ UNCHANGED store
    BY <1>21 DEF Removes, storeVars
  <2>2. \A q \in Procs : job'[q] = job[q] \/ (job[q].at \notin {"io", "commit"} /\ job'[q].at \notin {"io", "commit"})
    BY <1>11, <2>1 DEF Outside
  <2> QED BY <1>7, <2>1, <2>2
<1> QED BY <1>9, <1>12, <1>13, <1>14, <1>15, <1>16, <1>17, <1>19, <1>20, <1>21, QuietEvents DEF Events

-----------------------------------------------------------------------------
(* The theorems about tokens and results. *)

CopiesInv == /\ TypeOK /\ Control /\ Registered
             /\ Snapshots /\ Persisted /\ Filed

(* At first the scheduler and the file have the credential, and nobody else. *)
LEMMA CopiesInit == Init => CopiesInv
<1> SUFFICES ASSUME Init PROVE CopiesInv OBVIOUS
<1>1. TypeOK /\ Control /\ Registered BY CoreInit
<1>2. auth = Loaded /\ auth \in Auth /\ auth # NoAuth
  <2>1. Loaded \in Auth BY DEF Loaded, Auth
  <2> QED BY <2>1, ConstantsAssumption DEF Init
<1>3. \A p \in Procs : job[p].at = "idle" BY DEF Init, Idle
<1>4. Settled = 1 BY <1>1, SettledIs DEF Init
<1>5. Snapshots
  <2>1. sched.epoch = 1 /\ sched.gen = 1 /\ sched.entry = Loaded BY DEF Init, Scheduled, Loaded
  <2>2. Loaded.on /\ Loaded.epoch = 1 /\ Loaded.gen = 1 /\ Loaded.ver = 1 BY DEF Loaded
  <2>3. Behind(Loaded, Loaded, 1) BY <1>2, <2>2 DEF Behind
  <2>4. Mirrors(sched, auth, Settled) BY <1>2, <1>4, <2>1, <2>2, <2>3 DEF Mirrors
  <2>5. \A p \in Procs : Copies(job[p], auth, Settled)
    BY <1>3 DEF Copies, Offers, Unpublishes, InSave
  <2> QED BY <2>4, <2>5 DEF Snapshots
<1>6. Persisted
  <2>1. persistLock.epoch = 0 /\ persistLock.gen = 0 /\ authEpochs = 1 BY DEF Init
  <2>2. auth.gen = 1 BY <1>2 DEF Loaded
  <2> QED BY <1>3, <2>1, <2>2 DEF Persisted, InSave
<1>7. Filed
  <2>1. store.tok = 0 /\ auth.tok = 0 BY <1>2 DEF Init, Loaded
  <2> QED BY <1>3, <2>1 DEF Filed, Ahead, At
<1> QED BY <1>1, <1>5, <1>6, <1>7 DEF CopiesInv

(* The invariant of the copies is inductive. *)
LEMMA CopiesStep == ASSUME CopiesInv, [Next]_vars PROVE CopiesInv'
<1>1. TypeOK /\ Control /\ Registered /\ Snapshots /\ Persisted /\ Filed BY DEF CopiesInv
<1>2. TypeOK' /\ Control' /\ Registered' BY <1>1, CoreStep
<1>3. CASE Next
  <2>1. EditFile \/ Touch \/ \E p \in Procs : Events(p) BY <1>1, <1>3, StepEvents
  <2>2. UNCHANGED isMeta BY <1>3 DEF Next
  <2>3. Snapshots' BY <1>1, <1>2, <2>1, SnapshotsStep
  <2>4. Persisted' BY <1>1, <1>2, <2>1, PersistedStep
  <2>5. Filed' BY <1>1, <2>1, <2>2, FiledStep
  <2> QED BY <1>2, <2>3, <2>4, <2>5 DEF CopiesInv
<1>4. CASE UNCHANGED vars
  <2>1. Snapshots'
    BY <1>1, <1>4 DEF vars, lockVars, schedVars, Snapshots, Mirrors, Copies, Behind, Settled, Offers,
         Unpublishes, InSave, IsNew
  <2>2. Persisted' BY <1>1, <1>4 DEF vars, storeVars, Persisted, PersistIsOld, InSave
  <2>3. Filed' BY <1>1, <1>4 DEF vars, storeVars, Filed, Ahead, At, MustSave, SkipPersist
  <2> QED BY <1>2, <2>1, <2>2, <2>3 DEF CopiesInv
<1> QED BY <1>3, <1>4

(* The invariant of the copies holds throughout. *)
LEMMA CopiesHold == Spec => []CopiesInv
<1>1. Init => CopiesInv BY CopiesInit
<1>2. CopiesInv /\ [Next]_vars => CopiesInv' BY CopiesStep
<1> QED BY <1>1, <1>2, PTL DEF Spec

(* After a restart the proxy logs in with the tokens it was using: persist  *)
(* writes every mutation, and the watcher updates only from the file as it  *)
(* is on disk.                                                              *)
THEOREM RestartCorrect == Spec => []RestartSafe
<1>1. CopiesInv => RestartSafe
  <2> SUFFICES ASSUME CopiesInv, gate = NoProc, auth # NoAuth, store.apart = "no"
               PROVE  store.tok = auth.tok
    BY DEF RestartSafe
  <2>1. \A p \in Procs : ~Ahead(job[p])
    BY ConstantsAssumption DEF CopiesInv, Control, Mutates, Ahead
  <2> QED BY <2>1 DEF CopiesInv, Filed
<1> QED BY <1>1, CopiesHold, PTL

(* A step of one goroutine leaves the jobs of the others. *)
LEMMA OthersStay ==
    ASSUME JobType, NEW p \in Procs, Step(p), NEW q \in Procs, q # p PROVE job'[q] = job[q]
<1>1. CASE Register(p) \/ Update(p) \/ ModifyRead(p) \/ ModifyApply(p) \/ Remove(p)
  BY <1>1 DEF JobType, Register, Update, ModifyRead, ModifyApply, Remove, Save, Finish
<1>2. CASE WatchRead(p) \/ WatchLookup(p) \/ WatchDiscard(p) \/ WatchUpdate(p) \/ WatchRegister(p)
  BY <1>2 DEF JobType, WatchRead, WatchLookup, WatchDiscard, WatchUpdate, WatchRegister, Save, Finish
<1>3. CASE PrepareBegin(p) \/ PrepareFails(p) \/ RefreshBegin(p) \/ UpdateRejected(p) \/ UpdateMerged(p)
  BY <1>3 DEF JobType, PrepareBegin, PrepareFails, RefreshBegin, UpdateRejected, UpdateMerged, Save, Done,
        Finish
<1>4. CASE RefreshFails(p) \/ RefreshCancelled(p) \/ Execute(p) \/ MarkResultDropped(p)
  BY <1>4 DEF JobType, RefreshFails, RefreshCancelled, Execute, MarkResultDropped, Done, Finish
<1>5. CASE MarkResult(p) \/ ResetQuota(p) \/ SaveOk(p) \/ SaveFails(p)
  BY <1>5 DEF JobType, MarkResult, ResetQuota, SaveOk, SaveFails, Goto, Done, Finish
<1>6. CASE Commit(p)
  <2>1. Finish(p) \/ \E a : Publish(p, a) BY <1>6 DEF Commit, Done
  <2> QED BY <2>1 DEF JobType, Finish, Publish
<1>7. CASE RefreshSchedulerEntry(p) \/ PublishToScheduler(p) \/ BumpStructuralEpoch(p)
  BY <1>7 DEF JobType, RefreshSchedulerEntry, PublishToScheduler, BumpStructuralEpoch, Done, Finish
<1>8. CASE SyncBegin(p) \/ SyncCheck(p) \/ SyncSnapshot(p) \/ SyncRebuild(p) \/ SyncVerify(p)
  BY <1>8 DEF JobType, SyncBegin, SyncCheck, SyncSnapshot, SyncRebuild, SyncVerify, SyncEnd, Goto, Finish
<1> QED BY <1>1, <1>2, <1>3, <1>4, <1>5, <1>6, <1>7, <1>8, SMTT(40) DEF Step

(* MarkResult books a result on the credential that produced it: a copy of  *)
(* this registration is never newer than the credential, so the test of     *)
(* isStaleExecutionResult tells every other token apart.                    *)
THEOREM ResultsCorrect == Spec => ResultHitsItsCredential
<1> DEFINE Hits == \A p \in Procs : At(p, "executing") /\ job'[p].at = "io" =>
                       job[p].base.epoch = auth.epoch /\ job[p].base.tok = auth.tok
<1>1. CopiesInv /\ [Next]_vars => [Hits]_vars
  <2> SUFFICES ASSUME CopiesInv, Next, NEW p \in Procs, At(p, "executing"), job'[p].at = "io"
               PROVE  job[p].base.epoch = auth.epoch /\ job[p].base.tok = auth.tok
    OBVIOUS
  <2>1. TypeOK /\ JobType /\ Control /\ Registered BY DEF CopiesInv, TypeOK
  <2>2. job'[p] # job[p] BY DEF At
  <2>3. Step(p)
    <3>1. ~(EditFile \/ RefreshPending \/ markRejectedAccessToken)
      BY <2>2 DEF EditFile, RefreshPending, markRejectedAccessToken
    <3> QED BY <2>1, <2>2, <3>1, OthersStay DEF Next
  <2>4. ~MarkResultDropped(p)
    <3>1. ASSUME Finish(p) PROVE job'[p].at = "idle" BY <2>1, <3>1 DEF Finish, Idle, JobType
    <3> QED BY <3>1 DEF MarkResultDropped
  <2>5. MarkResult(p)
    BY <2>3, <2>4
       DEF Step, At, Register, Update, ModifyRead, ModifyApply, Remove, WatchRead, WatchLookup, WatchDiscard,
           WatchUpdate, WatchRegister, PrepareBegin, PrepareFails, RefreshBegin, UpdateRejected, UpdateMerged,
           RefreshFails, RefreshCancelled, Execute, ResetQuota, SaveOk, SaveFails, Commit,
           RefreshSchedulerEntry, PublishToScheduler, BumpStructuralEpoch, SyncBegin, SyncCheck,
           SyncSnapshot, SyncRebuild, SyncVerify
  <2>6. auth # NoAuth /\ ~isStaleExecutionResult(job[p].base) BY <2>5 DEF MarkResult
  <2>7. job[p].base \in Auth BY <2>1, Fields DEF Control, Started, At
  <2>8. auth \in Auth BY <2>1, <2>6, Fields
  <2>9. /\ job[p].base.epoch \in Nat /\ job[p].base.ver \in Nat
        /\ auth.epoch \in Nat /\ auth.ver \in Nat
    BY <2>7, <2>8, Numbers
  <2>10. Behind(job[p].base, auth, Settled) BY DEF CopiesInv, Snapshots, Copies, At
  <2>11. auth.epoch = Settled BY <2>1, <2>6 DEF Registered
  <2> QED BY <2>6, <2>9, <2>10, <2>11 DEF Behind, isStaleExecutionResult
<1>2. Spec => [][Hits]_vars BY <1>1, CopiesHold, PTL DEF Spec
<1> QED BY <1>2 DEF ResultHitsItsCredential

(* A goroutine that leaves its commit with a changed credential committed it. *)
LEMMA CommittedIs ==
    ASSUME TypeOK, Control, Registered, Next, NEW p \in Procs, Committed(p) PROVE Commits(p)
<1>1. At(p, "commit") /\ job'[p].at # "commit" /\ auth' # auth BY DEF Committed
<1>2. JobType BY DEF TypeOK
<1>3. Step(p)
  <2>1. ~(EditFile \/ RefreshPending \/ markRejectedAccessToken)
    BY <1>1 DEF EditFile, RefreshPending, markRejectedAccessToken, At
  <2> QED BY <1>1, <1>2, <2>1, OthersStay DEF Next, At
<1>4. Commit(p)
  BY <1>1, <1>3
     DEF Step, At, Register, Update, ModifyRead, ModifyApply, Remove, WatchRead, WatchLookup, WatchDiscard,
         WatchUpdate, WatchRegister, PrepareBegin, PrepareFails, RefreshBegin, UpdateRejected, UpdateMerged,
         RefreshFails, RefreshCancelled, Execute, MarkResultDropped, MarkResult, ResetQuota, SaveOk, SaveFails,
         RefreshSchedulerEntry, PublishToScheduler, BumpStructuralEpoch, SyncBegin, SyncCheck,
         SyncSnapshot, SyncRebuild, SyncVerify
<1>5. Returns(p) \/ Withholds(p) \/ Hands(p) \/ Commits(p) BY <1>4, SaveSteps
<1> QED BY <1>1, <1>5 DEF Returns, Withholds, Hands, At

(* What is written during a save survives its commit: mergeAuthSaveDelta     *)
(* keeps what was recorded since the save began, and a refresh replaces the  *)
(* token its upstream call started from.                                     *)
THEOREM SavesCorrect == Spec => SavesLoseNothing
<1> DEFINE Keeps == \A p \in Procs : Committed(p) => RefreshReplacesItsBase(p) /\ SaveKeepsLaterWrites(p)
<1>1. CopiesInv /\ [Next]_vars => [Keeps]_vars
  <2> SUFFICES ASSUME CopiesInv, Next, NEW p \in Procs, Committed(p)
               PROVE  RefreshReplacesItsBase(p) /\ SaveKeepsLaterWrites(p)
    OBVIOUS
  <2>1. TypeOK /\ Control /\ Registered BY DEF CopiesInv
  <2>2. Commits(p) BY <2>1, CommittedIs
  <2>3. ~IsNew(job[p]) => auth # NoAuth /\ Successor(job[p], auth)
    BY <2>1, <2>2 DEF Commits, Registered, Stands, InSave
  <2>4. RefreshReplacesItsBase(p) BY <2>3 DEF RefreshReplacesItsBase, IsNew, Successor
  <2>5. SaveKeepsLaterWrites(p)
    <3>1. ~IsNew(job[p]) => auth.gen \in Nat BY <2>1, <2>3, Fields, Numbers
    <3> QED BY <2>2, <3>1 DEF Commits, SaveKeepsLaterWrites, IsNew
  <2> QED BY <2>4, <2>5
<1>2. Spec => [][Keeps]_vars BY <1>1, CopiesHold, PTL DEF Spec
<1> QED BY <1>2 DEF SavesLoseNothing

(* A minted Meta key is in the file before it is in the credential: a save  *)
(* that fails withholds it.                                                 *)
THEOREM MintedCorrect == Spec => MintedKeyIsSaved
<1> DEFINE Kept == \A p \in Procs : isMeta /\ Committed(p) /\ job[p].kind \in {"refresh", "prepare"} =>
                       auth'.tok \in {auth.tok, store.tok} \/ store.apart = "edited"
<1>1. CopiesInv /\ [Next]_vars => [Kept]_vars
  <2> SUFFICES ASSUME CopiesInv, Next, NEW p \in Procs, isMeta, Committed(p),
                      job[p].kind \in {"refresh", "prepare"}
               PROVE  auth'.tok \in {auth.tok, store.tok} \/ store.apart = "edited"
    OBVIOUS
  <2>1. TypeOK /\ Control /\ Registered BY DEF CopiesInv
  <2>2. auth'.tok = job[p].draft.tok /\ At(p, "commit") BY <2>1, CommittedIs DEF Commits, At
  <2>3. store.tok = job[p].draft.tok \/ store.apart = "edited"
    BY <2>2 DEF CopiesInv, Filed, MustSave
  <2> QED BY <2>2, <2>3
<1>2. Spec => [][Kept]_vars BY <1>1, CopiesHold, PTL DEF Spec
<1> QED BY <1>2 DEF MintedKeyIsSaved

-----------------------------------------------------------------------------
(* The scheduler's copy. *)

(* One goroutine rebuilds, while the versions differ. *)
LEMMA SyncingStep ==
    ASSUME TypeOK, Syncing, EditFile \/ Touch \/ \E p \in Procs : Events(p)
    PROVE  Syncing'
<1>1. JobType /\ version \in Nat /\ synced \in Nat BY DEF TypeOK, SchedType
<1>2. \A p \in Procs : job[p].seen \in Nat BY Fields
<1>3. ASSUME UNCHANGED <<synced, syncMu>>, version' \in {version, version + 1},
             \A q \in Procs : (Rebuilds(job'[q]) <=> Rebuilds(job[q])) /\ (Rebuilds(job[q]) => job'[q].seen = job[q].seen)
      PROVE  Syncing'
  <2>1. synced <= version' /\ (synced < version => synced < version') BY <1>1, <1>3 DEF Syncing
  <2>2. \A q \in Procs : job[q].seen <= version => job[q].seen <= version' BY <1>1, <1>2, <1>3
  <2> QED BY <1>3, <2>1, <2>2 DEF Syncing
<1>4. CASE EditFile BY <1>3, <1>4 DEF EditFile, schedVars, lockVars
<1>5. CASE Touch
  <2>1. \A q \in Procs : (Rebuilds(job'[q]) <=> Rebuilds(job[q])) /\ (Rebuilds(job[q]) => job'[q].seen = job[q].seen)
    BY <1>1, <1>5, TouchJobs DEF Rebuilds, Outside
  <2> QED BY <1>3, <1>5, <2>1 DEF Touch, SyncVars
<1> SUFFICES ASSUME NEW p \in Procs, Events(p) PROVE Syncing' BY <1>4, <1>5
<1>6. ASSUME NEW at, NEW kind, NEW base, NEW draft, NEW seen, Turn(p, at, kind, base, draft, seen),
             at \notin {"check", "snapshot", "rebuild", "verify"},
             job[p].at \notin {"check", "snapshot", "rebuild", "verify"},
             UNCHANGED <<synced, syncMu>>, version' \in {version, version + 1}
      PROVE  Syncing'
  <2>1. (\A q \in Procs : q # p => job'[q] = job[q]) /\ job'[p].at = at BY <1>1, <1>6, TurnIs
  <2>2. \A q \in Procs : (Rebuilds(job'[q]) <=> Rebuilds(job[q])) /\ (Rebuilds(job[q]) => job'[q].seen = job[q].seen)
    BY <1>6, <2>1 DEF Rebuilds
  <2> QED BY <1>3, <1>6, <2>2
<1>7. CASE Calm(p)
  <2>1. PICK at \in Outside, kind \in Kinds, base \in AuthOrNone, draft \in AuthOrNone, seen \in Nat :
          Turn(p, at, kind, base, draft, seen)
    BY <1>7 DEF Calm
  <2>2. /\ at \notin {"check", "snapshot", "rebuild", "verify"}
        /\ job[p].at \notin {"check", "snapshot", "rebuild", "verify"}
    BY <1>7 DEF Calm, Outside
  <2> QED BY <1>6, <1>7, <2>1, <2>2 DEF Calm
<1>8. CASE Cancels(p) BY <1>6, <1>8 DEF Cancels, Outside, Idles, SyncVars
<1>9. CASE Edits(p) BY <1>6, <1>9 DEF Edits, Outside, SyncVars
<1>10. CASE Registers(p) BY <1>6, <1>10 DEF Registers, Outside, SyncVars
<1>11. CASE Replaces(p) BY <1>6, <1>11 DEF Replaces, Outside, SyncVars
<1>12. CASE Writes(p) BY <1>6, <1>12 DEF Writes, Outside, SyncVars
<1>13. CASE Returns(p) BY <1>6, <1>13 DEF Returns, SyncVars
<1>14. CASE Withholds(p) BY <1>6, <1>14 DEF Withholds, Idles, SyncVars
<1>15. CASE Hands(p) BY <1>6, <1>15 DEF Hands, SyncVars
<1>16. CASE Commits(p) BY <1>6, <1>16 DEF Commits, SyncVars
<1>17. CASE Removes(p) BY <1>6, <1>17 DEF Removes, Outside, SyncVars
<1>18. CASE Repeats(p) BY <1>6, <1>18 DEF Repeats, Outside
<1>19. CASE Publishes(p) BY <1>6, <1>19 DEF Publishes, Idles, SyncVars
<1>20. CASE Checks(p)
  <2>1. /\ \A q \in Procs : q # p => job'[q] = job[q]
        /\ job'[p].at = "check" /\ job'[p].seen = version
    BY <1>1, <1>20, TurnIs DEF Checks
  <2>2. syncMu = NoProc /\ syncMu' = p /\ version # synced /\ UNCHANGED <<version, synced>>
    BY <1>20 DEF Checks, schedVars
  <2>3. \A q \in Procs : ~Rebuilds(job[q]) BY <2>2, ConstantsAssumption DEF Syncing
  <2>4. \A q \in Procs : syncMu' = q <=> Rebuilds(job'[q]) BY <2>1, <2>2, <2>3 DEF Rebuilds
  <2>5. synced < version BY <1>1, <2>2 DEF Syncing
  <2> QED BY <1>1, <2>1, <2>2, <2>4, <2>5 DEF Syncing
<1>21. ASSUME NEW at \in {"snapshot", "rebuild", "verify"}, NEW kind, NEW base, NEW draft,
              Turn(p, at, kind, base, draft, job[p].seen),
              job[p].at \in {"check", "snapshot", "rebuild"}, UNCHANGED SyncVars
       PROVE  Syncing'
  <2>1. /\ \A q \in Procs : q # p => job'[q] = job[q]
        /\ job'[p].at = at /\ job'[p].seen = job[p].seen
    BY <1>1, <1>21, TurnIs
  <2>2. \A q \in Procs : (Rebuilds(job'[q]) <=> Rebuilds(job[q])) /\ (Rebuilds(job[q]) => job'[q].seen = job[q].seen)
    BY <1>21, <2>1 DEF Rebuilds
  <2> QED BY <1>3, <1>21, <2>2 DEF SyncVars
<1>22. CASE Decides(p) BY <1>21, <1>22 DEF Decides, schedVars, SyncVars
<1>23. CASE Snaps(p) BY <1>21, <1>23 DEF Snaps, schedVars, SyncVars
<1>24. CASE Restores(p) BY <1>21, <1>24 DEF Restores
<1>25. CASE Ends(p)
  <2>1. (\A q \in Procs : q # p => job'[q] = job[q]) /\ job'[p].at = "idle"
    BY <1>1, <1>25, TurnIs DEF Ends, Idles
  <2>2. syncMu = p /\ syncMu' = NoProc BY <1>25 DEF Ends, Syncing, Rebuilds
  <2>3. \A q \in Procs : ~Rebuilds(job'[q]) BY <2>1, <2>2 DEF Syncing, Rebuilds
  <2>4. synced' <= version'
    <3>1. job[p].seen <= version /\ job[p].seen \in Nat BY <1>2, <2>2 DEF Syncing
    <3> QED BY <1>1, <1>25, <3>1 DEF Ends, Larger, Syncing
  <2> QED BY <2>2, <2>3, <2>4, ConstantsAssumption DEF Syncing
<1> QED BY <1>7, <1>8, <1>9, <1>10, <1>11, <1>12, <1>13, <1>14, <1>15, <1>16, <1>17, <1>18, <1>19,
           <1>20, <1>22, <1>23, <1>24, <1>25 DEF Events

(* What the scheduler's copy shows stays the latest when nothing newer is    *)
(* written and nothing arrives.                                              *)
LEMMA LatestKeeps ==
    ASSUME NEW g \in Nat, Latest(g), UNCHANGED sched,
           auth'.epoch = auth.epoch, auth'.tok = auth.tok, auth'.on = auth.on, auth'.run = auth.run,
           sched.entry = NoAuth /\ auth.on /\ version # synced => version' # synced',
           \A q \in Procs : Offers(job'[q]) => \/ Offers(job[q]) /\ job'[q].draft = job[q].draft
                                               \/ Fresh(job'[q].draft, auth),
           \A q \in Procs : Arrives(job[q], auth, g) => Arrives(job'[q], auth, g)
    PROVE  Latest(g)'
<1>1. \A s : Since(s, auth', g) <=> Since(s, auth, g) BY DEF Since
<1>2. \A s : Fresh(s, auth') <=> Fresh(s, auth) BY DEF Fresh
<1>3. \A q \in Procs : Arrives(job'[q], auth', g) <=> Arrives(job'[q], auth, g) BY <1>1 DEF Arrives
<1>4. \A q \in Procs : Offers(job'[q]) /\ Since(job'[q].draft, auth', g) => Fresh(job'[q].draft, auth')
  BY <1>1, <1>2 DEF Latest
<1>5. sched'.entry # NoAuth /\ Since(sched', auth', g) => Fresh(sched'.entry, auth')
  BY <1>1, <1>2 DEF Latest
<1>6. sched'.entry = NoAuth /\ Since(sched', auth', g) /\ auth'.on => version' # synced'
  BY <1>1 DEF Latest
<1>7. Since(sched', auth', g) \/ \E q \in Procs : Arrives(job'[q], auth', g)
  BY <1>1, <1>3 DEF Latest
<1> QED BY <1>4, <1>5, <1>6, <1>7 DEF Latest

(* The same when a copy d arrives that is not stale. *)
LEMMA LatestArrives ==
    ASSUME NEW g \in Nat, Latest(g), UNCHANGED <<auth, version, synced>>,
           TypeOK, auth # NoAuth, Registered, Mirrors(sched, auth, Settled),
           NEW d \in Auth, Behind(d, auth, Settled), ~isStaleScheduledAuth(d),
           sched'.epoch = d.epoch, sched'.gen = d.gen, sched'.entry = IF d.on THEN d ELSE NoAuth,
           Since(d, auth, g) => Fresh(d, auth),
           \A q \in Procs : Offers(job'[q]) => Offers(job[q]) /\ job'[q].draft = job[q].draft,
           \A q \in Procs : Arrives(job[q], auth, g) => Arrives(job'[q], auth, g) \/ Since(d, auth, g)
    PROVE  Latest(g)'
<1>1. Since(sched', auth, g) <=> Since(d, auth, g) BY DEF Since
<1>2. Since(sched, auth, g) => Since(d, auth, g)
  <2>1. /\ sched.epoch \in Nat /\ sched.gen \in Nat /\ d.epoch \in Nat /\ d.gen \in Nat
        /\ auth.epoch \in Nat
    <3>1. auth \in Auth BY Fields
    <3> QED BY <3>1, Numbers DEF TypeOK, SchedType
  <2>2. d.epoch <= auth.epoch BY DEF Behind, Registered
  <2> QED BY <2>1, <2>2 DEF Since, isStaleScheduledAuth
<1>3. \A q \in Procs : Offers(job'[q]) /\ Since(job'[q].draft, auth, g) => Fresh(job'[q].draft, auth)
  BY DEF Latest
<1>4. sched'.entry # NoAuth /\ Since(sched', auth, g) => Fresh(sched'.entry, auth) BY <1>1
<1>5. sched'.entry = NoAuth /\ Since(sched', auth, g) /\ auth.on => version' # synced'
  <2>1. d # NoAuth BY ConstantsAssumption
  <2> QED BY <1>1, <2>1 DEF Fresh
<1>6. Since(sched', auth, g) \/ \E q \in Procs : Arrives(job'[q], auth, g)
  BY <1>1, <1>2 DEF Latest
<1> QED BY <1>3, <1>4, <1>5, <1>6 DEF Latest

(* After a write the latest copies are those of the new generation. *)
LEMMA LatestRenewed ==
    ASSUME auth' \in Auth,
           \A q \in Procs : Offers(job'[q]) /\ Since(job'[q].draft, auth', auth'.gen) => Fresh(job'[q].draft, auth'),
           \/ /\ sched'.epoch = auth'.epoch /\ sched'.gen = auth'.gen
              /\ sched'.entry = IF auth'.on THEN auth' ELSE NoAuth
           \/ /\ ~Since(sched', auth', auth'.gen)
              /\ \E q \in Procs : Arrives(job'[q], auth', auth'.gen)
    PROVE  Published'
<1>1. auth'.gen \in Nat /\ auth' # NoAuth BY Numbers, ConstantsAssumption
<1> DEFINE G(g) == /\ \A q \in Procs : Offers(job'[q]) /\ Since(job'[q].draft, auth', g) => Fresh(job'[q].draft, auth')
                   /\ sched'.entry # NoAuth /\ Since(sched', auth', g) => Fresh(sched'.entry, auth')
                   /\ sched'.entry = NoAuth /\ Since(sched', auth', g) /\ auth'.on => version' # synced'
                   /\ Since(sched', auth', g) \/ \E q \in Procs : Arrives(job'[q], auth', g)
<1>2. G(auth'.gen)
  <2>1. CASE /\ sched'.epoch = auth'.epoch /\ sched'.gen = auth'.gen
             /\ sched'.entry = IF auth'.on THEN auth' ELSE NoAuth
    <3>1. Since(sched', auth', auth'.gen) BY <1>1, <2>1 DEF Since
    <3> QED BY <1>1, <2>1, <3>1 DEF Fresh
  <2>2. CASE ~Since(sched', auth', auth'.gen) /\ \E q \in Procs : Arrives(job'[q], auth', auth'.gen)
    BY <2>2
  <2> QED BY <2>1, <2>2
<1>3. \A g : Latest(g)' <=> G(g) BY DEF Latest
<1>4. auth'.gen \in 0 .. auth'.gen BY <1>1
<1>5. \E g \in 0 .. auth'.gen : G(g) BY <1>2, <1>4
<1> HIDE DEF G
<1>6. \E g \in 0 .. auth'.gen : Latest(g)' BY <1>3, <1>5
<1> QED BY <1>1, <1>6 DEF Published

(* A copy of the new generation is newer than every copy of the old one. *)
LEMMA NewerThanCopies ==
    ASSUME TypeOK, TypeOK', Registered, Registered', Ages, auth' \in Auth, auth' # auth,
           NEW s, s.epoch \in Nat, s.gen \in Nat, s.epoch <= Settled,
           auth # NoAuth /\ s.epoch = auth.epoch => s.gen <= auth.gen
    PROVE  ~Since(s, auth', auth'.gen)
<1>1. auth'.gen \in Nat /\ Settled \in Int /\ auth' # NoAuth
  BY SettledType, Numbers, ConstantsAssumption
<1>2. CASE /\ auth \in Auth /\ auth'.epoch = auth.epoch /\ auth'.gen = auth.gen + 1
  <2>1. auth # NoAuth /\ auth.gen \in Nat BY <1>2, Numbers, ConstantsAssumption
  <2> QED BY <1>1, <1>2, <2>1 DEF Since
<1>3. CASE Settled' = Settled + 1 /\ auth'.epoch = Settled' BY <1>1, <1>3 DEF Since
<1> QED BY <1>1, <1>2, <1>3 DEF Ages

(* The latest copy has reached the scheduler or is on its way. *)
LEMMA PublishedStep ==
    ASSUME TypeOK, TypeOK', Control, Registered, Registered', Snapshots, Syncing, Published,
           EditFile \/ Touch \/ \E p \in Procs : Events(p)
    PROVE  Published'
<1>1. JobType /\ version \in Nat /\ synced \in Nat /\ synced <= version
  BY DEF TypeOK, SchedType, Syncing
<1>2. Ages BY AgesStep
<1>3. Mirrors(sched, auth, Settled) /\ \A q \in Procs : Copies(job[q], auth, Settled) BY DEF Snapshots
<1>4. auth # NoAuth => auth \in Auth /\ auth.gen \in Nat /\ auth.epoch \in Nat /\ auth.epoch = Settled
  BY Fields, Numbers DEF Registered
<1>5. /\ \A q \in Procs : Offers(job[q]) => job[q].draft \in Auth /\ Behind(job[q].draft, auth, Settled)
      /\ sched.epoch \in Nat /\ sched.gen \in Nat
  <2>1. \A q \in Procs : job[q].draft # NoAuth => job[q].draft \in Auth BY Fields
  <2> QED BY <1>3, <2>1 DEF Offers, Copies, TypeOK, SchedType
<1>6. ASSUME auth # NoAuth, auth' # NoAuth, auth'.gen \in Nat, auth'.gen >= auth.gen,
             \A g \in 0 .. auth.gen : Latest(g) => Latest(g)'
      PROVE  Published'
  <2>1. PICK g \in 0 .. auth.gen : Latest(g) BY <1>6 DEF Published
  <2>2. g \in 0 .. auth'.gen BY <1>4, <1>6
  <2>3. \E h \in 0 .. auth'.gen : Latest(h)' BY <1>6, <2>1, <2>2
  <2> QED BY <1>6, <2>3 DEF Published
<1>7. ASSUME auth = NoAuth, auth' = NoAuth,
             \/ sched.epoch = Settled /\ sched.entry = NoAuth => sched'.epoch = Settled /\ sched'.entry = NoAuth,
             \A q \in Procs : Unpublishes(job[q]) /\ job[q].seen = Settled =>
                 \/ Unpublishes(job'[q]) /\ job'[q].seen = Settled
                 \/ sched'.epoch = Settled /\ sched'.entry = NoAuth
      PROVE  Published'
  <2>1. Settled' = Settled BY <1>2, <1>7 DEF Ages
  <2> QED BY <1>7, <2>1 DEF Published
<1>8. ASSUME UNCHANGED <<auth, sched>>,
             auth # NoAuth /\ sched.entry = NoAuth /\ auth.on /\ version # synced => version' # synced',
             \A q \in Procs : Offers(job'[q]) => \/ Offers(job[q]) /\ job'[q].draft = job[q].draft
                                                 \/ auth # NoAuth /\ job'[q].draft = auth,
             \A q \in Procs, g \in 0 .. auth.gen :
                 auth # NoAuth /\ Arrives(job[q], auth, g) => Arrives(job'[q], auth, g),
             \A q \in Procs : Unpublishes(job[q]) => Unpublishes(job'[q]) /\ job'[q].seen = job[q].seen
      PROVE  Published'
  <2>1. CASE auth = NoAuth BY <1>7, <1>8, <2>1
  <2>2. CASE auth # NoAuth
    <3>1. Fresh(auth, auth) BY DEF Fresh
    <3>2. ASSUME NEW g \in 0 .. auth.gen, Latest(g) PROVE Latest(g)'
      <4>1. g \in Nat BY <1>4, <2>2
      <4>2. \A q \in Procs : Offers(job'[q]) => \/ Offers(job[q]) /\ job'[q].draft = job[q].draft
                                                \/ Fresh(job'[q].draft, auth)
        BY <1>8, <3>1
      <4>3. \A q \in Procs : Arrives(job[q], auth, g) => Arrives(job'[q], auth, g) BY <1>8, <2>2
      <4> QED BY <1>8, <2>2, <3>2, <4>1, <4>2, <4>3, LatestKeeps
    <3>3. auth'.gen \in Nat /\ auth'.gen >= auth.gen /\ auth' # NoAuth BY <1>4, <1>8, <2>2
    <3> QED BY <1>6, <2>2, <3>2, <3>3
  <2> QED BY <2>1, <2>2
<1>9. CASE EditFile BY <1>8, <1>9 DEF EditFile, schedVars
<1>10. CASE Touch
  <2>1. /\ auth # NoAuth /\ auth' # NoAuth /\ auth' \in Auth /\ auth'.gen \in Nat /\ auth'.gen >= auth.gen
        /\ auth'.epoch = auth.epoch /\ auth'.gen = auth.gen + 1
    <3>1. auth # NoAuth /\ auth' \in Auth /\ auth'.epoch = auth.epoch /\ auth'.gen = auth.gen + 1
      BY <1>10, ConstantsAssumption DEF Touch
    <3> QED BY <1>4, <3>1, Numbers, ConstantsAssumption
  <2>2. \A q \in Procs : Offers(job'[q]) => Offers(job[q]) /\ job'[q].draft = job[q].draft
    BY <1>1, <1>10, TouchJobs DEF Offers, InSave
  <2>3. CASE UNCHANGED sched /\ auth'.run = auth.run
    <3>1. ASSUME NEW g \in 0 .. auth.gen, Latest(g) PROVE Latest(g)'
      <4>1. \A q \in Procs : Arrives(job[q], auth, g) => Arrives(job'[q], auth, g)
        BY <1>1, <1>10, TouchJobs DEF Arrives, InSave, Outside
      <4>2. g \in Nat BY <1>4, <2>1
      <4>3. UNCHANGED <<version, synced>> BY <1>10 DEF Touch, SyncVars
      <4>4. auth'.tok = auth.tok /\ auth'.on = auth.on BY <1>10 DEF Touch
      <4> QED BY <2>1, <2>2, <2>3, <3>1, <4>1, <4>2, <4>3, <4>4, LatestKeeps
    <3> QED BY <1>6, <2>1, <3>1
  <2>4. CASE upsertAuth(auth')
    <3>1. ~isStaleScheduledAuth(auth')
      BY <1>3, <1>4, <1>5, <2>1 DEF isStaleScheduledAuth, Mirrors
    <3>2. /\ sched'.epoch = auth'.epoch /\ sched'.gen = auth'.gen
          /\ sched'.entry = IF auth'.on THEN auth' ELSE NoAuth
      BY <2>1, <2>4, <3>1, UpsertIs DEF TypeOK
    <3>3. \A q \in Procs : Offers(job'[q]) => ~Since(job'[q].draft, auth', auth'.gen)
      <4> TAKE q \in Procs
      <4> HAVE Offers(job'[q])
      <4>1. Offers(job[q]) /\ job'[q].draft = job[q].draft BY <2>2
      <4>2. job[q].draft.gen \in Nat /\ Behind(job[q].draft, auth, Settled) BY <1>5, <4>1, Numbers
      <4> QED BY <1>4, <2>1, <4>1, <4>2 DEF Behind, Since
    <3> QED BY <2>1, <3>2, <3>3, LatestRenewed
  <2> QED BY <1>10, <2>3, <2>4 DEF Touch
<1> SUFFICES ASSUME NEW p \in Procs, Events(p) PROVE Published' BY <1>9, <1>10
(* The scheduler and the credential stay; p was not publishing. *)
<1>11. ASSUME NEW at, NEW kind, NEW base, NEW draft, NEW seen, Turn(p, at, kind, base, draft, seen),
              UNCHANGED <<auth, sched>>, job[p].at # "publish",
              auth # NoAuth /\ sched.entry = NoAuth /\ auth.on /\ version # synced => version' # synced',
              /\ draft # NoAuth
              /\ at \in {"publish", "rebuild"} \/ (at \in {"io", "commit"} /\ kind = "reset")
              => draft = auth \/ (Offers(job[p]) /\ draft = job[p].draft),
              InSave(job[p]) /\ job[p].kind = "mark" =>
                 (at = "commit" /\ kind = "mark") \/ (at = "publish" /\ draft = auth),
              InSave(job[p]) /\ job[p].kind = "reset" =>
                 draft = job[p].draft /\ (at = "publish" \/ (at = "commit" /\ kind = "reset"))
       PROVE  Published'
  <2>1. /\ \A q \in Procs : q # p => job'[q] = job[q]
        /\ job'[p].at = at /\ job'[p].kind = kind /\ job'[p].draft = draft
    BY <1>1, <1>11, TurnIs
  <2>2. \A q \in Procs : Offers(job'[q]) => \/ Offers(job[q]) /\ job'[q].draft = job[q].draft
                                            \/ auth # NoAuth /\ job'[q].draft = auth
    <3>1. Offers(job'[p]) => \/ Offers(job[p]) /\ job'[p].draft = job[p].draft
                             \/ auth # NoAuth /\ job'[p].draft = auth
      BY <1>11, <2>1 DEF Offers, InSave
    <3> QED BY <2>1, <3>1
  <2>3. \A q \in Procs, g \in 0 .. auth.gen :
            auth # NoAuth /\ Arrives(job[q], auth, g) => Arrives(job'[q], auth, g)
    <3>1. ASSUME NEW g \in 0 .. auth.gen, auth # NoAuth, Arrives(job[p], auth, g) PROVE Arrives(job'[p], auth, g)
      <4>1. CASE InSave(job[p]) /\ job[p].kind = "mark"
        <5>1. Since(auth, auth, g) BY <1>4, <3>1 DEF Since
        <5> QED BY <1>11, <2>1, <3>1, <4>1, <5>1 DEF Arrives, InSave
      <4>2. CASE InSave(job[p]) /\ job[p].kind = "reset" /\ job[p].draft # NoAuth /\ Since(job[p].draft, auth, g)
        BY <1>11, <2>1, <4>2 DEF Arrives, InSave
      <4> QED BY <1>11, <3>1, <4>1, <4>2 DEF Arrives
    <3> QED BY <2>1, <3>1
  <2>4. \A q \in Procs : Unpublishes(job[q]) => Unpublishes(job'[q]) /\ job'[q].seen = job[q].seen
    BY <1>11, <2>1 DEF Unpublishes
  <2> QED BY <1>8, <1>11, <2>2, <2>3, <2>4
<1>12. CASE Calm(p)
  <2>1. PICK at \in Outside, kind \in Kinds, base \in AuthOrNone, draft \in AuthOrNone, seen \in Nat :
          Turn(p, at, kind, base, draft, seen)
    BY <1>12 DEF Calm
  <2>2. /\ at \notin {"publish", "rebuild", "io", "commit"} /\ job[p].at # "publish" /\ ~InSave(job[p])
        /\ UNCHANGED <<auth, sched>> /\ (version # synced => version' # synced')
    BY <1>1, <1>12 DEF Calm, Outside, InSave
  <2> QED BY <1>11, <2>1, <2>2
<1>13. CASE Edits(p) BY <1>11, <1>13 DEF Edits, Outside, InSave, SyncVars
<1>14. CASE Registers(p) BY <1>11, <1>14 DEF Registers, Outside, InSave, SyncVars
<1>15. CASE Replaces(p) BY <1>11, <1>15 DEF Replaces, Outside, InSave, SyncVars
<1>16. CASE Returns(p)
  <2>1. job[p].draft # NoAuth /\ job[p].kind = "reset" => Offers(job[p])
    BY <1>16 DEF Returns, Offers, InSave
  <2> QED BY <1>11, <1>16, <2>1 DEF Returns, SyncVars
<1>17. CASE Withholds(p) BY <1>11, <1>17 DEF Withholds, Idles, SyncVars
<1>18. CASE Hands(p)
  <2> DEFINE d == IF job[p].kind = "mark" THEN auth ELSE job[p].draft
  <2>1. /\ Turn(p, "publish", job[p].kind, NoAuth, d, 0) /\ UNCHANGED <<auth, sched, version, synced>>
        /\ job[p].at = "commit" /\ job[p].kind \in {"mark", "reset"}
    BY <1>18 DEF Hands, SyncVars
  <2>2. job[p].kind = "mark" => d = auth OBVIOUS
  <2>3. job[p].kind = "reset" => d = job[p].draft OBVIOUS
  <2>4. job[p].kind = "reset" /\ job[p].draft # NoAuth => Offers(job[p]) BY <2>1 DEF Offers, InSave
  <2> HIDE DEF d
  <2> QED BY <1>11, <2>1, <2>2, <2>3, <2>4
<1>19. CASE Repeats(p)
  <2>1. version # synced => version' # synced' BY <1>1, <1>19 DEF Repeats
  <2> QED BY <1>11, <1>19, <2>1 DEF Repeats, Outside, InSave
<1>20. CASE Checks(p) BY <1>11, <1>20 DEF Checks, Outside, InSave, schedVars
<1>21. CASE Decides(p) BY <1>11, <1>21 DEF Decides, InSave, schedVars
<1>22. CASE Snaps(p) BY <1>11, <1>22 DEF Snaps, InSave, schedVars
<1>23. CASE Ends(p)
  <2>1. auth # NoAuth /\ sched.entry = NoAuth /\ auth.on => needsSync BY DEF needsSync
  <2>2. auth # NoAuth /\ sched.entry = NoAuth /\ auth.on /\ version # synced => version' # synced'
    BY <1>23, <2>1 DEF Ends
  <2> QED BY <1>11, <1>23, <2>2 DEF Ends, Idles, InSave
(* The credential changes, and its copy is on its way. *)
<1>24. ASSUME NEW at, NEW kind, NEW base, NEW seen, Turn(p, at, kind, base, auth', seen),
              auth' \in Auth, auth' # auth, UNCHANGED sched,
              at = "publish" \/ (at = "io" /\ kind \in {"mark", "reset"})
       PROVE  Published'
  <2>1. /\ \A q \in Procs : q # p => job'[q] = job[q]
        /\ job'[p].at = at /\ job'[p].kind = kind /\ job'[p].draft = auth'
    BY <1>1, <1>24, TurnIs
  <2>2. ASSUME NEW q \in Procs, Offers(job'[q]), Since(job'[q].draft, auth', auth'.gen)
        PROVE  Fresh(job'[q].draft, auth')
    <3>1. CASE q = p BY <2>1, <3>1 DEF Fresh
    <3>2. ASSUME q # p PROVE FALSE
      <4>1. Offers(job[q]) /\ job'[q] = job[q] BY <2>1, <2>2, <3>2
      <4>2. /\ job[q].draft.epoch \in Nat /\ job[q].draft.gen \in Nat
            /\ Behind(job[q].draft, auth, Settled)
        BY <1>5, <4>1, Numbers
      <4>3. ~Since(job[q].draft, auth', auth'.gen)
        BY <1>2, <1>24, <4>2, NewerThanCopies DEF Behind
      <4> QED BY <2>2, <4>1, <4>3
    <3> QED BY <3>1, <3>2
  <2>3. ~Since(sched', auth', auth'.gen)
    BY <1>2, <1>3, <1>5, <1>24, NewerThanCopies DEF Mirrors
  <2>4. Arrives(job'[p], auth', auth'.gen)
    <3>1. auth'.gen \in Nat /\ auth' # NoAuth BY <1>24, Numbers, ConstantsAssumption
    <3> QED BY <1>24, <2>1, <3>1 DEF Arrives, InSave, Since
  <2> QED BY <1>24, <2>2, <2>3, <2>4, LatestRenewed
<1>25. CASE Writes(p)
  <2>1. PICK kind \in {"mark", "reset"}, base \in AuthOrNone : Turn(p, "io", kind, base, auth', auth'.run)
    BY <1>25 DEF Writes
  <2>2. auth' # auth BY <1>4, <1>25 DEF Writes
  <2> QED BY <1>24, <1>25, <2>1, <2>2 DEF Writes
<1>26. CASE Commits(p)
  <2>1. auth' # auth
    <3>1. CASE IsNew(job[p])
      <4>1. gate = p /\ InSave(job[p]) BY <1>26 DEF Commits, Control, Mutates, InSave
      <4>2. Settled = authEpochs - 1 BY <3>1, <4>1, SettledIs
      <4>3. authEpochs \in Nat /\ auth'.epoch = authEpochs /\ auth' \in Auth
        BY <1>26 DEF Commits, TypeOK, ManagerType
      <4> QED BY <1>4, <4>2, <4>3, ConstantsAssumption
    <3>2. CASE ~IsNew(job[p])
      <4>1. auth # NoAuth BY <1>26, <3>2 DEF Commits, Registered, Stands, InSave
      <4> QED BY <1>4, <1>26, <3>2, <4>1 DEF Commits
    <3> QED BY <3>1, <3>2
  <2> QED BY <1>24, <1>26, <2>1 DEF Commits
<1>27. CASE Removes(p)
  <2>1. job'[p].at = "publish" /\ job'[p].kind = "remove" /\ job'[p].seen = authEpochs + 1
    BY <1>1, <1>27, TurnIs DEF Removes
  <2>2. Settled' = authEpochs + 1 /\ auth' = NoAuth BY <1>27, SettledIs DEF Removes
  <2>3. Unpublishes(job'[p]) /\ job'[p].seen = Settled' BY <2>1, <2>2 DEF Unpublishes
  <2> QED BY <2>2, <2>3 DEF Published
(* A copy d arrives that is not stale. *)
<1>28. ASSUME NEW d \in Auth, Behind(d, auth, Settled), ~isStaleScheduledAuth(d),
              sched'.epoch = d.epoch, sched'.gen = d.gen, sched'.entry = IF d.on THEN d ELSE NoAuth,
              \A g \in 0 .. auth.gen : auth # NoAuth /\ Latest(g) /\ Since(d, auth, g) => Fresh(d, auth),
              UNCHANGED <<auth, version, synced>>, ~InSave(job[p]), ~Offers(job'[p]), ~Unpublishes(job[p]),
              \A q \in Procs : q # p => job'[q] = job[q],
              job[p].at = "publish" => d = job[p].draft
       PROVE  Published'
  <2>1. CASE auth # NoAuth
    <3>1. ASSUME NEW g \in 0 .. auth.gen, Latest(g) PROVE Latest(g)'
      <4>1. \A q \in Procs : Offers(job'[q]) => Offers(job[q]) /\ job'[q].draft = job[q].draft BY <1>28
      <4>2. \A q \in Procs : Arrives(job[q], auth, g) => Arrives(job'[q], auth, g) \/ Since(d, auth, g)
        BY <1>28 DEF Arrives
      <4>3. g \in Nat BY <1>4, <2>1
      <4>4. Since(d, auth, g) => Fresh(d, auth) BY <1>28, <2>1, <3>1
      <4> QED BY <1>3, <1>28, <2>1, <3>1, <4>1, <4>2, <4>3, <4>4, LatestArrives
    <3>2. auth'.gen \in Nat /\ auth'.gen >= auth.gen /\ auth' # NoAuth BY <1>4, <1>28, <2>1
    <3> QED BY <1>6, <2>1, <3>1, <3>2
  <2>2. CASE auth = NoAuth
    <3>1. d.epoch < Settled /\ d.epoch \in Nat /\ Settled \in Int
      BY <1>28, <2>2, Numbers, SettledType DEF Behind
    <3>2. sched.epoch # Settled BY <1>5, <1>28, <3>1 DEF isStaleScheduledAuth
    <3> QED BY <1>7, <1>28, <2>2, <3>2
  <2> QED BY <2>1, <2>2
<1>29. CASE Cancels(p)
  <2>1. /\ auth # NoAuth /\ auth \in Auth /\ upsertAuth(auth) /\ UNCHANGED <<auth, version, synced>>
        /\ job[p].at \in Outside
    BY <1>4, <1>29 DEF Cancels, SyncVars
  <2>2. ~isStaleScheduledAuth(auth) BY <1>3, <1>4, <1>5, <2>1 DEF isStaleScheduledAuth, Mirrors
  <2>3. /\ sched'.epoch = auth.epoch /\ sched'.gen = auth.gen
        /\ sched'.entry = IF auth.on THEN auth ELSE NoAuth
    BY <2>1, <2>2, UpsertIs DEF TypeOK
  <2>4. (\A q \in Procs : q # p => job'[q] = job[q]) /\ job'[p].at = "idle"
    BY <1>1, <1>29, TurnIs DEF Cancels, Idles
  <2>5. ~InSave(job[p]) /\ ~Offers(job'[p]) /\ ~Unpublishes(job[p]) /\ job[p].at # "publish"
    BY <2>1, <2>4 DEF Outside, InSave, Offers, Unpublishes
  <2>6. Behind(auth, auth, Settled) /\ Fresh(auth, auth) BY <2>1, BehindItself DEF Fresh
  <2> QED BY <1>28, <2>1, <2>2, <2>3, <2>4, <2>5, <2>6
(* The scheduler and the credential stay, and p is done with its copy. *)
<1>30. ASSUME UNCHANGED <<auth, version, synced>>, sched' = sched, ~InSave(job[p]), ~Offers(job'[p]),
              \A q \in Procs : q # p => job'[q] = job[q],
              \A g \in 0 .. auth.gen : auth # NoAuth /\ Arrives(job[p], auth, g) => Since(sched, auth, g),
              Unpublishes(job[p]) => job[p].seen # Settled
       PROVE  Published'
  <2>1. CASE auth = NoAuth BY <1>7, <1>30, <2>1
  <2>2. CASE auth # NoAuth
    <3>1. ASSUME NEW g \in 0 .. auth.gen, Latest(g) PROVE Latest(g)'
      <4>1. \A q \in Procs : Offers(job'[q]) => Offers(job[q]) /\ job'[q].draft = job[q].draft BY <1>30
      <4>2. Since(sched', auth, g) \/ \E q \in Procs : Arrives(job'[q], auth, g)
        BY <1>30, <2>2, <3>1 DEF Latest
      <4>3. \A q \in Procs : Offers(job'[q]) /\ Since(job'[q].draft, auth, g) => Fresh(job'[q].draft, auth)
        BY <3>1, <4>1 DEF Latest
      <4>4. /\ sched'.entry # NoAuth /\ Since(sched', auth, g) => Fresh(sched'.entry, auth)
            /\ sched'.entry = NoAuth /\ Since(sched', auth, g) /\ auth.on => version' # synced'
        BY <1>30, <3>1 DEF Latest
      <4> QED BY <1>30, <4>2, <4>3, <4>4 DEF Latest
    <3>2. auth'.gen \in Nat /\ auth'.gen >= auth.gen /\ auth' # NoAuth BY <1>4, <1>30, <2>2
    <3> QED BY <1>6, <2>2, <3>1, <3>2
  <2> QED BY <2>1, <2>2
<1>31. CASE Publishes(p)
  <2>1. /\ \A q \in Procs : q # p => job'[q] = job[q]
        /\ ~Offers(job'[p]) /\ ~Unpublishes(job'[p])
    <3>1. (\A q \in Procs : q # p => job'[q] = job[q]) /\ job'[p].at \in {"idle", "bump"}
      BY <1>1, <1>31, TurnIs DEF Publishes, Idles
    <3> QED BY <3>1 DEF Offers, Unpublishes, InSave
  <2>2. job[p].at = "publish" /\ UNCHANGED <<auth, version, synced>> /\ ~InSave(job[p])
    BY <1>31 DEF Publishes, SyncVars, InSave
  <2>3. CASE job[p].kind # "remove"
    <3>1. upsertAuth(job[p].draft) /\ Offers(job[p]) /\ ~Unpublishes(job[p])
      BY <1>1, <1>31, <2>2, <2>3 DEF Publishes, JobType, Carries, Offers, Unpublishes
    <3>2. job[p].draft \in Auth /\ Behind(job[p].draft, auth, Settled) BY <1>5, <3>1
    <3>3. CASE ~isStaleScheduledAuth(job[p].draft)
      <4>1. /\ sched'.epoch = job[p].draft.epoch /\ sched'.gen = job[p].draft.gen
            /\ sched'.entry = IF job[p].draft.on THEN job[p].draft ELSE NoAuth
        BY <3>1, <3>2, <3>3, UpsertIs DEF TypeOK
      <4>2. \A g \in 0 .. auth.gen : auth # NoAuth /\ Latest(g) /\ Since(job[p].draft, auth, g) =>
                Fresh(job[p].draft, auth)
        BY <3>1 DEF Latest
      <4> QED BY <1>28, <2>1, <2>2, <3>1, <3>2, <3>3, <4>1, <4>2
    <3>4. CASE isStaleScheduledAuth(job[p].draft)
      <4>1. sched' = sched BY <3>1, <3>2, <3>4, UpsertIs DEF TypeOK
      <4>2. \A g \in 0 .. auth.gen : auth # NoAuth /\ Arrives(job[p], auth, g) => Since(sched, auth, g)
        <5>1. ASSUME NEW g \in 0 .. auth.gen, auth # NoAuth, Arrives(job[p], auth, g)
              PROVE  Since(sched, auth, g)
          <6>1. Since(job[p].draft, auth, g) BY <2>2, <5>1 DEF Arrives
          <6>2. job[p].draft.epoch \in Nat /\ job[p].draft.gen \in Nat BY <3>2, Numbers
          <6>3. sched.epoch <= auth.epoch BY <1>3, <1>4, <5>1 DEF Mirrors
          <6> QED BY <1>4, <1>5, <3>4, <5>1, <6>1, <6>2, <6>3 DEF isStaleScheduledAuth, Since
        <5> QED BY <5>1
      <4> QED BY <1>30, <2>1, <2>2, <3>1, <4>1, <4>2
    <3> QED BY <3>3, <3>4
  <2>4. CASE job[p].kind = "remove"
    <3>1. Unpublishes(job[p]) /\ job[p].seen \in Nat BY <2>2, <2>4, Fields DEF Unpublishes
    <3>2. RecordRemovalTombstone(job[p].seen) BY <1>31, <2>4 DEF Publishes
    <3>3. /\ job[p].draft = NoAuth /\ job[p].seen <= Settled
          /\ auth # NoAuth => job[p].seen < Settled
      BY <1>3, <3>1 DEF Copies
    <3>4. /\ job[p].seen < sched.epoch => sched' = sched
          /\ ~(job[p].seen < sched.epoch) =>
                sched'.epoch = job[p].seen /\ sched'.gen = 0 /\ sched'.entry = NoAuth
      BY <3>1, <3>2, TombstoneIs DEF TypeOK
    <3>5. sched.epoch <= Settled /\ Settled \in Int BY <1>3, SettledType DEF Mirrors
    <3>6. \A g \in 0 .. auth.gen : ~Arrives(job[p], auth, g) BY <2>2, <3>3 DEF Arrives
    <3>7. CASE job[p].seen < sched.epoch
      <4>1. sched' = sched /\ job[p].seen # Settled BY <1>5, <3>1, <3>4, <3>5, <3>7
      <4> QED BY <1>30, <2>1, <2>2, <3>6, <4>1
    <3>8. CASE ~(job[p].seen < sched.epoch) /\ auth = NoAuth
      <4>1. sched.epoch = Settled => job[p].seen = Settled BY <1>5, <3>1, <3>3, <3>5, <3>8
      <4> QED BY <1>7, <2>1, <2>2, <3>4, <3>8, <4>1
    <3>9. CASE ~(job[p].seen < sched.epoch) /\ auth # NoAuth
      <4>1. sched.epoch # auth.epoch /\ sched'.epoch # auth.epoch
        BY <1>4, <1>5, <3>1, <3>3, <3>4, <3>9
      <4>2. ASSUME NEW g \in 0 .. auth.gen, Latest(g) PROVE Latest(g)'
        <5>1. ~Since(sched, auth, g) /\ ~Since(sched', auth, g) BY <4>1 DEF Since
        <5>2. \A q \in Procs : Offers(job'[q]) => Offers(job[q]) /\ job'[q].draft = job[q].draft BY <2>1
        <5>3. \E q \in Procs : Arrives(job'[q], auth, g) BY <2>1, <3>6, <4>2, <5>1 DEF Latest
        <5>4. \A q \in Procs : Offers(job'[q]) /\ Since(job'[q].draft, auth, g) => Fresh(job'[q].draft, auth)
          BY <4>2, <5>2 DEF Latest
        <5> QED BY <2>2, <5>1, <5>3, <5>4 DEF Latest
      <4>3. auth'.gen \in Nat /\ auth'.gen >= auth.gen /\ auth' # NoAuth BY <1>4, <2>2, <3>9
      <4> QED BY <1>6, <3>9, <4>2, <4>3
    <3> QED BY <3>7, <3>8, <3>9
  <2> QED BY <2>3, <2>4
<1>32. CASE Restores(p)
  <2>1. (\A q \in Procs : q # p => job'[q] = job[q]) /\ job'[p].at = "verify"
    BY <1>1, <1>32, TurnIs DEF Restores
  <2>2. /\ job[p].at = "rebuild" /\ UNCHANGED <<auth, version, synced>>
        /\ ~InSave(job[p]) /\ ~Unpublishes(job[p]) /\ ~Offers(job'[p])
        /\ \A g \in 0 .. auth.gen : ~Arrives(job[p], auth, g)
    BY <1>32, <2>1 DEF Restores, SyncVars, InSave, Unpublishes, Offers, Arrives
  <2>3. job[p].draft \in AuthOrNone /\ rebuild(job[p].draft) BY <1>32, Fields DEF Restores
  <2>4. CASE sched' = sched BY <1>30, <2>1, <2>2, <2>4
  <2>5. CASE /\ job[p].draft \in Auth /\ job[p].draft.on /\ ~isStaleScheduledAuth(job[p].draft)
             /\ sched'.epoch = job[p].draft.epoch /\ sched'.gen = job[p].draft.gen
             /\ sched'.entry = job[p].draft
    <3>1. Offers(job[p]) BY <2>2, <2>5, ConstantsAssumption DEF Offers
    <3>2. \A g \in 0 .. auth.gen : auth # NoAuth /\ Latest(g) /\ Since(job[p].draft, auth, g) =>
              Fresh(job[p].draft, auth)
      BY <3>1 DEF Latest
    <3> QED BY <1>5, <1>28, <2>1, <2>2, <2>5, <3>1, <3>2
  <2>6. CASE sched'.epoch = sched.epoch /\ sched'.gen = sched.gen /\ sched'.entry = NoAuth
    <3>1. CASE auth = NoAuth BY <1>7, <2>1, <2>2, <2>6, <3>1
    <3>2. CASE auth # NoAuth
      <4>1. synced < version BY <2>2 DEF Syncing, Rebuilds
      <4>2. ASSUME NEW g \in 0 .. auth.gen, Latest(g) PROVE Latest(g)'
        <5>1. Since(sched', auth, g) <=> Since(sched, auth, g) BY <2>6 DEF Since
        <5>2. \A q \in Procs : Offers(job'[q]) => Offers(job[q]) /\ job'[q].draft = job[q].draft BY <2>1, <2>2
        <5>3. Since(sched', auth, g) \/ \E q \in Procs : Arrives(job'[q], auth, g)
          BY <2>1, <2>2, <4>2, <5>1 DEF Latest
        <5>4. \A q \in Procs : Offers(job'[q]) /\ Since(job'[q].draft, auth, g) => Fresh(job'[q].draft, auth)
          BY <4>2, <5>2 DEF Latest
        <5>5. version' # synced' BY <1>1, <2>2, <4>1
        <5> QED BY <2>2, <2>6, <5>3, <5>4, <5>5 DEF Latest
      <4>3. auth'.gen \in Nat /\ auth'.gen >= auth.gen /\ auth' # NoAuth BY <1>4, <2>2, <3>2
      <4> QED BY <1>6, <3>2, <4>2, <4>3
    <3> QED BY <3>1, <3>2
  <2> QED BY <2>3, <2>4, <2>5, <2>6, RebuildIs DEF TypeOK
<1> QED BY <1>12, <1>13, <1>14, <1>15, <1>16, <1>17, <1>18, <1>19, <1>20, <1>21, <1>22, <1>23, <1>25,
           <1>26, <1>27, <1>29, <1>31, <1>32 DEF Events


-----------------------------------------------------------------------------
(* The scheduler agrees with the manager. *)
SchedulerInv == CopiesInv /\ Syncing /\ Published

(* Load publishes the credential as it is. *)
LEMMA SchedulerInit == Init => SchedulerInv
<1> SUFFICES ASSUME Init PROVE SchedulerInv OBVIOUS
<1>1. CopiesInv BY CopiesInit
<1>2. \A p \in Procs : job[p].at = "idle" /\ job[p].draft = NoAuth BY DEF Init, Idle
<1>3. Syncing BY <1>2, ConstantsAssumption DEF Init, Syncing, Rebuilds
<1>4. auth = Loaded /\ auth # NoAuth
  <2>1. Loaded \in Auth BY DEF Loaded, Auth
  <2> QED BY <2>1, ConstantsAssumption DEF Init
<1>5. sched.epoch = 1 /\ sched.gen = 1 /\ sched.entry = Loaded BY DEF Init, Scheduled, Loaded
<1>6. Loaded.epoch = 1 /\ Loaded.gen = 1 BY DEF Loaded
<1>7. Since(sched, auth, 1) /\ Fresh(sched.entry, auth) BY <1>4, <1>5, <1>6 DEF Since, Fresh
<1>8. \A p \in Procs : ~Offers(job[p]) BY <1>2 DEF Offers
<1>9. Latest(1) BY <1>4, <1>5, <1>7, <1>8 DEF Latest
<1>10. 1 \in 0 .. auth.gen BY <1>4, <1>6
<1>11. Published BY <1>4, <1>9, <1>10 DEF Published
<1> QED BY <1>1, <1>3, <1>11 DEF SchedulerInv

(* Every step keeps the newest copy in the scheduler or on its way there. *)
LEMMA SchedulerStep == ASSUME SchedulerInv, [Next]_vars PROVE SchedulerInv'
<1>1. CopiesInv /\ Syncing /\ Published BY DEF SchedulerInv
<1>2. TypeOK /\ Control /\ Registered /\ Snapshots BY <1>1 DEF CopiesInv
<1>3. CopiesInv' BY <1>1, CopiesStep
<1>4. TypeOK' /\ Registered' BY <1>3 DEF CopiesInv
<1>5. CASE Next
  <2>1. EditFile \/ Touch \/ \E p \in Procs : Events(p) BY <1>2, <1>5, StepEvents
  <2>2. Syncing' BY <1>1, <1>2, <2>1, SyncingStep
  <2>3. Published' BY <1>1, <1>2, <1>4, <2>1, PublishedStep
  <2> QED BY <1>3, <2>2, <2>3 DEF SchedulerInv
<1>6. CASE UNCHANGED vars
  <2>1. Syncing' BY <1>1, <1>6 DEF vars, lockVars, schedVars, Syncing, Rebuilds
  <2>2. UNCHANGED <<auth, authEpochs, gate, sched, version, synced, job>>
    BY <1>6 DEF vars, lockVars, schedVars
  <2>3. \A g \in 0 .. auth.gen : Latest(g) => Latest(g)'
    BY <2>2 DEF Latest, Offers, Since, Fresh, Arrives, InSave
  <2>4. Settled' = Settled BY <2>2 DEF Settled, InSave, IsNew
  <2>5. Published' BY <1>1, <2>2, <2>3, <2>4 DEF Published, Unpublishes
  <2> QED BY <1>3, <2>1, <2>5 DEF SchedulerInv
<1> QED BY <1>5, <1>6

(* The invariant of the scheduler holds throughout. *)
LEMMA SchedulerHolds == Spec => []SchedulerInv
<1>1. Init => SchedulerInv BY SchedulerInit
<1>2. SchedulerInv /\ [Next]_vars => SchedulerInv' BY SchedulerStep
<1> QED BY <1>1, <1>2, PTL DEF Spec

(* Publications arrive in any order, and a rebuild works from an older       *)
(* snapshot; once all have arrived, upsertAuth's order and the versions have *)
(* left the scheduler with the credential the manager has, or with the       *)
(* knowledge that it must be rebuilt.                                        *)
THEOREM SchedulerCorrect == Spec => []SchedulerAgrees
<1>1. SchedulerInv => SchedulerAgrees
  <2> SUFFICES ASSUME SchedulerInv, AtRest PROVE Agrees \/ (needsSync /\ version # synced)
    BY DEF SchedulerAgrees
  <2>1. Mirrors(sched, auth, Settled) /\ Published BY DEF SchedulerInv, CopiesInv, Snapshots
  <2>2. \A p \in Procs : ~InSave(job[p]) /\ ~Unpublishes(job[p]) /\ job[p].at # "publish"
    BY DEF AtRest, Saving, At, InSave, Unpublishes
  <2>3. CASE auth = NoAuth
    <3>1. sched.entry = NoAuth BY <2>1, <2>2, <2>3 DEF Published
    <3> QED BY <2>3, <3>1 DEF Agrees
  <2>4. CASE auth # NoAuth
    <3>1. PICK g \in 0 .. auth.gen : Latest(g) BY <2>1, <2>4 DEF Published
    <3>2. Since(sched, auth, g) BY <2>2, <3>1 DEF Latest, Arrives
    <3>3. CASE sched.entry # NoAuth
      <4>1. Fresh(sched.entry, auth) BY <3>1, <3>2, <3>3 DEF Latest
      <4>2. sched.entry.on /\ sched.entry.epoch = auth.epoch BY <2>1, <3>2, <3>3 DEF Mirrors, Since
      <4> QED BY <2>4, <3>3, <4>1, <4>2 DEF Agrees, Fresh
    <3>4. CASE sched.entry = NoAuth /\ auth.on
      <4>1. version # synced BY <3>1, <3>2, <3>4 DEF Latest
      <4> QED BY <2>4, <3>4, <4>1 DEF needsSync
    <3>5. CASE sched.entry = NoAuth /\ ~auth.on BY <3>5 DEF Agrees
    <3> QED BY <3>3, <3>4, <3>5
  <2> QED BY <2>3, <2>4
<1> QED BY <1>1, SchedulerHolds, PTL
=============================================================================
