---------------------------- MODULE MetadataSave ----------------------------
(***************************************************************************)
(* Background saves of one metadata entry and the foreground mutations     *)
(* that preempt them (sdk/cliproxy/auth/conductor_persistence.go, and the  *)
(* queue of sdk/cliproxy/antigravity_model_probes.go that feeds them).     *)
(* Each credential has one runner that saves the latest model hints found  *)
(* for it.  A runner passes the credential's mutation gate, the global     *)
(* save gate and a last check of foreground activity before it may write   *)
(* to the store; a mutation announces itself at each of the two levels,    *)
(* cancels the runner it finds there and waits.  An action is one section  *)
(* under state.mu, gState.mu, m.mu or antigravityProbeMu, or one channel   *)
(* operation.  Whole-store reloads happen before the service starts and    *)
(* leave authLoadGate uncontended.                                         *)
(***************************************************************************)
EXTENDS Naturals, FiniteSets

CONSTANTS Cred,         \* credentials, each with its runner
          Fg,           \* foreground mutations
          CredOf,       \* mutation -> its credential
          MaxRev,       \* bound on the hints found for a credential
          None

ASSUME SaveAssumption ==
    /\ CredOf \in [Fg -> Cred]
    /\ MaxRev \in Nat
    /\ None \notin Cred \cup Fg
    /\ Cred \cap Fg = {}

VARIABLES
    fg,         \* mutation -> [pc, copy, await]: the cancel functions it has
                \* read and not yet called, the save it waits for
    bg,         \* credential -> [pc, rev, stopped, preempted, outcome]: its
                \* runner, the request in hand, and what became of it
    pending,    \* antigravityPersistPending: the request waiting, 0 for none
    found,      \* hints that a probe has cached but not queued yet
    rev,        \* revision of the cached hints (antigravityCapabilityCache)
    recorded,   \* persistedRevision
    meta,       \* revision in the runtime credential's metadata, 0 for none
    stored,     \* revision in the store
    gate,       \* credential's mutation gate: its holder
    waiters,    \* metadataPersistPreemptState.waiters
    hook,       \* credentials whose state.cancel is set
    saveGate,   \* holder of the global save gate
    fgActive,   \* gState.fgActive
    saving,     \* gState.done and gState.cancel: the runner admitted to save
    store       \* how the store behaves: it answers every save, it may fail by
                \* itself, or it keeps a background save until it is cancelled

vars == <<fg, bg, pending, found, rev, recorded, meta, stored, gate, waiters,
          hook, saveGate, fgActive, saving, store>>
fgVars == <<gate, waiters, hook, saveGate, fgActive, saving>>
hints == <<pending, found, rev, recorded>>
data == <<meta, stored, store>>

Init ==
    /\ fg = [f \in Fg |-> [pc |-> "idle", copy |-> {}, await |-> None]]
    /\ bg = [c \in Cred |-> [pc |-> "off", rev |-> 0, stopped |-> FALSE,
                             preempted |-> FALSE, outcome |-> "none"]]
    /\ pending = [c \in Cred |-> 0] /\ found = [c \in Cred |-> {}]
    /\ rev = [c \in Cred |-> 0] /\ recorded = [c \in Cred |-> 0]
    /\ meta = [c \in Cred |-> 0] /\ stored = [c \in Cred |-> 0]
    /\ gate = [c \in Cred |-> None] /\ waiters = [c \in Cred |-> {}]
    /\ hook = {} /\ saveGate = None /\ fgActive = {} /\ saving = None
    /\ store \in {"answers", "fails", "hangs"}

FgGo(f, pc) == fg' = [fg EXCEPT ![f].pc = pc]
BgGo(c, pc) == bg' = [bg EXCEPT ![c].pc = pc]

(* Calling the cancel functions in S reaches runs that are still on. *)
Preempt(S) == bg' = [c \in Cred |-> IF c \in S
                                    THEN [bg[c] EXCEPT !.preempted = TRUE]
                                    ELSE bg[c]]

-----------------------------------------------------------------------------
(* Foreground mutations *)

(* lockAuthMutationWithPersistCancel: announce, and read the cancel hook. *)
FgAnnounce(f) ==
    LET c == CredOf[f]
    IN  /\ fg[f].pc = "idle"
        /\ waiters' = [waiters EXCEPT ![c] = @ \cup {f}]
        /\ fg' = [fg EXCEPT ![f].pc = "cancel", ![f].copy = hook \cap {c}]
        /\ UNCHANGED <<bg, hints, data, gate, hook, saveGate, fgActive, saving>>

FgCancel(f) ==
    /\ fg[f].pc \in {"cancel", "cancelSave"}
    /\ Preempt(fg[f].copy)
    /\ fg' = [fg EXCEPT ![f].copy = {},
                        ![f].pc = IF @ = "cancel" THEN "gate" ELSE "await"]
    /\ UNCHANGED <<hints, data, fgVars>>

FgGate(f) ==
    /\ fg[f].pc = "gate" /\ gate[CredOf[f]] = None
    /\ gate' = [gate EXCEPT ![CredOf[f]] = f]
    /\ FgGo(f, "held")
    /\ UNCHANGED <<bg, hints, data, waiters, hook, saveGate, fgActive, saving>>

Withdraw(f) == waiters' = [waiters EXCEPT ![CredOf[f]] = @ \ {f}]

(* The caller's context ends while the mutation waits for the gate. *)
FgGiveUp(f) ==
    /\ fg[f].pc = "gate"
    /\ Withdraw(f)
    /\ FgGo(f, "done")
    /\ UNCHANGED <<bg, hints, data, gate, hook, saveGate, fgActive, saving>>

(* The deferred decrement; the mutation may have nothing to save. *)
FgHeld(f) ==
    /\ fg[f].pc = "held"
    /\ Withdraw(f)
    /\ \E pc \in {"begin", "unlock"} : FgGo(f, pc)
    /\ UNCHANGED <<bg, hints, data, gate, hook, saveGate, fgActive, saving>>

(* Mutant: the mutation enters itself as the save under way. *)
FgBeginAsSaver(f) ==
    /\ fg[f].pc = "begin"
    /\ fgActive' = fgActive \cup {f} /\ saving' = f
    /\ FgGo(f, "await")
    /\ UNCHANGED <<bg, hints, data, gate, waiters, hook, saveGate>>

(* beginForegroundStoreSave *)
FgBegin(f) ==
    /\ fg[f].pc = "begin"
    /\ fgActive' = fgActive \cup {f}
    /\ fg' = [fg EXCEPT ![f] = [pc |-> "cancelSave", await |-> saving,
                                copy |-> {saving} \ {None}]]
    /\ UNCHANGED <<bg, hints, data, gate, waiters, hook, saveGate, saving>>

(* Mutant: the mutation saves without waiting for the runner it cancelled. *)
FgUnawaited(f) ==
    /\ fg[f].pc = "await"
    /\ FgGo(f, "save")
    /\ UNCHANGED <<bg, hints, data, fgVars>>

FgAwaited(f) ==
    /\ fg[f].pc = "await" /\ fg[f].await = None
    /\ FgGo(f, "save")
    /\ UNCHANGED <<bg, hints, data, fgVars>>

FgGiveUpSave(f) ==
    /\ fg[f].pc = "await"
    /\ fgActive' = fgActive \ {f}
    /\ fg' = [fg EXCEPT ![f].pc = "unlock", ![f].await = None]
    /\ UNCHANGED <<bg, hints, data, gate, waiters, hook, saveGate, saving>>

(* store.Save of the runtime credential, its metadata entry included. *)
FgSave(f) ==
    /\ fg[f].pc = "save"
    /\ \/ stored' = [stored EXCEPT ![CredOf[f]] = meta[CredOf[f]]]
       \/ store = "fails" /\ UNCHANGED stored
    /\ FgGo(f, "saved")
    /\ UNCHANGED <<bg, hints, meta, store, fgVars>>

FgEndSave(f) ==
    /\ fg[f].pc = "saved"
    /\ fgActive' = fgActive \ {f}
    /\ FgGo(f, "unlock")
    /\ UNCHANGED <<bg, hints, data, gate, waiters, hook, saveGate, saving>>

FgUnlock(f) ==
    /\ fg[f].pc = "unlock"
    /\ gate' = [gate EXCEPT ![CredOf[f]] = None]
    /\ FgGo(f, "done")
    /\ UNCHANGED <<bg, hints, data, waiters, hook, saveGate, fgActive, saving>>

-----------------------------------------------------------------------------
(* Hints and their queue *)

Stale(c, r) == rev[c] # r \/ recorded[c] >= r

(* A probe caches new hints and will queue them. *)
NewHints(c) ==
    /\ rev[c] < MaxRev
    /\ rev' = [rev EXCEPT ![c] = @ + 1]
    /\ found' = [found EXCEPT ![c] = @ \cup {rev[c] + 1}]
    /\ UNCHANGED <<fg, bg, pending, recorded, data, fgVars>>

(* Mutant: the check that was made before the lock is all there is. *)
EnqueueLast(c, r) ==
    /\ pending' = [pending EXCEPT ![c] = r]
    /\ bg' = [bg EXCEPT ![c].stopped = @ \/ (bg[c].pc # "off" /\ bg[c].rev # r),
                        ![c].pc = IF @ = "off" THEN "take" ELSE @]

(* queueAntigravityHintPersistence, under antigravityProbeMu: the newest    *)
(* request waits, an older one being saved is cancelled, a runner is        *)
(* started if there is none.                                                *)
Enqueue(c, r) ==
    IF pending[c] > r THEN UNCHANGED <<pending, bg>>
    ELSE /\ pending' = [pending EXCEPT ![c] = r]
         /\ bg' = [bg EXCEPT
                ![c].stopped = @ \/ (bg[c].pc # "off" /\ bg[c].rev < r),
                ![c].pc = IF @ = "off" THEN "take" ELSE @]

(* The request is checked before the lock, so a stale one may get through. *)
Queue(c) ==
    /\ \E r \in found[c] :
           /\ found' = [found EXCEPT ![c] = @ \ {r}]
           /\ \/ Enqueue(c, r)
              \/ Stale(c, r) /\ UNCHANGED <<pending, bg>>
    /\ UNCHANGED <<fg, rev, recorded, data, fgVars>>

(* runAntigravityHintPersistence: the runner ends when nothing is pending.  *)
RunTake(c) ==
    /\ bg[c].pc = "take"
    /\ bg' = [bg EXCEPT ![c] =
                 [pc |-> IF pending[c] = 0 THEN "off" ELSE "start",
                  rev |-> pending[c], stopped |-> FALSE,
                  preempted |-> FALSE, outcome |-> "none"]]
    /\ pending' = [pending EXCEPT ![c] = 0]
    /\ UNCHANGED <<fg, found, rev, recorded, data, fgVars>>

-----------------------------------------------------------------------------
(* PersistMetadataEntry *)

Cancelled(c) == bg[c].stopped \/ bg[c].preempted

(* The first check, before the runner waits for the credential's gate. *)
BgStart(c) ==
    /\ bg[c].pc = "start"
    /\ BgGo(c, IF Cancelled(c) \/ Stale(c, bg[c].rev) THEN "return" ELSE "lock")
    /\ UNCHANGED <<fg, hints, data, fgVars>>

BgGate(c) ==
    /\ bg[c].pc = "lock" /\ gate[c] = None /\ ~Cancelled(c)
    /\ gate' = [gate EXCEPT ![c] = c]
    /\ BgGo(c, "register")
    /\ UNCHANGED <<fg, hints, data, waiters, hook, saveGate, fgActive, saving>>

BgRefused(c) ==
    /\ bg[c].pc = "lock" /\ Cancelled(c)
    /\ BgGo(c, "return")
    /\ UNCHANGED <<fg, hints, data, fgVars>>

(* Mutant: the runner does not look for mutations announced before it. *)
BgRegisterBlindly(c) ==
    /\ bg[c].pc = "register"
    /\ hook' = hook \cup {c}
    /\ BgGo(c, "saveGate")
    /\ UNCHANGED <<fg, hints, data, gate, waiters, saveGate, fgActive, saving>>

(* The runner yields to a mutation that waits, or sets the cancel hook. *)
BgRegister(c) ==
    /\ bg[c].pc = "register"
    /\ IF waiters[c] # {}
       THEN /\ bg' = [bg EXCEPT ![c].pc = "saveGate", ![c].preempted = TRUE]
            /\ UNCHANGED hook
       ELSE hook' = hook \cup {c} /\ BgGo(c, "saveGate")
    /\ UNCHANGED <<fg, hints, data, gate, waiters, saveGate, fgActive, saving>>

(* acquireMetadataSaveGate *)
BgSaveGate(c) ==
    /\ bg[c].pc = "saveGate"
    /\ IF Cancelled(c) THEN BgGo(c, "unhook") /\ UNCHANGED saveGate
       ELSE saveGate = None /\ saveGate' = c /\ BgGo(c, "enter")
    /\ UNCHANGED <<fg, hints, data, gate, waiters, hook, fgActive, saving>>

(* With the gate, it waits for the mutations that are saving to end. *)
BgEnter(c) ==
    /\ bg[c].pc = "enter"
    /\ IF Cancelled(c)
       THEN saveGate' = None /\ BgGo(c, "unhook") /\ UNCHANGED saving
       ELSE /\ fgActive = {} /\ saving' = c /\ BgGo(c, "check")
            /\ UNCHANGED saveGate
    /\ UNCHANGED <<fg, hints, data, gate, waiters, hook, fgActive>>

BgCheck(c) ==
    /\ bg[c].pc = "check"
    /\ BgGo(c, IF Stale(c, bg[c].rev) \/ bg[c].preempted
               THEN "leave" ELSE "save")
    /\ UNCHANGED <<fg, hints, data, fgVars>>

BgSaveOk(c) ==
    /\ bg[c].pc = "save"
    /\ stored' = [stored EXCEPT ![c] = bg[c].rev]
    /\ BgGo(c, "commit")
    /\ UNCHANGED <<fg, hints, meta, store, fgVars>>

(* A cancelled save fails, before or after it has reached the store. *)
BgSaveFails(c) ==
    /\ bg[c].pc = "save" /\ (Cancelled(c) \/ store = "fails")
    /\ \E r \in {stored[c], bg[c].rev} : stored' = [stored EXCEPT ![c] = r]
    /\ BgGo(c, "leave")
    /\ UNCHANGED <<fg, hints, meta, store, fgVars>>

(* Mutant: the saved entry is not put into the runtime credential. *)
BgCommitStoreOnly(c) ==
    /\ bg[c].pc = "commit"
    /\ bg' = [bg EXCEPT ![c].pc = "leave", ![c].outcome = "persisted"]
    /\ UNCHANGED <<fg, hints, data, fgVars>>

(* The entry is published if it is still wanted, and dropped otherwise. *)
BgCommit(c) ==
    /\ bg[c].pc = "commit"
    /\ IF Stale(c, bg[c].rev)
       THEN meta' = [meta EXCEPT ![c] = 0] /\ BgGo(c, "leave")
       ELSE /\ meta' = [meta EXCEPT ![c] = bg[c].rev]
            /\ bg' = [bg EXCEPT ![c].pc = "leave", ![c].outcome = "persisted"]
    /\ UNCHANGED <<fg, hints, stored, store, fgVars>>

(* releaseSaveGate: gState is cleared, then done is closed. *)
BgLeave(c) ==
    /\ bg[c].pc = "leave"
    /\ saving' = None
    /\ BgGo(c, "close")
    /\ UNCHANGED <<fg, hints, data, gate, waiters, hook, saveGate, fgActive>>

BgClose(c) ==
    /\ bg[c].pc = "close"
    /\ fg' = [f \in Fg |-> [fg[f] EXCEPT !.await = IF @ = c THEN None ELSE @]]
    /\ saveGate' = None
    /\ BgGo(c, "unhook")
    /\ UNCHANGED <<hints, data, gate, waiters, hook, fgActive, saving>>

(* releaseMutation: the hook is cleared, then the gate is released. *)
BgUnhook(c) ==
    /\ bg[c].pc = "unhook"
    /\ hook' = hook \ {c}
    /\ BgGo(c, "unlock")
    /\ UNCHANGED <<fg, hints, data, gate, waiters, saveGate, fgActive, saving>>

(* Cancel functions of this run have no effect once it has returned. *)
BgUnlock(c) ==
    /\ bg[c].pc = "unlock"
    /\ gate' = [gate EXCEPT ![c] = None]
    /\ fg' = [f \in Fg |-> [fg[f] EXCEPT !.copy = @ \ {c}]]
    /\ BgGo(c, "return")
    /\ UNCHANGED <<hints, data, waiters, hook, saveGate, fgActive, saving>>

(* A success is recorded; a save that was preempted, but not stopped, is    *)
(* to be queued again unless newer hints are cached.                        *)
BgReturn(c) ==
    LET r == bg[c].rev
    IN  /\ bg[c].pc = "return"
        /\ recorded' = IF bg[c].outcome = "persisted" /\ ~Stale(c, r)
                       THEN [recorded EXCEPT ![c] = r] ELSE recorded
        /\ BgGo(c, IF /\ bg[c].outcome # "persisted" /\ bg[c].preempted
                      /\ ~bg[c].stopped /\ ~Stale(c, r)
                   THEN "requeue" ELSE "take")
        /\ UNCHANGED <<fg, pending, found, rev, data, fgVars>>

BgRequeue(c) ==
    /\ bg[c].pc = "requeue"
    /\ pending' = IF pending[c] > bg[c].rev THEN pending
                  ELSE [pending EXCEPT ![c] = bg[c].rev]
    /\ BgGo(c, "take")
    /\ UNCHANGED <<fg, found, rev, recorded, data, fgVars>>

-----------------------------------------------------------------------------
FgNext(f) ==
    \/ FgAnnounce(f) \/ FgCancel(f) \/ FgGate(f) \/ FgGiveUp(f) \/ FgHeld(f)
    \/ FgBegin(f) \/ FgAwaited(f) \/ FgGiveUpSave(f) \/ FgSave(f)
    \/ FgEndSave(f) \/ FgUnlock(f)

BgNext(c) ==
    \/ RunTake(c) \/ BgStart(c) \/ BgGate(c) \/ BgRefused(c)
    \/ BgRegister(c) \/ BgSaveGate(c) \/ BgEnter(c) \/ BgCheck(c) \/ BgSaveOk(c)
    \/ BgSaveFails(c) \/ BgCommit(c) \/ BgLeave(c) \/ BgClose(c)
    \/ BgUnhook(c) \/ BgUnlock(c) \/ BgReturn(c) \/ BgRequeue(c)

Next ==
    \/ \E f \in Fg : FgNext(f)
    \/ \E c \in Cred : BgNext(c) \/ NewHints(c) \/ Queue(c)

Spec == Init /\ [][Next]_vars

(* What the runner does when it is scheduled, the store left aside. *)
BgRuns(c) ==
    \/ RunTake(c) \/ BgStart(c) \/ BgGate(c) \/ BgRefused(c)
    \/ BgRegister(c) \/ BgSaveGate(c) \/ BgEnter(c) \/ BgCheck(c) \/ BgCommit(c) \/ BgLeave(c)
    \/ BgClose(c) \/ BgUnhook(c) \/ BgUnlock(c) \/ BgReturn(c) \/ BgRequeue(c)

(* Goroutines run.  A channel hands its slot to the sender that waits       *)
(* longest, so a mutation at the gate is served though its runner may come  *)
(* back before it again and again.                                          *)
Scheduling ==
    /\ \A f \in Fg :
           /\ WF_vars(FgCancel(f) \/ FgHeld(f) \/ FgBegin(f) \/ FgAwaited(f)
                      \/ FgSave(f) \/ FgEndSave(f) \/ FgUnlock(f))
           /\ SF_vars(FgGate(f))
    /\ \A c \in Cred : WF_vars(BgRuns(c)) /\ WF_vars(Queue(c))

(* A save that is cancelled returns; one that is not returns unless the     *)
(* store hangs.                                                             *)
Fairness ==
    /\ Scheduling
    /\ \A c \in Cred :
           /\ WF_vars(BgSaveFails(c))
           /\ WF_vars(store # "hangs" /\ BgSaveOk(c))

FairSpec == Spec /\ Fairness

-----------------------------------------------------------------------------
FgPc == {"idle", "cancel", "gate", "held", "begin", "cancelSave", "await",
         "save", "saved", "unlock", "done"}
BgPc == {"off", "take", "start", "lock", "register", "saveGate", "enter",
         "check", "save", "commit", "leave", "close", "unhook", "unlock",
         "return", "requeue"}

Mutation == [pc : FgPc, copy : SUBSET Cred, await : Cred \cup {None}]
Runner == [pc : BgPc, rev : 0 .. MaxRev, stopped : BOOLEAN,
           preempted : BOOLEAN, outcome : {"none", "persisted"}]

ThreadType == fg \in [Fg -> Mutation] /\ bg \in [Cred -> Runner]
HintType ==
    /\ pending \in [Cred -> 0 .. MaxRev] /\ found \in [Cred -> SUBSET (1 .. MaxRev)]
    /\ rev \in [Cred -> 0 .. MaxRev] /\ recorded \in [Cred -> 0 .. MaxRev]
DataType ==
    /\ meta \in [Cred -> 0 .. MaxRev] /\ stored \in [Cred -> 0 .. MaxRev]
    /\ store \in {"answers", "fails", "hangs"}
GateType ==
    /\ gate \in [Cred -> Cred \cup Fg \cup {None}]
    /\ waiters \in [Cred -> SUBSET Fg]
    /\ hook \subseteq Cred /\ fgActive \subseteq Fg
    /\ saveGate \in Cred \cup {None} /\ saving \in Cred \cup {None}

(* The variables hold what their types say. *)
TypeOK == ThreadType /\ HintType /\ DataType /\ GateType

(* No background save is in the store while a mutation saves, whatever      *)
(* credential either is for: the runner it cancelled has left, and none is  *)
(* admitted before the mutation has ended.                                  *)
SavesExclude ==
    \A f \in Fg, c \in Cred : ~(fg[f].pc = "save" /\ bg[c].pc = "save")

(* A preemption is never lost: a mutation that waits behind a runner, at    *)
(* the gate of its credential or for its save to end, waits for one that   *)
(* has been cancelled.                                                      *)
NotLost ==
    \A f \in Fg, c \in Cred :
        /\ (/\ fg[f].pc = "gate" /\ c = CredOf[f] /\ gate[c] = c
            /\ bg[c].pc \in {"saveGate", "enter", "check", "save", "commit"})
           => Cancelled(c)
        /\ (/\ fg[f].pc = "await" /\ fg[f].await = c
            /\ bg[c].pc \in {"check", "save", "commit"})
           => Cancelled(c)

(* The gates hold: the types, and what the two levels of gates and cancel   *)
(* functions of conductor_persistence.go promise about saves.               *)
GatesHold == TypeOK /\ SavesExclude /\ NotLost

(* Hints that are recorded as persisted, and so will not be saved again,    *)
(* are in the store and stay there: a later save of the credential, which   *)
(* writes the runtime metadata, does not undo them.                         *)
RecordedIsStored ==
    \A c \in Cred : recorded[c] # 0 /\ recorded[c] = rev[c]
                    => stored[c] = rev[c] /\ meta[c] = rev[c]

(* "the metadata save is preempted so foreground operations do not stall":  *)
(* every mutation that has begun ends, though background saves may hang.    *)
MutationEnds ==
    \A f \in Fg : fg[f].pc # "idle" ~> fg[f].pc = "done"

(* Preempted saves are retried: with a store that answers, the newest hints *)
(* that were found are in the end recorded as persisted.                    *)
HintsSettle ==
    \A c \in Cred : \A r \in 1 .. MaxRev :
        store = "answers" /\ rev[c] = r ~> rev[c] > r \/ recorded[c] = r

=============================================================================
