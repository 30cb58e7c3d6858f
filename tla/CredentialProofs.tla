--------------------------- MODULE CredentialProofs ---------------------------
(***************************************************************************)
(* Theorems about what is kept of a credential: the gates of its background *)
(* metadata saves (MetadataSave), for any number of credentials, mutations  *)
(* and revisions of the hints, and then its cooldowns and their records     *)
(* (Cooldowns), for any number of models, executions, ticks and restarts.   *)
(* The two parts share no definition.                                       *)
(***************************************************************************)
EXTENDS MetadataSave, Cooldowns, FiniteSetTheorems, NaturalsInduction,
        WellFoundedInduction, TLAPS

-----------------------------------------------------------------------------
(* Metadata saves: control points. *)

(* A runner from the mutation gate to its release, a runner within it that  *)
(* has looked for mutations, one that holds the save gate, and one that is  *)
(* entered in gState.                                                       *)
Registered == {"saveGate", "enter", "check", "save", "commit", "leave",
               "close", "unhook"}
Locked == Registered \cup {"register", "unlock"}
Admitted == {"check", "save", "commit", "leave"}
Gated == Admitted \cup {"enter", "close"}

(* A mutation that is counted as waiting, one that holds the mutation gate, *)
(* and one that is counted as saving.                                       *)
Announced == {"cancel", "gate", "held"}
Saves == {"cancelSave", "await", "save", "saved"}
Holds == Saves \cup {"held", "begin", "unlock"}

-----------------------------------------------------------------------------
(* Type correctness, one part of the state at a time. *)

(* The initial states have their types. *)
LEMMA InitType == Init => TypeOK
<1> SUFFICES ASSUME Init PROVE TypeOK OBVIOUS
<1> USE SaveAssumption DEF Init
<1>1. ThreadType BY DEF ThreadType, Mutation, Runner, FgPc, BgPc
<1>2. HintType BY DEF HintType
<1>3. DataType BY DEF DataType
<1>4. GateType BY DEF GateType
<1> QED BY <1>1, <1>2, <1>3, <1>4 DEF TypeOK

(* The mutations under way keep their type. *)
LEMMA MutationStep == ASSUME TypeOK, Next PROVE fg' \in [Fg -> Mutation]
<1> USE DEF TypeOK, ThreadType, GateType, Mutation, FgPc
<1>1. ASSUME NEW f \in Fg, FgNext(f) PROVE fg' \in [Fg -> Mutation]
  BY <1>1, SaveAssumption, SMTT(40)
     DEF FgNext, FgAnnounce, FgCancel, FgGate, FgGiveUp, FgHeld, FgBegin, FgAwaited,
         FgGiveUpSave, FgSave, FgEndSave, FgUnlock, FgGo
<1>2. ASSUME NEW c \in Cred, BgNext(c) PROVE fg' \in [Fg -> Mutation]
  BY <1>2, SMTT(40)
     DEF BgNext, RunTake, BgStart, BgGate, BgRefused, BgRegister, BgSaveGate, BgEnter,
         BgCheck, BgSaveOk, BgSaveFails, BgCommit, BgLeave, BgClose, BgUnhook, BgUnlock,
         BgReturn, BgRequeue
<1>3. ASSUME NEW c \in Cred, NewHints(c) \/ Queue(c) PROVE fg' \in [Fg -> Mutation]
  BY <1>3 DEF NewHints, Queue
<1> QED BY <1>1, <1>2, <1>3 DEF Next

(* A runner that goes on, or is stopped, is a runner. *)
LEMMA RunnerMoves ==
    ASSUME bg \in [Cred -> Runner], NEW c \in Cred, NEW pc \in BgPc, NEW x \in BOOLEAN,
           BgGo(c, pc) \/ bg' = [bg EXCEPT ![c].stopped = x, ![c].pc = pc]
    PROVE  bg' \in [Cred -> Runner]
<1>1. [bg[c] EXCEPT !.pc = pc] \in Runner /\ [bg[c] EXCEPT !.stopped = x, !.pc = pc] \in Runner
  BY ZenonT(60) DEF Runner
<1>2. \/ bg' = [bg EXCEPT ![c] = [bg[c] EXCEPT !.pc = pc]]
      \/ bg' = [bg EXCEPT ![c] = [bg[c] EXCEPT !.stopped = x, !.pc = pc]]
  BY DEF BgGo
<1> HIDE DEF Runner
<1> QED BY <1>1, <1>2

(* The background savers keep their type. *)
LEMMA RunnerStep == ASSUME TypeOK, Next PROVE bg' \in [Cred -> Runner]
<1>1. bg \in [Cred -> Runner] /\ pending \in [Cred -> 0 .. MaxRev]
  BY DEF TypeOK, ThreadType, HintType
<1>2. ASSUME NEW f \in Fg, FgCancel(f) PROVE bg' \in [Cred -> Runner]
  BY <1>1, <1>2, ZenonT(60) DEF FgCancel, Preempt, Runner
<1>3. ASSUME NEW f \in Fg, FgNext(f), ~FgCancel(f) PROVE bg' \in [Cred -> Runner]
  BY <1>1, <1>3
     DEF FgNext, FgAnnounce, FgGate, FgGiveUp, FgHeld, FgBegin, FgAwaited, FgGiveUpSave,
         FgSave, FgEndSave, FgUnlock
<1>4. ASSUME NEW c \in Cred, NewHints(c) PROVE bg' \in [Cred -> Runner]
  BY <1>1, <1>4 DEF NewHints
<1>5. ASSUME NEW c \in Cred, Queue(c) PROVE bg' \in [Cred -> Runner]
  <2>1. PICK r : Enqueue(c, r) \/ UNCHANGED bg BY <1>5 DEF Queue
  <2> DEFINE x == bg[c].stopped \/ (bg[c].pc # "off" /\ bg[c].rev < r)
             pc == IF bg[c].pc = "off" THEN "take" ELSE bg[c].pc
  <2>2. UNCHANGED bg \/ bg' = [bg EXCEPT ![c].stopped = x, ![c].pc = pc]
    BY <2>1 DEF Enqueue
  <2>3. x \in BOOLEAN /\ pc \in BgPc BY <1>1 DEF Runner, BgPc
  <2> HIDE DEF x, pc
  <2> QED BY <1>1, <2>2, <2>3, RunnerMoves
<1>6. ASSUME NEW c \in Cred, RunTake(c) PROVE bg' \in [Cred -> Runner]
  BY <1>1, <1>6 DEF RunTake, Runner, BgPc
<1>7. ASSUME NEW c \in Cred, BgRegister(c), waiters[c] # {} PROVE bg' \in [Cred -> Runner]
  BY <1>1, <1>7 DEF BgRegister, Runner, BgPc
<1>8. ASSUME NEW c \in Cred, BgCommit(c), ~Stale(c, bg[c].rev) PROVE bg' \in [Cred -> Runner]
  BY <1>1, <1>8 DEF BgCommit, Runner, BgPc
<1>9. ASSUME NEW c \in Cred, BgNext(c), ~RunTake(c),
             ~(BgRegister(c) /\ waiters[c] # {}), ~(BgCommit(c) /\ ~Stale(c, bg[c].rev))
      PROVE  bg' \in [Cred -> Runner]
  <2>1. \E pc \in BgPc : BgGo(c, pc)
    BY <1>9 DEF BgPc, BgNext, BgStart, BgGate, BgRefused, BgRegister, BgSaveGate, BgEnter,
                BgCheck, BgSaveOk, BgSaveFails, BgCommit, BgLeave, BgClose, BgUnhook, BgUnlock,
                BgReturn, BgRequeue
  <2> QED BY <1>1, <2>1, RunnerMoves
<1> QED BY <1>2, <1>3, <1>4, <1>5, <1>6, <1>7, <1>8, <1>9 DEF Next

(* The hints keep their type. *)
LEMMA HintStep == ASSUME TypeOK, Next PROVE HintType'
<1> USE DEF TypeOK, ThreadType, HintType, Runner, hints
<1>1. ASSUME NEW f \in Fg, FgNext(f) PROVE HintType'
  BY <1>1 DEF FgNext, FgAnnounce, FgCancel, FgGate, FgGiveUp, FgHeld, FgBegin, FgAwaited,
              FgGiveUpSave, FgSave, FgEndSave, FgUnlock
<1>2. ASSUME NEW c \in Cred, NewHints(c) PROVE HintType'
  BY <1>2, SaveAssumption DEF NewHints
<1>3. ASSUME NEW c \in Cred, Queue(c) PROVE HintType'
  <2>1. PICK r \in found[c] : /\ found' = [found EXCEPT ![c] = @ \ {r}]
                              /\ UNCHANGED pending \/ pending' = [pending EXCEPT ![c] = r]
    BY <1>3 DEF Queue, Enqueue
  <2>2. r \in 0 .. MaxRev BY <2>1, SaveAssumption
  <2> QED BY <1>3, <2>1, <2>2 DEF Queue
<1>4. ASSUME NEW c \in Cred, RunTake(c) \/ BgReturn(c) \/ BgRequeue(c) PROVE HintType'
  <2>1. bg[c].rev \in 0 .. MaxRev /\ 0 \in 0 .. MaxRev BY SaveAssumption
  <2> QED BY <1>4, <2>1 DEF RunTake, BgReturn, BgRequeue
<1>5. ASSUME NEW c \in Cred, UNCHANGED hints PROVE HintType' BY <1>5
<1> QED BY <1>1, <1>2, <1>3, <1>4, <1>5, ZenonT(60)
        DEF Next, BgNext, BgStart, BgGate, BgRefused, BgRegister, BgSaveGate, BgEnter, BgCheck,
            BgSaveOk, BgSaveFails, BgCommit, BgLeave, BgClose, BgUnhook, BgUnlock

(* The stored, recorded and newest versions keep their types. *)
LEMMA DataStep == ASSUME TypeOK, Next PROVE DataType'
<1> USE DEF TypeOK, ThreadType, DataType, Runner, data
<1>1. ASSUME NEW f \in Fg, FgSave(f) PROVE DataType'
  <2>1. CredOf[f] \in Cred /\ meta[CredOf[f]] \in 0 .. MaxRev BY SaveAssumption
  <2>2. /\ UNCHANGED stored \/ stored' = [stored EXCEPT ![CredOf[f]] = meta[CredOf[f]]]
        /\ UNCHANGED <<meta, store>>
    BY <1>1 DEF FgSave
  <2> QED BY <2>1, <2>2
<1>2. ASSUME NEW f \in Fg, FgNext(f), ~FgSave(f) PROVE DataType'
  BY <1>2 DEF FgNext, FgAnnounce, FgCancel, FgGate, FgGiveUp, FgHeld, FgBegin, FgAwaited,
              FgGiveUpSave, FgEndSave, FgUnlock
<1>3. ASSUME NEW c \in Cred, NewHints(c) \/ Queue(c) PROVE DataType'
  BY <1>3 DEF NewHints, Queue
<1>4. ASSUME NEW c \in Cred, BgSaveOk(c) \/ BgSaveFails(c) PROVE DataType'
  BY <1>4 DEF BgSaveOk, BgSaveFails
<1>5. ASSUME NEW c \in Cred, BgCommit(c) PROVE DataType'
  <2>1. bg[c].rev \in 0 .. MaxRev /\ 0 \in 0 .. MaxRev BY SaveAssumption
  <2>2. /\ \E r \in {0, bg[c].rev} : meta' = [meta EXCEPT ![c] = r]
        /\ UNCHANGED <<stored, store>>
    BY <1>5 DEF BgCommit
  <2> QED BY <2>1, <2>2
<1>6. ASSUME NEW c \in Cred, BgNext(c), ~BgSaveOk(c), ~BgSaveFails(c), ~BgCommit(c)
      PROVE  DataType'
  BY <1>6
     DEF BgNext, RunTake, BgStart, BgGate, BgRefused, BgRegister, BgSaveGate, BgEnter,
         BgCheck, BgLeave, BgClose, BgUnhook, BgUnlock, BgReturn, BgRequeue
<1> QED BY <1>1, <1>2, <1>3, <1>4, <1>5, <1>6 DEF Next

(* The gates and their waiters keep their types. *)
LEMMA GateStep == ASSUME TypeOK, Next PROVE GateType'
<1> USE DEF TypeOK, GateType, fgVars
<1>1. ASSUME NEW f \in Fg, FgNext(f) PROVE GateType'
  BY <1>1, SaveAssumption
     DEF FgNext, FgAnnounce, FgCancel, FgGate, FgGiveUp, FgHeld, FgBegin, FgAwaited,
         FgGiveUpSave, FgSave, FgEndSave, FgUnlock, Withdraw
<1>2. ASSUME NEW c \in Cred, NewHints(c) \/ Queue(c) PROVE GateType'
  BY <1>2 DEF NewHints, Queue
<1>3. ASSUME NEW c \in Cred, BgNext(c) PROVE GateType'
  BY <1>3
     DEF BgNext, RunTake, BgStart, BgGate, BgRefused, BgRegister, BgSaveGate, BgEnter,
         BgCheck, BgSaveOk, BgSaveFails, BgCommit, BgLeave, BgClose, BgUnhook, BgUnlock,
         BgReturn, BgRequeue
<1> QED BY <1>1, <1>2, <1>3 DEF Next

(* Type correctness: among the rest, no revision is queued, recorded or stored that *)
(* was not found, and a mutation waits for a runner or for nobody.                  *)
THEOREM TypeCorrect == Spec => []TypeOK
<1>1. TypeOK /\ UNCHANGED vars => TypeOK'
  BY DEF TypeOK, ThreadType, HintType, DataType, GateType, vars
<1>2. TypeOK /\ [Next]_vars => TypeOK'
  BY <1>1, MutationStep, RunnerStep, HintStep, DataStep, GateStep DEF TypeOK, ThreadType
<1> QED BY InitType, <1>2, PTL DEF Spec

-----------------------------------------------------------------------------
(* What the actions that update several fields do, thread by thread. *)

(* What each step does to the gates, place by place. *)
LEMMA AnnounceEffect ==
    ASSUME ThreadType, GateType, NEW f \in Fg, FgAnnounce(f)
    PROVE  /\ fg[f].pc = "idle" /\ fg'[f].pc = "cancel" /\ fg'[f].await = fg[f].await
           /\ fg'[f].copy = hook \cap {CredOf[f]}
           /\ \A g \in Fg : g # f => fg'[g] = fg[g]
           /\ f \in waiters'[CredOf[f]]
           /\ \A c \in Cred : waiters[c] \subseteq waiters'[c]
           /\ UNCHANGED <<bg, gate, hook, saveGate, fgActive, saving>>
<1>1. /\ f \in waiters'[CredOf[f]]
      /\ \A c \in Cred : waiters[c] \subseteq waiters'[c]
  BY SaveAssumption DEF GateType, FgAnnounce
<1> QED BY <1>1 DEF ThreadType, Mutation, FgAnnounce

(* A mutation gives up waiting for the background save. *)
LEMMA GiveUpSaveEffect ==
    ASSUME ThreadType, NEW f \in Fg, FgGiveUpSave(f)
    PROVE  /\ fg[f].pc = "await" /\ fg'[f].pc = "unlock" /\ fg'[f].await = None
           /\ \A g \in Fg : g # f => fg'[g] = fg[g]
           /\ UNCHANGED <<bg, gate, waiters, hook, saveGate, saving>>
           /\ fgActive' = fgActive \ {f}
  BY DEF ThreadType, Mutation, FgGiveUpSave

(* A hint starts the saver of its credential, or finds it running. *)
LEMMA QueueEffect ==
    ASSUME ThreadType, NEW c \in Cred, Queue(c)
    PROVE  /\ \A d \in Cred :
                  /\ bg'[d].rev = bg[d].rev /\ bg'[d].preempted = bg[d].preempted
                  /\ bg'[d].outcome = bg[d].outcome
                  /\ \/ bg'[d].pc = bg[d].pc
                     \/ bg[d].pc = "off" /\ bg'[d].pc = "take"
           /\ UNCHANGED <<fg, gate, waiters, hook, saveGate, fgActive, saving>>
  BY DEF ThreadType, Runner, Queue, Enqueue, fgVars

(* A saver sets its hook, or learns that a mutation waits. *)
LEMMA RegisterEffect ==
    ASSUME ThreadType, NEW c \in Cred, BgRegister(c)
    PROVE  /\ bg[c].pc = "register" /\ bg'[c].pc = "saveGate"
           /\ bg'[c].rev = bg[c].rev /\ bg'[c].outcome = bg[c].outcome
           /\ \A d \in Cred : d # c => bg'[d] = bg[d]
           /\ hook \subseteq hook'
           /\ \/ bg'[c].preempted
              \/ waiters[c] = {} /\ c \in hook'
           /\ UNCHANGED <<fg, gate, waiters, saveGate, fgActive, saving, hints, data>>
  BY DEF ThreadType, Runner, BgRegister, BgGo

(* A saver takes the save gate, or gives way. *)
LEMMA SaveGateEffect ==
    ASSUME ThreadType, NEW c \in Cred, BgSaveGate(c)
    PROVE  /\ bg[c].pc = "saveGate" /\ bg'[c].preempted = bg[c].preempted
           /\ bg'[c].rev = bg[c].rev /\ bg'[c].outcome = bg[c].outcome
           /\ \A d \in Cred : d # c => bg'[d] = bg[d]
           /\ \/ bg'[c].pc = "unhook" /\ UNCHANGED saveGate
              \/ bg'[c].pc = "enter" /\ saveGate = None /\ saveGate' = c
           /\ UNCHANGED <<fg, gate, waiters, hook, fgActive, saving, hints, data>>
  BY DEF ThreadType, Runner, BgSaveGate, BgGo

(* A saver enters the save, or gives way to a mutation that is active. *)
LEMMA EnterEffect ==
    ASSUME ThreadType, NEW c \in Cred, BgEnter(c)
    PROVE  /\ bg[c].pc = "enter" /\ bg'[c].preempted = bg[c].preempted
           /\ \A d \in Cred : d # c => bg'[d] = bg[d]
           /\ \/ bg'[c].pc = "unhook" /\ saveGate' = None /\ UNCHANGED saving
              \/ bg'[c].pc = "check" /\ fgActive = {} /\ saving' = c /\ UNCHANGED saveGate
           /\ UNCHANGED <<fg, gate, waiters, hook, fgActive>>
  BY DEF ThreadType, Runner, BgEnter, BgGo

(* A saver leaves the save, and whoever awaits it is told. *)
LEMMA CloseEffect ==
    ASSUME ThreadType, NEW c \in Cred, BgClose(c)
    PROVE  /\ bg[c].pc = "close" /\ bg'[c].pc = "unhook"
           /\ bg'[c].preempted = bg[c].preempted
           /\ \A d \in Cred : d # c => bg'[d] = bg[d]
           /\ \A f \in Fg : /\ fg'[f].pc = fg[f].pc /\ fg'[f].copy = fg[f].copy
                            /\ fg'[f].await = IF fg[f].await = c THEN None ELSE fg[f].await
           /\ saveGate' = None
           /\ UNCHANGED <<gate, waiters, hook, fgActive, saving>>
  BY DEF ThreadType, Mutation, Runner, BgClose, BgGo

(* A saver unlocks the gate of its credential. *)
LEMMA UnlockEffect ==
    ASSUME ThreadType, NEW c \in Cred, BgUnlock(c)
    PROVE  /\ bg[c].pc = "unlock" /\ bg'[c].pc = "return"
           /\ \A d \in Cred : d # c => bg'[d] = bg[d]
           /\ \A f \in Fg : /\ fg'[f].pc = fg[f].pc /\ fg'[f].await = fg[f].await
                            /\ fg'[f].copy = fg[f].copy \ {c}
           /\ gate' = [gate EXCEPT ![c] = None]
           /\ UNCHANGED <<waiters, hook, saveGate, fgActive, saving>>
  BY DEF ThreadType, Mutation, Runner, BgUnlock, BgGo

-----------------------------------------------------------------------------
(* Who holds what, by control point. *)

(* Each gate, counter and entry names exactly the threads that are at the   *)
(* control points between its acquisition and its release.                  *)
Owned ==
    /\ \A c \in Cred : gate[c] = c <=> bg[c].pc \in Locked
    /\ \A f \in Fg : gate[CredOf[f]] = f <=> fg[f].pc \in Holds
    /\ \A c \in Cred : saveGate = c <=> bg[c].pc \in Gated
    /\ \A c \in Cred : saving = c <=> bg[c].pc \in Admitted
    /\ \A f \in Fg : f \in fgActive <=> fg[f].pc \in Saves

(* A mutation that is counted as saving waits for the runner that is        *)
(* admitted, if there is one, and for no runner that is not on its way out. *)
Awaits ==
    \A f \in Fg :
        /\ fg[f].pc \in {"save", "saved"} => fg[f].await = None
        /\ \A c \in Cred : fg[f].pc \in Saves /\ bg[c].pc \in Admitted
                           => fg[f].await = c
        /\ \A c \in Cred : fg[f].await = c => bg[c].pc \in Admitted \cup {"close"}

(* Whoever could have missed the other has been seen by it: a runner        *)
(* without a hook is preempted; a mutation that has read the hook holds the *)
(* cancel function of the runner or has called it.                          *)
Seen ==
    /\ \A f \in Fg : fg[f].pc \in Announced => f \in waiters[CredOf[f]]
    /\ \A c \in Cred : bg[c].pc \in Registered => c \in hook \/ bg[c].preempted
    /\ \A f \in Fg : \A c \in {CredOf[f]} :
           bg[c].pc \in Registered =>
               /\ fg[f].pc = "cancel" => c \in fg[f].copy \/ bg[c].preempted
               /\ fg[f].pc = "gate" => bg[c].preempted
    /\ \A f \in Fg : \A c \in Cred : fg[f].await = c =>
           /\ fg[f].pc = "cancelSave" => c \in fg[f].copy
           /\ fg[f].pc = "await" => bg[c].preempted
    /\ \A f \in Fg : fg[f].pc \notin Saves => fg[f].await = None

(* A saver records the revision it stored, unless it is stale. *)
LEMMA CommitEffect ==
    ASSUME ThreadType, DataType, NEW c \in Cred, BgCommit(c)
    PROVE  /\ bg[c].pc = "commit" /\ bg'[c].pc = "leave" /\ bg'[c].rev = bg[c].rev
           /\ \A d \in Cred : d # c => bg'[d] = bg[d] /\ meta'[d] = meta[d]
           /\ \/ Stale(c, bg[c].rev) /\ bg'[c].outcome = bg[c].outcome
              \/ meta'[c] = bg[c].rev
           /\ UNCHANGED <<hints, stored>>
  BY SMTT(40) DEF ThreadType, DataType, Runner, BgCommit, BgGo

(* Every step keeps who owns a gate. *)
LEMMA OwnedStep == ASSUME TypeOK, Owned, Next PROVE Owned'
<1> USE SaveAssumption DEF TypeOK, ThreadType, GateType, Owned, Locked, Registered, Admitted, Gated, Saves, Holds
<1>1. ASSUME NEW f \in Fg, FgAnnounce(f) PROVE Owned'
  BY <1>1, AnnounceEffect
<1>2. ASSUME NEW f \in Fg, FgCancel(f) PROVE Owned'
  BY <1>2 DEF FgCancel, Preempt, FgGo, Mutation, fgVars
<1>3. ASSUME NEW f \in Fg, FgGate(f) PROVE Owned'
  BY <1>3 DEF FgGate, FgGo, Mutation, fgVars
<1>4. ASSUME NEW f \in Fg, FgGiveUp(f) PROVE Owned'
  BY <1>4 DEF FgGiveUp, Withdraw, FgGo, Mutation, fgVars
<1>5. ASSUME NEW f \in Fg, FgHeld(f) PROVE Owned'
  BY <1>5 DEF FgHeld, Withdraw, FgGo, Mutation, fgVars
<1>6. ASSUME NEW f \in Fg, FgBegin(f) PROVE Owned'
  BY <1>6 DEF FgBegin, FgGo, Mutation, fgVars
<1>7. ASSUME NEW f \in Fg, FgAwaited(f) PROVE Owned'
  BY <1>7 DEF FgAwaited, FgGo, Mutation, fgVars
<1>8. ASSUME NEW f \in Fg, FgGiveUpSave(f) PROVE Owned'
  BY <1>8, GiveUpSaveEffect
<1>9. ASSUME NEW f \in Fg, FgSave(f) PROVE Owned'
  BY <1>9 DEF FgSave, FgGo, Mutation, fgVars
<1>10. ASSUME NEW f \in Fg, FgEndSave(f) PROVE Owned'
  BY <1>10 DEF FgEndSave, FgGo, Mutation, fgVars
<1>11. ASSUME NEW f \in Fg, FgUnlock(f) PROVE Owned'
  BY <1>11 DEF FgUnlock, FgGo, Mutation, fgVars
<1>12. ASSUME NEW c \in Cred, RunTake(c) PROVE Owned'
  BY <1>12 DEF RunTake, BgGo, Runner, fgVars
<1>13. ASSUME NEW c \in Cred, BgStart(c) PROVE Owned'
  BY <1>13 DEF BgStart, BgGo, Runner, fgVars
<1>14. ASSUME NEW c \in Cred, BgGate(c) PROVE Owned'
  BY <1>14 DEF BgGate, BgGo, Runner, fgVars
<1>15. ASSUME NEW c \in Cred, BgRefused(c) PROVE Owned'
  BY <1>15 DEF BgRefused, BgGo, Runner, fgVars
<1>16. ASSUME NEW c \in Cred, BgRegister(c) PROVE Owned'
  BY <1>16, RegisterEffect
<1>17. ASSUME NEW c \in Cred, BgSaveGate(c) PROVE Owned'
  BY <1>17, SaveGateEffect
<1>18. ASSUME NEW c \in Cred, BgEnter(c) PROVE Owned'
  <2>1. \A d \in Cred : d # c => bg[d].pc \notin Gated BY <1>18, EnterEffect
  <2>2. saveGate = c /\ saving = None BY <1>18, <2>1, EnterEffect
  <2> QED BY <1>18, <2>1, <2>2, EnterEffect
<1>19. ASSUME NEW c \in Cred, BgCheck(c) PROVE Owned'
  BY <1>19 DEF BgCheck, BgGo, Runner, fgVars
<1>20. ASSUME NEW c \in Cred, BgSaveOk(c) PROVE Owned'
  BY <1>20 DEF BgSaveOk, BgGo, Runner, fgVars
<1>21. ASSUME NEW c \in Cred, BgSaveFails(c) PROVE Owned'
  BY <1>21 DEF BgSaveFails, BgGo, Runner, fgVars
<1>22. ASSUME NEW c \in Cred, BgCommit(c) PROVE Owned'
  BY <1>22 DEF BgCommit, BgGo, Runner, fgVars
<1>23. ASSUME NEW c \in Cred, BgLeave(c) PROVE Owned'
  BY <1>23 DEF BgLeave, BgGo, Runner, fgVars
<1>24. ASSUME NEW c \in Cred, BgClose(c) PROVE Owned'
  BY <1>24, CloseEffect
<1>25. ASSUME NEW c \in Cred, BgUnhook(c) PROVE Owned'
  BY <1>25 DEF BgUnhook, BgGo, Runner, fgVars
<1>26. ASSUME NEW c \in Cred, BgUnlock(c) PROVE Owned'
  BY <1>26, UnlockEffect
<1>27. ASSUME NEW c \in Cred, BgReturn(c) PROVE Owned'
  BY <1>27 DEF BgReturn, BgGo, Runner, fgVars
<1>28. ASSUME NEW c \in Cred, BgRequeue(c) PROVE Owned'
  BY <1>28 DEF BgRequeue, BgGo, Runner, fgVars
<1>29. ASSUME NEW c \in Cred, NewHints(c) PROVE Owned'
  BY <1>29 DEF NewHints, BgGo, Runner, fgVars
<1>30. ASSUME NEW c \in Cred, Queue(c) PROVE Owned'
  BY <1>30, QueueEffect
<1> QED BY <1>1, <1>2, <1>3, <1>4, <1>5, <1>6, <1>7, <1>8, <1>9, <1>10, <1>11, <1>12, <1>13, <1>14, <1>15, <1>16, <1>17, <1>18, <1>19, <1>20, <1>21, <1>22, <1>23, <1>24, <1>25, <1>26, <1>27, <1>28, <1>29, <1>30 DEF Next, FgNext, BgNext

(* Every step keeps what an owner is waiting for. *)
LEMMA AwaitsStep == ASSUME TypeOK, Owned, Owned', Awaits, Next PROVE Awaits'
<1> USE SaveAssumption DEF TypeOK, ThreadType, GateType, Owned, Awaits, Admitted, Saves
<1>1. ASSUME NEW f \in Fg, FgAnnounce(f) PROVE Awaits'
  BY <1>1, AnnounceEffect
<1>2. ASSUME NEW f \in Fg, FgCancel(f) PROVE Awaits'
  BY <1>2 DEF FgCancel, Preempt, Runner, FgGo, Mutation, fgVars
<1>3. ASSUME NEW f \in Fg, FgGate(f) PROVE Awaits'
  BY <1>3 DEF FgGate, FgGo, Mutation, fgVars
<1>4. ASSUME NEW f \in Fg, FgGiveUp(f) PROVE Awaits'
  BY <1>4 DEF FgGiveUp, Withdraw, FgGo, Mutation, fgVars
<1>5. ASSUME NEW f \in Fg, FgHeld(f) PROVE Awaits'
  BY <1>5 DEF FgHeld, Withdraw, FgGo, Mutation, fgVars
<1>6. ASSUME NEW f \in Fg, FgBegin(f) PROVE Awaits'
  BY <1>6 DEF FgBegin, FgGo, Mutation, fgVars
<1>7. ASSUME NEW f \in Fg, FgAwaited(f) PROVE Awaits'
  BY <1>7 DEF FgAwaited, FgGo, Mutation, fgVars
<1>8. ASSUME NEW f \in Fg, FgGiveUpSave(f) PROVE Awaits'
  BY <1>8, GiveUpSaveEffect
<1>9. ASSUME NEW f \in Fg, FgSave(f) PROVE Awaits'
  BY <1>9 DEF FgSave, FgGo, Mutation, fgVars
<1>10. ASSUME NEW f \in Fg, FgEndSave(f) PROVE Awaits'
  BY <1>10 DEF FgEndSave, FgGo, Mutation, fgVars
<1>11. ASSUME NEW f \in Fg, FgUnlock(f) PROVE Awaits'
  BY <1>11 DEF FgUnlock, FgGo, Mutation, fgVars
<1>12. ASSUME NEW c \in Cred, RunTake(c) PROVE Awaits'
  BY <1>12 DEF RunTake, BgGo, Runner, fgVars
<1>13. ASSUME NEW c \in Cred, BgStart(c) PROVE Awaits'
  BY <1>13 DEF BgStart, BgGo, Runner, fgVars
<1>14. ASSUME NEW c \in Cred, BgGate(c) PROVE Awaits'
  BY <1>14 DEF BgGate, BgGo, Runner, fgVars
<1>15. ASSUME NEW c \in Cred, BgRefused(c) PROVE Awaits'
  BY <1>15 DEF BgRefused, BgGo, Runner, fgVars
<1>16. ASSUME NEW c \in Cred, BgRegister(c) PROVE Awaits'
  BY <1>16, RegisterEffect
<1>17. ASSUME NEW c \in Cred, BgSaveGate(c) PROVE Awaits'
  BY <1>17, SaveGateEffect
<1>18. ASSUME NEW c \in Cred, BgEnter(c) PROVE Awaits'
  BY <1>18, EnterEffect
<1>19. ASSUME NEW c \in Cred, BgCheck(c) PROVE Awaits'
  BY <1>19 DEF BgCheck, BgGo, Runner, fgVars
<1>20. ASSUME NEW c \in Cred, BgSaveOk(c) PROVE Awaits'
  BY <1>20 DEF BgSaveOk, BgGo, Runner, fgVars
<1>21. ASSUME NEW c \in Cred, BgSaveFails(c) PROVE Awaits'
  BY <1>21 DEF BgSaveFails, BgGo, Runner, fgVars
<1>22. ASSUME NEW c \in Cred, BgCommit(c) PROVE Awaits'
  BY <1>22 DEF BgCommit, BgGo, Runner, fgVars
<1>23. ASSUME NEW c \in Cred, BgLeave(c) PROVE Awaits'
  BY <1>23 DEF BgLeave, BgGo, Runner, fgVars
<1>24. ASSUME NEW c \in Cred, BgClose(c) PROVE Awaits'
  BY <1>24, CloseEffect
<1>25. ASSUME NEW c \in Cred, BgUnhook(c) PROVE Awaits'
  BY <1>25 DEF BgUnhook, BgGo, Runner, fgVars
<1>26. ASSUME NEW c \in Cred, BgUnlock(c) PROVE Awaits'
  BY <1>26, UnlockEffect
<1>27. ASSUME NEW c \in Cred, BgReturn(c) PROVE Awaits'
  BY <1>27 DEF BgReturn, BgGo, Runner, fgVars
<1>28. ASSUME NEW c \in Cred, BgRequeue(c) PROVE Awaits'
  BY <1>28 DEF BgRequeue, BgGo, Runner, fgVars
<1>29. ASSUME NEW c \in Cred, NewHints(c) PROVE Awaits'
  BY <1>29 DEF NewHints, BgGo, Runner, fgVars
<1>30. ASSUME NEW c \in Cred, Queue(c) PROVE Awaits'
  BY <1>30, QueueEffect, SMTT(40)
<1> QED BY <1>1, <1>2, <1>3, <1>4, <1>5, <1>6, <1>7, <1>8, <1>9, <1>10, <1>11, <1>12, <1>13, <1>14, <1>15, <1>16, <1>17, <1>18, <1>19, <1>20, <1>21, <1>22, <1>23, <1>24, <1>25, <1>26, <1>27, <1>28, <1>29, <1>30 DEF Next, FgNext, BgNext

(* Every step keeps what has been seen under a gate. *)
LEMMA SeenStep == ASSUME TypeOK, Owned, Awaits, Awaits', Seen, Next PROVE Seen'
<1> USE SaveAssumption DEF TypeOK, ThreadType, GateType, Owned, Awaits, Seen, Registered, Locked, Admitted, Announced, Saves
<1>1. ASSUME NEW f \in Fg, FgAnnounce(f) PROVE Seen'
  BY <1>1, AnnounceEffect, SMTT(40)
<1>2. ASSUME NEW f \in Fg, FgCancel(f) PROVE Seen'
  BY <1>2 DEF FgCancel, Preempt, Runner, FgGo, Mutation, fgVars
<1>3. ASSUME NEW f \in Fg, FgGate(f) PROVE Seen'
  BY <1>3 DEF FgGate, FgGo, Mutation, fgVars
<1>4. ASSUME NEW f \in Fg, FgGiveUp(f) PROVE Seen'
  BY <1>4 DEF FgGiveUp, Withdraw, FgGo, Mutation, fgVars
<1>5. ASSUME NEW f \in Fg, FgHeld(f) PROVE Seen'
  BY <1>5 DEF FgHeld, Withdraw, FgGo, Mutation, fgVars
<1>6. ASSUME NEW f \in Fg, FgBegin(f) PROVE Seen'
  BY <1>6 DEF FgBegin, FgGo, Mutation, fgVars
<1>7. ASSUME NEW f \in Fg, FgAwaited(f) PROVE Seen'
  BY <1>7 DEF FgAwaited, FgGo, Mutation, fgVars
<1>8. ASSUME NEW f \in Fg, FgGiveUpSave(f) PROVE Seen'
  BY <1>8, GiveUpSaveEffect, SMTT(40)
<1>9. ASSUME NEW f \in Fg, FgSave(f) PROVE Seen'
  BY <1>9 DEF FgSave, FgGo, Mutation, fgVars
<1>10. ASSUME NEW f \in Fg, FgEndSave(f) PROVE Seen'
  BY <1>10 DEF FgEndSave, FgGo, Mutation, fgVars
<1>11. ASSUME NEW f \in Fg, FgUnlock(f) PROVE Seen'
  BY <1>11 DEF FgUnlock, FgGo, Mutation, fgVars
<1>12. ASSUME NEW c \in Cred, RunTake(c) PROVE Seen'
  BY <1>12 DEF RunTake, BgGo, Runner, fgVars
<1>13. ASSUME NEW c \in Cred, BgStart(c) PROVE Seen'
  BY <1>13 DEF BgStart, BgGo, Runner, fgVars
<1>14. ASSUME NEW c \in Cred, BgGate(c) PROVE Seen'
  BY <1>14 DEF BgGate, BgGo, Runner, fgVars
<1>15. ASSUME NEW c \in Cred, BgRefused(c) PROVE Seen'
  BY <1>15 DEF BgRefused, BgGo, Runner, fgVars
<1>16. ASSUME NEW c \in Cred, BgRegister(c) PROVE Seen'
  BY <1>16, RegisterEffect
<1>17. ASSUME NEW c \in Cred, BgSaveGate(c) PROVE Seen'
  <2>1. /\ bg[c].pc = "saveGate" /\ bg'[c].pc \in {"unhook", "enter"}
        /\ \A d \in Cred : /\ bg'[d].preempted = bg[d].preempted
                           /\ d # c => bg'[d].pc = bg[d].pc
        /\ UNCHANGED <<fg, waiters, hook>>
    BY <1>17, SaveGateEffect
  <2> QED BY <2>1
<1>18. ASSUME NEW c \in Cred, BgEnter(c) PROVE Seen'
  BY <1>18, EnterEffect
<1>19. ASSUME NEW c \in Cred, BgCheck(c) PROVE Seen'
  BY <1>19 DEF BgCheck, BgGo, Runner, fgVars
<1>20. ASSUME NEW c \in Cred, BgSaveOk(c) PROVE Seen'
  BY <1>20 DEF BgSaveOk, BgGo, Runner, fgVars
<1>21. ASSUME NEW c \in Cred, BgSaveFails(c) PROVE Seen'
  BY <1>21 DEF BgSaveFails, BgGo, Runner, fgVars
<1>22. ASSUME NEW c \in Cred, BgCommit(c) PROVE Seen'
  BY <1>22, SMTT(40) DEF BgCommit, BgGo, Runner, fgVars
<1>23. ASSUME NEW c \in Cred, BgLeave(c) PROVE Seen'
  BY <1>23 DEF BgLeave, BgGo, Runner, fgVars
<1>24. ASSUME NEW c \in Cred, BgClose(c) PROVE Seen'
  BY <1>24, CloseEffect, SMTT(40)
<1>25. ASSUME NEW c \in Cred, BgUnhook(c) PROVE Seen'
  BY <1>25 DEF BgUnhook, BgGo, Runner, fgVars
<1>26. ASSUME NEW c \in Cred, BgUnlock(c) PROVE Seen'
  BY <1>26, UnlockEffect, SMTT(40)
<1>27. ASSUME NEW c \in Cred, BgReturn(c) PROVE Seen'
  BY <1>27 DEF BgReturn, BgGo, Runner, fgVars
<1>28. ASSUME NEW c \in Cred, BgRequeue(c) PROVE Seen'
  BY <1>28 DEF BgRequeue, BgGo, Runner, fgVars
<1>29. ASSUME NEW c \in Cred, NewHints(c) PROVE Seen'
  BY <1>29 DEF NewHints, BgGo, Runner, fgVars
<1>30. ASSUME NEW c \in Cred, Queue(c) PROVE Seen'
  BY <1>30, QueueEffect
<1> QED BY <1>1, <1>2, <1>3, <1>4, <1>5, <1>6, <1>7, <1>8, <1>9, <1>10, <1>11, <1>12, <1>13, <1>14, <1>15, <1>16, <1>17, <1>18, <1>19, <1>20, <1>21, <1>22, <1>23, <1>24, <1>25, <1>26, <1>27, <1>28, <1>29, <1>30 DEF Next, FgNext, BgNext

(* The gates hold, for any number of credentials and mutations: no background save is *)
(* in the store beside a foreground one, and nobody waits for a runner that has not   *)
(* been told to give way.                                                              *)
THEOREM GatesCorrect == Spec => []GatesHold
<1> DEFINE IInv == Owned /\ Awaits /\ Seen
<1>1. Init => IInv
  BY SaveAssumption DEF Init, Owned, Awaits, Seen, Locked, Registered, Admitted, Gated, Saves,
                        Holds, Announced
<1>2. TypeOK /\ IInv /\ Next => IInv' BY OwnedStep, AwaitsStep, SeenStep
<1>3. IInv /\ UNCHANGED vars => IInv' BY DEF Owned, Awaits, Seen, vars
<1>4. TypeOK /\ IInv => GatesHold
  <2> SUFFICES ASSUME TypeOK, IInv PROVE SavesExclude /\ NotLost BY DEF GatesHold
  <2>1. SavesExclude
    BY SaveAssumption DEF SavesExclude, Awaits, Admitted, Saves
  <2>2. ASSUME NEW f \in Fg, NEW c \in Cred, fg[f].pc = "gate", c = CredOf[f],
               bg[c].pc \in {"saveGate", "enter", "check", "save", "commit"}
        PROVE  Cancelled(c)
    BY <2>2 DEF Seen, Registered, Cancelled
  <2>3. ASSUME NEW f \in Fg, NEW c \in Cred, fg[f].pc = "await", fg[f].await = c
        PROVE  Cancelled(c)
    BY <2>3 DEF Seen, Cancelled
  <2> QED BY <2>1, <2>2, <2>3 DEF NotLost
<1> HIDE DEF IInv
<1> QED BY <1>1, <1>2, <1>3, <1>4, TypeCorrect, PTL DEF Spec

-----------------------------------------------------------------------------
(* What is recorded is stored. *)

(* A request is no newer than the hints that are cached. *)
Bounded ==
    \A c \in Cred :
        /\ \A r \in found[c] : r =< rev[c]
        /\ pending[c] =< rev[c] /\ bg[c].rev =< rev[c] /\ recorded[c] =< rev[c]

(* A runner saves only hints that are not recorded, holds the store to them *)
(* until it commits, and ends with them in the store and in the runtime     *)
(* credential if it says so and they are still the newest.                  *)
Recording ==
    \A c \in Cred :
        /\ bg[c].pc \in {"save", "commit"} => recorded[c] < bg[c].rev
        /\ bg[c].pc = "commit" => stored[c] = bg[c].rev
        /\ bg[c].pc \in {"start", "lock", "register", "saveGate", "enter", "check", "save",
                         "commit", "requeue"}
           => bg[c].outcome = "none"
        /\ /\ bg[c].outcome = "persisted" /\ bg[c].pc \notin {"off", "take"}
           /\ bg[c].rev = rev[c]
           => stored[c] = rev[c] /\ meta[c] = rev[c]

(* Every step keeps the versions in their order. *)
LEMMA BoundedStep == ASSUME TypeOK, Bounded, Next PROVE Bounded'
<1> USE SaveAssumption DEF TypeOK, ThreadType, HintType, Bounded
<1>1. ASSUME NEW f \in Fg, FgAnnounce(f) PROVE Bounded'
  BY <1>1 DEF FgAnnounce, FgGo, Mutation, hints
<1>2. ASSUME NEW f \in Fg, FgCancel(f) PROVE Bounded'
  BY <1>2 DEF FgCancel, Preempt, Runner, FgGo, Mutation, hints
<1>3. ASSUME NEW f \in Fg, FgGate(f) PROVE Bounded'
  BY <1>3 DEF FgGate, FgGo, Mutation, hints
<1>4. ASSUME NEW f \in Fg, FgGiveUp(f) PROVE Bounded'
  BY <1>4 DEF FgGiveUp, Withdraw, FgGo, Mutation, hints
<1>5. ASSUME NEW f \in Fg, FgHeld(f) PROVE Bounded'
  BY <1>5 DEF FgHeld, Withdraw, FgGo, Mutation, hints
<1>6. ASSUME NEW f \in Fg, FgBegin(f) PROVE Bounded'
  BY <1>6 DEF FgBegin, FgGo, Mutation, hints
<1>7. ASSUME NEW f \in Fg, FgAwaited(f) PROVE Bounded'
  BY <1>7 DEF FgAwaited, FgGo, Mutation, hints
<1>8. ASSUME NEW f \in Fg, FgGiveUpSave(f) PROVE Bounded'
  BY <1>8 DEF FgGiveUpSave, FgGo, Mutation, hints
<1>9. ASSUME NEW f \in Fg, FgSave(f) PROVE Bounded'
  BY <1>9 DEF FgSave, FgGo, Mutation, hints
<1>10. ASSUME NEW f \in Fg, FgEndSave(f) PROVE Bounded'
  BY <1>10 DEF FgEndSave, FgGo, Mutation, hints
<1>11. ASSUME NEW f \in Fg, FgUnlock(f) PROVE Bounded'
  BY <1>11 DEF FgUnlock, FgGo, Mutation, hints
<1>12. ASSUME NEW c \in Cred, RunTake(c) PROVE Bounded'
  BY <1>12 DEF RunTake, BgGo, Runner, hints
<1>13. ASSUME NEW c \in Cred, BgStart(c) PROVE Bounded'
  BY <1>13 DEF BgStart, BgGo, Runner, hints
<1>14. ASSUME NEW c \in Cred, BgGate(c) PROVE Bounded'
  BY <1>14 DEF BgGate, BgGo, Runner, hints
<1>15. ASSUME NEW c \in Cred, BgRefused(c) PROVE Bounded'
  BY <1>15 DEF BgRefused, BgGo, Runner, hints
<1>16. ASSUME NEW c \in Cred, BgRegister(c) PROVE Bounded'
  BY <1>16, RegisterEffect DEF hints, data
<1>17. ASSUME NEW c \in Cred, BgSaveGate(c) PROVE Bounded'
  BY <1>17, SaveGateEffect DEF hints, data
<1>18. ASSUME NEW c \in Cred, BgEnter(c) PROVE Bounded'
  BY <1>18, SMTT(40) DEF BgEnter, BgGo, Runner, hints
<1>19. ASSUME NEW c \in Cred, BgCheck(c) PROVE Bounded'
  BY <1>19 DEF BgCheck, BgGo, Runner, hints
<1>20. ASSUME NEW c \in Cred, BgSaveOk(c) PROVE Bounded'
  BY <1>20 DEF BgSaveOk, BgGo, Runner, hints
<1>21. ASSUME NEW c \in Cred, BgSaveFails(c) PROVE Bounded'
  BY <1>21 DEF BgSaveFails, BgGo, Runner, hints
<1>22. ASSUME NEW c \in Cred, BgCommit(c) PROVE Bounded'
  BY <1>22, CommitEffect DEF DataType, hints
<1>23. ASSUME NEW c \in Cred, BgLeave(c) PROVE Bounded'
  BY <1>23 DEF BgLeave, BgGo, Runner, hints
<1>24. ASSUME NEW c \in Cred, BgClose(c) PROVE Bounded'
  BY <1>24 DEF BgClose, Mutation, BgGo, Runner, hints
<1>25. ASSUME NEW c \in Cred, BgUnhook(c) PROVE Bounded'
  BY <1>25 DEF BgUnhook, BgGo, Runner, hints
<1>26. ASSUME NEW c \in Cred, BgUnlock(c) PROVE Bounded'
  BY <1>26 DEF BgUnlock, Mutation, BgGo, Runner, hints
<1>27. ASSUME NEW c \in Cred, BgReturn(c) PROVE Bounded'
  BY <1>27 DEF BgReturn, BgGo, Runner, hints
<1>28. ASSUME NEW c \in Cred, BgRequeue(c) PROVE Bounded'
  BY <1>28 DEF BgRequeue, BgGo, Runner, hints
<1>29. ASSUME NEW c \in Cred, NewHints(c) PROVE Bounded'
  BY <1>29 DEF NewHints, BgGo, Runner, hints
<1>30. ASSUME NEW c \in Cred, Queue(c) PROVE Bounded'
  BY <1>30 DEF Queue, Enqueue, BgGo, Runner, hints
<1> QED BY <1>1, <1>2, <1>3, <1>4, <1>5, <1>6, <1>7, <1>8, <1>9, <1>10, <1>11, <1>12, <1>13, <1>14, <1>15, <1>16, <1>17, <1>18, <1>19, <1>20, <1>21, <1>22, <1>23, <1>24, <1>25, <1>26, <1>27, <1>28, <1>29, <1>30 DEF Next, FgNext, BgNext

(* Every step keeps what is being recorded. *)
LEMMA RecordingStep == ASSUME TypeOK, Bounded, Owned, RecordedIsStored, Recording, Next PROVE Recording'
<1> USE SaveAssumption DEF TypeOK, ThreadType, GateType, HintType, DataType, Bounded, Owned, Locked, Registered, Saves, Holds, Recording
<1>1. ASSUME NEW f \in Fg, FgAnnounce(f) PROVE Recording'
  BY <1>1 DEF FgAnnounce, FgGo, Mutation, hints, data
<1>2. ASSUME NEW f \in Fg, FgCancel(f) PROVE Recording'
  BY <1>2 DEF FgCancel, Preempt, Runner, FgGo, Mutation, hints, data
<1>3. ASSUME NEW f \in Fg, FgGate(f) PROVE Recording'
  BY <1>3 DEF FgGate, FgGo, Mutation, hints, data
<1>4. ASSUME NEW f \in Fg, FgGiveUp(f) PROVE Recording'
  BY <1>4 DEF FgGiveUp, Withdraw, FgGo, Mutation, hints, data
<1>5. ASSUME NEW f \in Fg, FgHeld(f) PROVE Recording'
  BY <1>5 DEF FgHeld, Withdraw, FgGo, Mutation, hints, data
<1>6. ASSUME NEW f \in Fg, FgBegin(f) PROVE Recording'
  BY <1>6 DEF FgBegin, FgGo, Mutation, hints, data
<1>7. ASSUME NEW f \in Fg, FgAwaited(f) PROVE Recording'
  BY <1>7 DEF FgAwaited, FgGo, Mutation, hints, data
<1>8. ASSUME NEW f \in Fg, FgGiveUpSave(f) PROVE Recording'
  BY <1>8 DEF FgGiveUpSave, FgGo, Mutation, hints, data
<1>9. ASSUME NEW f \in Fg, FgSave(f) PROVE Recording'
  BY <1>9 DEF FgSave, FgGo, Mutation, hints, data
<1>10. ASSUME NEW f \in Fg, FgEndSave(f) PROVE Recording'
  BY <1>10 DEF FgEndSave, FgGo, Mutation, hints, data
<1>11. ASSUME NEW f \in Fg, FgUnlock(f) PROVE Recording'
  BY <1>11 DEF FgUnlock, FgGo, Mutation, hints, data
<1>12. ASSUME NEW c \in Cred, RunTake(c) PROVE Recording'
  BY <1>12 DEF RunTake, BgGo, Runner, hints, data
<1>13. ASSUME NEW c \in Cred, BgStart(c) PROVE Recording'
  BY <1>13 DEF BgStart, BgGo, Runner, hints, data
<1>14. ASSUME NEW c \in Cred, BgGate(c) PROVE Recording'
  BY <1>14 DEF BgGate, BgGo, Runner, hints, data
<1>15. ASSUME NEW c \in Cred, BgRefused(c) PROVE Recording'
  BY <1>15 DEF BgRefused, BgGo, Runner, hints, data
<1>16. ASSUME NEW c \in Cred, BgRegister(c) PROVE Recording'
  BY <1>16, RegisterEffect, SMTT(40) DEF hints, data
<1>17. ASSUME NEW c \in Cred, BgSaveGate(c) PROVE Recording'
  BY <1>17, SaveGateEffect, SMTT(40) DEF hints, data
<1>18. ASSUME NEW c \in Cred, BgEnter(c) PROVE Recording'
  BY <1>18 DEF BgEnter, BgGo, Runner, hints, data
<1>19. ASSUME NEW c \in Cred, BgCheck(c) PROVE Recording'
  BY <1>19 DEF BgCheck, BgGo, Runner, hints, data, Stale
<1>20. ASSUME NEW c \in Cred, BgSaveOk(c) PROVE Recording'
  BY <1>20 DEF BgSaveOk, BgGo, Runner, hints, data
<1>21. ASSUME NEW c \in Cred, BgSaveFails(c) PROVE Recording'
  BY <1>21 DEF BgSaveFails, BgGo, Runner, hints, data
<1>22. ASSUME NEW c \in Cred, BgCommit(c) PROVE Recording'
  BY <1>22, CommitEffect DEF hints
<1>23. ASSUME NEW c \in Cred, BgLeave(c) PROVE Recording'
  BY <1>23 DEF BgLeave, BgGo, Runner, hints, data
<1>24. ASSUME NEW c \in Cred, BgClose(c) PROVE Recording'
  BY <1>24 DEF BgClose, Mutation, BgGo, Runner, hints, data
<1>25. ASSUME NEW c \in Cred, BgUnhook(c) PROVE Recording'
  BY <1>25 DEF BgUnhook, BgGo, Runner, hints, data
<1>26. ASSUME NEW c \in Cred, BgUnlock(c) PROVE Recording'
  BY <1>26 DEF BgUnlock, Mutation, BgGo, Runner, hints, data
<1>27. ASSUME NEW c \in Cred, BgReturn(c) PROVE Recording'
  BY <1>27 DEF BgReturn, BgGo, Runner, hints, data
<1>28. ASSUME NEW c \in Cred, BgRequeue(c) PROVE Recording'
  BY <1>28 DEF BgRequeue, BgGo, Runner, hints, data
<1>29. ASSUME NEW c \in Cred, NewHints(c) PROVE Recording'
  BY <1>29 DEF NewHints, BgGo, Runner, hints, data
<1>30. ASSUME NEW c \in Cred, Queue(c) PROVE Recording'
  <2>1. UNCHANGED <<rev, recorded, meta, stored>> BY <1>30 DEF Queue, data
  <2> QED BY <1>30, <2>1, QueueEffect, SMTT(40)
<1> QED BY <1>1, <1>2, <1>3, <1>4, <1>5, <1>6, <1>7, <1>8, <1>9, <1>10, <1>11, <1>12, <1>13, <1>14, <1>15, <1>16, <1>17, <1>18, <1>19, <1>20, <1>21, <1>22, <1>23, <1>24, <1>25, <1>26, <1>27, <1>28, <1>29, <1>30 DEF Next, FgNext, BgNext

(* What is recorded was stored, after every step too. *)
LEMMA RecordedIsStoredStep == ASSUME TypeOK, Bounded, Recording, RecordedIsStored, Next PROVE RecordedIsStored'
<1> USE SaveAssumption DEF TypeOK, ThreadType, GateType, HintType, DataType, Bounded, Recording, RecordedIsStored
<1>1. ASSUME NEW f \in Fg, FgAnnounce(f) PROVE RecordedIsStored'
  BY <1>1 DEF FgAnnounce, FgGo, Mutation, hints, data, Stale
<1>2. ASSUME NEW f \in Fg, FgCancel(f) PROVE RecordedIsStored'
  BY <1>2 DEF FgCancel, Preempt, Runner, FgGo, Mutation, hints, data, Stale
<1>3. ASSUME NEW f \in Fg, FgGate(f) PROVE RecordedIsStored'
  BY <1>3 DEF FgGate, FgGo, Mutation, hints, data, Stale
<1>4. ASSUME NEW f \in Fg, FgGiveUp(f) PROVE RecordedIsStored'
  BY <1>4 DEF FgGiveUp, Withdraw, FgGo, Mutation, hints, data, Stale
<1>5. ASSUME NEW f \in Fg, FgHeld(f) PROVE RecordedIsStored'
  BY <1>5 DEF FgHeld, Withdraw, FgGo, Mutation, hints, data, Stale
<1>6. ASSUME NEW f \in Fg, FgBegin(f) PROVE RecordedIsStored'
  BY <1>6 DEF FgBegin, FgGo, Mutation, hints, data, Stale
<1>7. ASSUME NEW f \in Fg, FgAwaited(f) PROVE RecordedIsStored'
  BY <1>7 DEF FgAwaited, FgGo, Mutation, hints, data, Stale
<1>8. ASSUME NEW f \in Fg, FgGiveUpSave(f) PROVE RecordedIsStored'
  BY <1>8 DEF FgGiveUpSave, FgGo, Mutation, hints, data, Stale
<1>9. ASSUME NEW f \in Fg, FgSave(f) PROVE RecordedIsStored'
  BY <1>9 DEF FgSave, FgGo, Mutation, hints, data, Stale
<1>10. ASSUME NEW f \in Fg, FgEndSave(f) PROVE RecordedIsStored'
  BY <1>10 DEF FgEndSave, FgGo, Mutation, hints, data, Stale
<1>11. ASSUME NEW f \in Fg, FgUnlock(f) PROVE RecordedIsStored'
  BY <1>11 DEF FgUnlock, FgGo, Mutation, hints, data, Stale
<1>12. ASSUME NEW c \in Cred, RunTake(c) PROVE RecordedIsStored'
  BY <1>12 DEF RunTake, BgGo, Runner, hints, data, Stale
<1>13. ASSUME NEW c \in Cred, BgStart(c) PROVE RecordedIsStored'
  BY <1>13 DEF BgStart, BgGo, Runner, hints, data, Stale
<1>14. ASSUME NEW c \in Cred, BgGate(c) PROVE RecordedIsStored'
  BY <1>14 DEF BgGate, BgGo, Runner, hints, data, Stale
<1>15. ASSUME NEW c \in Cred, BgRefused(c) PROVE RecordedIsStored'
  BY <1>15 DEF BgRefused, BgGo, Runner, hints, data, Stale
<1>16. ASSUME NEW c \in Cred, BgRegister(c) PROVE RecordedIsStored'
  BY <1>16 DEF BgRegister, BgGo, Runner, hints, data, Stale
<1>17. ASSUME NEW c \in Cred, BgSaveGate(c) PROVE RecordedIsStored'
  BY <1>17 DEF BgSaveGate, BgGo, Runner, hints, data, Stale
<1>18. ASSUME NEW c \in Cred, BgEnter(c) PROVE RecordedIsStored'
  BY <1>18 DEF BgEnter, BgGo, Runner, hints, data, Stale
<1>19. ASSUME NEW c \in Cred, BgCheck(c) PROVE RecordedIsStored'
  BY <1>19 DEF BgCheck, BgGo, Runner, hints, data, Stale
<1>20. ASSUME NEW c \in Cred, BgSaveOk(c) PROVE RecordedIsStored'
  BY <1>20 DEF BgSaveOk, BgGo, Runner, hints, data, Stale
<1>21. ASSUME NEW c \in Cred, BgSaveFails(c) PROVE RecordedIsStored'
  BY <1>21 DEF BgSaveFails, BgGo, Runner, hints, data, Stale
<1>22. ASSUME NEW c \in Cred, BgCommit(c) PROVE RecordedIsStored'
  BY <1>22 DEF BgCommit, BgGo, Runner, hints, data, Stale
<1>23. ASSUME NEW c \in Cred, BgLeave(c) PROVE RecordedIsStored'
  BY <1>23 DEF BgLeave, BgGo, Runner, hints, data, Stale
<1>24. ASSUME NEW c \in Cred, BgClose(c) PROVE RecordedIsStored'
  BY <1>24 DEF BgClose, Mutation, BgGo, Runner, hints, data, Stale
<1>25. ASSUME NEW c \in Cred, BgUnhook(c) PROVE RecordedIsStored'
  BY <1>25 DEF BgUnhook, BgGo, Runner, hints, data, Stale
<1>26. ASSUME NEW c \in Cred, BgUnlock(c) PROVE RecordedIsStored'
  BY <1>26 DEF BgUnlock, Mutation, BgGo, Runner, hints, data, Stale
<1>27. ASSUME NEW c \in Cred, BgReturn(c) PROVE RecordedIsStored'
  BY <1>27 DEF BgReturn, BgGo, Runner, hints, data, Stale
<1>28. ASSUME NEW c \in Cred, BgRequeue(c) PROVE RecordedIsStored'
  BY <1>28 DEF BgRequeue, BgGo, Runner, hints, data, Stale
<1>29. ASSUME NEW c \in Cred, NewHints(c) PROVE RecordedIsStored'
  BY <1>29 DEF NewHints, BgGo, Runner, hints, data, Stale
<1>30. ASSUME NEW c \in Cred, Queue(c) PROVE RecordedIsStored'
  BY <1>30 DEF Queue, Enqueue, BgGo, Runner, hints, data, Stale
<1> QED BY <1>1, <1>2, <1>3, <1>4, <1>5, <1>6, <1>7, <1>8, <1>9, <1>10, <1>11, <1>12, <1>13, <1>14, <1>15, <1>16, <1>17, <1>18, <1>19, <1>20, <1>21, <1>22, <1>23, <1>24, <1>25, <1>26, <1>27, <1>28, <1>29, <1>30 DEF Next, FgNext, BgNext

(* Hints recorded as persisted are in the store and in the runtime credential, however *)
(* saves, cancellations, failures and newer hints interleave.                          *)
THEOREM RecordedCorrect == Spec => []RecordedIsStored
<1> DEFINE IInv == Bounded /\ Recording /\ RecordedIsStored
<1>1. Init => Owned
  BY SaveAssumption DEF Init, Owned, Locked, Registered, Admitted, Gated, Saves, Holds
<1>2. Init => IInv BY SaveAssumption DEF Init, Bounded, Recording, RecordedIsStored
<1>3. TypeOK /\ Owned /\ [Next]_vars => Owned' BY OwnedStep DEF Owned, vars
<1>4. TypeOK /\ Owned /\ IInv /\ Next => IInv'
  BY BoundedStep, RecordingStep, RecordedIsStoredStep
<1>5. IInv /\ UNCHANGED vars => IInv' BY DEF Bounded, Recording, RecordedIsStored, vars
<1> HIDE DEF IInv
<1>6. Spec => []IInv BY <1>1, <1>2, <1>3, <1>4, <1>5, TypeCorrect, PTL DEF Spec
<1> QED BY <1>6, PTL DEF IInv
-----------------------------------------------------------------------------
(* Cooldowns: numbers and sets of numbers. *)

(* A set of numbers has a least one. *)
LEMMA LeastNumber ==
    ASSUME NEW T \in SUBSET Nat, T # {} PROVE \E x \in T : \A y \in T : x <= y
<1>1. IsWellFoundedOn(OpToRel(<, Nat), Nat) BY NatLessThanWellFounded
<1>2. PICK x \in T : \A y \in T : ~(<<y, x>> \in OpToRel(<, Nat)) BY <1>1, WFMin
<1>3. \A y \in T : ~(y < x) BY <1>2 DEF OpToRel
<1>4. ASSUME NEW y \in T PROVE x <= y
  <2>1. x \in Nat /\ y \in Nat /\ ~(y < x) BY <1>3
  <2> QED BY <2>1
<1> QED BY <1>4

(* A finite set of numbers has a greatest one: take the smallest set that has none. *)
LEMMA GreatestNumber ==
    ASSUME NEW T \in SUBSET Nat, T # {}, IsFiniteSet(T) PROVE \E x \in T : \A y \in T : y <= x
<1> DEFINE Topped(S) == \E x \in S : \A y \in S : y <= x
           Bad == {S \in SUBSET T : S # {} /\ ~Topped(S)}
           Sizes == {Cardinality(S) : S \in Bad}
<1>1. \A S \in SUBSET T : IsFiniteSet(S) /\ Cardinality(S) \in Nat BY FS_Subset, FS_CardinalityType
<1>2. SUFFICES ASSUME Bad # {} PROVE FALSE OBVIOUS
<1>3. Sizes \in SUBSET Nat /\ Sizes # {} BY <1>1, <1>2
<1>4. PICK n \in Sizes : \A k \in Sizes : n <= k BY <1>3, LeastNumber
<1>5. PICK S \in Bad : Cardinality(S) = n BY <1>4
<1>6. PICK x \in S : TRUE BY <1>5
<1>7. S \ {x} \in SUBSET T /\ Cardinality(S \ {x}) = n - 1 BY <1>1, <1>5, <1>6, FS_RemoveElement
<1>8. S \ {x} \notin Bad
  <2>1. n \in Nat /\ ~(n <= n - 1) BY <1>3
  <2> QED BY <1>4, <1>7, <2>1
<1>9. CASE S \ {x} = {}
  <2>1. S = {x} /\ x \in Nat BY <1>5, <1>6, <1>9
  <2>2. Topped(S) BY <2>1
  <2> QED BY <1>5, <2>2
<1>10. CASE Topped(S \ {x})
  <2>1. PICK z \in S \ {x} : \A y \in S \ {x} : y <= z BY <1>10
  <2>2. x \in Nat /\ z \in Nat /\ S \subseteq Nat BY <1>5
  <2>3. CASE x <= z
    <3>1. \A y \in S : y <= z BY <2>1, <2>3
    <3> QED BY <1>5, <2>1, <3>1
  <2>4. CASE ~(x <= z)
    <3>1. \A y \in S : y <= x
      <4> SUFFICES ASSUME NEW y \in S, y # x PROVE y <= x BY <2>2
      <4>1. y \in Nat /\ y <= z BY <2>1, <2>2
      <4> QED BY <2>2, <2>4, <4>1
    <3> QED BY <1>5, <1>6, <3>1
  <2> QED BY <2>3, <2>4
<1> QED BY <1>7, <1>8, <1>9, <1>10

LEMMA MaxIs ==
    ASSUME NEW T \in SUBSET Nat, T # {}, IsFiniteSet(T) PROVE Max(T) \in T /\ \A y \in T : y <= Max(T)
<1>1. PICK z \in T : \A y \in T : y <= z BY GreatestNumber
<1>2. \A y \in T : z >= y BY <1>1
<1>3. Max(T) \in T /\ \A y \in T : Max(T) >= y BY <1>2 DEF Max
<1>4. \A y \in T : y \in Nat OBVIOUS
<1> QED BY <1>3, <1>4

LEMMA LargerIs ==
    ASSUME NEW a \in Nat, NEW b \in Nat
    PROVE  /\ Larger(a, b) \in Nat /\ Larger(a, b) >= a /\ Larger(a, b) >= b
           /\ Larger(a, b) \in {a, b}
<1>1. \E x \in {a, b} : \A y \in {a, b} : x >= y
  <2>1. CASE a >= b BY <2>1
  <2>2. CASE b >= a BY <2>2
  <2> QED BY <2>1, <2>2
<1>2. Max({a, b}) \in {a, b} /\ \A y \in {a, b} : Max({a, b}) >= y BY <1>1 DEF Max
<1> QED BY <1>2 DEF Larger

LEMMA EarliestIs ==
    ASSUME NEW T \in SUBSET Nat
    PROVE  Earliest(T) \in Nat /\ (T # {} => Earliest(T) \in T /\ \A y \in T : Earliest(T) <= y)
<1>1. CASE T = {} BY <1>1 DEF Earliest
<1>2. CASE T # {}
  <2>1. PICK x \in T : \A y \in T : x <= y BY <1>2, LeastNumber
  <2>2. Min(T) \in T /\ \A y \in T : Min(T) <= y BY <2>1 DEF Min
  <2> QED BY <1>2, <2>2 DEF Earliest
<1> QED BY <1>1, <1>2

(* A power of two counts the subsets of a set. *)
LEMMA PowerIs == ASSUME NEW n \in Nat PROVE 2 ^ n \in Nat /\ 2 ^ n >= 1
<1> DEFINE S == SUBSET (1 .. n)
<1>1. IsFiniteSet(1 .. n) /\ Cardinality(1 .. n) = n BY FS_Interval
<1>2. IsFiniteSet(S) /\ Cardinality(S) = 2 ^ n BY <1>1, FS_SUBSET
<1>3. Cardinality(S) \in Nat BY <1>2, FS_CardinalityType
<1>4. S # {} OBVIOUS
<1>5. Cardinality(S) # 0 BY <1>2, <1>4, FS_EmptySet
<1> QED BY <1>2, <1>3, <1>5

(* A step of the ladder is never empty and never exceeds the last one. *)
LEMMA BackoffIs ==
    ASSUME NEW level \in Nat
    PROVE  /\ Backoff(level) \in Nat /\ Backoff(level) >= 1 /\ Backoff(level) <= BackoffMax
           /\ NextLevel(level) \in Nat
<1>1. BackoffMax \in Nat /\ BackoffMax >= 1 BY CooldownAssumption
<1>2. 2 ^ level \in Nat /\ 2 ^ level >= 1 BY PowerIs
<1> DEFINE p == 2 ^ level
<1>3. Backoff(level) = IF p >= BackoffMax THEN BackoffMax ELSE p BY DEF Backoff
<1>4. NextLevel(level) = IF p >= BackoffMax THEN level ELSE level + 1 BY DEF NextLevel
<1>5. p \in Nat /\ p >= 1 BY <1>2
<1> HIDE DEF p
<1> QED BY <1>1, <1>3, <1>4, <1>5

-----------------------------------------------------------------------------
(* The invariant. *)

(* A model's own layer, no later than most. *)
OwnOK(s, most) ==
    /\ s \in Layer({Nil}) /\ ~Wrapped(s) /\ s.error # "exhausted"
    /\ s.unavailable => s.retry > 0
    /\ s.quota.exc => s.quota.recover > 0
    /\ s.retry <= most /\ s.quota.recover <= most

(* A state of a model, over its own layer: it is no later than the model's  *)
(* failures justify, or the credential's if the credential's quota is on it. *)
Within(s, most, credMost) ==
    /\ s \in States
    /\ s.unavailable => s.retry > 0
    /\ s.quota.exc => s.quota.recover > 0
    /\ \/ s.retry <= most /\ s.quota.recover <= most
       \/ /\ Wrapped(s) /\ s.quota.exc
          /\ s.retry <= most \/ s.retry <= credMost
          /\ s.quota.recover <= most \/ s.quota.recover <= credMost
    /\ s.shadow # Nil => OwnOK(s.shadow, most)

(* A layer that holds the model back until the given time, recorded after   *)
(* the execution with the given number began.                               *)
HeldUntil(s, until, failed) == s.unavailable /\ s.retry >= until /\ s.seq >= failed

(* What the failures of m itself ask for is in the state, and in the own    *)
(* layer of one that the credential's quota covers.                         *)
OwedIn(s, m, d) ==
    d.own[m] > now =>
        /\ HeldUntil(s, d.own[m], d.failed[m])
        /\ Wrapped(s) => s.shadow # Nil /\ HeldUntil(s.shadow, d.own[m], d.failed[m])

(* The state of m.  The two layers are told apart, unless m reported the    *)
(* credential's quota while the credential was terminal.                    *)
ModelOK(s, m, d) ==
    /\ Within(s, d.ownMost[m], d.credMost)
    /\ m \notin d.mixed => /\ OwnOK(s, d.ownMost[m]) \/ (Wrapped(s) /\ s.quota.exc)
                           /\ OwedIn(s, m, d)

(* The credential's quota is on every model, or there is nothing below it.  *)
Covered(k, t, d) == \A m \in k : Wrapped(t[m]) \/ t[m] = Reset \/ m \in d.mixed

(* The same for the credential.  While its quota is on it covers every      *)
(* model; what it aggregates from its models, one of them has too.          *)
AuthOK(a, k, t, d) ==
    /\ a \in Credentials
    /\ a.quota.exc => a.quota.recover > 0
    /\ a.quota.reason = "credential" =>
          a.quota.exc /\ a.quota.recover <= d.credMost /\ a.retry <= d.credMost
    /\ k = {} => a.retry <= d.credMost /\ a.quota.recover <= d.credMost
    /\ a.unavailable /\ a.retry > now =>
          \/ a.retry <= d.credMost /\ a.quota.recover <= d.credMost
          \/ \E m \in k : t[m].unavailable /\ t[m].retry >= a.retry
    /\ d.cred > now => /\ a.unavailable /\ (a.retry = 0 \/ a.retry >= d.cred)
                       /\ a.quota.reason = "credential" /\ a.quota.recover >= d.cred
    /\ CredentialQuota(a) => Covered(k, t, d)

LiveOK(k, t, a, d) ==
    /\ k \subseteq Model
    /\ \A m \in Model : ModelOK(t[m], m, d)
    /\ \A m \in Model \ k : t[m] = Reset
    /\ AuthOK(a, k, t, d)

(* The records, against the failures that had been reported when they were saved. *)
Kept(r) == {m \in Model : r.st[m] # Nil}
DiskOK(r, d) ==
    /\ \A m \in Kept(r) : ModelOK(r.st[m], m, d) /\ r.st[m].unavailable
    /\ \A m \in Model \ d.mixed : d.own[m] > now => m \in Kept(r)
    /\ r.auth # Nil => AuthOK(r.auth, Kept(r), r.st, d) /\ r.auth.unavailable /\ r.auth.retry # 0
    /\ d.cred > now => r.auth # Nil

(* What a refused refresh leaves behind. *)
RefusedOK ==
    /\ terminal => due.refused /\ auth.unavailable /\ auth.retry = 0
    /\ known = {} /\ auth.unavailable => auth.retry > 0 \/ auth.quota.recover > 0 \/ due.refused

CooldownInv ==
    /\ CooldownTypeOK
    /\ LiveOK(known, st, auth, due)
    /\ DiskOK(disk, dueDisk)
    /\ RefusedOK
    /\ observed => due.seen
    /\ \A m \in Model : due.failed[m] <= seq

-----------------------------------------------------------------------------
(* Layers. *)

(* What the operators on layers read besides their arguments. *)
Clock ==
    /\ now \in Nat /\ now > 0 /\ seq \in 0 .. MaxSeq
    /\ auth \in Credentials
    /\ auth.quota.reason = "credential" => auth.quota.exc

LEMMA LayerIs ==
    ASSUME NEW s, s \in Layer({Nil}) \/ s \in States
    PROVE  /\ s \in States /\ s.unavailable \in BOOLEAN /\ s.retry \in Nat /\ s.quota \in Quotas
           /\ s.quota.exc \in BOOLEAN /\ s.quota.recover \in Nat /\ s.quota.level \in Nat
           /\ s.error \in {"", "own", "exhausted", "unauthorized"}
           /\ s.seq \in 0 .. MaxSeq /\ s.propagated \in BOOLEAN
           /\ s.shadow # Nil => s.shadow \in Layer({Nil})
           /\ s \in Layer({Nil}) <=> s.shadow = Nil
           /\ s # Nil
<1>1. s \in States BY DEF States, Layer
<1>2. s # Nil BY <1>1, NilAssumption
<1>3. s \in Layer({Nil}) => s.shadow = Nil BY DEF Layer
<1>4. ASSUME s.shadow = Nil PROVE s \in Layer({Nil}) BY <1>1, <1>4 DEF States, Layer
<1> QED BY <1>1, <1>2, <1>3, <1>4 DEF States, Layer, Quotas

LEMMA ResetIs == ASSUME NEW most \in Nat PROVE OwnOK(Reset, most) /\ Reset.quota = NoQuota /\ ~Reset.quota.exc
<1>1. MaxSeq \in Nat BY CooldownAssumption
<1>2. NoQuota \in Quotas /\ ~NoQuota.exc /\ NoQuota.recover = 0 /\ NoQuota.reason = "" BY DEF NoQuota, Quotas
<1>3. 0 \in Nat /\ 0 \in 0 .. MaxSeq BY <1>1
<1>4. Reset \in Layer({Nil}) BY <1>2, <1>3, Zenon DEF Reset, Layer
<1>5. ~Reset.unavailable /\ ~Reset.propagated /\ Reset.error = "" /\ Reset.quota = NoQuota BY Zenon DEF Reset
<1>6. Reset.retry = 0 /\ Reset.quota.recover = 0 BY <1>2, <1>5 DEF Reset
<1>7. ~Wrapped(Reset) /\ Reset.error # "exhausted" BY <1>2, <1>5 DEF Wrapped
<1>8. 0 <= most OBVIOUS
<1> QED BY <1>2, <1>4, <1>5, <1>6, <1>7, <1>8, Zenon DEF OwnOK

(* A layer of its own is within its failures, and so is a model's state if  *)
(* it is such a layer that lasts as long as they ask for.                   *)
LEMMA OwnIs ==
    ASSUME NEW s, NEW most \in Nat, OwnOK(s, most)
    PROVE  /\ s \in States /\ s \in Layer({Nil}) /\ s.shadow = Nil /\ ~Wrapped(s) /\ s # Nil
           /\ s.retry \in Nat /\ s.quota \in Quotas /\ s.quota.recover \in Nat /\ s.quota.level \in Nat
           /\ s.seq \in 0 .. MaxSeq
           /\ \A credMost : Within(s, most, credMost)
           /\ OwnQuota(s) = s.quota
<1>1. s \in States /\ s \in Layer({Nil}) /\ s.shadow = Nil /\ ~Wrapped(s) BY LayerIs DEF OwnOK
<1> QED BY <1>1, LayerIs DEF OwnOK, Within, OwnQuota

LEMMA ResetOK ==
    ASSUME now \in Nat, NEW d \in Dues, NEW m \in Model, ~(d.own[m] > now) \/ m \in d.mixed
    PROVE  /\ ModelOK(Reset, m, d) /\ Reset \in States /\ ~Wrapped(Reset) /\ Reset.shadow = Nil
           /\ OwnQuota(Reset) = NoQuota
<1>1. d.ownMost[m] \in Nat BY DEF Dues
<1>2. OwnOK(Reset, d.ownMost[m]) /\ Reset.quota = NoQuota BY <1>1, ResetIs
<1> QED BY <1>1, <1>2, OwnIs DEF ModelOK, OwedIn

LEMMA FailureIs ==
    ASSUME NEW f \in Failure
    PROVE  /\ f.hint \in Nat /\ f.scope \in BOOLEAN
           /\ f.kind \in {"plain", "unauthorized", "challenge", "quota"}
           /\ f.kind # "quota" => ~f.scope
           /\ f.kind = "unauthorized" => f.hint # 0
           /\ f.kind = "challenge" => f.hint = 0
           /\ Least(f) \in Nat /\ Most(f) \in Nat /\ Least(f) >= 1
<1>1. Hints \subseteq Nat /\ Durations \subseteq Nat /\ BackoffMax \in Nat BY CooldownAssumption
<1>2. /\ f.hint \in Nat /\ f.scope \in BOOLEAN
      /\ f.kind \in {"plain", "unauthorized", "challenge", "quota"}
      /\ f.kind # "quota" => ~f.scope
      /\ f.kind = "unauthorized" => f.hint # 0
      /\ f.kind = "challenge" => f.hint = 0
  <2>1. CASE f \in [kind : {"plain"}, hint : Durations, scope : {FALSE}]
    <3>1. f.kind = "plain" /\ f.hint \in Durations /\ ~f.scope /\ f.scope \in BOOLEAN BY <2>1, Zenon
    <3> QED BY <1>1, <3>1
  <2>2. CASE f \in [kind : {"unauthorized"}, hint : Durations \ {0}, scope : {FALSE}]
    <3>1. f.kind = "unauthorized" /\ f.hint \in Durations \ {0} /\ ~f.scope /\ f.scope \in BOOLEAN BY <2>2, Zenon
    <3> QED BY <1>1, <3>1
  <2>3. CASE f \in [kind : {"challenge"}, hint : {0}, scope : {FALSE}]
    <3>1. f.kind = "challenge" /\ f.hint = 0 /\ ~f.scope /\ f.scope \in BOOLEAN BY <2>3, Zenon
    <3> QED BY <3>1
  <2>4. CASE f \in [kind : {"quota"}, hint : Hints, scope : BOOLEAN] BY <1>1, <2>4
  <2> QED BY <2>1, <2>2, <2>3, <2>4 DEF Failure
<1> QED BY <1>1, <1>2 DEF Least, Most

(* A quota that is built is a quota. *)
LEMMA QuotaIs ==
    ASSUME NEW reason \in {"quota", "credential", "challenge"}, NEW recover \in Nat, NEW level \in Nat
    PROVE  LET q == Quota(reason, recover, level)
           IN  q \in Quotas /\ q.exc /\ q.reason = reason /\ q.recover = recover /\ q.level = level
  BY DEF Quota, Quotas

(* A window that is open keeps its deadline and its level. *)
LEMMA AfterFailureIs ==
    ASSUME Clock, NEW q \in Quotas
    PROVE  LET a == AfterFailure(q)
           IN  /\ a.next \in Nat /\ a.level \in Nat /\ a.next >= now + 1
               /\ a.next <= now + BackoffMax \/ a.next = q.recover
               /\ q.recover > now => a.level = q.level
<1>1. q.recover \in Nat /\ q.level \in Nat /\ now \in Nat /\ BackoffMax \in Nat
  BY CooldownAssumption DEF Quotas, Clock
<1>2. CASE q.recover > now BY <1>1, <1>2 DEF AfterFailure
<1>3. CASE ~(q.recover > now) BY <1>1, <1>3, BackoffIs DEF AfterFailure
<1> QED BY <1>2, <1>3

(* The deadline of a quota failure.  A failure of the model alone follows   *)
(* the ladder of its own quota, one of the credential that of the           *)
(* credential's.                                                            *)
LEMMA QuotaDeadlineIs ==
    ASSUME Clock, NEW f \in Failure, f.kind = "quota", NEW s, s.quota \in Quotas
    PROVE  LET d == QuotaDeadline(f, s)
               q == IF f.scope THEN auth.quota ELSE s.quota
               live == IF f.scope THEN auth.quota.reason = "credential" ELSE TRUE
           IN  /\ d.next \in Nat /\ d.level \in Nat /\ d.next >= now + Least(f)
               /\ d.next <= now + Most(f) \/ (live /\ d.next = q.recover)
               /\ live /\ q.recover > now => d.level = q.level
<1>1. now \in Nat /\ auth.quota \in Quotas /\ (auth.quota.reason = "credential" => auth.quota.exc)
  BY DEF Clock, Credentials
<1>2. f.hint \in Nat BY FailureIs
<1>3. NoQuota \in Quotas /\ NoQuota.recover = 0 BY DEF NoQuota, Quotas
<1> DEFINE own == IF f.scope THEN IF auth.quota.exc /\ auth.quota.reason = "credential"
                                  THEN auth.quota ELSE NoQuota
                  ELSE s.quota
<1>4. own \in Quotas /\ own.level \in Nat /\ own.recover \in Nat BY <1>1, <1>3 DEF Quotas
<1>5. QuotaDeadline(f, s) = IF f.hint # 0 THEN [next |-> now + f.hint, level |-> own.level]
                            ELSE AfterFailure(own)
  BY DEF QuotaDeadline
<1>6. /\ f.scope /\ auth.quota.reason = "credential" => own = auth.quota
      /\ f.scope /\ auth.quota.reason # "credential" => own = NoQuota
      /\ ~f.scope => own = s.quota
  BY <1>1
<1> HIDE DEF own
<1>7. CASE f.hint # 0
  <2>1. Least(f) = f.hint /\ Most(f) = f.hint BY <1>7 DEF Least, Most, CoolsNot
  <2> QED BY <1>1, <1>2, <1>4, <1>5, <1>6, <1>7, <2>1
<1>8. CASE f.hint = 0
  <2>1. Least(f) = 1 /\ Most(f) = BackoffMax BY <1>8 DEF Least, Most, CoolsNot
  <2>2. /\ AfterFailure(own).next \in Nat /\ AfterFailure(own).level \in Nat
        /\ AfterFailure(own).next >= now + 1
        /\ AfterFailure(own).next <= now + BackoffMax \/ AfterFailure(own).next = own.recover
        /\ own.recover > now => AfterFailure(own).level = own.level
    BY <1>4, AfterFailureIs
  <2>3. BackoffMax \in Nat BY CooldownAssumption
  <2>4. own = NoQuota => AfterFailure(own).next <= now + BackoffMax BY <1>1, <1>3, <2>2, <2>3
  <2> QED BY <1>1, <1>4, <1>5, <1>6, <1>8, <2>1, <2>2, <2>4
<1> QED BY <1>2, <1>7, <1>8

(* What a failure of the model alone writes to a state that no credential   *)
(* quota covers.                                                            *)
LEMMA WrittenOwn ==
    ASSUME Clock, NEW f \in Failure, ~f.scope, NEW most \in Nat,
           NEW s \in States, ~Wrapped(s), s.quota.exc => s.quota.recover > 0, s.quota.recover <= most,
           NEW more \in Nat, more >= most, more >= now + Most(f)
    PROVE  LET w == Written(f, s)
           IN  /\ w \in States /\ ~Wrapped(w) /\ w.shadow = s.shadow
               /\ CoolsNot(f) => w.retry = 0
               /\ ~CoolsNot(f) => w.retry >= now + Least(f) /\ w.retry <= more
               /\ w.quota.recover <= more /\ (w.quota.exc => w.quota.recover > 0)
               /\ s.quota.exc /\ s.quota.recover > now /\ s.quota.reason = "quota" /\ w.quota.reason = "quota"
                  => w.quota.level = s.quota.level
<1> DEFINE w == Written(f, s)
<1>1. now \in Nat /\ now > 0 BY DEF Clock
<1>2. /\ f.hint \in Nat /\ Least(f) \in Nat /\ Most(f) \in Nat /\ Least(f) >= 1
      /\ f.kind \in {"plain", "unauthorized", "challenge", "quota"}
      /\ f.kind = "unauthorized" => f.hint # 0
  BY FailureIs
<1>3. /\ s.retry \in Nat /\ s.quota \in Quotas /\ s.quota.recover \in Nat /\ s.quota.level \in Nat
  BY LayerIs
<1>4. ASSUME f.kind \in {"plain", "unauthorized"}, NEW retry \in Nat, w = [s EXCEPT !.retry = retry],
             CoolsNot(f) => retry = 0, ~CoolsNot(f) => retry = now + f.hint /\ f.hint # 0
      PROVE  /\ w \in States /\ ~Wrapped(w) /\ w.shadow = s.shadow
             /\ CoolsNot(f) => w.retry = 0
             /\ ~CoolsNot(f) => w.retry >= now + Least(f) /\ w.retry <= more
             /\ w.quota = s.quota /\ w.quota.recover <= more
  <2>1. /\ w \in States /\ w.retry = retry /\ w.quota = s.quota /\ w.propagated = s.propagated
        /\ w.shadow = s.shadow
    BY <1>4 DEF States, Layer
  <2>2. ~Wrapped(w) BY <2>1 DEF Wrapped
  <2>3. ~CoolsNot(f) => Least(f) = f.hint /\ Most(f) = f.hint BY <1>4 DEF Least, Most
  <2> HIDE DEF w
  <2>4. ~CoolsNot(f) => w.retry >= now + Least(f) /\ w.retry <= more BY <1>1, <1>2, <1>4, <2>1, <2>3
  <2>5. w.quota.recover <= more BY <1>3, <2>1
  <2> QED BY <1>4, <2>1, <2>2, <2>4, <2>5
<1>5. CASE CoolsNot(f)
  <2>1. f.kind = "plain" /\ w = [s EXCEPT !.retry = 0] BY <1>5 DEF CoolsNot, Written
  <2> HIDE DEF w
  <2>2. /\ w \in States /\ ~Wrapped(w) /\ w.shadow = s.shadow /\ w.retry = 0
        /\ w.quota = s.quota /\ w.quota.recover <= more
    BY <1>4, <1>5, <2>1
  <2>3. w.quota.exc => w.quota.recover > 0 BY <2>2
  <2> QED BY <1>5, <2>2, <2>3 DEF w
<1>6. CASE f.kind \in {"plain", "unauthorized"} /\ ~CoolsNot(f)
  <2>1. w = [s EXCEPT !.retry = now + f.hint] BY <1>6 DEF Written
  <2>2. f.hint # 0 /\ now + f.hint \in Nat BY <1>1, <1>2, <1>6 DEF CoolsNot
  <2> HIDE DEF w
  <2>3. /\ w \in States /\ ~Wrapped(w) /\ w.shadow = s.shadow
        /\ w.retry >= now + Least(f) /\ w.retry <= more
        /\ w.quota = s.quota /\ w.quota.recover <= more
    BY <1>4, <1>6, <2>1, <2>2
  <2>4. w.quota.exc => w.quota.recover > 0 BY <2>3
  <2> QED BY <1>6, <2>3, <2>4 DEF w
<1>7. CASE f.kind = "challenge"
  <2> DEFINE next == now + Backoff(s.quota.level)
             q == Quota("challenge", next, NextLevel(s.quota.level))
  <2>1. w = [s EXCEPT !.retry = next, !.quota = q] /\ ~CoolsNot(f) BY <1>7 DEF Written, CoolsNot
  <2>2. f.hint = 0 /\ Least(f) = 1 /\ Most(f) = BackoffMax BY <1>7, FailureIs DEF Least, Most, CoolsNot
  <2>3. next \in Nat /\ next >= now + 1 /\ next <= now + BackoffMax /\ NextLevel(s.quota.level) \in Nat
    BY <1>1, <1>3, BackoffIs, CooldownAssumption
  <2>4. q \in Quotas /\ q.recover = next /\ q.reason = "challenge" BY <2>3, QuotaIs
  <2> HIDE DEF next, q
  <2>5. /\ w \in States /\ w.retry = next /\ w.quota = q /\ w.propagated = s.propagated /\ w.shadow = s.shadow
    BY <1>3, <2>1, <2>3, <2>4 DEF States, Layer
  <2>6. ~Wrapped(w) BY <2>4, <2>5 DEF Wrapped
  <2> QED BY <1>1, <1>2, <2>1, <2>2, <2>3, <2>4, <2>5, <2>6
<1>8. CASE f.kind = "quota"
  <2> DEFINE d == QuotaDeadline(f, s)
             next == IF s.quota.exc THEN Larger(d.next, s.quota.recover) ELSE d.next
             q == Quota("quota", next, d.level)
  <2>1. w = [s EXCEPT !.retry = next, !.quota = q] /\ ~CoolsNot(f) BY <1>8 DEF Written, CoolsNot
  <2>2. /\ d.next \in Nat /\ d.level \in Nat /\ d.next >= now + Least(f)
        /\ d.next <= now + Most(f) \/ d.next = s.quota.recover
        /\ s.quota.recover > now => d.level = s.quota.level
    BY <1>3, <1>8, QuotaDeadlineIs
  <2>3. next \in Nat /\ next >= d.next /\ next \in {d.next, s.quota.recover}
    <3>1. LET l == Larger(d.next, s.quota.recover)
          IN  l \in Nat /\ l >= d.next /\ l \in {d.next, s.quota.recover}
      BY <1>3, <2>2, LargerIs
    <3>2. d.next >= d.next BY <2>2
    <3>3. CASE s.quota.exc BY <3>1, <3>3
    <3>4. CASE ~s.quota.exc BY <2>2, <3>2, <3>4
    <3> QED BY <3>3, <3>4
  <2>4. q \in Quotas /\ q.recover = next /\ q.level = d.level /\ q.reason = "quota" BY <2>2, <2>3, QuotaIs
  <2> HIDE DEF d, next, q
  <2>5. /\ w \in States /\ w.retry = next /\ w.quota = q /\ w.propagated = s.propagated /\ w.shadow = s.shadow
    BY <1>3, <2>1, <2>3, <2>4 DEF States, Layer
  <2>6. ~Wrapped(w) BY <2>4, <2>5 DEF Wrapped
  <2>7. next >= now + Least(f) /\ next <= more /\ next > 0 BY <1>1, <1>2, <1>3, <2>2, <2>3
  <2> QED BY <2>1, <2>2, <2>4, <2>5, <2>6, <2>7
<1> QED BY <1>2, <1>5, <1>6, <1>7, <1>8

(* The same with the rule that a later failure only extends a live cooldown. *)
LEMMA FailedOwn ==
    ASSUME Clock, NEW f \in Failure, ~f.scope, NEW most \in Nat,
           NEW s \in States, ~Wrapped(s), s.quota.exc => s.quota.recover > 0,
           s.retry <= most, s.quota.recover <= most,
           NEW more \in Nat, more >= most, more >= now + Most(f)
    PROVE  LET w == Failed(f, s)
           IN  /\ w \in States /\ ~Wrapped(w) /\ w.shadow = s.shadow /\ w.seq = seq
               /\ w.error \in {"own", "unauthorized"}
               /\ w.unavailable => w.retry > 0
               /\ w.quota.exc => w.quota.recover > 0
               /\ w.retry <= more /\ w.quota.recover <= more
               /\ ~CoolsNot(f) => HeldUntil(w, now + Least(f), seq) /\ (s.retry > now => w.retry >= s.retry)
               /\ s.quota.exc /\ s.quota.recover > now /\ s.quota.reason = "quota" /\ w.quota.reason = "quota"
                  => w.quota.level = s.quota.level
<1> DEFINE v == Written(f, s)
           w == Failed(f, s)
           retry == IF v.retry # 0 /\ s.retry > now THEN Larger(v.retry, s.retry) ELSE v.retry
           error == ErrorOf(f)
           cools == ~CoolsNot(f)
<1>1. /\ v \in States /\ ~Wrapped(v) /\ v.shadow = s.shadow
      /\ CoolsNot(f) => v.retry = 0
      /\ ~CoolsNot(f) => v.retry >= now + Least(f) /\ v.retry <= more
      /\ v.quota.recover <= more /\ (v.quota.exc => v.quota.recover > 0)
      /\ s.quota.exc /\ s.quota.recover > now /\ s.quota.reason = "quota" /\ v.quota.reason = "quota"
         => v.quota.level = s.quota.level
  BY WrittenOwn
<1>2. now \in Nat /\ now > 0 /\ seq \in 0 .. MaxSeq /\ seq \in Nat BY CooldownAssumption DEF Clock
<1>3. s.retry \in Nat /\ v.retry \in Nat /\ v.quota.recover \in Nat BY <1>1, LayerIs
<1>4. Least(f) \in Nat /\ Least(f) >= 1 BY FailureIs
<1>5. error \in {"own", "unauthorized"} BY DEF ErrorOf
<1>6. /\ retry \in Nat /\ retry <= more /\ (CoolsNot(f) => retry = 0)
      /\ ~CoolsNot(f) => retry >= v.retry /\ (s.retry > now => retry >= s.retry)
  <2>1. LET l == Larger(v.retry, s.retry)
        IN  l \in Nat /\ l >= v.retry /\ l >= s.retry /\ l \in {v.retry, s.retry}
    BY <1>3, LargerIs
  <2>2. CASE CoolsNot(f) BY <1>1, <2>2
  <2>3. CASE ~CoolsNot(f) /\ s.retry > now
    <3>1. v.retry # 0 BY <1>1, <1>2, <1>3, <1>4, <2>3
    <3>2. retry = Larger(v.retry, s.retry) BY <2>3, <3>1
    <3> HIDE DEF retry
    <3> QED BY <1>1, <1>3, <2>1, <2>3, <3>2
  <2>4. CASE ~CoolsNot(f) /\ ~(s.retry > now)
    <3>1. retry = v.retry BY <2>4
    <3> HIDE DEF retry
    <3> QED BY <1>1, <1>3, <2>4, <3>1
  <2> QED BY <2>2, <2>3, <2>4
<1>7. w = [v EXCEPT !.unavailable = cools, !.seq = seq, !.retry = retry, !.error = error]
  BY <1>1 DEF Failed, States, Layer
<1>8. cools \in BOOLEAN OBVIOUS
<1> HIDE DEF v, retry, error, cools
<1>9. /\ w \in States /\ w.unavailable = cools /\ w.seq = seq /\ w.retry = retry /\ w.error = error
      /\ w.quota = v.quota /\ w.propagated = v.propagated /\ w.shadow = v.shadow
  <2>1. v \in States /\ seq \in 0 .. MaxSeq /\ retry \in Nat BY <1>1, <1>2, <1>6
  <2>2. error \in {"", "own", "exhausted", "unauthorized"} BY <1>5
  <2> HIDE DEF w
  <2>3. cools \in {TRUE, FALSE} BY <1>8
  <2> QED BY <1>7, <2>1, <2>2, <2>3 DEF States, Layer
<1>10. ~Wrapped(w) BY <1>1, <1>9 DEF Wrapped
<1>11. ~CoolsNot(f) => retry > 0 /\ retry >= now + Least(f) /\ seq >= seq BY <1>1, <1>2, <1>3, <1>4, <1>6
<1>12. cools <=> ~CoolsNot(f) BY DEF cools
<1> HIDE DEF w
<1>13. w.unavailable => w.retry > 0 BY <1>9, <1>11, <1>12
<1>14. ~CoolsNot(f) => HeldUntil(w, now + Least(f), seq) BY <1>9, <1>11, <1>12 DEF HeldUntil
<1> QED BY <1>1, <1>5, <1>6, <1>9, <1>10, <1>13, <1>14 DEF w

(* What the failures ask for is made of numbers. *)
LEMMA DueIs ==
    ASSUME NEW d \in Dues, NEW m \in Model
    PROVE  /\ d.own[m] \in Nat /\ d.ownMost[m] \in Nat /\ d.failed[m] \in 0 .. MaxSeq /\ d.failed[m] \in Nat
           /\ d.cred \in Nat /\ d.credMost \in Nat
<1>1. MaxSeq \in Nat BY CooldownAssumption
<1> QED BY <1>1 DEF Dues

(* What the invariant says of a state, in parts. *)
LEMMA ModelIs ==
    ASSUME NEW d \in Dues, NEW m \in Model, NEW s, ModelOK(s, m, d)
    PROVE  /\ s \in States /\ s # Nil
           /\ s.unavailable \in BOOLEAN /\ s.retry \in Nat /\ s.quota \in Quotas /\ s.quota.recover \in Nat
           /\ s.seq \in 0 .. MaxSeq
           /\ s.quota.exc => s.quota.recover > 0
           /\ s.unavailable => s.retry > 0
           /\ s.retry <= d.ownMost[m] \/ s.retry <= d.credMost
           /\ s.quota.recover <= d.ownMost[m] \/ s.quota.recover <= d.credMost
           /\ ~(Wrapped(s) /\ s.quota.exc) => s.retry <= d.ownMost[m] /\ s.quota.recover <= d.ownMost[m]
           /\ m \notin d.mixed /\ ~Wrapped(s) => OwnOK(s, d.ownMost[m]) /\ s.shadow = Nil
           /\ m \notin d.mixed /\ Wrapped(s) => s.quota.exc
           /\ s.shadow # Nil => OwnOK(s.shadow, d.ownMost[m]) /\ s.shadow \in Layer({Nil})
<1>1. s \in States BY DEF ModelOK, Within
<1>2. m \notin d.mixed /\ ~Wrapped(s) => OwnOK(s, d.ownMost[m]) /\ s.shadow = Nil
  BY LayerIs DEF ModelOK, OwnOK
<1>3. m \notin d.mixed /\ Wrapped(s) => s.quota.exc BY DEF ModelOK, OwnOK
<1> QED BY <1>1, <1>2, <1>3, LayerIs DEF ModelOK, Within

(* Nothing is deeper than one shadow. *)
LEMMA ShallowIs ==
    ASSUME NEW s \in States
    PROVE  /\ Shallow(s) \in Layer({Nil}) /\ Shallow(s).unavailable = s.unavailable /\ Shallow(s).retry = s.retry
           /\ Shallow(s).quota = s.quota /\ Shallow(s).error = s.error /\ Shallow(s).seq = s.seq
           /\ Shallow(s).propagated = s.propagated
           /\ s.shadow = Nil => Shallow(s) = s
  BY DEF Shallow, States, Layer

(* A wrap is taken off: the model's own layer is back, if it is still on. *)
LEMMA TakenOff ==
    ASSUME Clock, NEW d \in Dues, NEW m \in Model, NEW s, ModelOK(s, m, d), Wrapped(s) \/ m \in d.mixed,
           NEW u, u = IF s.shadow # Nil /\ Active(s.shadow) THEN s.shadow ELSE Reset
    PROVE  /\ OwnOK(u, d.ownMost[m]) /\ ModelOK(u, m, d)
           /\ m \notin d.mixed => /\ OwnQuota(u) \in {OwnQuota(s), NoQuota}
                                  /\ OwnQuota(u) = OwnQuota(s) \/ OwnQuota(s).recover <= now
<1>1. now \in Nat /\ d.own[m] \in Nat /\ d.ownMost[m] \in Nat BY DueIs DEF Clock
<1>2. s.shadow # Nil => OwnOK(s.shadow, d.ownMost[m]) BY ModelIs
<1>3. m \notin d.mixed /\ d.own[m] > now => s.shadow # Nil /\ HeldUntil(s.shadow, d.own[m], d.failed[m])
  BY DEF ModelOK, OwedIn
<1>4. CASE s.shadow # Nil /\ Active(s.shadow)
  <2>1. u = s.shadow BY <1>4
  <2>2. OwnOK(u, d.ownMost[m]) /\ ~Wrapped(u) BY <1>2, <1>4, <2>1 DEF OwnOK
  <2>3. ModelOK(u, m, d) BY <1>1, <1>3, <2>1, <2>2, OwnIs DEF ModelOK, OwedIn
  <2>4. m \notin d.mixed => OwnQuota(u) = OwnQuota(s) BY <1>4, <2>1, <2>2 DEF OwnQuota
  <2> QED BY <2>2, <2>3, <2>4
<1>5. CASE ~(s.shadow # Nil /\ Active(s.shadow))
  <2>1. u = Reset BY <1>5
  <2>2. m \notin d.mixed => ~(d.own[m] > now)
    <3> SUFFICES ASSUME m \notin d.mixed, d.own[m] > now PROVE FALSE OBVIOUS
    <3>1. s.shadow # Nil /\ s.shadow.retry >= d.own[m] BY <1>3 DEF HeldUntil
    <3>2. s.shadow.retry \in Nat BY <1>1, <1>2, <3>1, OwnIs
    <3>3. s.shadow.retry > now BY <1>1, <3>1, <3>2
    <3> QED BY <1>5, <3>1, <3>3 DEF Active
  <2>3. OwnOK(u, d.ownMost[m]) /\ ModelOK(u, m, d) /\ OwnQuota(u) = NoQuota
    BY <1>1, <2>1, <2>2, ResetIs, ResetOK
  <2>4. m \notin d.mixed => OwnQuota(s).recover <= now
    <3> SUFFICES ASSUME Wrapped(s) PROVE OwnQuota(s).recover <= now OBVIOUS
    <3>1. CASE s.shadow = Nil
      <4>1. OwnQuota(s) = NoQuota /\ NoQuota.recover = 0 BY <3>1 DEF OwnQuota, NoQuota
      <4>2. 0 <= now BY <1>1
      <4> QED BY <4>1, <4>2
    <3>2. CASE s.shadow # Nil
      <4>1. OwnQuota(s) = s.shadow.quota /\ ~(s.shadow.quota.recover > now) BY <1>5, <3>2 DEF OwnQuota, Active
      <4>2. s.shadow.quota.recover \in Nat BY <1>1, <1>2, <3>2, OwnIs
      <4> QED BY <1>1, <4>1, <4>2
    <3> QED BY <3>1, <3>2
  <2> QED BY <2>3, <2>4
<1> QED BY <1>4, <1>5

(* An expired wrap is taken off before a failure is applied. *)
LEMMA UnwrappedIs ==
    ASSUME Clock, NEW d \in Dues, NEW m \in Model, NEW s, ModelOK(s, m, d)
    PROVE  /\ ModelOK(Unwrapped(s), m, d)
           /\ CredentialQuota(auth) => Unwrapped(s) = s
           /\ ~CredentialQuota(auth) => ~Wrapped(Unwrapped(s))
           /\ m \notin d.mixed => /\ OwnQuota(Unwrapped(s)) \in {OwnQuota(s), NoQuota}
                                  /\ OwnQuota(Unwrapped(s)) = OwnQuota(s) \/ OwnQuota(s).recover <= now
<1>1. CredentialQuota(auth) => auth.quota.exc BY DEF Clock, CredentialQuota
<1>2. CASE ~Wrapped(s)
  <2>1. Unwrapped(s) = s BY <1>2 DEF Unwrapped
  <2> QED BY <1>2, <2>1
<1>3. CASE CredentialQuota(auth)
  <2>1. Unwrapped(s) = s BY <1>1, <1>3 DEF Unwrapped
  <2> QED BY <1>3, <2>1
<1>4. CASE Wrapped(s) /\ ~CredentialQuota(auth)
  <2> DEFINE u == Unwrapped(s)
  <2>1. u = IF s.shadow # Nil /\ Active(s.shadow) THEN s.shadow ELSE Reset BY <1>4 DEF Unwrapped
  <2> HIDE DEF u
  <2>2. /\ OwnOK(u, d.ownMost[m]) /\ ModelOK(u, m, d)
        /\ m \notin d.mixed => /\ OwnQuota(u) \in {OwnQuota(s), NoQuota}
                               /\ OwnQuota(u) = OwnQuota(s) \/ OwnQuota(s).recover <= now
    BY <1>4, <2>1, TakenOff
  <2>3. ~Wrapped(u) BY <2>2 DEF OwnOK
  <2> QED BY <1>4, <2>2, <2>3 DEF u
<1> QED BY <1>2, <1>3, <1>4

(* A failure of the model alone, with no credential quota on: the failure   *)
(* is in its own layer.                                                     *)
OwedBy(f, m, d, e) ==
    /\ e.ownMost[m] >= d.ownMost[m] /\ e.ownMost[m] >= now + Most(f)
    /\ IF CoolsNot(f) THEN e.own[m] = 0 ELSE e.own[m] \in {d.own[m], now + Least(f)}
    /\ e.failed[m] = seq /\ e.credMost = d.credMost /\ e.mixed = d.mixed
LEMMA FailsAlone ==
    ASSUME Clock, NEW d \in Dues, NEW e \in Dues, NEW m \in Model, NEW f \in Failure, ~f.scope,
           OwedBy(f, m, d, e), NEW s, ModelOK(s, m, d), ~Wrapped(s),
           NEW x, x = Failed(f, s) \/ x = [Failed(f, s) EXCEPT !.shadow = Nil]
    PROVE  /\ ModelOK(x, m, e) /\ ~Wrapped(x) /\ x.error \in {"own", "unauthorized"} /\ x.seq = seq
           /\ s.shadow = Nil => OwnOK(x, e.ownMost[m])
           /\ m \notin d.mixed /\ Climbs(OwnQuota(s), OwnQuota(x)) /\ OwnQuota(s).reason = "quota"
              => OwnQuota(s).recover <= now
<1> DEFINE w == Failed(f, s)
<1>1. /\ now \in Nat /\ d.own[m] \in Nat /\ d.ownMost[m] \in Nat /\ e.ownMost[m] \in Nat
      /\ Least(f) \in Nat /\ Most(f) \in Nat /\ e.own[m] \in Nat
  BY DueIs, FailureIs DEF Clock
<1>2. /\ s \in States /\ s.retry <= d.ownMost[m] /\ s.quota.recover <= d.ownMost[m]
      /\ s.quota.exc => s.quota.recover > 0
      /\ s.shadow # Nil => OwnOK(s.shadow, d.ownMost[m])
      /\ s.retry \in Nat /\ s.quota.recover \in Nat /\ s.quota.level \in Nat
  BY ModelIs, LayerIs
<1>3. /\ w \in States /\ ~Wrapped(w) /\ w.shadow = s.shadow /\ w.seq = seq
      /\ w.error \in {"own", "unauthorized"}
      /\ w.unavailable => w.retry > 0
      /\ w.quota.exc => w.quota.recover > 0
      /\ w.retry <= e.ownMost[m] /\ w.quota.recover <= e.ownMost[m]
      /\ ~CoolsNot(f) => HeldUntil(w, now + Least(f), seq) /\ (s.retry > now => w.retry >= s.retry)
      /\ s.quota.exc /\ s.quota.recover > now /\ s.quota.reason = "quota" /\ w.quota.reason = "quota"
         => w.quota.level = s.quota.level
  BY <1>1, <1>2, FailedOwn DEF OwedBy
<1>4. x = w \/ x = [w EXCEPT !.shadow = Nil] OBVIOUS
<1> HIDE DEF w
<1>5. /\ x \in States /\ x.shadow \in {s.shadow, Nil} /\ x.retry = w.retry /\ x.unavailable = w.unavailable
      /\ x.quota = w.quota /\ x.propagated = w.propagated /\ x.error = w.error /\ x.seq = seq
  BY <1>3, <1>4 DEF States, Layer
<1>6. ~Wrapped(x) /\ x.retry \in Nat /\ x.quota.level \in Nat BY <1>3, <1>5, LayerIs DEF Wrapped
<1>7. x.shadow # Nil => OwnOK(x.shadow, e.ownMost[m])
  <2> SUFFICES ASSUME x.shadow # Nil PROVE OwnOK(x.shadow, e.ownMost[m]) OBVIOUS
  <2>1. OwnOK(x.shadow, d.ownMost[m]) BY <1>2, <1>5
  <2>2. x.shadow.retry \in Nat /\ x.shadow.quota.recover \in Nat BY <1>1, <2>1, OwnIs
  <2>3. \A n \in Nat : n <= d.ownMost[m] => n <= e.ownMost[m] BY <1>1 DEF OwedBy
  <2> QED BY <2>1, <2>2, <2>3 DEF OwnOK
<1>8. Within(x, e.ownMost[m], e.credMost) BY <1>3, <1>5, <1>7 DEF Within
<1>9. s.shadow = Nil => OwnOK(x, e.ownMost[m])
  <2> SUFFICES ASSUME s.shadow = Nil PROVE OwnOK(x, e.ownMost[m]) OBVIOUS
  <2>1. x \in Layer({Nil}) BY <1>5, LayerIs
  <2>2. x.error # "exhausted" BY <1>3, <1>5
  <2> QED BY <1>3, <1>5, <1>6, <2>1, <2>2 DEF OwnOK
<1>10. ASSUME m \notin d.mixed, e.own[m] > now PROVE HeldUntil(x, e.own[m], e.failed[m])
  <2>1. ~CoolsNot(f) BY <1>1, <1>10 DEF OwedBy
  <2>2. HeldUntil(w, now + Least(f), seq) BY <1>3, <2>1
  <2>3. x.unavailable /\ x.retry >= now + Least(f) /\ x.seq >= seq
    <3>1. w.unavailable /\ w.retry >= now + Least(f) /\ w.seq >= seq BY <2>2 DEF HeldUntil
    <3>2. x.unavailable = w.unavailable /\ x.retry = w.retry /\ x.seq = w.seq BY <1>3, <1>5
    <3> QED BY <3>1, <3>2
  <2>4. e.failed[m] = seq BY DEF OwedBy
  <2>5. CASE e.own[m] = now + Least(f) BY <2>3, <2>4, <2>5 DEF HeldUntil
  <2>6. CASE e.own[m] = d.own[m]
    <3>1. s.retry >= d.own[m] BY <1>10, <2>6 DEF ModelOK, OwedIn, HeldUntil
    <3>2. x.retry >= e.own[m] BY <1>1, <1>2, <1>3, <1>5, <1>6, <1>10, <2>1, <2>6, <3>1
    <3> QED BY <2>3, <2>4, <3>2 DEF HeldUntil
  <2> QED BY <2>1, <2>5, <2>6 DEF OwedBy
<1>11. ModelOK(x, m, e)
  <2>1. m \notin e.mixed => OwnOK(x, e.ownMost[m]) /\ OwedIn(x, m, e)
    <3> SUFFICES ASSUME m \notin e.mixed PROVE OwnOK(x, e.ownMost[m]) /\ OwedIn(x, m, e) OBVIOUS
    <3>1. m \notin d.mixed BY DEF OwedBy
    <3>2. s.shadow = Nil BY <3>1, ModelIs
    <3> QED BY <1>6, <1>9, <1>10, <3>1, <3>2 DEF OwedIn
  <2> QED BY <1>8, <2>1 DEF ModelOK
<1>12. OwnQuota(s) = s.quota /\ OwnQuota(x) = x.quota BY <1>6 DEF OwnQuota
<1>13. Climbs(OwnQuota(s), OwnQuota(x)) /\ OwnQuota(s).reason = "quota" => OwnQuota(s).recover <= now
  <2> SUFFICES ASSUME Climbs(s.quota, x.quota), s.quota.reason = "quota" PROVE s.quota.recover <= now BY <1>12
  <2>1. s.quota.exc /\ w.quota.reason = "quota" /\ w.quota.level > s.quota.level BY <1>5 DEF Climbs
  <2>2. w.quota.level # s.quota.level BY <1>2, <1>5, <1>6, <2>1
  <2>3. ~(s.quota.recover > now) BY <1>3, <2>1, <2>2
  <2> QED BY <1>1, <1>2, <2>3
<1> QED BY <1>3, <1>5, <1>6, <1>9, <1>11, <1>13

(* A failure of the model alone under a credential quota: it is in the      *)
(* model's own layer, and the state shows the later of the two.             *)
LEMMA ComposeIs ==
    ASSUME Clock, CredentialQuota(auth), NEW d \in Dues, NEW e \in Dues, auth.quota.recover <= d.credMost,
           NEW m \in Model, NEW f \in Failure, ~f.scope, OwedBy(f, m, d, e),
           NEW s, ModelOK(s, m, d), Wrapped(s) \/ s = Reset \/ m \in d.mixed
    PROVE  LET c == Compose(f, s)
           IN  /\ ModelOK(c, m, e) /\ Wrapped(c)
               /\ m \notin d.mixed /\ Climbs(OwnQuota(s), OwnQuota(c)) /\ OwnQuota(s).reason = "quota"
                  => OwnQuota(s).recover <= now
<1> DEFINE u == IF s.shadow # Nil THEN s.shadow ELSE Reset
           own == Failed(f, u)
           shadow == IF Active(own) THEN Shallow(own) ELSE Nil
           c == Compose(f, s)
           kept == s.quota.exc /\ s.quota.reason = "credential"
           retry == Larger(Larger(s.retry, own.retry), auth.quota.recover)
           quota == IF kept THEN s.quota ELSE Quota("credential", auth.quota.recover, auth.quota.level)
<1>1. /\ now \in Nat /\ now > 0 /\ seq \in 0 .. MaxSeq /\ auth.quota.recover \in Nat /\ auth.quota.level \in Nat
      /\ auth.quota.recover > now
  BY DEF Clock, Credentials, Quotas, CredentialQuota
<1>2. /\ s \in States /\ s.retry \in Nat /\ s.quota \in Quotas /\ s.quota.recover \in Nat
      /\ s.retry <= d.ownMost[m] \/ s.retry <= d.credMost
      /\ s.quota.recover <= d.ownMost[m] \/ s.quota.recover <= d.credMost
      /\ s.quota.exc => s.quota.recover > 0
      /\ s.shadow # Nil => OwnOK(s.shadow, d.ownMost[m])
  BY ModelIs
<1>3. /\ d.ownMost[m] \in Nat /\ d.credMost \in Nat /\ e.ownMost[m] \in Nat /\ e.credMost = d.credMost
      /\ e.ownMost[m] >= d.ownMost[m] /\ e.mixed = d.mixed /\ d.own[m] \in Nat /\ e.own[m] \in Nat
  BY DueIs DEF OwedBy
<1>4. OwnOK(u, d.ownMost[m]) /\ ModelOK(u, m, d) /\ (m \notin d.mixed => OwnQuota(s) = OwnQuota(u))
  <2>1. OwnOK(u, d.ownMost[m]) BY <1>2, <1>3, ResetIs
  <2>2. OwnQuota(Reset) = NoQuota /\ Reset.shadow = Nil /\ ~Wrapped(Reset) BY <1>3, ResetIs, OwnIs
  <2>3. ASSUME m \notin d.mixed PROVE OwedIn(u, m, d) /\ OwnQuota(s) = OwnQuota(u)
    <3>1. CASE Wrapped(s)
      <4>1. ~Wrapped(u) BY <2>1 DEF OwnOK
      <4>2. d.own[m] > now => s.shadow # Nil /\ HeldUntil(s.shadow, d.own[m], d.failed[m])
        BY <2>3, <3>1 DEF ModelOK, OwedIn
      <4>3. OwedIn(u, m, d) BY <4>1, <4>2 DEF OwedIn
      <4>4. OwnQuota(s) = OwnQuota(u)
        <5>1. OwnQuota(u) = u.quota BY <4>1 DEF OwnQuota
        <5>2. CASE s.shadow # Nil BY <3>1, <5>1, <5>2 DEF OwnQuota
        <5>3. CASE s.shadow = Nil BY <2>2, <3>1, <5>3 DEF OwnQuota
        <5> QED BY <5>2, <5>3
      <4> QED BY <4>3, <4>4
    <3>2. CASE ~Wrapped(s)
      <4>1. s = Reset /\ u = s BY <2>2, <2>3, <3>2
      <4> QED BY <2>3, <4>1 DEF ModelOK
    <3> QED BY <3>1, <3>2
  <2> HIDE DEF u
  <2>4. ModelOK(u, m, d) BY <1>3, <2>1, <2>3, OwnIs DEF ModelOK
  <2> QED BY <2>1, <2>3, <2>4
<1>5. u.shadow = Nil /\ ~Wrapped(u) BY <1>3, <1>4, OwnIs
<1> HIDE DEF u
<1>6. /\ OwnOK(own, e.ownMost[m]) /\ ModelOK(own, m, e) /\ own.error \in {"own", "unauthorized"}
      /\ own.seq = seq
      /\ m \notin d.mixed /\ Climbs(OwnQuota(u), OwnQuota(own)) /\ OwnQuota(u).reason = "quota"
         => OwnQuota(u).recover <= now
  BY <1>4, <1>5, FailsAlone
<1> HIDE DEF own
<1>7. /\ own \in Layer({Nil}) /\ own.retry \in Nat /\ own.retry <= e.ownMost[m] /\ ~Wrapped(own)
      /\ own \in States /\ own # Nil /\ own.shadow = Nil /\ OwnQuota(own) = own.quota
  BY <1>3, <1>6, OwnIs DEF OwnOK
<1>8. /\ shadow \in {own, Nil} /\ (own.retry > now => shadow = own)
  <2>1. Shallow(own) = own BY <1>7, ShallowIs
  <2> QED BY <2>1 DEF Active
<1>9. /\ retry \in Nat /\ retry >= own.retry /\ retry > 0 /\ (retry <= e.ownMost[m] \/ retry <= e.credMost)
  <2>1. LET l == Larger(s.retry, own.retry)
        IN  l \in Nat /\ l >= own.retry /\ l \in {s.retry, own.retry}
    BY <1>2, <1>7, LargerIs
  <2> DEFINE l == Larger(s.retry, own.retry)
  <2>2. l \in Nat /\ l >= own.retry /\ l \in {s.retry, own.retry} BY <2>1
  <2> HIDE DEF l
  <2>3. /\ Larger(l, auth.quota.recover) \in Nat /\ Larger(l, auth.quota.recover) >= l
        /\ Larger(l, auth.quota.recover) >= auth.quota.recover
        /\ Larger(l, auth.quota.recover) \in {l, auth.quota.recover}
    BY <1>1, <2>2, LargerIs
  <2>4. retry = Larger(l, auth.quota.recover) BY DEF l
  <2> HIDE DEF retry
  <2> QED BY <1>1, <1>2, <1>3, <1>7, <2>2, <2>3, <2>4
<1>10. /\ quota \in Quotas /\ quota.exc /\ quota.recover > 0 /\ quota.reason = "credential"
       /\ quota.recover <= e.ownMost[m] \/ quota.recover <= e.credMost
  <2>1. CASE kept
    <3>1. quota = s.quota /\ s.quota.exc /\ s.quota.reason = "credential" /\ s.quota.recover > 0 BY <1>2, <2>1
    <3>2. s.quota.recover <= e.ownMost[m] \/ s.quota.recover <= e.credMost BY <1>2, <1>3
    <3> QED BY <1>2, <3>1, <3>2
  <2>2. CASE ~kept
    <3> DEFINE q == Quota("credential", auth.quota.recover, auth.quota.level)
    <3>1. q \in Quotas /\ q.exc /\ q.reason = "credential" /\ q.recover = auth.quota.recover BY <1>1, QuotaIs
    <3>2. quota = q BY <2>2
    <3> HIDE DEF q
    <3>3. q.recover > 0 /\ q.recover <= e.credMost BY <1>1, <1>3, <3>1
    <3> QED BY <3>1, <3>2, <3>3
  <2> QED BY <2>1, <2>2
<1>11. c = [s EXCEPT !.shadow = shadow, !.seq = seq, !.propagated = TRUE, !.unavailable = TRUE,
                     !.error = own.error, !.retry = retry, !.quota = quota]
  BY <1>2 DEF Compose, u, own, States, Layer
<1> HIDE DEF shadow, retry, quota, kept, c
<1>12. /\ c \in States /\ c.shadow = shadow /\ c.seq = seq /\ c.propagated /\ c.unavailable /\ c.retry = retry
       /\ c.quota = quota
  BY <1>1, <1>2, <1>6, <1>7, <1>8, <1>9, <1>10, <1>11 DEF States, Layer
<1>13. Wrapped(c) BY <1>12 DEF Wrapped
<1>14. Within(c, e.ownMost[m], e.credMost) BY <1>6, <1>8, <1>9, <1>10, <1>12, <1>13 DEF Within
<1>15. ASSUME m \notin e.mixed PROVE OwedIn(c, m, e)
  <2> SUFFICES ASSUME e.own[m] > now
               PROVE  HeldUntil(c, e.own[m], e.failed[m]) /\ c.shadow # Nil /\ HeldUntil(c.shadow, e.own[m], e.failed[m])
    BY DEF OwedIn
  <2>1. HeldUntil(own, e.own[m], e.failed[m]) BY <1>6, <1>15 DEF ModelOK, OwedIn
  <2>2. own.retry > now /\ retry >= e.own[m] BY <1>1, <1>3, <1>7, <1>9, <2>1 DEF HeldUntil
  <2>3. c.shadow = own BY <1>8, <1>12, <2>2
  <2> QED BY <1>6, <1>7, <1>12, <2>1, <2>2, <2>3 DEF HeldUntil
<1>16. ModelOK(c, m, e) BY <1>10, <1>12, <1>13, <1>14, <1>15 DEF ModelOK
<1>17. OwnQuota(c) \in {OwnQuota(own), NoQuota} BY <1>7, <1>8, <1>12, <1>13 DEF OwnQuota
<1>18. ~NoQuota.exc BY DEF NoQuota
<1>19. m \notin d.mixed /\ Climbs(OwnQuota(s), OwnQuota(c)) /\ OwnQuota(s).reason = "quota"
       => OwnQuota(s).recover <= now
  BY <1>4, <1>6, <1>17, <1>18 DEF Climbs
<1> QED BY <1>13, <1>16, <1>19 DEF c

(* A credential-wide failure owes nothing of the model's own. *)
OwedByAll(f, m, d, e) ==
    /\ e.ownMost[m] = d.ownMost[m] /\ e.own[m] = d.own[m] /\ e.failed[m] = d.failed[m]
    /\ e.failed[m] <= seq /\ e.credMost >= d.credMost /\ e.credMost >= now + Most(f)
    /\ m \in e.mixed <=> m \in d.mixed

(* Of a terminal credential it is booked on the model that reported it. *)
OwedMixed(f, m, d, e) ==
    /\ e.ownMost[m] >= d.ownMost[m] /\ e.ownMost[m] >= e.credMost
    /\ e.credMost >= d.credMost /\ e.credMost >= now + Most(f)
    /\ m \in e.mixed

(* The state of a model under a credential quota: it lasts at least as long *)
(* as what it covers, and keeps the model's own layer below.                *)
Covers(r, o, most, credMost) ==
    /\ r \in States /\ r.unavailable /\ r.propagated /\ r.seq = seq
    /\ r.retry > 0 /\ (o.retry > now => r.retry >= o.retry)
    /\ r.quota.exc /\ r.quota.recover > 0
    /\ r.retry <= most \/ r.retry <= credMost
    /\ r.quota.recover <= most \/ r.quota.recover <= credMost
    /\ Wrapped(o) => r.shadow = o.shadow
    /\ ~Wrapped(o) => \/ r.shadow = Nil /\ (~(o.retry > now) \/ o.error = "exhausted")
                      \/ o.error # "exhausted" /\ r.shadow = Shallow(o)
                      \/ /\ o.error # "exhausted" /\ o.retry > now
                         /\ r.shadow = [Shallow(o) EXCEPT !.unavailable = TRUE]

LEMMA CoverIs ==
    ASSUME Clock, NEW d \in Dues, NEW e \in Dues, NEW m \in Model, NEW f, OwedByAll(f, m, d, e),
           NEW o, ModelOK(o, m, d), NEW r, Covers(r, o, e.ownMost[m], e.credMost)
    PROVE  /\ ModelOK(r, m, e) /\ Wrapped(r)
           /\ OwnQuota(r) \in {OwnQuota(o), NoQuota}
<1>1. /\ now \in Nat /\ d.own[m] \in Nat /\ e.own[m] \in Nat /\ d.ownMost[m] \in Nat /\ seq \in Nat
      /\ e.failed[m] \in Nat /\ e.ownMost[m] = d.ownMost[m] /\ (m \in e.mixed <=> m \in d.mixed)
  BY DueIs, CooldownAssumption DEF Clock, OwedByAll
<1>2. /\ o \in States /\ o # Nil /\ o.retry \in Nat
      /\ o.quota.exc => o.quota.recover > 0
      /\ ~Wrapped(o) => o.retry <= d.ownMost[m] /\ o.quota.recover <= d.ownMost[m]
      /\ m \notin d.mixed /\ ~Wrapped(o) => OwnOK(o, d.ownMost[m])
      /\ o.unavailable => o.retry > 0
      /\ o.shadow # Nil => OwnOK(o.shadow, d.ownMost[m])
  BY ModelIs
<1>3. Wrapped(r) /\ r.retry \in Nat BY LayerIs DEF Covers, Wrapped
<1>4. m \notin d.mixed /\ e.own[m] > now => HeldUntil(o, e.own[m], e.failed[m]) BY DEF ModelOK, OwedIn, OwedByAll
<1>5. ASSUME m \notin d.mixed, e.own[m] > now PROVE HeldUntil(r, e.own[m], e.failed[m]) /\ o.retry > now
  <2>1. o.retry >= e.own[m] BY <1>4, <1>5 DEF HeldUntil
  <2>2. o.retry > now BY <1>1, <1>2, <1>5, <2>1
  <2>3. r.retry >= e.own[m] BY <1>1, <1>2, <1>3, <2>1, <2>2 DEF Covers
  <2>4. r.unavailable /\ r.seq = seq /\ seq >= e.failed[m] BY <1>1 DEF Covers, OwedByAll
  <2> QED BY <2>2, <2>3, <2>4 DEF HeldUntil
<1>6. ASSUME r.shadow # Nil => OwnOK(r.shadow, d.ownMost[m]),
             m \notin d.mixed /\ e.own[m] > now => r.shadow # Nil /\ HeldUntil(r.shadow, e.own[m], e.failed[m])
      PROVE  ModelOK(r, m, e)
  <2>1. Within(r, e.ownMost[m], e.credMost) BY <1>1, <1>3, <1>6 DEF Within, Covers
  <2>2. m \notin d.mixed => OwedIn(r, m, e) BY <1>5, <1>6 DEF OwedIn
  <2>3. r.quota.exc BY DEF Covers
  <2> QED BY <1>1, <1>3, <2>1, <2>2, <2>3 DEF ModelOK
<1>7. CASE Wrapped(o)
  <2>1. r.shadow = o.shadow BY <1>7 DEF Covers
  <2>2. m \notin d.mixed /\ e.own[m] > now => o.shadow # Nil /\ HeldUntil(o.shadow, e.own[m], e.failed[m])
    BY <1>7 DEF ModelOK, OwedIn, OwedByAll
  <2>3. ModelOK(r, m, e) BY <1>2, <1>6, <2>1, <2>2
  <2>4. OwnQuota(r) = OwnQuota(o) BY <1>3, <1>7, <2>1 DEF OwnQuota
  <2> QED BY <1>3, <2>3, <2>4
<1>8. CASE ~Wrapped(o)
  <2>1. OwnQuota(o) = o.quota BY <1>8 DEF OwnQuota
  <2>2. CASE r.shadow = Nil /\ (~(o.retry > now) \/ o.error = "exhausted")
    <3>1. o.error = "exhausted" => m \in d.mixed BY <1>2, <1>8 DEF OwnOK
    <3>2. ~(m \notin d.mixed /\ e.own[m] > now) BY <1>5, <2>2, <3>1
    <3>3. ModelOK(r, m, e) BY <1>6, <2>2, <3>2
    <3> QED BY <1>3, <2>2, <3>3 DEF OwnQuota
  <2>3. ASSUME NEW x \in Layer({Nil}), r.shadow = x, o.error # "exhausted",
               x.retry = o.retry, x.quota = o.quota, x.error = o.error, x.seq = o.seq,
               x.propagated = o.propagated, x.unavailable => o.retry > 0, o.unavailable => x.unavailable
        PROVE  ModelOK(r, m, e) /\ OwnQuota(r) = OwnQuota(o)
    <3>1. ~Wrapped(x) BY <1>8, <2>3 DEF Wrapped
    <3>2. OwnOK(x, d.ownMost[m]) BY <1>2, <1>8, <2>3, <3>1 DEF OwnOK
    <3>3. m \notin d.mixed /\ e.own[m] > now => HeldUntil(x, e.own[m], e.failed[m]) BY <1>4, <2>3 DEF HeldUntil
    <3>4. x # Nil BY LayerIs
    <3>5. ModelOK(r, m, e) BY <1>6, <2>3, <3>2, <3>3, <3>4
    <3>6. OwnQuota(r) = o.quota BY <1>3, <2>3, <3>4 DEF OwnQuota
    <3> QED BY <2>1, <3>5, <3>6
  <2> DEFINE z == Shallow(o)
  <2>4. /\ z \in Layer({Nil}) /\ z.unavailable = o.unavailable /\ z.retry = o.retry /\ z.quota = o.quota
        /\ z.error = o.error /\ z.seq = o.seq /\ z.propagated = o.propagated
    BY <1>2, ShallowIs
  <2>5. CASE r.shadow = z /\ o.error # "exhausted"
    <3> HIDE DEF z
    <3> QED BY <1>2, <1>3, <2>3, <2>4, <2>5
  <2>6. CASE r.shadow = [z EXCEPT !.unavailable = TRUE] /\ o.retry > now /\ o.error # "exhausted"
    <3> DEFINE x == [z EXCEPT !.unavailable = TRUE]
    <3> HIDE DEF z
    <3>1. /\ x \in Layer({Nil}) /\ x.unavailable /\ x.retry = z.retry /\ x.quota = z.quota /\ x.seq = z.seq
          /\ x.propagated = z.propagated /\ x.error = z.error
      BY <2>4 DEF Layer
    <3>2. o.retry > 0 BY <1>1, <1>2, <2>6
    <3>3. r.shadow = x BY <2>6
    <3> HIDE DEF x
    <3> QED BY <1>3, <2>3, <2>4, <2>6, <3>1, <3>2, <3>3
  <2> QED BY <1>3, <1>8, <2>2, <2>5, <2>6 DEF Covers
<1> QED BY <1>7, <1>8

(* A deadline never moves before the quota that is already there. *)
LEMMA NextIs ==
    ASSUME NEW n \in Nat, NEW q \in Quotas
    PROVE  LET next == IF q.exc THEN Larger(n, q.recover) ELSE n
           IN  next \in Nat /\ next >= n /\ next \in {n, q.recover} /\ (q.exc => next >= q.recover)
<1>1. q.recover \in Nat BY DEF Quotas
<1>2. LET l == Larger(n, q.recover) IN l \in Nat /\ l >= n /\ l >= q.recover /\ l \in {n, q.recover}
  BY <1>1, LargerIs
<1>3. n >= n OBVIOUS
<1>4. CASE q.exc BY <1>2, <1>4
<1>5. CASE ~q.exc BY <1>3, <1>5
<1> QED BY <1>4, <1>5

(* The deadline of a credential-wide failure is one the failures justify. *)
LEMMA CredentialDeadlineIs ==
    ASSUME Clock, NEW f \in Failure, f.scope, f.kind = "quota",
           NEW most \in Nat, most >= now + Most(f),
           auth.quota.reason = "credential" => auth.quota.recover <= most,
           NEW s, s.quota \in Quotas
    PROVE  LET n == QuotaDeadline(f, s)
           IN  /\ n.next \in Nat /\ n.level \in Nat /\ n.next >= now + Least(f) /\ n.next > now
               /\ n.next <= most
               /\ auth.quota.reason = "credential" /\ auth.quota.recover > now => n.level = auth.quota.level
<1> DEFINE n == QuotaDeadline(f, s)
<1>1. /\ n.next \in Nat /\ n.level \in Nat /\ n.next >= now + Least(f)
      /\ n.next <= now + Most(f) \/ (auth.quota.reason = "credential" /\ n.next = auth.quota.recover)
      /\ auth.quota.reason = "credential" /\ auth.quota.recover > now => n.level = auth.quota.level
  BY QuotaDeadlineIs
<1>2. now \in Nat /\ Least(f) \in Nat /\ Least(f) >= 1 /\ Most(f) \in Nat BY FailureIs DEF Clock
<1> HIDE DEF n
<1>3. n.next > now /\ n.next <= most BY <1>1, <1>2
<1> QED BY <1>1, <1>3 DEF n

(* A credential-wide failure, for the model that reported it. *)
LEMMA ReportIs ==
    ASSUME Clock, NEW d \in Dues, NEW e \in Dues, NEW m \in Model, NEW f \in Failure, f.scope, f.kind = "quota",
           terminal \in BOOLEAN,
           IF terminal THEN OwedMixed(f, m, d, e) ELSE OwedByAll(f, m, d, e),
           auth.quota.reason = "credential" => auth.quota.recover <= d.credMost,
           NEW s, ModelOK(s, m, d)
    PROVE  LET r == Report(f, s)
           IN  /\ ModelOK(r, m, e)
               /\ ~terminal => Wrapped(r) /\ OwnQuota(r) \in {OwnQuota(s), NoQuota}
<1> DEFINE n == QuotaDeadline(f, s)
           next == IF s.quota.exc THEN Larger(n.next, s.quota.recover) ELSE n.next
           quota == Quota("quota", next, n.level)
           retry == IF s.retry > now THEN Larger(next, s.retry) ELSE next
           error == ErrorOf(f)
           shadow == IF Wrapped(s) THEN s.shadow
                     ELSE IF s.retry > now /\ s.error # "exhausted"
                          THEN [Shallow(s) EXCEPT !.unavailable = TRUE] ELSE Nil
           propagated == ~terminal \/ s.propagated
           r == Report(f, s)
<1>1. now \in Nat /\ now > 0 /\ seq \in 0 .. MaxSeq BY DEF Clock
<1>2. /\ s \in States /\ s.retry \in Nat /\ s.quota \in Quotas /\ s.quota.recover \in Nat
      /\ s.retry <= d.ownMost[m] \/ s.retry <= d.credMost
      /\ s.quota.recover <= d.ownMost[m] \/ s.quota.recover <= d.credMost
      /\ s.shadow # Nil => s.shadow \in Layer({Nil}) /\ OwnOK(s.shadow, d.ownMost[m])
      /\ ~Wrapped(s) => s.retry <= d.ownMost[m] /\ s.quota.recover <= d.ownMost[m]
      /\ s.quota.exc => s.quota.recover > 0
      /\ s.propagated \in BOOLEAN
  BY ModelIs, LayerIs
<1>3. /\ d.ownMost[m] \in Nat /\ d.credMost \in Nat /\ e.credMost \in Nat /\ e.ownMost[m] \in Nat
      /\ e.ownMost[m] >= d.ownMost[m] /\ e.credMost >= d.credMost /\ e.credMost >= now + Most(f)
      /\ terminal => e.ownMost[m] >= e.credMost /\ m \in e.mixed
  BY DueIs DEF OwedByAll, OwedMixed
<1>4. n.next \in Nat /\ n.level \in Nat /\ n.next > now /\ n.next <= e.credMost
  <2>1. auth.quota.recover \in Nat BY DEF Clock, Credentials, Quotas
  <2>2. auth.quota.reason = "credential" => auth.quota.recover <= e.credMost BY <1>3, <2>1
  <2> QED BY <1>2, <1>3, <2>2, CredentialDeadlineIs
<1>5. next \in Nat /\ next >= n.next /\ next \in {n.next, s.quota.recover} BY <1>2, <1>4, NextIs
<1> HIDE DEF n, next
<1>6. next > 0 /\ next > now /\ (next <= e.ownMost[m] \/ next <= e.credMost) BY <1>1, <1>2, <1>3, <1>4, <1>5
<1>7. quota \in Quotas /\ quota.exc /\ quota.recover = next BY <1>4, <1>5, QuotaIs
<1>8. /\ retry \in Nat /\ retry > 0 /\ (s.retry > now => retry >= s.retry)
      /\ retry <= e.ownMost[m] \/ retry <= e.credMost
  <2>1. LET l == Larger(next, s.retry) IN l \in Nat /\ l >= next /\ l >= s.retry /\ l \in {next, s.retry}
    BY <1>2, <1>5, LargerIs
  <2>2. CASE s.retry > now BY <1>1, <1>2, <1>3, <1>5, <1>6, <2>1, <2>2
  <2>3. CASE ~(s.retry > now) BY <1>1, <1>5, <1>6, <2>3
  <2> QED BY <2>2, <2>3
<1>9. Written(f, s) = [s EXCEPT !.retry = next, !.quota = quota] /\ ~CoolsNot(f)
  BY DEF Written, n, next, CoolsNot
<1>10. error \in {"own", "exhausted"} BY DEF ErrorOf
<1>11. LET z == Shallow(s)
       IN  /\ z \in Layer({Nil}) /\ z.retry = s.retry /\ z.quota = s.quota /\ z.error = s.error
           /\ z.propagated = s.propagated
  BY <1>2, ShallowIs
<1>12. shadow \in {Nil} \cup Layer({Nil}) /\ (shadow # Nil => OwnOK(shadow, d.ownMost[m]))
  <2>1. CASE Wrapped(s) BY <1>2, <2>1
  <2>2. CASE ~Wrapped(s) /\ s.retry > now /\ s.error # "exhausted"
    <3> DEFINE z == Shallow(s)
               x == [z EXCEPT !.unavailable = TRUE]
    <3>1. /\ z \in Layer({Nil}) /\ z.retry = s.retry /\ z.quota = s.quota /\ z.error = s.error
          /\ z.propagated = s.propagated
      BY <1>11
    <3>2. shadow = x BY <2>2
    <3> HIDE DEF z
    <3>3. /\ x \in Layer({Nil}) /\ x.retry = s.retry /\ x.quota = s.quota /\ x.error = s.error
          /\ x.propagated = s.propagated
      BY <3>1 DEF Layer
    <3> HIDE DEF x, shadow
    <3>4. ~Wrapped(x) BY <2>2, <3>3 DEF Wrapped
    <3>5. OwnOK(x, d.ownMost[m]) BY <1>1, <1>2, <2>2, <3>3, <3>4 DEF OwnOK
    <3> QED BY <3>2, <3>3, <3>5
  <2>3. CASE ~Wrapped(s) /\ ~(s.retry > now /\ s.error # "exhausted") BY <2>3
  <2> QED BY <2>1, <2>2, <2>3
<1>13. /\ Wrapped(s) => shadow = s.shadow
       /\ ~Wrapped(s) => \/ shadow = Nil /\ (~(s.retry > now) \/ s.error = "exhausted")
                         \/ /\ shadow = [Shallow(s) EXCEPT !.unavailable = TRUE]
                            /\ s.retry > now /\ s.error # "exhausted"
  OBVIOUS
<1>14. Failed(f, s) = [s EXCEPT !.retry = retry, !.quota = quota, !.unavailable = TRUE, !.seq = seq, !.error = error]
  <2> DEFINE w == Written(f, s)
  <2>1. w = [s EXCEPT !.retry = next, !.quota = quota] BY <1>9
  <2>2. w.retry = next /\ next # 0
    <3> HIDE DEF w, quota
    <3>1. s \in States /\ next # 0 BY <1>2, <1>6
    <3> QED BY <2>1, <3>1 DEF States, Layer
  <2>3. Failed(f, s) = [w EXCEPT !.unavailable = TRUE, !.seq = seq, !.retry = retry, !.error = error]
    BY <1>9, <2>2 DEF Failed
  <2> HIDE DEF w, retry, quota, error
  <2> QED BY <1>2, <2>1, <2>3 DEF States, Layer
<1>15. propagated \in BOOLEAN BY <1>2
<1> HIDE DEF retry, quota, error
<1>16. r = [s EXCEPT !.retry = retry, !.quota = quota, !.unavailable = TRUE, !.seq = seq, !.error = error,
                     !.shadow = shadow, !.propagated = propagated]
  <2> DEFINE w == Failed(f, s)
  <2>1. w = [s EXCEPT !.retry = retry, !.quota = quota, !.unavailable = TRUE, !.seq = seq, !.error = error] BY <1>14
  <2>2. r = [w EXCEPT !.shadow = shadow, !.propagated = ~terminal \/ @] BY DEF Report
  <2>3. w.propagated = s.propagated BY <1>2, <2>1 DEF States, Layer
  <2> HIDE DEF w, shadow, r
  <2>4. r = [w EXCEPT !.shadow = shadow, !.propagated = propagated]
    BY <1>2, <2>1, <2>2, <2>3 DEF States, Layer
  <2> QED BY <1>2, <2>1, <2>4 DEF States, Layer
<1> HIDE DEF r, shadow, propagated
<1>17. /\ r \in States /\ r.retry = retry /\ r.quota = quota /\ r.unavailable /\ r.seq = seq /\ r.shadow = shadow
       /\ r.propagated = propagated
  BY <1>1, <1>2, <1>7, <1>8, <1>10, <1>12, <1>15, <1>16 DEF States, Layer
<1>18. CASE ~terminal
  <2>1. r.propagated BY <1>17, <1>18 DEF propagated
  <2>2. Covers(r, s, e.ownMost[m], e.credMost) BY <1>6, <1>7, <1>8, <1>13, <1>17, <2>1 DEF Covers
  <2>3. OwedByAll(f, m, d, e) BY <1>18
  <2>4. ModelOK(r, m, e) /\ Wrapped(r) /\ OwnQuota(r) \in {OwnQuota(s), NoQuota} BY <2>2, <2>3, CoverIs
  <2> QED BY <2>4 DEF r
<1>19. CASE terminal
  <2>1. retry <= e.ownMost[m] /\ next <= e.ownMost[m] BY <1>3, <1>5, <1>6, <1>8, <1>19
  <2>2. shadow # Nil => OwnOK(shadow, e.ownMost[m])
    <3> SUFFICES ASSUME shadow # Nil PROVE OwnOK(shadow, e.ownMost[m]) OBVIOUS
    <3>1. OwnOK(shadow, d.ownMost[m]) BY <1>12
    <3>2. shadow.retry \in Nat /\ shadow.quota.recover \in Nat BY <1>3, <3>1, OwnIs
    <3>3. \A x \in Nat : x <= d.ownMost[m] => x <= e.ownMost[m] BY <1>3
    <3> QED BY <3>1, <3>2, <3>3 DEF OwnOK
  <2>3. Within(r, e.ownMost[m], e.credMost) BY <1>6, <1>7, <1>8, <1>17, <2>1, <2>2 DEF Within
  <2>4. ModelOK(r, m, e) BY <1>3, <1>19, <2>3 DEF ModelOK
  <2> QED BY <1>19, <2>4 DEF r
<1> QED BY <1>18, <1>19

(* A credential-wide failure, for the other models. *)
LEMMA PropagateIs ==
    ASSUME Clock, NEW d \in Dues, NEW e \in Dues, NEW m \in Model, NEW f, OwedByAll(f, m, d, e),
           NEW n, n.next \in Nat, n.level \in Nat, n.next > now, n.next <= e.credMost,
           NEW o, ModelOK(o, m, d)
    PROVE  LET r == Propagate(n, o)
           IN  ModelOK(r, m, e) /\ Wrapped(r) /\ OwnQuota(r) \in {OwnQuota(o), NoQuota}
<1> DEFINE next == IF o.quota.exc THEN Larger(n.next, o.quota.recover) ELSE n.next
           quota == Quota("credential", next, n.level)
           retry == Larger(next, o.retry)
           shadow == IF Wrapped(o) THEN o.shadow ELSE OwnLayer(o)
           r == Propagate(n, o)
<1>1. now \in Nat /\ now > 0 /\ seq \in 0 .. MaxSeq BY DEF Clock
<1>2. /\ o \in States /\ o.retry \in Nat /\ o.quota \in Quotas /\ o.quota.recover \in Nat
      /\ o.retry <= d.ownMost[m] \/ o.retry <= d.credMost
      /\ o.quota.recover <= d.ownMost[m] \/ o.quota.recover <= d.credMost
      /\ o.shadow # Nil => o.shadow \in Layer({Nil})
  BY ModelIs
<1>3. /\ d.ownMost[m] \in Nat /\ d.credMost \in Nat /\ e.credMost \in Nat /\ e.ownMost[m] = d.ownMost[m]
      /\ e.credMost >= d.credMost
  BY DueIs DEF OwedByAll
<1>4. next \in Nat /\ next >= n.next /\ next \in {n.next, o.quota.recover} BY <1>2, NextIs
<1> HIDE DEF next
<1>5. next > 0 /\ next > now /\ (next <= e.ownMost[m] \/ next <= e.credMost) BY <1>1, <1>2, <1>3, <1>4
<1>6. quota \in Quotas /\ quota.exc /\ quota.recover = next BY <1>4, QuotaIs
<1>7. /\ retry \in Nat /\ retry > 0 /\ retry >= o.retry
      /\ retry <= e.ownMost[m] \/ retry <= e.credMost
  <2>1. LET l == Larger(next, o.retry) IN l \in Nat /\ l >= next /\ l >= o.retry /\ l \in {next, o.retry}
    BY <1>2, <1>4, LargerIs
  <2> HIDE DEF retry
  <2>2. retry \in Nat /\ retry >= next /\ retry >= o.retry /\ retry \in {next, o.retry} BY <2>1 DEF retry
  <2> QED BY <1>1, <1>2, <1>3, <1>4, <1>5, <2>2
<1>8. Shallow(o) \in Layer({Nil}) BY <1>2, ShallowIs
<1>9. /\ Wrapped(o) => shadow = o.shadow
      /\ ~Wrapped(o) => \/ shadow = Shallow(o) /\ o.error # "exhausted"
                        \/ shadow = Nil /\ (~(o.retry > now) \/ o.error = "exhausted")
  BY DEF OwnLayer, Active
<1>10. shadow \in {Nil} \cup Layer({Nil})
  <2>1. CASE Wrapped(o) BY <1>2, <2>1
  <2>2. CASE ~Wrapped(o) BY <1>8, <1>9, <2>2
  <2> QED BY <2>1, <2>2
<1>11. r = [o EXCEPT !.shadow = shadow, !.propagated = TRUE, !.unavailable = TRUE, !.seq = seq,
                     !.retry = retry, !.quota = quota]
  BY <1>2 DEF Propagate, next, States, Layer
<1> HIDE DEF retry, quota, shadow, r
<1>12. /\ r \in States /\ r.retry = retry /\ r.quota = quota /\ r.unavailable /\ r.seq = seq /\ r.shadow = shadow
       /\ r.propagated
  BY <1>1, <1>2, <1>6, <1>7, <1>10, <1>11 DEF States, Layer
<1>13. Covers(r, o, e.ownMost[m], e.credMost) BY <1>5, <1>6, <1>7, <1>9, <1>12 DEF Covers
<1>14. ModelOK(r, m, e) /\ Wrapped(r) /\ OwnQuota(r) \in {OwnQuota(o), NoQuota} BY <1>13, CoverIs
<1> QED BY <1>14 DEF r

(* A block that has expired is cleared, and nothing else of the state changes. *)
LEMMA RefreshedIs ==
    ASSUME Clock, NEW d \in Dues, NEW m \in Model, NEW s, ModelOK(s, m, d),
           NEW r, r = IF Expired(s) THEN [s EXCEPT !.unavailable = FALSE, !.retry = 0] ELSE s
    PROVE  /\ ModelOK(r, m, d) /\ (Wrapped(r) <=> Wrapped(s)) /\ OwnQuota(r) = OwnQuota(s)
           /\ s.unavailable /\ s.retry > now => r = s
           /\ s = Reset => r = Reset
<1>1. /\ now \in Nat /\ d.own[m] \in Nat /\ d.ownMost[m] \in Nat /\ d.credMost \in Nat
  BY DueIs DEF Clock
<1>2. s \in States /\ s.retry \in Nat BY ModelIs
<1>3. CASE ~Expired(s) BY <1>3
<1>4. CASE Expired(s)
  <2>1. s.retry <= now /\ s.retry # 0 BY <1>4 DEF Expired
  <2>2. /\ r \in States /\ ~r.unavailable /\ r.unavailable \in BOOLEAN /\ r.retry = 0 /\ r.quota = s.quota
        /\ r.propagated = s.propagated /\ r.shadow = s.shadow /\ r.error = s.error
        /\ s \in Layer({Nil}) => r \in Layer({Nil})
    BY <1>2, <1>4 DEF States, Layer
  <2>3. Wrapped(r) <=> Wrapped(s) BY <2>2 DEF Wrapped
  <2>4. OwnQuota(r) = OwnQuota(s) BY <2>2, <2>3 DEF OwnQuota
  <2>5. m \notin d.mixed => ~(d.own[m] > now)
    <3> SUFFICES ASSUME m \notin d.mixed, d.own[m] > now PROVE FALSE OBVIOUS
    <3>1. s.retry >= d.own[m] BY DEF ModelOK, OwedIn, HeldUntil
    <3> QED BY <1>1, <1>2, <2>1, <3>1
  <2>6. 0 <= d.ownMost[m] /\ ~(s.retry > now) BY <1>1, <1>2, <2>1
  <2>7. s # Reset
    <3>1. Reset.retry = 0 BY DEF Reset
    <3> QED BY <2>1, <3>1
  <2>8. Within(r, d.ownMost[m], d.credMost) BY <2>2, <2>3, <2>6 DEF ModelOK, Within
  <2>9. OwnOK(s, d.ownMost[m]) => OwnOK(r, d.ownMost[m]) BY <2>2, <2>3, <2>6 DEF OwnOK
  <2>10. ModelOK(r, m, d) BY <2>2, <2>3, <2>5, <2>8, <2>9 DEF ModelOK, OwedIn
  <2> QED BY <2>3, <2>4, <2>6, <2>7, <2>10
<1> QED BY <1>3, <1>4

(* What a restored quota leaves of a model that it was on. *)
LEMMA ReleasedIs ==
    ASSUME Clock, NEW d \in Dues, NEW e \in Dues, NEW m \in Model,
           e.own[m] = d.own[m], e.ownMost[m] = d.ownMost[m], e.failed[m] = d.failed[m], e.mixed = d.mixed,
           NEW s, ModelOK(s, m, d), Wrapped(s) \/ s = Reset \/ m \in d.mixed
    PROVE  /\ ModelOK(Released(s), m, e)
           /\ m \notin d.mixed => OwnQuota(Released(s)) \in {OwnQuota(s), NoQuota}
           /\ s = Reset => Released(s) = Reset
<1> DEFINE r == Released(s)
<1>1. now \in Nat /\ d.ownMost[m] \in Nat /\ e.ownMost[m] \in Nat BY DueIs DEF Clock
<1>2. ~Reset.quota.exc BY <1>1, ResetIs
<1>3. OwnOK(Reset, d.ownMost[m]) /\ ~Wrapped(Reset) BY <1>1, ResetIs, OwnIs
<1>4. CASE r # s
  <2>1. r = (IF s.shadow # Nil /\ Active(s.shadow) THEN s.shadow ELSE Reset) /\ s.quota.exc BY <1>4 DEF Released
  <2>2. Wrapped(s) \/ m \in d.mixed BY <1>2, <2>1
  <2> HIDE DEF r
  <2>3. /\ OwnOK(r, d.ownMost[m]) /\ ModelOK(r, m, d)
        /\ m \notin d.mixed => OwnQuota(r) \in {OwnQuota(s), NoQuota}
    BY <2>1, <2>2, TakenOff
  <2>4. \A credMost : Within(r, e.ownMost[m], credMost) BY <1>1, <2>3, OwnIs
  <2>5. ModelOK(r, m, e) BY <2>3, <2>4 DEF ModelOK, OwedIn, OwnOK
  <2>6. s # Reset BY <1>2, <2>1
  <2> QED BY <2>3, <2>5, <2>6 DEF r
<1>5. CASE r = s
  <2>1. ~s.quota.exc \/ (s.quota.reason # "quota" /\ ~Wrapped(s)) \/ OwnOK(s, d.ownMost[m])
    <3> SUFFICES ASSUME s.quota.exc, s.quota.reason = "quota" \/ Wrapped(s) PROVE OwnOK(s, d.ownMost[m])
      OBVIOUS
    <3>1. r = IF s.shadow # Nil /\ Active(s.shadow) THEN s.shadow ELSE Reset BY DEF Released
    <3>2. Wrapped(s) \/ m \in d.mixed BY <1>2
    <3> QED BY <1>5, <3>1, <3>2, TakenOff
  <2>2. CASE OwnOK(s, d.ownMost[m])
    <3>1. \A credMost : Within(s, e.ownMost[m], credMost) BY <1>1, <2>2, OwnIs
    <3>2. ModelOK(s, m, e) BY <2>2, <3>1 DEF ModelOK, OwedIn
    <3> QED BY <1>5, <3>2 DEF r
  <2>3. CASE ~OwnOK(s, d.ownMost[m])
    <3>1. ~(Wrapped(s) /\ s.quota.exc) BY <2>1, <2>3
    <3>2. m \in d.mixed BY <2>3, <3>1 DEF ModelOK
    <3>3. s.retry <= d.ownMost[m] /\ s.quota.recover <= d.ownMost[m] BY <3>1, ModelIs
    <3>4. Within(s, e.ownMost[m], e.credMost) BY <3>3 DEF ModelOK, Within
    <3>5. ModelOK(s, m, e) BY <3>2, <3>4 DEF ModelOK
    <3>6. s # Reset BY <1>3, <2>3
    <3> QED BY <1>5, <3>2, <3>5, <3>6 DEF r
  <2> QED BY <2>2, <2>3
<1> QED BY <1>4, <1>5

(* New tokens: a failure that was about the old ones is reset, unless a     *)
(* quota is on the model as well.                                           *)
LEMMA ClearedIs ==
    ASSUME Clock, NEW d \in Dues, NEW e \in Dues, NEW m \in Model, NEW s, ModelOK(s, m, d),
           e.ownMost[m] = d.ownMost[m], e.failed[m] = d.failed[m], e.mixed = d.mixed, e.credMost = d.credMost,
           e.own[m] = d.own[m] \/ (e.own[m] = 0 /\ Cleared(s) = Reset),
           Cleared(s) # s /\ Cleared(s) = Reset => e.own[m] = 0
    PROVE  /\ ModelOK(Cleared(s), m, e) /\ OwnQuota(Cleared(s)) \in {OwnQuota(s), NoQuota}
           /\ Wrapped(s) => Wrapped(Cleared(s)) \/ Cleared(s) = Reset
           /\ s = Reset => Cleared(s) = Reset
           /\ Cleared(s) # Reset => Cleared(s).retry = s.retry
<1> DEFINE r == Cleared(s)
<1>1. now \in Nat /\ d.own[m] \in Nat /\ e.own[m] \in Nat /\ d.ownMost[m] \in Nat BY DueIs DEF Clock
<1>2. s \in States BY ModelIs
<1>3. Reset.error = "" BY Zenon DEF Reset
<1>4. s = Reset => r = Reset BY <1>3 DEF Cleared
<1>5. CASE r = Reset /\ e.own[m] = 0
  <2>1. ~(e.own[m] > now) BY <1>1, <1>5
  <2>2. ModelOK(r, m, e) /\ OwnQuota(r) = NoQuota BY <1>1, <1>5, <2>1, ResetOK
  <2> QED BY <1>5, <2>2
<1>6. CASE r = s /\ e.own[m] = d.own[m]
  <2>1. ModelOK(s, m, e) BY <1>6 DEF ModelOK, OwedIn
  <2> QED BY <1>4, <1>6, <2>1 DEF r
<1>7. CASE r # s /\ r # Reset
  <2>1. r = [s EXCEPT !.error = ""] BY <1>7 DEF Cleared
  <2>2. e.own[m] = d.own[m] BY <1>7
  <2> HIDE DEF r
  <2>3. /\ r \in States /\ r.unavailable = s.unavailable /\ r.retry = s.retry /\ r.quota = s.quota /\ r.seq = s.seq
        /\ r.propagated = s.propagated /\ r.shadow = s.shadow /\ r.error = ""
        /\ s \in Layer({Nil}) => r \in Layer({Nil})
    BY <1>2, <2>1 DEF States, Layer
  <2>4. Wrapped(r) <=> Wrapped(s) BY <2>3 DEF Wrapped
  <2>5. OwnQuota(r) = OwnQuota(s) BY <2>3, <2>4 DEF OwnQuota
  <2>6. OwnOK(s, d.ownMost[m]) => OwnOK(r, d.ownMost[m]) BY <2>3, <2>4 DEF OwnOK
  <2>7. Within(r, e.ownMost[m], e.credMost) BY <2>3, <2>4 DEF ModelOK, Within
  <2>8. OwedIn(s, m, d) => OwedIn(r, m, e) BY <2>2, <2>3, <2>4 DEF OwedIn, HeldUntil
  <2>9. ModelOK(r, m, e) BY <2>3, <2>4, <2>6, <2>7, <2>8 DEF ModelOK
  <2> QED BY <1>4, <1>7, <2>3, <2>4, <2>5, <2>9 DEF r
<1> QED BY <1>5, <1>6, <1>7

(* A model's record brings back both layers; it is older than every execution. *)
LEMMA RestoredIs ==
    ASSUME NEW d \in Dues, NEW e \in Dues, NEW m \in Model, NEW s, ModelOK(s, m, d),
           e.own[m] = d.own[m], e.ownMost[m] = d.ownMost[m], e.credMost = d.credMost, e.failed[m] = 0,
           e.mixed = d.mixed
    PROVE  LET r == Restored(s)
           IN  /\ ModelOK(r, m, e) /\ r.retry = s.retry /\ r.unavailable = s.unavailable
               /\ Wrapped(s) => Wrapped(r)
<1> DEFINE r == Restored(s)
           shadow == IF s.shadow = Nil THEN Nil ELSE [s.shadow EXCEPT !.seq = 0]
           propagated == Wrapped(s) \/ s.shadow # Nil
<1>1. MaxSeq \in Nat /\ 0 \in 0 .. MaxSeq BY CooldownAssumption
<1>2. /\ s \in States /\ s.retry \in Nat
      /\ m \notin d.mixed /\ ~Wrapped(s) => OwnOK(s, d.ownMost[m]) /\ s.shadow = Nil
      /\ m \notin d.mixed /\ Wrapped(s) => s.quota.exc
      /\ s.shadow # Nil => OwnOK(s.shadow, d.ownMost[m]) /\ s.shadow \in Layer({Nil})
  BY ModelIs
<1>3. r = [s EXCEPT !.seq = 0, !.propagated = propagated, !.shadow = shadow] BY <1>2 DEF Restored, States, Layer
<1>4. propagated \in BOOLEAN /\ (Wrapped(s) => propagated)
  <2>1. Wrapped(s) \in BOOLEAN BY <1>2, LayerIs DEF Wrapped
  <2> QED BY <2>1
<1>5. ASSUME s.shadow # Nil
      PROVE  /\ shadow \in Layer({Nil}) /\ OwnOK(shadow, d.ownMost[m]) /\ shadow # Nil
             /\ shadow.retry = s.shadow.retry /\ shadow.unavailable = s.shadow.unavailable /\ shadow.seq = 0
  <2>1. shadow = [s.shadow EXCEPT !.seq = 0] BY <1>5
  <2> HIDE DEF shadow
  <2>2. /\ shadow \in Layer({Nil}) /\ shadow.retry = s.shadow.retry /\ shadow.unavailable = s.shadow.unavailable
        /\ shadow.seq = 0 /\ shadow.quota = s.shadow.quota /\ shadow.error = s.shadow.error
        /\ shadow.propagated = s.shadow.propagated
    BY <1>1, <1>2, <1>5, <2>1 DEF Layer
  <2>3. OwnOK(shadow, d.ownMost[m]) BY <1>2, <1>5, <2>2 DEF OwnOK, Wrapped
  <2> QED BY <2>2, <2>3, LayerIs
<1>6. s.shadow = Nil => shadow = Nil OBVIOUS
<1>7. m \notin d.mixed => (propagated <=> Wrapped(s)) BY <1>2
<1> HIDE DEF r, shadow, propagated
<1>8. /\ r \in States /\ r.seq = 0 /\ r.propagated = propagated /\ r.shadow = shadow /\ r.retry = s.retry
      /\ r.unavailable = s.unavailable /\ r.quota = s.quota /\ r.error = s.error
      /\ shadow = Nil => r \in Layer({Nil})
  BY <1>1, <1>2, <1>3, <1>4, <1>5, <1>6 DEF States, Layer
<1>9. Wrapped(s) => Wrapped(r)
  <2> SUFFICES ASSUME Wrapped(s) PROVE Wrapped(r) OBVIOUS
  <2>1. r.propagated BY <1>4, <1>8, Zenon
  <2> QED BY <2>1, Zenon DEF Wrapped
<1>10. m \notin d.mixed /\ ~Wrapped(s) => ~Wrapped(r)
  <2> SUFFICES ASSUME m \notin d.mixed, ~Wrapped(s) PROVE ~Wrapped(r) OBVIOUS
  <2>1. ~propagated BY <1>7
  <2>2. ~r.propagated /\ r.quota.reason # "credential" BY <1>8, <2>1, Zenon DEF Wrapped
  <2> QED BY <2>2, Zenon DEF Wrapped
<1>11. Within(r, e.ownMost[m], e.credMost) BY <1>5, <1>6, <1>8, <1>9 DEF ModelOK, Within
<1>12. ASSUME m \notin e.mixed
       PROVE  (OwnOK(r, e.ownMost[m]) \/ (Wrapped(r) /\ r.quota.exc)) /\ OwedIn(r, m, e)
  <2>1. CASE Wrapped(s)
    <3>1. Wrapped(r) /\ r.quota.exc BY <1>2, <1>8, <1>9, <1>12, <2>1
    <3>2. OwedIn(r, m, e) BY <1>5, <1>8, <1>12, <2>1 DEF ModelOK, OwedIn, HeldUntil
    <3> QED BY <3>1, <3>2
  <2>2. CASE ~Wrapped(s)
    <3>1. OwnOK(s, d.ownMost[m]) /\ shadow = Nil /\ ~Wrapped(r) BY <1>2, <1>6, <1>10, <1>12, <2>2
    <3>2. OwnOK(r, e.ownMost[m]) BY <1>8, <3>1 DEF OwnOK
    <3>3. OwedIn(r, m, e) BY <1>8, <1>12, <3>1 DEF ModelOK, OwedIn, HeldUntil
    <3> QED BY <3>2, <3>3
  <2> QED BY <2>1, <2>2
<1>13. ModelOK(r, m, e) BY <1>11, <1>12 DEF ModelOK
<1> QED BY <1>8, <1>9, <1>13 DEF r

-----------------------------------------------------------------------------
(* The credential. *)

(* A credential that no quota of its own covers: it is held back only as    *)
(* long as one of the models in k is.                                       *)
PlainOK(a, k, t) ==
    /\ a \in Credentials
    /\ a.quota.exc => a.quota.recover > 0
    /\ a.quota.reason # "credential"
    /\ k = {} => a = Blank
    /\ a.unavailable /\ a.retry > now => \E m \in k : t[m].unavailable /\ t[m].retry >= a.retry

LEMMA BlankIs ==
    /\ Blank \in Credentials /\ Blank.quota = NoQuota /\ Blank.retry = 0 /\ ~Blank.unavailable
    /\ NoQuota \in Quotas /\ ~NoQuota.exc /\ NoQuota.recover = 0 /\ NoQuota.reason = "" /\ NoQuota.level = 0
<1>1. NoQuota \in Quotas /\ ~NoQuota.exc /\ NoQuota.recover = 0 /\ NoQuota.reason = "" /\ NoQuota.level = 0
  BY DEF NoQuota, Quotas
<1>2. Blank.quota = NoQuota /\ Blank.retry = 0 /\ ~Blank.unavailable BY DEF Blank
<1>3. Blank \in Credentials BY <1>1 DEF Blank, Credentials
<1> QED BY <1>1, <1>2, <1>3

(* The quota of the credential is that of its models, or what is left of its own. *)
LEMMA AggregateQuotaIs ==
    ASSUME now \in Nat, NEW k \in SUBSET Model, NEW t,
           \A m \in k : t[m] \in States /\ (t[m].quota.exc => t[m].quota.recover > 0),
           NEW a \in Credentials, ~CredentialQuota(a)
    PROVE  LET q == AggregateQuota(k, t, a)
           IN  q \in Quotas /\ (q.exc => q.recover > 0) /\ q.reason # "credential"
<1> DEFINE over == {m \in k : t[m].quota.exc}
           q == AggregateQuota(k, t, a)
<1>1. a.quota \in Quotas /\ a.quota.recover \in Nat BY DEF Credentials, Quotas
<1>2. \A m \in k : t[m].quota \in Quotas /\ t[m].quota.level \in Nat /\ t[m].quota.recover \in Nat BY LayerIs
<1>3. CASE over # {}
  <2> DEFINE times == {t[m].quota.recover : m \in over}
             levels == {t[m].quota.level : m \in over}
             first == Earliest(times)
             next == Larger(first, a.quota.recover)
             level == Max(levels)
  <2>1. times \in SUBSET Nat /\ times # {} /\ levels \in SUBSET Nat /\ levels # {} BY <1>2, <1>3
  <2>2. first \in Nat /\ first \in times BY <2>1, EarliestIs
  <2>3. first > 0 BY <2>2
  <2>4. next \in Nat /\ next >= first BY <1>1, <2>2, LargerIs
  <2>5. next > 0
    <3> HIDE DEF next, first
    <3> QED BY <2>2, <2>3, <2>4
  <2>6. IsFiniteSet(levels)
    <3> DEFINE g == [m \in over |-> t[m].quota.level]
    <3>1. IsFiniteSet(over) BY FS_Subset, CooldownAssumption
    <3>2. g \in Surjection(over, levels) BY DEF Surjection
    <3> QED BY <3>1, <3>2, FS_Surjection
  <2>7. level \in Nat BY <2>1, <2>6, MaxIs
  <2>8. q = Quota("quota", next, level) BY <1>3 DEF AggregateQuota
  <2> HIDE DEF next, level, q
  <2>9. /\ Quota("quota", next, level) \in Quotas /\ Quota("quota", next, level).reason = "quota"
        /\ Quota("quota", next, level).recover = next
    BY <2>4, <2>7, QuotaIs
  <2> QED BY <2>5, <2>8, <2>9 DEF q
<1>4. CASE over = {} /\ a.quota.exc /\ a.quota.recover > now
  <2>1. q = a.quota BY <1>4 DEF AggregateQuota
  <2>2. a.quota.reason # "credential" BY <1>4 DEF CredentialQuota
  <2>3. a.quota.recover > 0 BY <1>1, <1>4
  <2> QED BY <1>1, <2>1, <2>2, <2>3
<1>5. CASE over = {} /\ ~(a.quota.exc /\ a.quota.recover > now)
  <2>1. q = NoQuota BY <1>5 DEF AggregateQuota
  <2>2. NoQuota \in Quotas /\ ~NoQuota.exc /\ NoQuota.reason = "" BY BlankIs
  <2> HIDE DEF q
  <2>3. q \in Quotas /\ ~q.exc /\ q.reason # "credential" BY <2>1, <2>2
  <2> QED BY <2>3 DEF q
<1> QED BY <1>3, <1>4, <1>5

LEMMA AggregateIs ==
    ASSUME now \in Nat, NEW k \in SUBSET Model, NEW t,
           \A m \in k : t[m] \in States /\ (t[m].quota.exc => t[m].quota.recover > 0),
           NEW a \in Credentials, ~CredentialQuota(a)
    PROVE  PlainOK(Aggregate(k, t, a), k, t)
<1> DEFINE A == Aggregate(k, t, a)
<1>1. CASE k = {}
  <2>1. A = [a EXCEPT !.unavailable = FALSE, !.retry = 0, !.quota = NoQuota] BY <1>1 DEF Aggregate
  <2>2. A = Blank BY <2>1 DEF Blank, Credentials
  <2>3. /\ Blank \in Credentials /\ ~Blank.quota.exc /\ Blank.quota.reason # "credential" /\ ~Blank.unavailable
    BY BlankIs
  <2> HIDE DEF A
  <2>4. PlainOK(Blank, k, t) BY <2>3 DEF PlainOK
  <2> QED BY <2>2, <2>4 DEF A
<1>2. CASE k # {}
  <2> DEFINE blocked == {m \in k : t[m].unavailable /\ t[m].retry > now}
             quota == AggregateQuota(k, t, a)
             times == {t[m].retry : m \in k}
             retry == IF blocked = k THEN Earliest(times) ELSE 0
             off == blocked = k
  <2>1. quota \in Quotas /\ (quota.exc => quota.recover > 0) /\ quota.reason # "credential" BY AggregateQuotaIs
  <2>2. times \in SUBSET Nat /\ times # {}
    <3>1. \A m \in k : t[m].retry \in Nat
      <4> SUFFICES ASSUME NEW m \in k PROVE t[m].retry \in Nat OBVIOUS
      <4>1. t[m] \in States OBVIOUS
      <4> QED BY <4>1, LayerIs
    <3>2. times \in SUBSET Nat BY <3>1
    <3>3. PICK m \in k : TRUE BY <1>2
    <3>4. t[m].retry \in times BY <3>3
    <3> QED BY <3>2, <3>4
  <2>3. Earliest(times) \in Nat /\ Earliest(times) \in times BY <2>2, EarliestIs
  <2>4. retry \in Nat /\ off \in BOOLEAN BY <2>3
  <2>5. ~(a.quota.exc /\ CredentialQuota(a)) OBVIOUS
  <2>6. A = [a EXCEPT !.unavailable = off, !.retry = retry, !.quota = quota] BY <1>2, <2>5 DEF Aggregate
  <2>7. off => \E m \in k : t[m].unavailable /\ t[m].retry = retry BY <2>3
  <2> HIDE DEF A, off, retry, quota
  <2>8. A \in Credentials /\ A.unavailable = off /\ A.retry = retry /\ A.quota = quota
    BY <2>1, <2>4, <2>6 DEF Credentials
  <2>9. A.unavailable => \E m \in k : t[m].unavailable /\ t[m].retry >= A.retry
    <3> SUFFICES ASSUME A.unavailable PROVE \E m \in k : t[m].unavailable /\ t[m].retry >= A.retry OBVIOUS
    <3>1. PICK m \in k : t[m].unavailable /\ t[m].retry = retry BY <2>7, <2>8
    <3>2. t[m].retry >= A.retry BY <2>4, <2>8, <3>1
    <3> QED BY <3>1, <3>2
  <2> QED BY <1>2, <2>1, <2>8, <2>9 DEF PlainOK, A
<1> QED BY <1>1, <1>2

(* The states of all models, each justified by its failures. *)
ModelsOK(k, t, d) ==
    /\ t \in [Model -> States]
    /\ \A m \in Model : ModelOK(t[m], m, d)
    /\ \A m \in Model \ k : t[m] = Reset

(* Clearing what has expired keeps that, and the layers below. *)
LEMMA RefreshedAll ==
    ASSUME Clock, NEW d \in Dues, NEW k, NEW t, ModelsOK(k, t, d)
    PROVE  LET u == Refreshed(k, t)
           IN  /\ ModelsOK(k, u, d)
               /\ \A m \in Model : /\ Wrapped(u[m]) <=> Wrapped(t[m])
                                   /\ OwnQuota(u[m]) = OwnQuota(t[m])
                                   /\ t[m].unavailable /\ t[m].retry > now => u[m] = t[m]
<1> DEFINE u == Refreshed(k, t)
<1>1. ASSUME NEW m \in Model
      PROVE  /\ ModelOK(u[m], m, d) /\ u[m] \in States
             /\ Wrapped(u[m]) <=> Wrapped(t[m])
             /\ OwnQuota(u[m]) = OwnQuota(t[m])
             /\ t[m].unavailable /\ t[m].retry > now => u[m] = t[m]
             /\ t[m] = Reset => u[m] = Reset
  <2>1. ModelOK(t[m], m, d) BY DEF ModelsOK
  <2>2. CASE m \in k
    <3>1. u[m] = IF Expired(t[m]) THEN [t[m] EXCEPT !.unavailable = FALSE, !.retry = 0] ELSE t[m]
      BY <2>2 DEF Refreshed
    <3> HIDE DEF u
    <3>2. /\ ModelOK(u[m], m, d) /\ (Wrapped(u[m]) <=> Wrapped(t[m])) /\ OwnQuota(u[m]) = OwnQuota(t[m])
          /\ t[m].unavailable /\ t[m].retry > now => u[m] = t[m]
          /\ t[m] = Reset => u[m] = Reset
      BY <2>1, <3>1, RefreshedIs
    <3>3. u[m] \in States BY <3>2, ModelIs
    <3> QED BY <3>2, <3>3
  <2>3. CASE m \notin k
    <3>1. u[m] = t[m] BY <2>3 DEF Refreshed
    <3> HIDE DEF u
    <3> QED BY <2>1, <3>1, ModelIs
  <2> QED BY <2>2, <2>3
<1>2. u \in [Model -> States]
  <2>1. u = [m \in Model |-> u[m]] BY DEF Refreshed
  <2> HIDE DEF u
  <2> QED BY <1>1, <2>1
<1> HIDE DEF u
<1>3. ModelsOK(k, u, d) BY <1>1, <1>2 DEF ModelsOK
<1> QED BY <1>1, <1>3 DEF u

(* A credential without a quota of its own agrees with its refreshed models. *)
LEMMA PlainAuth ==
    ASSUME Clock, NEW d \in Dues, ~(d.cred > now), NEW k \in SUBSET Model, NEW t, ModelsOK(k, t, d),
           NEW a, PlainOK(a, k, t)
    PROVE  AuthOK(a, k, Refreshed(k, t), d)
<1> DEFINE u == Refreshed(k, t)
<1>1. \A m \in Model : t[m].unavailable /\ t[m].retry > now => u[m] = t[m] BY RefreshedAll
<1>2. now \in Nat /\ d.credMost \in Nat BY DEF Clock, Dues
<1>3. a \in Credentials /\ a.retry \in Nat BY DEF PlainOK, Credentials
<1> HIDE DEF u
<1>4. ASSUME a.unavailable, a.retry > now PROVE \E m \in k : u[m].unavailable /\ u[m].retry >= a.retry
  <2>1. PICK m \in k : t[m].unavailable /\ t[m].retry >= a.retry BY <1>4 DEF PlainOK
  <2>2. m \in Model /\ t[m].retry \in Nat BY <2>1, LayerIs DEF ModelsOK
  <2>3. t[m].retry > now BY <1>2, <1>3, <1>4, <2>1, <2>2
  <2>4. u[m] = t[m] BY <1>1, <2>1, <2>2, <2>3
  <2> QED BY <2>1, <2>4
<1>5. ASSUME k = {} PROVE a.retry <= d.credMost /\ a.quota.recover <= d.credMost
  <2>1. a = Blank BY <1>5 DEF PlainOK
  <2>2. 0 <= d.credMost BY <1>2
  <2>3. a.retry = 0 /\ a.quota.recover = 0 BY <2>1, BlankIs
  <2> QED BY <2>2, <2>3
<1>6. a.quota.reason # "credential" /\ ~CredentialQuota(a) /\ (a.quota.exc => a.quota.recover > 0)
  BY DEF PlainOK, CredentialQuota
<1>7. AuthOK(a, k, u, d) BY <1>3, <1>4, <1>5, <1>6 DEF AuthOK
<1> QED BY <1>7 DEF u

(* What a writer must hand over to SetStates. *)
BaseOK(a, k, t, d) ==
    /\ a \in Credentials
    /\ a.quota.exc => a.quota.recover > 0
    /\ a.quota.reason = "credential" =>
          a.quota.exc /\ a.quota.recover <= d.credMost /\ a.retry <= d.credMost
    /\ d.cred > now => /\ a.retry = 0 \/ a.retry >= d.cred
                       /\ a.quota.reason = "credential" /\ a.quota.recover >= d.cred
    /\ CredentialQuota(a) => Covered(k, t, d)

LEMMA SetStatesIs ==
    ASSUME Clock, NEW d \in Dues, NEW k \in SUBSET Model, NEW t, ModelsOK(k, t, d), NEW a, BaseOK(a, k, t, d),
           SetStates(k, t, a)
    PROVE  /\ known' \subseteq Model /\ ModelsOK(known', st', d) /\ AuthOK(auth', known', st', d)
           /\ \A m \in Model : OwnQuota(st'[m]) = OwnQuota(t[m])
           /\ auth'.quota.reason = "credential" => auth'.quota = a.quota
           /\ known' = {} => ~auth'.unavailable \/ auth'.quota.recover > 0
<1>1. now \in Nat /\ d.cred \in Nat /\ d.credMost \in Nat BY DEF Clock, Dues
<1>2. a \in Credentials /\ a.retry \in Nat /\ a.quota.recover \in Nat BY DEF BaseOK, Credentials, Quotas
<1>3. CredentialQuota(a) => a.quota.exc BY DEF BaseOK, CredentialQuota
<1>4. known' = k BY DEF SetStates
<1>5. CASE CredentialQuota(a)
  <2>1. st' = t BY <1>3, <1>5 DEF SetStates
  <2>2. auth' = [a EXCEPT !.unavailable = TRUE]
    <3>1. auth' = Aggregate(k, t, a) BY DEF SetStates
    <3>2. a.quota.exc /\ CredentialQuota(a) BY <1>3, <1>5
    <3>3. Aggregate(k, t, a) = [a EXCEPT !.unavailable = TRUE] BY <3>2 DEF Aggregate
    <3> QED BY <3>1, <3>3
  <2>3. /\ auth' \in Credentials /\ auth'.unavailable /\ auth'.retry = a.retry /\ auth'.quota = a.quota
    BY <1>2, <2>2 DEF Credentials
  <2>4. a.quota.reason = "credential" BY <1>5 DEF CredentialQuota
  <2>5. CredentialQuota(auth') => Covered(k, t, d) BY <1>5 DEF BaseOK
  <2>6. AuthOK(auth', k, t, d) BY <2>3, <2>4, <2>5 DEF AuthOK, BaseOK
  <2>7. auth'.quota.recover > 0 BY <1>1, <1>2, <1>5, <2>3 DEF CredentialQuota
  <2> QED BY <1>4, <2>1, <2>3, <2>6, <2>7
<1>6. CASE ~CredentialQuota(a)
  <2>1. st' = Refreshed(k, t) /\ auth' = Aggregate(k, t, a) BY <1>6 DEF SetStates
  <2>2. ~(d.cred > now)
    <3> SUFFICES ASSUME d.cred > now PROVE FALSE OBVIOUS
    <3>1. a.quota.reason = "credential" /\ a.quota.recover >= d.cred BY DEF BaseOK
    <3>2. a.quota.recover > now BY <1>1, <1>2, <3>1
    <3> QED BY <1>6, <3>1, <3>2 DEF CredentialQuota
  <2>3. \A m \in k : t[m] \in States /\ (t[m].quota.exc => t[m].quota.recover > 0) BY ModelIs DEF ModelsOK
  <2>4. PlainOK(auth', k, t) BY <1>1, <1>2, <1>6, <2>1, <2>3, AggregateIs
  <2>5. AuthOK(auth', k, st', d) BY <2>1, <2>2, <2>4, PlainAuth
  <2>6. ModelsOK(k, st', d) /\ \A m \in Model : OwnQuota(st'[m]) = OwnQuota(t[m]) BY <2>1, RefreshedAll
  <2>7. auth'.quota.reason # "credential" BY <2>4 DEF PlainOK
  <2>8. k = {} => ~auth'.unavailable BY <2>4, BlankIs DEF PlainOK
  <2> QED BY <1>4, <2>5, <2>6, <2>7, <2>8
<1> QED BY <1>5, <1>6

(* The records of a state that is right are right. *)
LEMMA RecordsAre ==
    ASSUME now \in Nat, now > 0, NEW d \in Dues, NEW k \in SUBSET Model, NEW t, ModelsOK(k, t, d),
           NEW a, AuthOK(a, k, t, d), d.cred > now => a.retry # 0
    PROVE  LET r == Records(k, t, a)
           IN  /\ r \in [auth : Credentials \cup {Nil}, st : [Model -> States \cup {Nil}]]
               /\ DiskOK(r, d)
<1> DEFINE r == Records(k, t, a)
<1>1. a \in Credentials /\ a # Nil /\ a.retry \in Nat BY NilAssumption DEF AuthOK, Credentials
<1>2. r.auth = RecordOf(a) /\ \A m \in Model : r.st[m] = IF m \in k THEN RecordOf(t[m]) ELSE Nil BY DEF Records
<1>3. \A m \in Model : t[m] \in States /\ t[m] # Nil /\ t[m].retry \in Nat BY ModelIs DEF ModelsOK
<1>4. r \in [auth : Credentials \cup {Nil}, st : [Model -> States \cup {Nil}]]
  <2>1. RecordOf(a) \in Credentials \cup {Nil} BY <1>1 DEF RecordOf
  <2>2. \A m \in Model : RecordOf(t[m]) \in States \cup {Nil} BY <1>3 DEF RecordOf
  <2> QED BY <2>1, <2>2 DEF Records
<1> HIDE DEF r
<1>5. \A m \in Model : m \in Kept(r) <=> m \in k /\ t[m].unavailable /\ t[m].retry > now
  BY <1>2, <1>3 DEF Kept, RecordOf
<1>6. Kept(r) \subseteq Model /\ \A m \in Kept(r) : r.st[m] = t[m] /\ m \in k BY <1>2, <1>5 DEF Kept, RecordOf
<1>7. \A m \in Kept(r) : ModelOK(r.st[m], m, d) /\ r.st[m].unavailable BY <1>5, <1>6 DEF ModelsOK
<1>8. ASSUME NEW m \in Model \ d.mixed, d.own[m] > now PROVE m \in Kept(r)
  <2>1. HeldUntil(t[m], d.own[m], d.failed[m]) BY <1>8 DEF ModelsOK, ModelOK, OwedIn
  <2>2. t[m].unavailable /\ t[m].retry > now BY <1>3, <1>8, <2>1, DueIs DEF HeldUntil
  <2>3. m \in k
    <3> SUFFICES ASSUME m \notin k PROVE FALSE OBVIOUS
    <3>1. t[m] = Reset BY DEF ModelsOK
    <3>2. Reset.retry = 0 BY DEF Reset
    <3> QED BY <2>2, <3>1, <3>2
  <2> QED BY <1>5, <2>2, <2>3
<1>9. ASSUME d.cred > now PROVE r.auth # Nil
  <2>1. a.unavailable /\ a.retry >= d.cred BY <1>9 DEF AuthOK
  <2>2. d.cred \in Nat BY DEF Dues
  <2>3. a.retry > now BY <1>1, <1>9, <2>1, <2>2
  <2> QED BY <1>1, <1>2, <2>1, <2>3 DEF RecordOf
<1>10. ASSUME r.auth # Nil
       PROVE  AuthOK(r.auth, Kept(r), r.st, d) /\ r.auth.unavailable /\ r.auth.retry # 0
  <2>1. r.auth = a /\ a.unavailable /\ a.retry > now BY <1>2, <1>10 DEF RecordOf
  <2>2. \/ a.retry <= d.credMost /\ a.quota.recover <= d.credMost
        \/ \E m \in Kept(r) : r.st[m].unavailable /\ r.st[m].retry >= a.retry
    <3>1. CASE \E m \in k : t[m].unavailable /\ t[m].retry >= a.retry
      <4>1. PICK m \in k : t[m].unavailable /\ t[m].retry >= a.retry BY <3>1
      <4>2. t[m].retry > now BY <1>1, <1>3, <2>1, <4>1
      <4>3. m \in Kept(r) /\ r.st[m] = t[m] BY <1>5, <1>6, <4>1, <4>2
      <4> QED BY <4>1, <4>3
    <3>2. CASE ~\E m \in k : t[m].unavailable /\ t[m].retry >= a.retry BY <2>1, <3>2 DEF AuthOK
    <3> QED BY <3>1, <3>2
  <2>3. CredentialQuota(a) => Covered(Kept(r), r.st, d) BY <1>6 DEF AuthOK, Covered
  <2>4. Kept(r) = {} => a.retry <= d.credMost /\ a.quota.recover <= d.credMost BY <2>2
  <2>5. AuthOK(a, Kept(r), r.st, d) BY <2>2, <2>3, <2>4 DEF AuthOK
  <2> QED BY <1>1, <2>1, <2>5
<1> QED BY <1>4, <1>7, <1>8, <1>9, <1>10 DEF DiskOK, r

-----------------------------------------------------------------------------
(* The records are brought back one by one. *)

Fresh == [known |-> {}, auth |-> Blank]
Added(t, m, acc) ==
    [known |-> acc.known \cup {m}, auth |-> Aggregate(acc.known \cup {m}, t, acc.auth)]

(* g folds the records of every set in D. *)
Picked(s) == CHOOSE y \in s : TRUE
IsFold(g, D, t) ==
    g = [s \in D |-> IF s = {} THEN Fresh ELSE Added(t, Picked(s), g[s \ {Picked(s)}])]

(* There is such a function, for sets of one size after the other. *)
LEMMA FoldExists ==
    ASSUME NEW S, IsFiniteSet(S), NEW t PROVE \E g : IsFold(g, SUBSET S, t)
<1> DEFINE Sub(n) == {s \in SUBSET S : Cardinality(s) <= n}
           Bad == {n \in Nat : ~\E g : IsFold(g, Sub(n), t)}
<1>1. \A s \in SUBSET S : IsFiniteSet(s) /\ Cardinality(s) \in Nat BY FS_Subset, FS_CardinalityType
<1>2. 0 \notin Bad
  <2> DEFINE g == [s \in Sub(0) |-> Fresh]
  <2>1. \A s \in Sub(0) : s = {} BY <1>1, FS_EmptySet
  <2>2. IsFold(g, Sub(0), t) BY <2>1 DEF IsFold
  <2> QED BY <2>2
<1>3. ASSUME NEW n \in Nat, n \notin Bad PROVE n + 1 \notin Bad
  <2>1. PICK g : IsFold(g, Sub(n), t) BY <1>3
  <2> DEFINE h == [s \in Sub(n + 1) |-> IF s = {} THEN Fresh ELSE Added(t, Picked(s), g[s \ {Picked(s)}])]
  <2>2. \A s \in Sub(n) : s \in Sub(n + 1) BY <1>1
  <2>3. \A s \in Sub(n) : h[s] = g[s] BY <2>1, <2>2 DEF IsFold
  <2>4. ASSUME NEW s \in Sub(n + 1), s # {} PROVE s \ {Picked(s)} \in Sub(n)
    <3>1. Picked(s) \in s BY <2>4 DEF Picked
    <3>2. Cardinality(s \ {Picked(s)}) = Cardinality(s) - 1 BY <1>1, <3>1, FS_RemoveElement
    <3>3. Cardinality(s) \in Nat /\ Cardinality(s) <= n + 1 BY <1>1
    <3>4. Cardinality(s \ {Picked(s)}) <= n BY <3>2, <3>3
    <3> QED BY <3>4
  <2>5. \A s \in Sub(n + 1) : s # {} => h[s \ {Picked(s)}] = g[s \ {Picked(s)}] BY <2>3, <2>4
  <2>6. IsFold(h, Sub(n + 1), t)
    <3> HIDE DEF Sub
    <3> QED BY <2>5 DEF IsFold
  <2> QED BY <2>6
<1>4. Bad = {}
  <2> SUFFICES ASSUME Bad # {} PROVE FALSE OBVIOUS
  <2>1. PICK n \in Bad : \A k \in Bad : n <= k BY LeastNumber
  <2>2. n \in Nat /\ n # 0 BY <1>2, <2>1
  <2>3. n - 1 \in Nat /\ ~(n <= n - 1) BY <2>2
  <2>4. n - 1 \notin Bad BY <2>1, <2>3
  <2>5. (n - 1) + 1 \notin Bad BY <1>3, <2>3, <2>4
  <2>6. (n - 1) + 1 = n BY <2>2
  <2> HIDE DEF Bad
  <2> QED BY <2>1, <2>5, <2>6
<1>5. Cardinality(S) \in Nat /\ Sub(Cardinality(S)) = SUBSET S BY <1>1, FS_Subset, FS_CardinalityType
<1>6. \E g : IsFold(g, Sub(Cardinality(S)), t) BY <1>4, <1>5
<1> QED BY <1>5, <1>6

(* Folding the records of plain models gives a plain credential. *)
LEMMA FoldIs ==
    ASSUME now \in Nat, NEW S \in SUBSET Model, NEW t,
           \A m \in S : t[m] \in States /\ (t[m].quota.exc => t[m].quota.recover > 0),
           NEW g, IsFold(g, SUBSET S, t)
    PROVE  PlainOK(g[S].auth, S, t)
<1> DEFINE Good(s) == g[s].known = s /\ PlainOK(g[s].auth, s, t)
           Bad == {s \in SUBSET S : ~Good(s)}
           Sizes == {Cardinality(s) : s \in Bad}
<1>1. IsFiniteSet(S) BY FS_Subset, CooldownAssumption
<1>2. \A s \in SUBSET S : IsFiniteSet(s) /\ Cardinality(s) \in Nat BY <1>1, FS_Subset, FS_CardinalityType
<1>3. \A s \in SUBSET S : g[s] = IF s = {} THEN Fresh ELSE Added(t, Picked(s), g[s \ {Picked(s)}])
  BY DEF IsFold
<1>4. Good({})
  <2>1. g[{}] = Fresh BY <1>3
  <2>2. /\ Blank \in Credentials /\ ~Blank.quota.exc /\ Blank.quota.reason # "credential" /\ ~Blank.unavailable
    BY BlankIs
  <2>3. PlainOK(Blank, {}, t) BY <2>2 DEF PlainOK
  <2> QED BY <2>1, <2>3 DEF Fresh
<1>5. ASSUME NEW s \in SUBSET S, s # {}, Good(s \ {Picked(s)}) PROVE Good(s)
  <2> DEFINE u == s \ {Picked(s)}
             a == g[u].auth
  <2>1. Picked(s) \in s BY <1>5 DEF Picked
  <2>2. g[s] = Added(t, Picked(s), g[u]) BY <1>3, <1>5
  <2>3. g[u].known = u /\ PlainOK(a, u, t) BY <1>5
  <2>4. u \cup {Picked(s)} = s BY <2>1
  <2>5. g[s].known = s /\ g[s].auth = Aggregate(s, t, a)
    <3> DEFINE acc == g[u]
    <3>1. Added(t, Picked(s), acc).known = acc.known \cup {Picked(s)} BY DEF Added
    <3>2. Added(t, Picked(s), acc).auth = Aggregate(acc.known \cup {Picked(s)}, t, acc.auth) BY DEF Added
    <3>3. acc.known \cup {Picked(s)} = s BY <2>3, <2>4
    <3> QED BY <2>2, <3>1, <3>2, <3>3
  <2>6. a \in Credentials /\ ~CredentialQuota(a) BY <2>3 DEF PlainOK, CredentialQuota
  <2> HIDE DEF a
  <2>7. s \in SUBSET Model /\ \A m \in s : t[m] \in States /\ (t[m].quota.exc => t[m].quota.recover > 0) OBVIOUS
  <2>8. PlainOK(Aggregate(s, t, a), s, t) BY <2>6, <2>7, AggregateIs
  <2> QED BY <2>5, <2>8
<1>6. Bad = {}
  <2> SUFFICES ASSUME Bad # {} PROVE FALSE OBVIOUS
  <2>1. Sizes \in SUBSET Nat /\ Sizes # {} BY <1>2
  <2>2. PICK n \in Sizes : \A k \in Sizes : n <= k BY <2>1, LeastNumber
  <2>3. PICK s \in Bad : Cardinality(s) = n BY <2>2
  <2>4. s # {} BY <1>4, <2>3
  <2>5. Picked(s) \in s BY <2>4 DEF Picked
  <2>6. Cardinality(s \ {Picked(s)}) = n - 1 BY <1>2, <2>3, <2>5, FS_RemoveElement
  <2>7. n \in Nat /\ ~(n <= n - 1) BY <2>1
  <2>8. s \ {Picked(s)} \notin Bad BY <2>2, <2>6, <2>7
  <2>9. Good(s \ {Picked(s)}) BY <2>3, <2>8
  <2>10. Good(s) BY <1>5, <2>3, <2>4, <2>9
  <2> QED BY <2>3, <2>10
<1> QED BY <1>6

(* What Restart's fold returns. *)
LEMMA FoldSetIs ==
    ASSUME now \in Nat, NEW on \in SUBSET Model, NEW t,
           \A m \in on : t[m] \in States /\ (t[m].quota.exc => t[m].quota.recover > 0)
    PROVE  LET AddRecord(m, acc) ==
                   [known |-> acc.known \cup {m},
                    auth |-> Aggregate(acc.known \cup {m}, t, acc.auth)]
               fresh == [known |-> {}, auth |-> Blank]
           IN  PlainOK(FoldSet(AddRecord, fresh, on).auth, on, t)
<1> DEFINE AddRecord(m, acc) ==
               [known |-> acc.known \cup {m},
                auth |-> Aggregate(acc.known \cup {m}, t, acc.auth)]
           fresh == [known |-> {}, auth |-> Blank]
           iter == CHOOSE g : g = [s \in SUBSET on |->
                       IF s = {} THEN fresh
                       ELSE LET x == CHOOSE y \in s : TRUE IN AddRecord(x, g[s \ {x}])]
<1>1. FoldSet(AddRecord, fresh, on) = iter[on] BY DEF FoldSet, MapThenFoldSet
<1>2. \A g : IsFold(g, SUBSET on, t) <=>
             g = [s \in SUBSET on |-> IF s = {} THEN fresh
                                      ELSE LET x == CHOOSE y \in s : TRUE IN AddRecord(x, g[s \ {x}])]
  BY DEF IsFold, Added, Picked, Fresh, Blank
<1>3. IsFiniteSet(on) BY FS_Subset, CooldownAssumption
<1>4. \E g : IsFold(g, SUBSET on, t) BY <1>3, FoldExists
<1>5. IsFold(iter, SUBSET on, t) BY <1>2, <1>4
<1> HIDE DEF iter
<1>6. PlainOK(iter[on].auth, on, t) BY <1>5, FoldIs
<1> QED BY <1>1, <1>6

-----------------------------------------------------------------------------
(* The steps. *)

(* What OncePerWindow says of a step. *)
Ladder ==
    restarts' = restarts =>
       /\ \A m \in Model :
           /\ Climbs(OwnQuota(st[m]), OwnQuota(st'[m]))
           /\ OwnQuota(st[m]).reason = "quota" /\ m \notin due'.mixed
           => OwnQuota(st[m]).recover <= now
       /\ Climbs(auth.quota, auth'.quota) /\ auth.quota.reason = "credential"
          => auth.quota.recover <= now
StepOK == CooldownInv' /\ Ladder

LEMMA InvIs ==
    ASSUME CooldownInv
    PROVE  /\ Clock /\ now \in 1 .. MaxTime /\ due \in Dues /\ dueDisk \in Dues /\ terminal \in BOOLEAN
           /\ known \in SUBSET Model /\ ModelsOK(known, st, due) /\ AuthOK(auth, known, st, due)
           /\ BaseOK(auth, known, st, due)
<1>1. MaxTime \in Nat /\ now \in 1 .. MaxTime BY CooldownAssumption DEF CooldownInv, CooldownTypeOK
<1>2. now \in Nat /\ now > 0 BY <1>1
<1>3. Clock BY <1>2 DEF Clock, CooldownInv, CooldownTypeOK, LiveOK, AuthOK
<1>4. ModelsOK(known, st, due) BY DEF ModelsOK, CooldownInv, CooldownTypeOK, LiveOK
<1>5. AuthOK(auth, known, st, due) BY DEF CooldownInv, LiveOK
<1>6. BaseOK(auth, known, st, due) BY <1>5 DEF AuthOK, BaseOK
<1> QED BY <1>1, <1>3, <1>4, <1>5, <1>6 DEF CooldownInv, CooldownTypeOK

(* The parts of the invariant after a step that takes no time. *)
LEMMA Preserved ==
    ASSUME CooldownInv, now' = now,
           seq' \in 0 .. MaxSeq, running' \subseteq [seq : 1 .. MaxSeq, model : Model],
           known' \subseteq Model, due' \in Dues, ModelsOK(known', st', due'), AuthOK(auth', known', st', due'),
           disk' \in [auth : Credentials \cup {Nil}, st : [Model -> States \cup {Nil}]],
           dueDisk' \in Dues, DiskOK(disk', dueDisk'), terminal' \in BOOLEAN, RefusedOK',
           observed' \in BOOLEAN, dirty' \in BOOLEAN, restarts' \in 0 .. MaxRestarts,
           observed' => due'.seen, \A m \in Model : due'.failed[m] <= seq'
    PROVE  CooldownInv'
<1>1. \A m \in Model : st'[m].shadow # Nil => ~Wrapped(st'[m].shadow)
  BY ModelIs DEF ModelsOK, OwnOK
<1>2. auth' \in Credentials BY DEF AuthOK
<1>3. now' \in 1 .. MaxTime BY DEF CooldownInv, CooldownTypeOK
<1>4. CooldownTypeOK'
  BY <1>1, <1>2, <1>3 DEF CooldownTypeOK, ModelsOK, Wrapped
<1>5. LiveOK(known, st, auth, due)'
  BY DEF LiveOK, ModelsOK, ModelOK, OwedIn, AuthOK, CredentialQuota
<1>6. DiskOK(disk, dueDisk)' BY DEF DiskOK, Kept, ModelOK, OwedIn, AuthOK, CredentialQuota
<1> QED BY <1>4, <1>5, <1>6 DEF CooldownInv

(* A quota does not climb over itself, nor when it is gone. *)
LEMMA NoClimb ==
    ASSUME NEW s \in States, NEW q, q \in {OwnQuota(s), NoQuota}
    PROVE  ~Climbs(OwnQuota(s), q)
<1>1. OwnQuota(s).level \in Nat
  <2>1. s.quota.level \in Nat BY LayerIs
  <2>2. NoQuota.level \in Nat BY DEF NoQuota
  <2>3. s.shadow # Nil => s.shadow.quota.level \in Nat BY LayerIs
  <2> QED BY <2>1, <2>3, <2>2 DEF OwnQuota
<1>2. CASE q = OwnQuota(s) BY <1>1, <1>2 DEF Climbs
<1>3. CASE q = NoQuota
  <2>1. ~q.exc BY <1>3, BlankIs
  <2> QED BY <2>1 DEF Climbs
<1> QED BY <1>2, <1>3

(* A step that leaves the quotas alone climbs nothing. *)
LEMMA NoLadder == ASSUME CooldownInv, st' = st, auth'.quota = auth.quota PROVE Ladder
<1>1. \A m \in Model : st[m] \in States /\ st'[m] = st[m] BY InvIs DEF ModelsOK
<1>2. \A m \in Model : ~Climbs(OwnQuota(st[m]), OwnQuota(st'[m])) BY <1>1, NoClimb
<1>3. auth'.quota = auth.quota /\ auth.quota.level \in Nat BY InvIs DEF AuthOK, Credentials, Quotas
<1>4. ~Climbs(auth.quota, auth'.quota) BY <1>3 DEF Climbs
<1> QED BY <1>2, <1>4 DEF Ladder

(* A step of a writer of the credential. *)
LEMMA WriteStep ==
    ASSUME CooldownInv, due' \in Dues, known' \subseteq Model,
           ModelsOK(known', st', due'), AuthOK(auth', known', st', due'), RefusedOK', Ladder,
           now' = now, seq' = seq, running' \subseteq running, terminal' \in BOOLEAN, dirty' \in BOOLEAN,
           observed' \in BOOLEAN, observed' => due'.seen, UNCHANGED <<disk, restarts, dueDisk>>,
           \A m \in Model : due'.failed[m] <= seq
    PROVE  StepOK
<1>1. /\ seq' \in 0 .. MaxSeq /\ running' \subseteq [seq : 1 .. MaxSeq, model : Model]
      /\ disk' \in [auth : Credentials \cup {Nil}, st : [Model -> States \cup {Nil}]]
      /\ dueDisk' \in Dues /\ restarts' \in 0 .. MaxRestarts
      /\ \A m \in Model : due'.failed[m] <= seq'
  BY DEF CooldownInv, CooldownTypeOK
<1>2. DiskOK(disk', dueDisk') BY DEF CooldownInv
<1>3. CooldownInv' BY <1>1, <1>2, Preserved
<1> QED BY <1>3 DEF StepOK

(* What a writer does to the ladders, before it aggregates. *)
NoRungs(t, a) ==
    /\ \A m \in Model : /\ m \notin due'.mixed /\ Climbs(OwnQuota(st[m]), OwnQuota(t[m]))
                        /\ OwnQuota(st[m]).reason = "quota"
                        => OwnQuota(st[m]).recover <= now
    /\ Climbs(auth.quota, a.quota) /\ auth.quota.reason = "credential" => auth.quota.recover <= now

(* A step that aggregates the cooldowns. *)
LEMMA SetStep ==
    ASSUME CooldownInv, NEW k \in SUBSET Model, NEW t, NEW a, due' \in Dues,
           ModelsOK(k, t, due'), BaseOK(a, k, t, due'), SetStates(k, t, a), NoRungs(t, a),
           now' = now, seq' = seq, running' \subseteq running, observed' = FALSE, terminal' = FALSE,
           dirty' \in BOOLEAN, UNCHANGED <<disk, restarts, dueDisk>>,
           \A m \in Model : due'.failed[m] <= seq
    PROVE  StepOK
<1>1. Clock BY InvIs
<1>2. /\ known' \subseteq Model /\ ModelsOK(known', st', due') /\ AuthOK(auth', known', st', due')
      /\ \A m \in Model : OwnQuota(st'[m]) = OwnQuota(t[m])
      /\ auth'.quota.reason = "credential" => auth'.quota = a.quota
      /\ known' = {} => ~auth'.unavailable \/ auth'.quota.recover > 0
  BY <1>1, SetStatesIs
<1>3. Ladder
  <2>1. ASSUME NEW m \in Model, m \notin due'.mixed, Climbs(OwnQuota(st[m]), OwnQuota(st'[m])),
               OwnQuota(st[m]).reason = "quota"
        PROVE  OwnQuota(st[m]).recover <= now
    BY <1>2, <2>1 DEF NoRungs
  <2>2. ASSUME Climbs(auth.quota, auth'.quota), auth.quota.reason = "credential" PROVE auth.quota.recover <= now
    <3>1. auth'.quota = a.quota BY <1>2, <2>2 DEF Climbs
    <3> QED BY <2>2, <3>1 DEF NoRungs
  <2> QED BY <2>1, <2>2 DEF Ladder
<1>4. RefusedOK' BY <1>2 DEF RefusedOK
<1>5. observed' \in BOOLEAN /\ ~observed' /\ terminal' \in BOOLEAN BY Zenon
<1> QED BY <1>2, <1>3, <1>4, <1>5, WriteStep

(* The step of a result: a terminal credential stays as it is. *)
LEMMA MarkStep ==
    ASSUME CooldownInv, NEW k \in SUBSET Model, NEW t, NEW a, due' \in Dues,
           ModelsOK(k, t, due'), BaseOK(a, k, t, due'), MarkStates(k, t, a), NoRungs(t, a),
           terminal => /\ a = auth /\ known \subseteq k
                       /\ due'.refused = due.refused /\ due'.credMost >= due.credMost,
           now' = now, seq' = seq, running' \subseteq running, observed' = FALSE, terminal' = terminal,
           NoteChange, UNCHANGED <<disk, restarts, dueDisk>>,
           \A m \in Model : due'.failed[m] <= seq
    PROVE  StepOK
<1>1. dirty' \in BOOLEAN BY Zenon DEF NoteChange
<1>2. terminal \in BOOLEAN BY InvIs
<1>3. CASE ~terminal
  <2>1. SetStates(k, t, a) /\ terminal' = FALSE BY <1>2, <1>3 DEF MarkStates
  <2> QED BY <1>1, <2>1, SetStep
<1>4. CASE terminal
  <2>1. known' = k /\ st' = t /\ auth' = [auth EXCEPT !.unavailable = TRUE, !.retry = 0] BY <1>4 DEF MarkStates
  <2>2. auth \in Credentials /\ AuthOK(auth, known, st, due) /\ due \in Dues BY InvIs DEF AuthOK
  <2>3. /\ auth' \in Credentials /\ auth'.unavailable /\ auth'.retry = 0 /\ auth'.quota = auth.quota
        /\ auth.quota.recover \in Nat
    BY <2>1, <2>2 DEF Credentials, Quotas
  <2>4. due.credMost \in Nat /\ due'.credMost \in Nat /\ due'.credMost >= due.credMost BY <1>4, <2>2 DEF Dues
  <2>5. now \in Nat BY InvIs DEF Clock
  <2>6. k = {} => auth'.quota.recover <= due'.credMost
    <3> SUFFICES ASSUME k = {} PROVE auth'.quota.recover <= due'.credMost OBVIOUS
    <3>1. known = {} BY <1>4
    <3>2. auth.quota.recover <= due.credMost BY <2>2, <3>1 DEF AuthOK
    <3> QED BY <2>3, <2>4, <3>2
  <2>7. /\ ~(auth'.retry > now) /\ auth'.retry <= due'.credMost BY <2>3, <2>4, <2>5
  <2>8. BaseOK(auth, k, t, due') BY <1>4
  <2>9. AuthOK(auth', k, t, due') BY <2>3, <2>6, <2>7, <2>8 DEF AuthOK, BaseOK, CredentialQuota
  <2>10. due'.refused BY <1>4 DEF CooldownInv, RefusedOK
  <2>11. RefusedOK' BY <2>3, <2>10 DEF RefusedOK
  <2>12. Ladder
    <3>1. auth'.quota = a.quota BY <1>4, <2>3
    <3> QED BY <2>1, <3>1 DEF Ladder, NoRungs
  <2>13. observed' \in BOOLEAN /\ ~observed' /\ terminal' \in BOOLEAN BY <1>2, Zenon
  <2> QED BY <1>1, <2>1, <2>9, <2>11, <2>12, <2>13, WriteStep
<1> QED BY <1>2, <1>3, <1>4

(* Time passes: only what has expired is no longer asked for. *)
LEMMA TickStep == ASSUME CooldownInv, Tick PROVE StepOK
<1>1. MaxTime \in Nat BY CooldownAssumption
<1>2. now \in 1 .. MaxTime /\ now' = now + 1 /\ now < MaxTime BY DEF CooldownInv, CooldownTypeOK, Tick
<1>3. now \in Nat /\ now' \in 1 .. MaxTime /\ now' \in Nat BY <1>1, <1>2
<1>4. \A x \in Nat : x > now' => x > now BY <1>2, <1>3
<1>5. UNCHANGED <<seq, running, known, st, auth, terminal, observed, disk, dirty, restarts, due, dueDisk>>
  BY DEF Tick, cooldown
<1>6. CooldownTypeOK' BY <1>3, <1>5 DEF CooldownInv, CooldownTypeOK, Wrapped
<1>7. \A d \in Dues : \A m \in Model : d.own[m] \in Nat /\ d.cred \in Nat BY DueIs
<1>8. ASSUME NEW d \in Dues, NEW s, NEW m \in Model, ModelOK(s, m, d)
      PROVE  /\ Within(s, d.ownMost[m], d.credMost)
             /\ m \notin d.mixed => /\ OwnOK(s, d.ownMost[m]) \/ (Wrapped(s) /\ s.quota.exc)
                                    /\ d.own[m] > now' =>
                                         /\ HeldUntil(s, d.own[m], d.failed[m])
                                         /\ Wrapped(s) => /\ s.shadow # Nil
                                                          /\ HeldUntil(s.shadow, d.own[m], d.failed[m])
  <2>1. d.own[m] > now' => d.own[m] > now BY <1>4, <1>7
  <2> QED BY <1>8, <2>1 DEF ModelOK, OwedIn
<1>9. \A m \in Model : ModelOK(st[m], m, due)'
  <2> SUFFICES ASSUME NEW m \in Model PROVE ModelOK(st[m], m, due)' OBVIOUS
  <2>1. ModelOK(st[m], m, due) /\ due \in Dues BY InvIs DEF ModelsOK
  <2> QED BY <1>5, <1>8, <2>1 DEF ModelOK, OwedIn
<1>10. auth \in Credentials /\ auth.retry \in Nat /\ auth.quota.recover \in Nat
  BY InvIs DEF AuthOK, Credentials, Quotas
<1>11. AuthOK(auth, known, st, due)'
  <2>1. AuthOK(auth, known, st, due) /\ due.cred \in Nat BY InvIs DEF Dues
  <2>2. /\ auth.retry > now' => auth.retry > now
        /\ auth.quota.recover > now' => auth.quota.recover > now
        /\ due.cred > now' => due.cred > now
    BY <1>4, <1>10, <2>1
  <2> QED BY <1>5, <2>1, <2>2 DEF AuthOK, CredentialQuota
<1>12. LiveOK(known, st, auth, due)' BY <1>5, <1>9, <1>11 DEF LiveOK, CooldownInv
<1>13. DiskOK(disk, dueDisk) /\ dueDisk \in Dues BY DEF CooldownInv, CooldownTypeOK
<1>14. \A m \in Kept(disk) : ModelOK(disk.st[m], m, dueDisk)' /\ disk.st[m].unavailable
  <2> SUFFICES ASSUME NEW m \in Kept(disk) PROVE ModelOK(disk.st[m], m, dueDisk)' /\ disk.st[m].unavailable OBVIOUS
  <2>1. ModelOK(disk.st[m], m, dueDisk) /\ m \in Model /\ disk.st[m].unavailable BY <1>13 DEF DiskOK, Kept
  <2> QED BY <1>5, <1>8, <1>13, <2>1 DEF ModelOK, OwedIn
<1>15. disk.auth # Nil => AuthOK(disk.auth, Kept(disk), disk.st, dueDisk)'
  <2> SUFFICES ASSUME disk.auth # Nil PROVE AuthOK(disk.auth, Kept(disk), disk.st, dueDisk)' OBVIOUS
  <2>1. AuthOK(disk.auth, Kept(disk), disk.st, dueDisk) /\ dueDisk.cred \in Nat BY <1>13 DEF DiskOK, Dues
  <2>2. disk.auth.retry \in Nat /\ disk.auth.quota.recover \in Nat BY <2>1 DEF AuthOK, Credentials, Quotas
  <2>3. /\ disk.auth.retry > now' => disk.auth.retry > now
        /\ disk.auth.quota.recover > now' => disk.auth.quota.recover > now
        /\ dueDisk.cred > now' => dueDisk.cred > now
    BY <1>4, <2>1, <2>2
  <2>4. Kept(disk)' = Kept(disk) BY <1>5 DEF Kept
  <2> QED BY <1>5, <2>1, <2>3, <2>4 DEF AuthOK, CredentialQuota
<1>16. DiskOK(disk, dueDisk)'
  <2>1. Kept(disk)' = Kept(disk) BY <1>5 DEF Kept
  <2>2. /\ \A m \in Model : dueDisk.own[m] > now' => dueDisk.own[m] > now
        /\ dueDisk.cred > now' => dueDisk.cred > now
    <3>1. dueDisk.cred \in Nat BY <1>13 DEF Dues
    <3> QED BY <1>4, <1>7, <1>13, <3>1
  <2> QED BY <1>5, <1>13, <1>14, <1>15, <2>1, <2>2 DEF DiskOK
<1>17. RefusedOK' BY <1>5 DEF CooldownInv, RefusedOK
<1>18. CooldownInv' BY <1>5, <1>6, <1>12, <1>16, <1>17 DEF CooldownInv
<1>19. Ladder BY <1>5, NoLadder
<1> QED BY <1>18, <1>19 DEF StepOK

(* Steps that write nothing to the cooldowns. *)
LEMMA DispatchStep == ASSUME CooldownInv, NEW m \in Model, Dispatch(m) PROVE StepOK
<1>1. UNCHANGED <<now, known, st, auth, terminal, observed, disk, dirty, restarts, due, dueDisk>>
  BY DEF Dispatch, cooldown
<1>2. MaxSeq \in Nat BY CooldownAssumption
<1>3. /\ seq \in 0 .. MaxSeq /\ running \subseteq [seq : 1 .. MaxSeq, model : Model]
      /\ seq < MaxSeq /\ seq' = seq + 1 /\ running' = running \cup {[seq |-> seq + 1, model |-> m]}
  BY DEF Dispatch, CooldownInv, CooldownTypeOK
<1>4. seq' \in 0 .. MaxSeq /\ seq + 1 \in 1 .. MaxSeq BY <1>2, <1>3
<1>5. running' \subseteq [seq : 1 .. MaxSeq, model : Model] BY <1>3, <1>4
<1>6. \A o \in Model : due'.failed[o] <= seq'
  <2>1. \A o \in Model : due.failed[o] <= seq /\ due.failed[o] \in Nat BY InvIs, DueIs DEF CooldownInv
  <2>2. \A o \in Model : due.failed[o] <= seq + 1 BY <1>3, <2>1
  <2> QED BY <1>1, <1>3, <2>2
<1>7. /\ known' \subseteq Model /\ due' \in Dues /\ ModelsOK(known', st', due') /\ AuthOK(auth', known', st', due')
  BY <1>1, InvIs
<1>8. /\ disk' \in [auth : Credentials \cup {Nil}, st : [Model -> States \cup {Nil}]]
      /\ dueDisk' \in Dues /\ restarts' \in 0 .. MaxRestarts /\ observed' \in BOOLEAN /\ dirty' \in BOOLEAN
      /\ observed' => due'.seen
      /\ terminal' \in BOOLEAN
  BY <1>1 DEF CooldownInv, CooldownTypeOK
<1>9. DiskOK(disk', dueDisk') BY <1>1 DEF CooldownInv
<1>10. RefusedOK' BY <1>1 DEF CooldownInv, RefusedOK
<1>11. CooldownInv' BY <1>1, <1>4, <1>5, <1>6, <1>7, <1>8, <1>9, <1>10, Preserved
<1> QED BY <1>1, <1>11, NoLadder DEF StepOK

LEMMA NeutralStep == ASSUME CooldownInv, NEW e, Neutral(e) PROVE StepOK
<1>1. UNCHANGED <<now, seq, known, st, auth, terminal, disk, dirty, restarts, due, dueDisk>>
  BY DEF Neutral, cooldown
<1>2. observed' = FALSE /\ running' \subseteq running BY DEF Neutral, Ends
<1>3. /\ known' \subseteq Model /\ due' \in Dues /\ ModelsOK(known', st', due') /\ AuthOK(auth', known', st', due')
      /\ terminal' \in BOOLEAN
  BY <1>1, InvIs
<1>4. RefusedOK' BY <1>1 DEF CooldownInv, RefusedOK
<1>5. dirty' \in BOOLEAN /\ \A m \in Model : due'.failed[m] <= seq BY <1>1 DEF CooldownInv, CooldownTypeOK
<1>6. observed' \in BOOLEAN /\ ~observed' BY <1>2, Zenon
<1>7. Ladder BY <1>1, NoLadder
<1> QED BY <1>1, <1>2, <1>3, <1>4, <1>5, <1>6, <1>7, WriteStep

LEMMA ObserveStep == ASSUME CooldownInv, Observe PROVE StepOK
<1>1. UNCHANGED <<now, seq, running, known, st, auth, terminal, disk, dirty, restarts, dueDisk>>
  BY DEF Observe, cooldown
<1>2. observed' = TRUE /\ due' = [due EXCEPT !.seen = TRUE] /\ due \in Dues BY InvIs DEF Observe
<1>3. /\ due' \in Dues /\ due'.seen /\ due'.own = due.own /\ due'.ownMost = due.ownMost /\ due'.failed = due.failed
      /\ due'.cred = due.cred /\ due'.credMost = due.credMost /\ due'.mixed = due.mixed
      /\ due'.refused = due.refused
  BY <1>2 DEF Dues
<1>4. ModelsOK(known, st, due) /\ AuthOK(auth, known, st, due) BY InvIs
<1>5. ModelsOK(known', st', due') BY <1>1, <1>3, <1>4 DEF ModelsOK, ModelOK, OwedIn
<1>6. AuthOK(auth', known', st', due') BY <1>1, <1>3, <1>4 DEF AuthOK, Covered
<1>7. RefusedOK' BY <1>1, <1>3 DEF CooldownInv, RefusedOK
<1>8. /\ known' \subseteq Model /\ terminal' \in BOOLEAN /\ dirty' \in BOOLEAN
      /\ \A m \in Model : due'.failed[m] <= seq
  BY <1>1, <1>3 DEF CooldownInv, CooldownTypeOK
<1>9. Ladder BY <1>1, NoLadder
<1>10. observed' \in BOOLEAN BY <1>2
<1> QED BY <1>1, <1>3, <1>5, <1>6, <1>7, <1>8, <1>9, <1>10, WriteStep

(* A credential without a deadline of its own owes none after a restart. *)
LEMMA PersistStep == ASSUME CooldownInv, Persist PROVE StepOK
<1>1. UNCHANGED <<now, seq, running, known, st, auth, terminal, observed, restarts, due>> BY DEF Persist, cooldown
<1>2. /\ disk' = Records(known, st, auth) /\ dirty' = FALSE
      /\ dueDisk' = IF auth.retry = 0 THEN [due EXCEPT !.cred = 0] ELSE due
  BY DEF Persist
<1>3. /\ now \in Nat /\ now > 0 /\ due \in Dues /\ known \in SUBSET Model
      /\ ModelsOK(known, st, due) /\ AuthOK(auth, known, st, due) /\ auth.retry \in Nat
  BY InvIs DEF Clock, AuthOK, Credentials
<1>4. /\ dueDisk' \in Dues /\ dueDisk'.own = due.own /\ dueDisk'.ownMost = due.ownMost
      /\ dueDisk'.failed = due.failed /\ dueDisk'.credMost = due.credMost /\ dueDisk'.mixed = due.mixed
      /\ dueDisk'.cred = due.cred \/ dueDisk'.cred = 0
      /\ auth.retry = 0 => dueDisk'.cred = 0
  <2>1. CASE auth.retry = 0
    <3>1. dueDisk' = [due EXCEPT !.cred = 0] BY <1>2, <2>1
    <3> QED BY <1>3, <3>1 DEF Dues
  <2>2. CASE auth.retry # 0
    <3>1. dueDisk' = due BY <1>2, <2>2
    <3> QED BY <1>3, <2>2, <3>1
  <2> QED BY <2>1, <2>2
<1>5. ModelsOK(known, st, dueDisk') BY <1>3, <1>4 DEF ModelsOK, ModelOK, OwedIn
<1>6. dueDisk'.cred > now => dueDisk'.cred = due.cred /\ auth.retry # 0 BY <1>3, <1>4
<1>7. AuthOK(auth, known, st, dueDisk') BY <1>3, <1>4, <1>6 DEF AuthOK, Covered
<1>8. /\ Records(known, st, auth) \in [auth : Credentials \cup {Nil}, st : [Model -> States \cup {Nil}]]
      /\ DiskOK(Records(known, st, auth), dueDisk')
  BY <1>3, <1>4, <1>5, <1>6, <1>7, RecordsAre
<1>9. /\ seq' \in 0 .. MaxSeq /\ running' \subseteq [seq : 1 .. MaxSeq, model : Model] /\ known' \subseteq Model
      /\ restarts' \in 0 .. MaxRestarts /\ observed' \in BOOLEAN /\ terminal' \in BOOLEAN
      /\ observed' => due'.seen
      /\ \A m \in Model : due'.failed[m] <= seq'
  BY <1>1 DEF CooldownInv, CooldownTypeOK
<1>10. RefusedOK' BY <1>1 DEF CooldownInv, RefusedOK
<1>11. dirty' \in BOOLEAN BY <1>2, Zenon
<1>12. CooldownInv' BY <1>1, <1>2, <1>3, <1>4, <1>8, <1>9, <1>10, <1>11, Preserved
<1> QED BY <1>1, <1>12, NoLadder DEF StepOK

(* A refused refresh takes the credential's deadline away, and blocks it. *)
LEMMA RefreshRefusedStep == ASSUME CooldownInv, RefreshRefused PROVE StepOK
<1>1. /\ UNCHANGED <<now, seq, running, known, st, disk, dirty, restarts, dueDisk>> /\ terminal' = TRUE
      /\ observed' = FALSE /\ auth' = [auth EXCEPT !.unavailable = TRUE, !.retry = 0]
      /\ due' = [due EXCEPT !.refused = TRUE]
  BY DEF RefreshRefused
<1>2. /\ due \in Dues /\ known \in SUBSET Model /\ ModelsOK(known, st, due) /\ AuthOK(auth, known, st, due)
      /\ now \in Nat
  BY InvIs DEF Clock
<1>3. /\ due' \in Dues /\ due'.own = due.own /\ due'.ownMost = due.ownMost /\ due'.failed = due.failed
      /\ due'.cred = due.cred /\ due'.credMost = due.credMost /\ due'.mixed = due.mixed /\ due'.refused
  BY <1>1, <1>2 DEF Dues
<1>4. /\ auth' \in Credentials /\ auth'.unavailable /\ auth'.retry = 0 /\ auth'.quota = auth.quota
  BY <1>1, <1>2 DEF AuthOK, Credentials
<1>5. ModelsOK(known', st', due') BY <1>1, <1>2, <1>3 DEF ModelsOK, ModelOK, OwedIn
<1>6. due.credMost \in Nat /\ 0 <= due.credMost /\ ~(auth'.retry > now) BY <1>2, <1>4 DEF Dues
<1>7. AuthOK(auth', known', st', due') BY <1>1, <1>2, <1>3, <1>4, <1>6 DEF AuthOK, Covered, CredentialQuota
<1>8. RefusedOK' BY <1>3, <1>4 DEF RefusedOK
<1>9. Ladder BY <1>1, <1>4, NoLadder
<1>10. terminal' \in BOOLEAN /\ observed' \in BOOLEAN /\ ~observed' BY <1>1, Zenon
<1>11. dirty' \in BOOLEAN /\ \A m \in Model : due'.failed[m] <= seq BY <1>1, <1>3 DEF CooldownInv, CooldownTypeOK
<1> QED BY <1>1, <1>2, <1>3, <1>5, <1>7, <1>8, <1>9, <1>10, <1>11, WriteStep

LEMMA RefreshCancelledStep == ASSUME CooldownInv, RefreshCancelled PROVE StepOK
<1>1. /\ UNCHANGED <<now, seq, running, known, st, auth, observed, disk, dirty, restarts, due, dueDisk>>
      /\ terminal' = FALSE
  BY DEF RefreshCancelled, cooldown
<1>2. /\ known' \subseteq Model /\ due' \in Dues /\ ModelsOK(known', st', due') /\ AuthOK(auth', known', st', due')
  BY <1>1, InvIs
<1>3. RefusedOK' BY <1>1 DEF CooldownInv, RefusedOK
<1>4. /\ dirty' \in BOOLEAN /\ \A m \in Model : due'.failed[m] <= seq
      /\ observed' \in BOOLEAN /\ (observed' => due'.seen)
  BY <1>1 DEF CooldownInv, CooldownTypeOK
<1>5. Ladder BY <1>1, NoLadder
<1>6. terminal' \in BOOLEAN BY <1>1, Zenon
<1> QED BY <1>1, <1>2, <1>3, <1>4, <1>5, <1>6, WriteStep

(* A credential that is blank again, when nothing is owed by it. *)
LEMMA BlankBase == ASSUME now \in Nat, NEW k, NEW t, NEW d, d.cred = 0 PROVE BaseOK(Blank, k, t, d)
<1>1. ~(d.cred > now) OBVIOUS
<1>2. Blank \in Credentials /\ ~Blank.quota.exc /\ Blank.quota.reason = "" BY BlankIs
<1> QED BY <1>1, <1>2 DEF BaseOK, CredentialQuota

(* A reset of the quota leaves nothing, but a terminal credential as it is. *)
LEMMA ResetQuotaStep == ASSUME CooldownInv, ResetQuota PROVE StepOK
<1> DEFINE t == [m \in Model |-> Reset]
           a == IF terminal THEN auth ELSE Blank
<1>1. /\ MarkStates(known, t, a) /\ NoteChange /\ observed' = FALSE
      /\ due' = IF terminal THEN [due EXCEPT !.own = [m \in Model |-> 0]] ELSE NoDue
      /\ UNCHANGED <<now, seq, running, terminal, disk, restarts, dueDisk>>
  BY DEF ResetQuota
<1>2. /\ now \in Nat /\ known \in SUBSET Model /\ seq \in Nat /\ MaxSeq \in Nat /\ due \in Dues
      /\ BaseOK(auth, known, st, due) /\ due.credMost \in Nat /\ ModelsOK(known, st, due)
      /\ auth.quota.level \in Nat
  <2>1. due \in Dues /\ auth \in Credentials BY InvIs DEF Clock
  <2>2. due.credMost \in Nat BY <2>1 DEF Dues
  <2>3. auth.quota.level \in Nat BY <2>1 DEF Credentials, Quotas
  <2>4. MaxSeq \in Nat BY CooldownAssumption
  <2> QED BY <2>2, <2>3, <2>4, InvIs DEF Clock
<1>3. /\ NoDue \in Dues /\ NoDue.cred = 0
      /\ \A m \in Model : NoDue.own[m] = 0 /\ NoDue.failed[m] = 0
  BY <1>2 DEF NoDue, Dues
<1>4. /\ due' \in Dues /\ \A m \in Model : due'.own[m] = 0 /\ due'.failed[m] <= seq
      /\ terminal => /\ due'.refused = due.refused /\ due'.credMost = due.credMost /\ due'.cred = due.cred
                     /\ due'.credMost >= due.credMost
      /\ ~terminal => due'.cred = 0
  <2>1. CASE terminal
    <3>1. due' = [due EXCEPT !.own = [m \in Model |-> 0]] BY <1>1, <2>1
    <3>2. /\ due' \in Dues /\ due'.own = [m \in Model |-> 0] /\ due'.failed = due.failed
          /\ due'.refused = due.refused /\ due'.credMost = due.credMost /\ due'.cred = due.cred
      BY <1>2, <3>1 DEF Dues
    <3>3. due'.credMost >= due.credMost BY <1>2, <3>2
    <3> QED BY <2>1, <3>2, <3>3 DEF CooldownInv
  <2>2. CASE ~terminal
    <3>1. due' = NoDue BY <1>1, <2>2
    <3>2. 0 <= seq BY <1>2
    <3> QED BY <1>3, <2>2, <3>1, <3>2
  <2> QED BY <2>1, <2>2
<1>5. ASSUME NEW m \in Model PROVE ModelOK(Reset, m, due') /\ Reset \in States /\ OwnQuota(Reset) = NoQuota
  <2>1. ~(due'.own[m] > now) BY <1>2, <1>4
  <2> QED BY <1>2, <1>4, <2>1, ResetOK
<1>6. ModelsOK(known, t, due') BY <1>5 DEF ModelsOK
<1>7. \A m \in Model : st[m] \in States /\ OwnQuota(t[m]) = NoQuota BY <1>2, <1>5 DEF ModelsOK
<1>8. Covered(known, t, due') BY <1>2 DEF Covered
<1> HIDE DEF t
<1>9. BaseOK(a, known, t, due')
  <2>1. CASE terminal BY <1>2, <1>4, <1>8, <2>1 DEF BaseOK
  <2>2. CASE ~terminal BY <1>2, <1>4, <2>2, BlankBase
  <2> QED BY <2>1, <2>2
<1>10. \A m \in Model : ~Climbs(OwnQuota(st[m]), OwnQuota(t[m])) BY <1>7, NoClimb
<1>11. ~Climbs(auth.quota, a.quota)
  <2>1. ~Blank.quota.exc BY BlankIs
  <2> QED BY <1>2, <2>1 DEF Climbs
<1>12. NoRungs(t, a) BY <1>10, <1>11 DEF NoRungs
<1>13. terminal => a = auth OBVIOUS
<1> HIDE DEF a
<1> QED BY <1>1, <1>2, <1>4, <1>6, <1>9, <1>12, <1>13, MarkStep

(* New tokens clear what was about the old ones, and a quota observed to be *)
(* restored is released: every model is left with its own layer.            *)
LEMMA UpdateStep ==
    ASSUME CooldownInv, NEW replaced \in BOOLEAN, NEW restored \in BOOLEAN, Update(replaced, restored),
           restored => observed /\ CredentialQuota(auth) /\ ~terminal,
           terminal' \in BOOLEAN, terminal' => terminal /\ ~replaced
    PROVE  StepOK
<1> DEFINE cleared == [m \in Model |-> IF replaced /\ m \in known THEN Cleared(st[m]) ELSE st[m]]
           freed == {m \in known : st[m].error = "unauthorized" /\ cleared[m] = Reset}
           released == [m \in Model |-> IF m \in known THEN Released(cleared[m]) ELSE cleared[m]]
           paid == [due EXCEPT !.own = [m \in Model |-> IF m \in freed THEN 0 ELSE @[m]],
                               !.refused = @ /\ ~replaced]
<1>1. Reset.error # "unauthorized" BY Zenon DEF Reset
<1>2. /\ CASE restored -> SetStates(known, released, Blank)
           [] ~restored /\ cleared # st -> SetStates(known, cleared, auth)
           [] OTHER -> /\ \/ replaced /\ ~CredentialQuota(auth) /\ auth' = [auth EXCEPT !.unavailable = FALSE]
                          \/ (~replaced \/ CredentialQuota(auth) \/ auth.retry > now) /\ UNCHANGED auth
                       /\ UNCHANGED <<known, st>>
      /\ observed' = FALSE
      /\ dirty' = (dirty \/ restored \/ freed # {} \/ (terminal /\ replaced))
      /\ due' = IF restored /\ due.seen THEN [paid EXCEPT !.cred = 0, !.credMost = 0] ELSE paid
      /\ UNCHANGED <<now, seq, running, disk, restarts, dueDisk>>
  BY DEF Update
<1>3. /\ Clock /\ now \in Nat /\ known \in SUBSET Model /\ due \in Dues /\ ModelsOK(known, st, due)
      /\ AuthOK(auth, known, st, due) /\ BaseOK(auth, known, st, due) /\ auth \in Credentials
      /\ terminal \in BOOLEAN
  BY InvIs DEF Clock
<1>4. dirty' \in BOOLEAN BY <1>2, Zenon
<1>5. observed' \in BOOLEAN /\ ~observed' BY <1>2, Zenon
<1>6. /\ paid \in Dues /\ paid.ownMost = due.ownMost /\ paid.failed = due.failed /\ paid.mixed = due.mixed
      /\ paid.cred = due.cred /\ paid.credMost = due.credMost /\ (paid.refused <=> due.refused /\ ~replaced)
      /\ \A m \in Model : paid.own[m] = IF m \in freed THEN 0 ELSE due.own[m]
  <2> DEFINE own == [m \in Model |-> IF m \in freed THEN 0 ELSE due.own[m]]
             refused == due.refused /\ ~replaced
  <2> HIDE DEF freed
  <2>1. own \in [Model -> Nat] BY <1>3, DueIs
  <2>2. refused \in BOOLEAN OBVIOUS
  <2>3. paid = [due EXCEPT !.own = own, !.refused = refused] BY <1>3 DEF Dues
  <2>4. \A m \in Model : own[m] = IF m \in freed THEN 0 ELSE due.own[m] OBVIOUS
  <2>5. refused <=> due.refused /\ ~replaced OBVIOUS
  <2> HIDE DEF own, refused, paid
  <2> QED BY <1>3, <2>1, <2>2, <2>3, <2>4, <2>5 DEF Dues
<1>7. cleared \in [Model -> States] /\ \A m \in Model :
        /\ ModelOK(cleared[m], m, paid) /\ cleared[m] \in States
        /\ OwnQuota(cleared[m]) \in {OwnQuota(st[m]), NoQuota}
        /\ Wrapped(st[m]) => Wrapped(cleared[m]) \/ cleared[m] = Reset
        /\ st[m] = Reset => cleared[m] = Reset
        /\ m \notin known => cleared[m] = Reset
  <2>1. ASSUME NEW m \in Model
        PROVE  /\ ModelOK(cleared[m], m, paid) /\ cleared[m] \in States
               /\ OwnQuota(cleared[m]) \in {OwnQuota(st[m]), NoQuota}
               /\ Wrapped(st[m]) => Wrapped(cleared[m]) \/ cleared[m] = Reset
               /\ st[m] = Reset => cleared[m] = Reset
               /\ m \notin known => cleared[m] = Reset
    <3>1. ModelOK(st[m], m, due) /\ (m \notin known => st[m] = Reset) BY <1>3 DEF ModelsOK
    <3>2. CASE replaced /\ m \in known
      <4>1. cleared[m] = Cleared(st[m]) BY <3>2
      <4>2. m \in freed <=> st[m].error = "unauthorized" /\ cleared[m] = Reset BY <3>2
      <4>3. Cleared(st[m]) # st[m] => st[m].error = "unauthorized" BY Zenon DEF Cleared
      <4> HIDE DEF cleared, freed, paid
      <4>4. /\ paid.own[m] = due.own[m] \/ (paid.own[m] = 0 /\ Cleared(st[m]) = Reset)
            /\ Cleared(st[m]) # st[m] /\ Cleared(st[m]) = Reset => paid.own[m] = 0
        BY <1>6, <4>3, <4>1, <4>2
      <4>5. /\ ModelOK(cleared[m], m, paid) /\ OwnQuota(cleared[m]) \in {OwnQuota(st[m]), NoQuota}
            /\ Wrapped(st[m]) => Wrapped(cleared[m]) \/ cleared[m] = Reset
            /\ st[m] = Reset => cleared[m] = Reset
        BY <1>3, <1>6, <3>1, <4>1, <4>4, ClearedIs
      <4>6. cleared[m] \in States BY <1>6, <4>5, ModelIs
      <4> QED BY <3>2, <4>5, <4>6
    <3>3. CASE ~(replaced /\ m \in known)
      <4>1. cleared[m] = st[m] BY <3>3
      <4>2. m \notin freed BY <1>1, <4>1
      <4> HIDE DEF cleared, freed, paid
      <4>3. paid.own[m] = due.own[m] BY <1>6, <4>2
      <4>4. ModelOK(st[m], m, paid) BY <1>6, <3>1, <4>3 DEF ModelOK, OwedIn
      <4>5. st[m] \in States BY <1>3 DEF ModelsOK
      <4> QED BY <3>1, <4>1, <4>4, <4>5
    <3> QED BY <3>2, <3>3
  <2>2. cleared = [m \in Model |-> cleared[m]] OBVIOUS
  <2> HIDE DEF cleared, paid
  <2> QED BY <2>1, <2>2
<1>8. ~replaced => cleared = st
  <2> SUFFICES ASSUME ~replaced PROVE cleared = st OBVIOUS
  <2>1. st = [m \in Model |-> st[m]] BY <1>3 DEF ModelsOK
  <2>2. cleared = [m \in Model |-> st[m]] OBVIOUS
  <2> QED BY <2>1, <2>2
<1>9. cleared = st => freed = {} BY <1>1
<1>10. released = [m \in Model |-> IF m \in known THEN Released(cleared[m]) ELSE cleared[m]] OBVIOUS
<1> HIDE DEF cleared, freed, released, paid
<1>11. Covered(known, st, due) => Covered(known, cleared, paid) BY <1>3, <1>6, <1>7 DEF Covered
<1>12. ModelsOK(known, cleared, paid) BY <1>7 DEF ModelsOK
<1>13. \A m \in Model : st[m] \in States BY <1>3 DEF ModelsOK
<1>14. ~Climbs(auth.quota, auth.quota) /\ ~Climbs(auth.quota, Blank.quota)
  <2>1. auth.quota.level \in Nat BY <1>3 DEF Credentials, Quotas
  <2>2. ~Blank.quota.exc BY BlankIs
  <2> QED BY <2>1, <2>2 DEF Climbs
<1>15. CASE restored
  <2>1. SetStates(known, released, Blank) BY <1>2, <1>15
  <2>2. terminal' = FALSE BY <1>15, Zenon
  <2>3. due' = [paid EXCEPT !.cred = 0, !.credMost = 0] BY <1>2, <1>15 DEF CooldownInv
  <2>4. /\ due' \in Dues /\ due'.cred = 0 /\ due'.own = paid.own /\ due'.ownMost = paid.ownMost
        /\ due'.failed = paid.failed /\ due'.mixed = paid.mixed
    BY <1>6, <2>3 DEF Dues
  <2>5. Covered(known, cleared, paid) BY <1>3, <1>11, <1>15 DEF AuthOK
  <2>6. ASSUME NEW m \in Model
        PROVE  /\ released[m] \in States /\ ModelOK(released[m], m, due')
               /\ m \notin due'.mixed => OwnQuota(released[m]) \in {OwnQuota(st[m]), NoQuota}
               /\ m \notin known => released[m] = Reset
    <3>1. ModelOK(cleared[m], m, paid) /\ (m \notin known => cleared[m] = Reset)
          /\ OwnQuota(cleared[m]) \in {OwnQuota(st[m]), NoQuota}
      BY <1>7
    <3>2. Wrapped(cleared[m]) \/ cleared[m] = Reset \/ m \in paid.mixed BY <2>5, <3>1 DEF Covered
    <3>3. /\ ModelOK(Released(cleared[m]), m, due')
          /\ m \notin paid.mixed => OwnQuota(Released(cleared[m])) \in {OwnQuota(cleared[m]), NoQuota}
          /\ cleared[m] = Reset => Released(cleared[m]) = Reset
      BY <1>3, <1>6, <2>4, <3>1, <3>2, ReleasedIs
    <3>4. released[m] = Released(cleared[m]) BY <1>10, <3>1, <3>3
    <3>5. released[m] \in States BY <2>4, <3>3, <3>4, ModelIs
    <3> QED BY <2>4, <3>1, <3>3, <3>4, <3>5
  <2>7. released \in [Model -> States] BY <1>10, <2>6
  <2>8. ModelsOK(known, released, due') BY <2>6, <2>7 DEF ModelsOK
  <2>9. BaseOK(Blank, known, released, due') BY <1>3, <2>4, BlankBase
  <2>10. \A m \in Model : due'.failed[m] <= seq BY <1>6, <2>4 DEF CooldownInv
  <2>11. NoRungs(released, Blank) BY <1>13, <1>14, <2>6, NoClimb DEF NoRungs
  <2> QED BY <1>2, <1>3, <1>4, <2>1, <2>2, <2>4, <2>8, <2>9, <2>10, <2>11, SetStep
<1>16. ASSUME ~restored
       PROVE  due' = paid /\ (\A m \in Model : due'.failed[m] <= seq) /\ BaseOK(auth, known, cleared, due')
  <2>1. due' = paid BY <1>2, <1>16
  <2>2. BaseOK(auth, known, cleared, paid) BY <1>3, <1>6, <1>11 DEF BaseOK
  <2> QED BY <1>6, <2>1, <2>2 DEF CooldownInv
<1>17. CASE ~restored /\ cleared # st
  <2>1. SetStates(known, cleared, auth) BY <1>2, <1>17
  <2>2. terminal' = FALSE BY <1>8, <1>17, Zenon
  <2>3. NoRungs(cleared, auth) BY <1>7, <1>13, <1>14, NoClimb DEF NoRungs
  <2> QED BY <1>2, <1>3, <1>4, <1>6, <1>12, <1>16, <1>17, <2>1, <2>2, <2>3, SetStep
<1>18. CASE ~restored /\ cleared = st
  <2>1. /\ \/ replaced /\ ~CredentialQuota(auth) /\ auth' = [auth EXCEPT !.unavailable = FALSE]
           \/ (~replaced \/ CredentialQuota(auth) \/ auth.retry > now) /\ auth' = auth
        /\ known' = known /\ st' = st
    BY <1>2, <1>18
  <2>2. /\ auth' \in Credentials /\ auth'.retry = auth.retry /\ auth'.quota = auth.quota
        /\ \/ auth'.unavailable = auth.unavailable /\ (~replaced \/ CredentialQuota(auth) \/ auth.retry > now)
           \/ replaced /\ ~auth'.unavailable /\ ~CredentialQuota(auth)
    BY <1>3, <2>1 DEF Credentials
  <2>3. auth.retry \in Nat /\ auth.quota.recover \in Nat /\ due.cred \in Nat
    BY <1>3 DEF Credentials, Quotas, Dues
  <2>4. due.cred > now => CredentialQuota(auth)
    <3> SUFFICES ASSUME due.cred > now PROVE CredentialQuota(auth) OBVIOUS
    <3>1. auth.quota.reason = "credential" /\ auth.quota.recover >= due.cred BY <1>3 DEF AuthOK
    <3>2. auth.quota.recover > now BY <1>3, <2>3, <3>1
    <3> QED BY <3>1, <3>2 DEF CredentialQuota
  <2>5. ModelsOK(known', st', due') /\ BaseOK(auth, known', st', due') BY <1>12, <1>16, <1>18, <2>1
  <2>6. /\ due'.cred = due.cred /\ due'.credMost = due.credMost /\ due'.mixed = due.mixed /\ due' \in Dues
        /\ (due'.refused <=> due.refused /\ ~replaced)
    BY <1>6, <1>16, <1>18
  <2>7. AuthOK(auth', known', st', due')
    <3>1. /\ auth'.unavailable => auth.unavailable
          /\ due'.cred > now => auth'.unavailable
      BY <1>3, <2>2, <2>4, <2>6 DEF AuthOK
    <3>2. AuthOK(auth, known', st', due) BY <1>3, <2>1
    <3> QED BY <2>2, <2>5, <2>6, <3>1, <3>2 DEF AuthOK, BaseOK, CredentialQuota
  <2>8. RefusedOK'
    <3>1. ASSUME terminal' PROVE due'.refused /\ auth'.unavailable /\ auth'.retry = 0
      <4>1. terminal /\ ~replaced BY <3>1
      <4>2. due.refused /\ auth.unavailable /\ auth.retry = 0 BY <4>1 DEF CooldownInv, RefusedOK
      <4> QED BY <2>2, <2>6, <4>1, <4>2
    <3>2. ASSUME known' = {}, auth'.unavailable PROVE auth'.retry > 0 \/ auth'.quota.recover > 0 \/ due'.refused
      <4>1. CASE ~replaced
        <5>1. auth.unavailable /\ known = {} BY <2>1, <2>2, <3>2
        <5>2. auth.retry > 0 \/ auth.quota.recover > 0 \/ due.refused BY <5>1 DEF CooldownInv, RefusedOK
        <5> QED BY <2>2, <2>6, <4>1, <5>2
      <4>2. CASE replaced
        <5>1. CredentialQuota(auth) \/ auth.retry > now BY <2>2, <3>2, <4>2
        <5>2. auth.quota.recover > 0 \/ auth.retry > 0 BY <1>3, <2>3, <5>1 DEF CredentialQuota
        <5> QED BY <2>2, <5>2
      <4> QED BY <4>1, <4>2
    <3> QED BY <3>1, <3>2 DEF RefusedOK
  <2>9. Ladder BY <2>1, <2>2, NoLadder
  <2>10. known' \subseteq Model BY <1>3, <2>1
  <2> QED BY <1>2, <1>4, <1>5, <1>16, <1>18, <2>5, <2>6, <2>7, <2>8, <2>9, <2>10, WriteStep
<1> QED BY <1>15, <1>17, <1>18

LEMMA RefreshSucceedsStep ==
    ASSUME CooldownInv, NEW replaced \in BOOLEAN, RefreshSucceeds(replaced) PROVE StepOK
<1> DEFINE restored == observed /\ auth.quota.exc /\ CredentialQuota(auth) /\ ~terminal
<1>1. Update(replaced, restored) BY DEF RefreshSucceeds
<1>2. terminal \in BOOLEAN BY InvIs
<1>3. terminal' \in IF replaced THEN {FALSE} ELSE {FALSE, terminal} BY DEF RefreshSucceeds
<1>4. terminal' \in BOOLEAN /\ (terminal' => terminal /\ ~replaced)
  <2>1. CASE replaced BY <1>3, <2>1
  <2>2. CASE ~replaced BY <1>2, <1>3, <2>2
  <2> QED BY <2>1, <2>2
<1>5. restored \in BOOLEAN /\ (restored => observed /\ CredentialQuota(auth) /\ ~terminal)
  <2>1. observed \in BOOLEAN BY DEF CooldownInv, CooldownTypeOK
  <2> QED BY <2>1
<1> HIDE DEF restored
<1> QED BY <1>1, <1>4, <1>5, UpdateStep

LEMMA LoginStep == ASSUME CooldownInv, Login PROVE StepOK
<1>1. Update(TRUE, FALSE) /\ terminal' = FALSE BY DEF Login
<1>2. terminal' \in BOOLEAN /\ (terminal' => terminal /\ ~TRUE) BY <1>1, Zenon
<1> QED BY <1>1, <1>2, UpdateStep

(* A success leaves what is asked for, but for what the model itself owes. *)
Settled(d, e, m) ==
    /\ e \in Dues /\ e.ownMost = d.ownMost /\ e.failed = d.failed /\ e.cred = d.cred /\ e.credMost = d.credMost
    /\ e.mixed = d.mixed /\ e.refused = d.refused
    /\ \A o \in Model : e.own[o] = d.own[o] \/ (o = m /\ e.own[o] = 0)

LEMMA SettledIs ==
    ASSUME now \in Nat, NEW d \in Dues, NEW e, NEW m, Settled(d, e, m)
    PROVE  /\ \A o \in Model : \A s : ModelOK(s, o, d) => ModelOK(s, o, e)
           /\ \A a, k, t : AuthOK(a, k, t, d) => AuthOK(a, k, t, e)
           /\ \A a, k, t : BaseOK(a, k, t, d) => BaseOK(a, k, t, e)
<1>1. ASSUME NEW o \in Model, NEW s, ModelOK(s, o, d) PROVE ModelOK(s, o, e)
  <2>1. CASE e.own[o] = d.own[o] BY <1>1, <2>1 DEF ModelOK, OwedIn, Settled
  <2>2. CASE e.own[o] = 0
    <3>1. ~(e.own[o] > now) BY <2>2
    <3> QED BY <1>1, <3>1 DEF ModelOK, OwedIn, Settled
  <2> QED BY <2>1, <2>2 DEF Settled
<1>2. \A k, t : Covered(k, t, d) => Covered(k, t, e) BY DEF Covered, Settled
<1>3. \A a, k, t : AuthOK(a, k, t, d) => AuthOK(a, k, t, e) BY <1>2 DEF AuthOK, Settled
<1>4. \A a, k, t : BaseOK(a, k, t, d) => BaseOK(a, k, t, e) BY <1>2 DEF BaseOK, Settled
<1> QED BY <1>1, <1>3, <1>4

(* A success clears a model if its execution began after the model failed,  *)
(* or if the credential is terminal.                                        *)
LEMMA SuccessStep ==
    ASSUME CooldownInv, NEW e \in running, NEW countTokens \in BOOLEAN, Success(e, countTokens) PROVE StepOK
<1>1. /\ UNCHANGED <<now, seq, terminal, disk, restarts, dueDisk>> /\ NoteChange /\ observed' = FALSE
      /\ running' \subseteq running
  BY DEF Success, Ends
<1>2. /\ Clock /\ now \in Nat /\ known \in SUBSET Model /\ due \in Dues /\ ModelsOK(known, st, due)
      /\ AuthOK(auth, known, st, due) /\ BaseOK(auth, known, st, due) /\ terminal \in BOOLEAN
  BY InvIs DEF Clock
<1>3. e.model \in Model /\ e.seq \in Nat /\ e.seq > 0
  <2>1. MaxSeq \in Nat BY CooldownAssumption
  <2>2. e \in [seq : 1 .. MaxSeq, model : Model] BY DEF CooldownInv, CooldownTypeOK
  <2> QED BY <2>1, <2>2
<1> DEFINE m == e.model
<1>4. Settled(due, due', m)
  <2>1. CASE due' = due BY <1>2, <2>1 DEF Settled
  <2>2. CASE due' = [due EXCEPT !.own[m] = 0] BY <1>2, <1>3, <2>2 DEF Settled, Dues
  <2> QED BY <2>1, <2>2 DEF Success, Settle
<1>5. due' \in Dues /\ due'.failed = due.failed /\ due'.refused = due.refused /\ due'.credMost = due.credMost
  BY <1>4 DEF Settled
<1>6. \A o \in Model : due'.failed[o] <= seq BY <1>5 DEF CooldownInv
<1>7. /\ \A o \in Model : \A s : ModelOK(s, o, due) => ModelOK(s, o, due')
      /\ AuthOK(auth, known, st, due') /\ BaseOK(auth, known, st, due')
  BY <1>2, <1>4, SettledIs
<1>8. ModelsOK(known, st, due') BY <1>2, <1>7 DEF ModelsOK
<1>9. \A o \in Model : st[o] \in States /\ ~Climbs(OwnQuota(st[o]), OwnQuota(st[o])) BY <1>2, NoClimb DEF ModelsOK
<1>10. ~Climbs(auth.quota, auth.quota)
  <2>1. auth.quota.level \in Nat BY <1>2 DEF AuthOK, Credentials, Quotas
  <2> QED BY <2>1 DEF Climbs
<1>11. due'.credMost >= due.credMost
  <2>1. due.credMost \in Nat BY <1>2 DEF Dues
  <2> QED BY <1>5, <2>1
<1>12. dirty' \in BOOLEAN BY <1>1, Zenon DEF NoteChange
<1>13. observed' \in BOOLEAN /\ ~observed' /\ terminal' \in BOOLEAN BY <1>1, <1>2, Zenon
<1>14. CASE UNCHANGED cooldown
  <2>1. known' = known /\ st' = st /\ auth' = auth BY <1>14 DEF cooldown
  <2>2. ModelsOK(known', st', due') /\ AuthOK(auth', known', st', due') BY <1>7, <1>8, <2>1
  <2>3. RefusedOK' BY <1>1, <1>5, <2>1 DEF CooldownInv, RefusedOK
  <2>4. Ladder BY <2>1, NoLadder
  <2>5. known' \subseteq Model BY <1>2, <2>1
  <2> QED BY <1>1, <1>5, <1>6, <1>12, <1>13, <2>2, <2>3, <2>4, <2>5, WriteStep
<1>15. CASE ~terminal /\ SetStates(known, st, auth)
  <2>1. NoRungs(st, auth) BY <1>9, <1>10 DEF NoRungs
  <2>2. MarkStates(known, st, auth) BY <1>15 DEF MarkStates
  <2> QED BY <1>1, <1>2, <1>5, <1>6, <1>7, <1>8, <1>15, <2>1, <2>2, MarkStep
<1>16. ASSUME MarkStates(known \cup {m}, [st EXCEPT ![m] = Reset], auth),
              ~(due'.own[m] > now) \/ m \in due'.mixed
       PROVE  StepOK
  <2> DEFINE t == [st EXCEPT ![m] = Reset]
             k == known \cup {m}
  <2>1. ModelOK(Reset, m, due') /\ Reset \in States /\ OwnQuota(Reset) = NoQuota
    BY <1>2, <1>3, <1>5, <1>16, ResetOK
  <2>2. t[m] = Reset /\ \A o \in Model : o # m => t[o] = st[o] BY <1>2, <1>3 DEF ModelsOK
  <2>3. t \in [Model -> States] BY <1>2, <2>1 DEF ModelsOK
  <2>4. k \in SUBSET Model /\ MarkStates(k, t, auth) /\ known \subseteq k
        /\ \A o \in Model : o \notin k => o \notin known /\ o # m
    BY <1>2, <1>3, <1>16
  <2>5. \A o \in k : o # m => o \in known OBVIOUS
  <2> HIDE DEF t, k, m
  <2>6. ModelsOK(k, t, due')
    <3>1. ASSUME NEW o \in Model PROVE ModelOK(t[o], o, due')
      <4>1. CASE o = m BY <2>1, <2>2, <4>1
      <4>2. CASE o # m BY <1>8, <2>2, <4>2 DEF ModelsOK
      <4> QED BY <4>1, <4>2
    <3>2. \A o \in Model \ k : t[o] = Reset BY <1>2, <2>2, <2>4 DEF ModelsOK
    <3> QED BY <2>3, <3>1, <3>2 DEF ModelsOK
  <2>7. Covered(known, st, due') => Covered(k, t, due')
    BY <2>2, <2>4, <2>5 DEF Covered
  <2>8. BaseOK(auth, k, t, due') BY <1>7, <2>7 DEF BaseOK
  <2>9. \A o \in Model : ~Climbs(OwnQuota(st[o]), OwnQuota(t[o]))
    <3> SUFFICES ASSUME NEW o \in Model PROVE ~Climbs(OwnQuota(st[o]), OwnQuota(t[o])) OBVIOUS
    <3>1. CASE o = m BY <1>9, <2>1, <2>2, <3>1, NoClimb
    <3>2. CASE o # m BY <1>9, <2>2, <3>2
    <3> QED BY <3>1, <3>2
  <2>10. NoRungs(t, auth) BY <1>10, <2>9 DEF NoRungs
  <2> QED BY <1>1, <1>5, <1>6, <1>11, <2>4, <2>6, <2>8, <2>10, MarkStep
<1>17. CASE due' = [due EXCEPT !.own[m] = 0] /\ MarkStates(known \cup {m}, [st EXCEPT ![m] = Reset], auth)
  <2>1. due'.own[m] = 0 BY <1>2, <1>3, <1>17 DEF Dues
  <2>2. ~(due'.own[m] > now) BY <1>2, <2>1
  <2> QED BY <1>16, <1>17, <2>2
<1>18. CASE /\ ~terminal /\ ~Retained(e) /\ due' = due /\ ~(e.seq > due.failed[m])
            /\ SetStates(known \cup {m}, [st EXCEPT ![m] = Reset], auth)
  <2>1. ~(due.own[m] > now) \/ m \in due.mixed
    <3> SUFFICES ASSUME due.own[m] > now, m \notin due.mixed PROVE FALSE OBVIOUS
    <3>1. HeldUntil(st[m], due.own[m], due.failed[m]) BY <1>2, <1>3 DEF ModelsOK, ModelOK, OwedIn
    <3>2. /\ due.own[m] \in Nat /\ due.failed[m] \in Nat /\ st[m].retry \in Nat /\ st[m].seq \in Nat
      <4>1. st[m].retry \in Nat /\ st[m].seq \in 0 .. MaxSeq BY <1>3, <1>9, LayerIs
      <4>2. MaxSeq \in Nat BY CooldownAssumption
      <4> QED BY <1>2, <1>3, <4>1, <4>2, DueIs
    <3>3. st[m].retry > now /\ st[m].seq > 0 /\ e.seq <= st[m].seq
      BY <1>2, <1>3, <1>18, <3>1, <3>2 DEF HeldUntil
    <3>4. m \in known
      <4> SUFFICES ASSUME m \notin known PROVE FALSE OBVIOUS
      <4>1. st[m] = Reset /\ Reset.seq = 0 BY <1>2, <1>3 DEF ModelsOK, Reset
      <4> QED BY <3>3, <4>1
    <3> QED BY <1>18, <3>3, <3>4 DEF Retained, Active
  <2>2. MarkStates(known \cup {m}, [st EXCEPT ![m] = Reset], auth) BY <1>18 DEF MarkStates
  <2> QED BY <1>16, <1>18, <2>1, <2>2
<1>19. CASE terminal
  <2>1. due' = [due EXCEPT !.own[m] = 0] /\ MarkStates(known \cup {m}, [st EXCEPT ![m] = Reset], auth)
    BY <1>19 DEF Success, Settle
  <2> QED BY <1>17, <2>1
<1>20. CASE ~terminal /\ (CredentialQuota(auth) \/ Retained(e))
  <2>1. UNCHANGED cooldown BY <1>20 DEF Success
  <2> QED BY <1>14, <2>1
<1>21. CASE ~terminal /\ ~(CredentialQuota(auth) \/ Retained(e))
  <2>1. CASE countTokens
    <3>1. SetStates(known, st, auth) BY <1>21, <2>1 DEF Success
    <3> QED BY <1>15, <1>21, <3>1
  <2>2. CASE ~countTokens
    <3>1. SetStates(known \cup {m}, [st EXCEPT ![m] = Reset], auth) /\ Settle(e) BY <1>21, <2>2 DEF Success
    <3>2. CASE e.seq > due.failed[m]
      <4>1. due' = [due EXCEPT !.own[m] = 0] BY <3>1, <3>2 DEF Settle
      <4>2. MarkStates(known \cup {m}, [st EXCEPT ![m] = Reset], auth) BY <1>21, <3>1 DEF MarkStates
      <4> QED BY <1>17, <4>1, <4>2
    <3>3. CASE ~(e.seq > due.failed[m])
      <4>1. due' = due BY <1>21, <3>1, <3>3 DEF Settle
      <4> QED BY <1>18, <1>21, <3>1, <3>3, <4>1
    <3> QED BY <3>2, <3>3
  <2> QED BY <2>1, <2>2
<1> QED BY <1>19, <1>20, <1>21

(* A failure of the model alone. *)
LEMMA FailAlone ==
    ASSUME CooldownInv, NEW e \in running, NEW f \in Failure, ~f.scope, Fail(e, f) PROVE StepOK
<1> DEFINE m == e.model
           s == Unwrapped(st[m])
           w == Failed(f, s)
           x == IF CredentialQuota(auth) THEN Compose(f, s)
                ELSE [w EXCEPT !.shadow = IF f.kind = "quota" THEN Nil ELSE @]
           t == [st EXCEPT ![m] = x]
           k == known \cup {m}
<1>1. /\ UNCHANGED <<now, seq, terminal, disk, restarts, dueDisk>> /\ NoteChange /\ observed' = FALSE
      /\ running' \subseteq running
  BY DEF Fail, Ends
<1>2. /\ Clock /\ now \in Nat /\ known \in SUBSET Model /\ due \in Dues /\ ModelsOK(known, st, due)
      /\ AuthOK(auth, known, st, due) /\ BaseOK(auth, known, st, due)
  BY InvIs DEF Clock
<1>3. m \in Model BY DEF CooldownInv, CooldownTypeOK
<1>4. k \in SUBSET Model /\ known \subseteq k /\ MarkStates(k, t, auth) BY <1>2, <1>3 DEF Fail
<1>5. due' = [due EXCEPT !.own[m] = IF CoolsNot(f) THEN 0 ELSE Larger(@, now + Least(f)),
                         !.ownMost[m] = Larger(@, now + Most(f)), !.failed[m] = seq]
  BY DEF Fail, Owe, OweOwn
<1>6. /\ due.own[m] \in Nat /\ due.ownMost[m] \in Nat /\ Least(f) \in Nat /\ Most(f) \in Nat
      /\ seq \in 0 .. MaxSeq /\ MaxSeq \in Nat
  BY <1>2, <1>3, DueIs, FailureIs, CooldownAssumption DEF Clock
<1> DEFINE own == IF CoolsNot(f) THEN 0 ELSE Larger(due.own[m], now + Least(f))
           most == Larger(due.ownMost[m], now + Most(f))
<1>7. now \in Nat /\ now + Least(f) \in Nat /\ now + Most(f) \in Nat BY <1>2, <1>6
<1>8. /\ own \in Nat
      /\ IF CoolsNot(f) THEN own = 0 ELSE own \in {due.own[m], now + Least(f)}
  BY <1>6, <1>7, LargerIs
<1>9. most \in Nat /\ most >= due.ownMost[m] /\ most >= now + Most(f) BY <1>6, <1>7, LargerIs
<1>10. due' = [due EXCEPT !.own[m] = own, !.ownMost[m] = most, !.failed[m] = seq] BY <1>2, <1>3, <1>5 DEF Dues
<1> HIDE DEF own, most
<1>11. /\ due' \in Dues /\ due'.own[m] = own /\ due'.ownMost[m] = most /\ due'.failed[m] = seq
       /\ due'.cred = due.cred /\ due'.credMost = due.credMost /\ due'.mixed = due.mixed
       /\ due'.refused = due.refused
       /\ \A o \in Model : o # m => /\ due'.own[o] = due.own[o] /\ due'.ownMost[o] = due.ownMost[o]
                                    /\ due'.failed[o] = due.failed[o]
  BY <1>2, <1>3, <1>6, <1>8, <1>9, <1>10 DEF Dues
<1>12. OwedBy(f, m, due, due') BY <1>8, <1>9, <1>11 DEF OwedBy
<1>13. ModelOK(st[m], m, due) /\ st[m] \in States BY <1>2, <1>3 DEF ModelsOK
<1>14. /\ ModelOK(s, m, due)
       /\ CredentialQuota(auth) => s = st[m]
       /\ ~CredentialQuota(auth) => ~Wrapped(s)
       /\ m \notin due.mixed => OwnQuota(s) = OwnQuota(st[m]) \/ OwnQuota(st[m]).recover <= now
  BY <1>2, <1>3, <1>13, UnwrappedIs
<1> HIDE DEF s
<1>15. ASSUME CredentialQuota(auth)
       PROVE  /\ ModelOK(x, m, due') /\ (CredentialQuota(auth) => Wrapped(x))
              /\ m \notin due.mixed /\ Climbs(OwnQuota(st[m]), OwnQuota(x)) /\ OwnQuota(st[m]).reason = "quota"
                 => OwnQuota(st[m]).recover <= now
  <2>1. x = Compose(f, s) /\ s = st[m] BY <1>14, <1>15
  <2>2. Wrapped(s) \/ s = Reset \/ m \in due.mixed
    <3>1. CASE m \in known BY <1>2, <1>15, <2>1, <3>1 DEF AuthOK, Covered
    <3>2. CASE m \notin known BY <1>2, <1>3, <2>1, <3>2 DEF ModelsOK
    <3> QED BY <3>1, <3>2
  <2>3. auth.quota.recover <= due.credMost BY <1>2, <1>15 DEF AuthOK, CredentialQuota
  <2> HIDE DEF x
  <2>4. /\ ModelOK(x, m, due') /\ Wrapped(x)
        /\ m \notin due.mixed /\ Climbs(OwnQuota(s), OwnQuota(x)) /\ OwnQuota(s).reason = "quota"
           => OwnQuota(s).recover <= now
    BY <1>2, <1>3, <1>11, <1>12, <1>14, <1>15, <2>1, <2>2, <2>3, ComposeIs
  <2> QED BY <2>1, <2>4
<1>16. ASSUME ~CredentialQuota(auth)
       PROVE  /\ ModelOK(x, m, due') /\ (CredentialQuota(auth) => Wrapped(x))
              /\ m \notin due.mixed /\ Climbs(OwnQuota(st[m]), OwnQuota(x)) /\ OwnQuota(st[m]).reason = "quota"
                 => OwnQuota(st[m]).recover <= now
  <2>1. x = [w EXCEPT !.shadow = IF f.kind = "quota" THEN Nil ELSE @] BY <1>16
  <2>2. w \in States
    <3>1. ModelOK(w, m, due') BY <1>2, <1>3, <1>11, <1>12, <1>14, <1>16, FailsAlone
    <3> QED BY <1>3, <1>11, <3>1, ModelIs
  <2> HIDE DEF x, w
  <2>3. x = w \/ x = [w EXCEPT !.shadow = Nil]
    <3>1. CASE f.kind = "quota" BY <2>1, <3>1
    <3>2. CASE f.kind # "quota"
      <4>1. x = [w EXCEPT !.shadow = w.shadow] BY <2>1, <3>2
      <4>2. w = [w EXCEPT !.shadow = w.shadow] BY <2>2 DEF States, Layer
      <4> QED BY <4>1, <4>2
    <3> QED BY <3>1, <3>2
  <2>4. x = Failed(f, s) \/ x = [Failed(f, s) EXCEPT !.shadow = Nil] BY <2>3 DEF w
  <2>5. /\ ModelOK(x, m, due')
        /\ m \notin due.mixed /\ Climbs(OwnQuota(s), OwnQuota(x)) /\ OwnQuota(s).reason = "quota"
           => OwnQuota(s).recover <= now
    BY <1>2, <1>3, <1>11, <1>12, <1>14, <1>16, <2>4, FailsAlone
  <2>6. CASE OwnQuota(s) = OwnQuota(st[m]) \/ m \in due.mixed BY <1>16, <2>5, <2>6
  <2>7. CASE OwnQuota(st[m]).recover <= now BY <1>16, <2>5, <2>7
  <2> QED BY <1>14, <2>6, <2>7
<1>17. /\ ModelOK(x, m, due') /\ (CredentialQuota(auth) => Wrapped(x))
       /\ m \notin due.mixed /\ Climbs(OwnQuota(st[m]), OwnQuota(x)) /\ OwnQuota(st[m]).reason = "quota"
          => OwnQuota(st[m]).recover <= now
  BY <1>15, <1>16
<1>18. t[m] = x /\ \A o \in Model : o # m => t[o] = st[o] BY <1>2, <1>3 DEF ModelsOK
<1>19. x \in States
  <2>1. ModelOK(x, m, due') BY <1>17
  <2> HIDE DEF x
  <2> QED BY <1>3, <1>11, <2>1, ModelIs
<1> HIDE DEF x, w
<1>20. t \in [Model -> States] BY <1>2, <1>19 DEF ModelsOK
<1>21. \A o \in k : o # m => o \in known OBVIOUS
<1>22. \A o \in Model \ k : o \notin known /\ o # m OBVIOUS
<1> HIDE DEF t, k, m
<1>23. ModelsOK(k, t, due')
  <2>1. ASSUME NEW o \in Model PROVE ModelOK(t[o], o, due')
    <3>1. CASE o = m BY <1>17, <1>18, <3>1
    <3>2. CASE o # m
      <4>1. ModelOK(st[o], o, due) /\ t[o] = st[o] BY <1>2, <1>18, <3>2 DEF ModelsOK
      <4>2. ModelOK(st[o], o, due') BY <1>11, <3>2, <4>1 DEF ModelOK, OwedIn
      <4> QED BY <4>1, <4>2
    <3> QED BY <3>1, <3>2
  <2>2. \A o \in Model \ k : t[o] = Reset BY <1>2, <1>18, <1>22 DEF ModelsOK
  <2> QED BY <1>20, <2>1, <2>2 DEF ModelsOK
<1>24. CredentialQuota(auth) => Covered(k, t, due')
  <2> SUFFICES ASSUME CredentialQuota(auth), NEW o \in k
               PROVE  Wrapped(t[o]) \/ t[o] = Reset \/ o \in due'.mixed
    BY DEF Covered
  <2>1. CASE o = m BY <1>17, <1>18, <2>1
  <2>2. CASE o # m
    <3>1. o \in known /\ t[o] = st[o] BY <1>4, <1>18, <1>21, <2>2
    <3> QED BY <1>2, <1>11, <3>1 DEF AuthOK, Covered
  <2> QED BY <2>1, <2>2
<1>25. BaseOK(auth, k, t, due') BY <1>2, <1>11, <1>24 DEF BaseOK
<1>26. \A o \in Model : due'.failed[o] <= seq
  <2>1. seq <= seq BY <1>6
  <2> QED BY <1>11, <2>1 DEF CooldownInv
<1>27. ASSUME NEW o \in Model, o \notin due'.mixed, Climbs(OwnQuota(st[o]), OwnQuota(t[o])),
              OwnQuota(st[o]).reason = "quota"
       PROVE  OwnQuota(st[o]).recover <= now
  <2>1. CASE o = m BY <1>11, <1>17, <1>18, <1>27, <2>1
  <2>2. CASE o # m
    <3>1. t[o] = st[o] /\ st[o] \in States BY <1>2, <1>18, <2>2 DEF ModelsOK
    <3> QED BY <1>27, <3>1, NoClimb
  <2> QED BY <2>1, <2>2
<1>28. ~Climbs(auth.quota, auth.quota)
  <2>1. auth.quota.level \in Nat BY <1>2 DEF AuthOK, Credentials, Quotas
  <2> QED BY <2>1 DEF Climbs
<1>29. NoRungs(t, auth) BY <1>27, <1>28 DEF NoRungs
<1>30. due'.credMost >= due.credMost
  <2>1. due.credMost \in Nat BY <1>2 DEF Dues
  <2> QED BY <1>11, <2>1
<1> QED BY <1>1, <1>4, <1>11, <1>23, <1>25, <1>26, <1>29, <1>30, MarkStep

(* A credential-wide failure.  On a terminal credential it is booked on the *)
(* model that reported it, and on the models above it.                      *)
LEMMA FailAll ==
    ASSUME CooldownInv, NEW e \in running, NEW f \in Failure, f.scope, Fail(e, f) PROVE StepOK
<1> DEFINE m == e.model
           s == Unwrapped(st[m])
           n == QuotaDeadline(f, s)
           t == [o \in Model |->
                   CASE o = m -> Report(f, s)
                     [] o # m /\ o \in known -> Propagate(n, Unwrapped(st[o]))
                     [] OTHER -> st[o]]
           k == known \cup {m}
           a == IF ~terminal THEN CredentialFails(n) ELSE auth
<1>1. /\ UNCHANGED <<now, seq, terminal, disk, restarts, dueDisk>> /\ NoteChange /\ observed' = FALSE
      /\ running' \subseteq running
  BY DEF Fail, Ends
<1>2. /\ Clock /\ now \in Nat /\ now > 0 /\ known \in SUBSET Model /\ due \in Dues /\ ModelsOK(known, st, due)
      /\ AuthOK(auth, known, st, due) /\ BaseOK(auth, known, st, due) /\ terminal \in BOOLEAN
  BY InvIs DEF Clock
<1>3. m \in Model BY DEF CooldownInv, CooldownTypeOK
<1>4. auth \in Credentials /\ auth.quota \in Quotas /\ auth.quota.recover \in Nat /\ auth.quota.level \in Nat
  BY <1>2 DEF AuthOK, Credentials, Quotas
<1>5. k \in SUBSET Model /\ known \subseteq k /\ MarkStates(k, t, a) BY <1>2, <1>3 DEF Fail
<1>6. /\ due.cred \in Nat /\ due.credMost \in Nat /\ Least(f) \in Nat /\ Most(f) \in Nat /\ Least(f) >= 1
      /\ due.ownMost[m] \in Nat /\ f.kind = "quota"
  BY <1>2, <1>3, DueIs, FailureIs
<1> DEFINE cred == Larger(due.cred, now + Least(f))
           most == Larger(due.credMost, now + Most(f))
           ownMost == Larger(due.ownMost[m], most)
<1>7. now \in Nat /\ now + Least(f) \in Nat /\ now + Most(f) \in Nat BY <1>2, <1>6
<1>8. cred \in Nat /\ cred \in {due.cred, now + Least(f)} BY <1>6, <1>7, LargerIs
<1>9. most \in Nat /\ most >= due.credMost /\ most >= now + Most(f) BY <1>6, <1>7, LargerIs
<1>10. due' = IF ~terminal THEN [due EXCEPT !.credMost = most, !.seen = FALSE, !.cred = cred]
              ELSE [due EXCEPT !.credMost = most, !.seen = FALSE, !.mixed = @ \cup {m}, !.ownMost[m] = ownMost]
  BY <1>2, <1>3 DEF Fail, Owe, Dues
<1> HIDE DEF cred, most
<1>11. ownMost \in Nat /\ ownMost >= due.ownMost[m] /\ ownMost >= most BY <1>6, <1>9, LargerIs
<1> HIDE DEF ownMost, m
<1>12. /\ due' \in Dues /\ due'.own = due.own /\ due'.failed = due.failed /\ due'.credMost = most
       /\ due'.refused = due.refused
       /\ due'.cred = IF ~terminal THEN cred ELSE due.cred
       /\ due'.mixed = IF ~terminal THEN due.mixed ELSE due.mixed \cup {m}
       /\ due'.ownMost[m] = IF ~terminal THEN due.ownMost[m] ELSE ownMost
       /\ \A o \in Model : o # m => due'.ownMost[o] = due.ownMost[o]
  <2>1. CASE ~terminal
    <3>1. due' = [due EXCEPT !.credMost = most, !.seen = FALSE, !.cred = cred] BY <1>10, <2>1
    <3> QED BY <1>2, <1>8, <1>9, <2>1, <3>1 DEF Dues
  <2>2. CASE terminal
    <3>1. due' = [due EXCEPT !.credMost = most, !.seen = FALSE, !.mixed = @ \cup {m}, !.ownMost[m] = ownMost]
      BY <1>10, <2>2
    <3> QED BY <1>2, <1>3, <1>9, <1>11, <2>2, <3>1 DEF Dues
  <2> QED BY <2>1, <2>2
<1>13. /\ \A o \in Model : o # m \/ ~terminal => OwedByAll(f, o, due, due')
       /\ IF terminal THEN OwedMixed(f, m, due, due') ELSE OwedByAll(f, m, due, due')
  <2>1. ASSUME NEW o \in Model, o # m \/ ~terminal PROVE OwedByAll(f, o, due, due')
    <3>1. due'.ownMost[o] = due.ownMost[o] /\ (o \in due'.mixed <=> o \in due.mixed)
      <4>1. CASE o # m BY <1>2, <1>12, <2>1, <4>1
      <4>2. CASE o = m BY <1>2, <1>12, <2>1, <4>2
      <4> QED BY <4>1, <4>2
    <3>2. due.failed[o] <= seq BY DEF CooldownInv
    <3> QED BY <1>9, <1>12, <3>1, <3>2 DEF OwedByAll
  <2>2. CASE terminal
    <3>1. OwedMixed(f, m, due, due') BY <1>9, <1>11, <1>12, <2>2 DEF OwedMixed
    <3> QED BY <2>1, <2>2, <3>1
  <2>3. CASE ~terminal BY <1>3, <2>1, <2>3
  <2> QED BY <2>1, <2>2, <2>3
<1>14. \A o \in Model : ModelOK(st[o], o, due) /\ st[o] \in States BY <1>2 DEF ModelsOK
<1>15. auth.quota.reason = "credential" => auth.quota.recover <= due.credMost BY <1>2 DEF AuthOK
<1>16. \A o \in Model : /\ ModelOK(Unwrapped(st[o]), o, due)
                        /\ o \notin due.mixed => OwnQuota(Unwrapped(st[o])) \in {OwnQuota(st[o]), NoQuota}
  BY <1>2, <1>14, UnwrappedIs
<1>17. /\ n.next \in Nat /\ n.level \in Nat /\ n.next >= now + Least(f) /\ n.next > now
       /\ n.next <= due'.credMost
       /\ auth.quota.reason = "credential" /\ auth.quota.recover > now => n.level = auth.quota.level
  <2>1. s.quota \in Quotas BY <1>2, <1>3, <1>16, ModelIs
  <2> HIDE DEF s
  <2>2. auth.quota.reason = "credential" => auth.quota.recover <= most BY <1>4, <1>6, <1>9, <1>15
  <2> QED BY <1>2, <1>6, <1>9, <1>12, <2>1, <2>2, CredentialDeadlineIs
<1>18. /\ ModelOK(Report(f, s), m, due')
       /\ ~terminal => Wrapped(Report(f, s)) /\ OwnQuota(Report(f, s)) \in {OwnQuota(s), NoQuota}
  <2>1. ModelOK(s, m, due) BY <1>3, <1>16
  <2> HIDE DEF s
  <2> QED BY <1>2, <1>3, <1>6, <1>12, <1>13, <1>15, <2>1, ReportIs
<1> HIDE DEF n
<1>19. ASSUME NEW o \in Model
       PROVE  /\ ModelOK(t[o], o, due') /\ (o \notin k => t[o] = Reset)
              /\ o \in k => Wrapped(t[o]) \/ o \in due'.mixed
              /\ o \notin due'.mixed => ~Climbs(OwnQuota(st[o]), OwnQuota(t[o]))
  <2>1. CASE o = m
    <3>1. t[o] = Report(f, s) BY <2>1
    <3>2. m \in k OBVIOUS
    <3>3. o \notin due.mixed => OwnQuota(s) \in {OwnQuota(st[o]), NoQuota} BY <1>16, <2>1
    <3> HIDE DEF t, s, k
    <3>4. CASE terminal
      <4>1. m \in due'.mixed BY <1>12, <3>4
      <4> QED BY <1>18, <2>1, <3>1, <3>2, <4>1
    <3>5. CASE ~terminal
      <4>1. Wrapped(t[o]) /\ OwnQuota(t[o]) \in {OwnQuota(s), NoQuota} BY <1>18, <3>1, <3>5
      <4>2. o \notin due'.mixed => ~Climbs(OwnQuota(st[o]), OwnQuota(t[o]))
        <5> SUFFICES ASSUME o \notin due'.mixed PROVE ~Climbs(OwnQuota(st[o]), OwnQuota(t[o])) OBVIOUS
        <5>1. OwnQuota(t[o]) \in {OwnQuota(st[o]), NoQuota} BY <1>12, <3>3, <3>5, <4>1
        <5> QED BY <1>14, <5>1, NoClimb
      <4> QED BY <1>18, <2>1, <3>1, <3>2, <4>1, <4>2
    <3> QED BY <1>2, <3>4, <3>5
  <2>2. CASE o # m /\ o \in known
    <3> DEFINE u == Unwrapped(st[o])
    <3>1. t[o] = Propagate(n, u) /\ o \in k BY <2>2
    <3>2. ModelOK(u, o, due) /\ (o \notin due.mixed => OwnQuota(u) \in {OwnQuota(st[o]), NoQuota}) BY <1>16
    <3> HIDE DEF t, u, k
    <3>3. /\ ModelOK(Propagate(n, u), o, due') /\ Wrapped(Propagate(n, u))
          /\ OwnQuota(Propagate(n, u)) \in {OwnQuota(u), NoQuota}
      BY <1>2, <1>12, <1>13, <1>17, <2>2, <3>2, PropagateIs
    <3>4. o \notin due'.mixed => ~Climbs(OwnQuota(st[o]), OwnQuota(t[o]))
      <4> SUFFICES ASSUME o \notin due'.mixed PROVE ~Climbs(OwnQuota(st[o]), OwnQuota(t[o])) OBVIOUS
      <4>1. o \notin due.mixed BY <1>12
      <4>2. OwnQuota(t[o]) \in {OwnQuota(st[o]), NoQuota} BY <3>1, <3>2, <3>3, <4>1
      <4> QED BY <1>14, <4>2, NoClimb
    <3> QED BY <3>1, <3>3, <3>4
  <2>3. CASE o # m /\ o \notin known
    <3>1. t[o] = st[o] /\ st[o] = Reset /\ o \notin k BY <1>2, <2>3 DEF ModelsOK
    <3> HIDE DEF t, k
    <3>2. OwnOK(Reset, due'.ownMost[o]) /\ ~Wrapped(Reset) /\ Reset.shadow = Nil
      <4>1. due'.ownMost[o] \in Nat BY <1>12, DueIs
      <4>2. OwnOK(Reset, due'.ownMost[o]) BY <4>1, ResetIs
      <4>3. now \in Nat /\ due' \in Dues BY <1>2, <1>12
      <4>4. ~Wrapped(Reset) /\ Reset.shadow = Nil BY <4>1, <4>2, OwnIs
      <4> QED BY <4>2, <4>4
    <3>3. ModelOK(Reset, o, due) BY <1>14, <3>1
    <3>4. due'.own[o] = due.own[o] /\ due'.failed[o] = due.failed[o] /\ (o \in due'.mixed <=> o \in due.mixed)
      BY <1>12, <2>3
    <3>5. OwedIn(Reset, o, due) => OwedIn(Reset, o, due') BY <3>4 DEF OwedIn
    <3>6. Within(Reset, due'.ownMost[o], due'.credMost)
      <4>1. Reset \in States BY <1>14, <3>1
      <4> QED BY <3>2, <4>1 DEF Within, OwnOK
    <3>7. ModelOK(Reset, o, due') BY <3>2, <3>3, <3>4, <3>5, <3>6 DEF ModelOK
    <3>8. ~Climbs(OwnQuota(st[o]), OwnQuota(t[o])) BY <1>14, <3>1, NoClimb
    <3> QED BY <3>1, <3>7, <3>8
  <2> QED BY <2>1, <2>2, <2>3
<1>20. ModelsOK(k, t, due')
  <2>1. \A o \in Model : t[o] \in States BY <1>12, <1>19, ModelIs
  <2>2. t \in [Model -> States] BY <2>1
  <2> HIDE DEF t, k
  <2> QED BY <1>19, <2>2 DEF ModelsOK
<1> HIDE DEF t, k
<1>21. Covered(k, t, due') BY <1>5, <1>19 DEF Covered
<1>22. \A o \in Model : due'.failed[o] <= seq BY <1>12 DEF CooldownInv
<1>23. due'.credMost >= due.credMost BY <1>9, <1>12
<1> HIDE DEF a
<1>24. CASE terminal
  <2>1. a = auth BY <1>24 DEF a
  <2>2. due'.cred = due.cred /\ due'.credMost \in Nat BY <1>9, <1>12, <1>24
  <2>3. auth.quota.reason = "credential" => auth.retry <= due'.credMost /\ auth.quota.recover <= due'.credMost
    <3>1. auth.retry \in Nat BY <1>4 DEF Credentials
    <3> QED BY <1>2, <1>4, <1>6, <1>15, <1>23, <2>2, <3>1 DEF AuthOK
  <2>4. BaseOK(auth, k, t, due') BY <1>2, <1>21, <2>2, <2>3 DEF BaseOK
  <2>5. ~Climbs(auth.quota, auth.quota) BY <1>4 DEF Climbs
  <2>6. NoRungs(t, auth) BY <1>19, <2>5 DEF NoRungs
  <2> QED BY <1>1, <1>5, <1>12, <1>20, <1>22, <1>23, <2>1, <2>4, <2>6, MarkStep
<1> DEFINE credential == auth.quota.exc /\ auth.quota.reason = "credential"
           next == IF credential THEN Larger(n.next, auth.quota.recover) ELSE n.next
           quota == Quota("credential", next, n.level)
<1>25. credential <=> auth.quota.reason = "credential" BY <1>2 DEF AuthOK
<1>26. /\ next \in Nat /\ next >= n.next /\ next <= due'.credMost
       /\ auth.quota.reason = "credential" => next >= auth.quota.recover
  <2>1. LET l == Larger(n.next, auth.quota.recover)
        IN  l \in Nat /\ l >= n.next /\ l >= auth.quota.recover /\ l \in {n.next, auth.quota.recover}
    BY <1>4, <1>17, LargerIs
  <2>2. due'.credMost \in Nat /\ due'.credMost >= due.credMost BY <1>9, <1>12
  <2>3. CASE credential
    <3>1. next = Larger(n.next, auth.quota.recover) BY <2>3
    <3>2. auth.quota.recover <= due.credMost BY <1>15, <2>3
    <3> HIDE DEF next, credential
    <3> QED BY <1>4, <1>6, <1>17, <2>1, <2>2, <3>1, <3>2
  <2>4. CASE ~credential
    <3>1. next = n.next BY <2>4
    <3> HIDE DEF next
    <3> QED BY <1>17, <1>25, <2>4, <3>1
  <2> QED BY <2>3, <2>4
<1>27. CredentialFails(n) = [unavailable |-> TRUE, retry |-> next, quota |-> quota] BY DEF CredentialFails
<1> HIDE DEF next, credential
<1>28. quota \in Quotas /\ quota.exc /\ quota.reason = "credential" /\ quota.recover = next /\ quota.level = n.level
  BY <1>17, <1>26, QuotaIs
<1> HIDE DEF quota
<1>29. CASE ~terminal
  <2>1. a = [unavailable |-> TRUE, retry |-> next, quota |-> quota] BY <1>27, <1>29 DEF a
  <2>2. a \in Credentials /\ a.unavailable /\ a.retry = next /\ a.quota = quota BY <1>26, <1>28, <2>1 DEF Credentials
  <2>3. next > 0 BY <1>2, <1>17, <1>26
  <2>4. due'.cred > now => next >= due'.cred
    <3>1. due'.cred = cred BY <1>12, <1>29
    <3> SUFFICES ASSUME cred > now PROVE next >= cred BY <3>1
    <3>2. CASE cred = now + Least(f) BY <1>2, <1>6, <1>17, <1>26, <3>2
    <3>3. CASE cred = due.cred
      <4>1. auth.quota.reason = "credential" /\ auth.quota.recover >= due.cred BY <1>2, <3>3 DEF AuthOK
      <4> QED BY <1>4, <1>6, <1>26, <3>3, <4>1
    <3> QED BY <1>8, <3>2, <3>3
  <2>5. BaseOK(a, k, t, due') BY <1>21, <1>26, <1>28, <2>2, <2>3, <2>4 DEF BaseOK
  <2>6. ASSUME Climbs(auth.quota, a.quota), auth.quota.reason = "credential" PROVE auth.quota.recover <= now
    <3>1. n.level > auth.quota.level BY <1>28, <2>2, <2>6 DEF Climbs
    <3>2. ~(auth.quota.recover > now) BY <1>4, <1>17, <2>6, <3>1
    <3> QED BY <1>2, <1>4, <3>2
  <2>7. NoRungs(t, a) BY <1>19, <2>6 DEF NoRungs
  <2> QED BY <1>1, <1>5, <1>12, <1>20, <1>22, <1>29, <2>5, <2>7, MarkStep
<1> QED BY <1>2, <1>24, <1>29

(* A restart brings back what the records hold, and starts counting again. *)
LEMMA RestartStep == ASSUME CooldownInv, Restart PROVE StepOK
<1> DEFINE on == {m \in Model : disk.st[m] # Nil /\ disk.st[m].retry > now}
           t == [m \in Model |-> IF m \in on THEN Restored(disk.st[m]) ELSE Reset]
           AddRecord(m, acc) ==
               [known |-> acc.known \cup {m}, auth |-> Aggregate(acc.known \cup {m}, t, acc.auth)]
           fresh == [known |-> {}, auth |-> Blank]
           d == due'
<1>1. /\ restarts < MaxRestarts /\ restarts' = restarts + 1 /\ seq' = 0 /\ running' = {} /\ observed' = FALSE
      /\ dirty' = FALSE /\ terminal' = FALSE /\ now' = now /\ known' = on /\ st' = Refreshed(on, t)
      /\ disk' = Records(known', st', auth')
      /\ due' = [dueDisk EXCEPT !.failed = [m \in Model |-> 0], !.refused = FALSE] /\ dueDisk' = due'
  BY DEF Restart
<1>2. auth' = IF disk.auth # Nil /\ disk.auth.retry > now THEN disk.auth ELSE FoldSet(AddRecord, fresh, on).auth
  BY DEF Restart
<1>3. /\ Clock /\ now \in Nat /\ now > 0 /\ dueDisk \in Dues /\ DiskOK(disk, dueDisk)
      /\ disk \in [auth : Credentials \cup {Nil}, st : [Model -> States \cup {Nil}]]
  BY InvIs DEF Clock, CooldownInv, CooldownTypeOK
<1>4. MaxSeq \in Nat /\ MaxRestarts \in Nat /\ restarts \in 0 .. MaxRestarts
  BY CooldownAssumption DEF CooldownInv, CooldownTypeOK
<1>5. /\ d \in Dues /\ d.own = dueDisk.own /\ d.ownMost = dueDisk.ownMost /\ d.cred = dueDisk.cred
      /\ d.credMost = dueDisk.credMost /\ d.mixed = dueDisk.mixed /\ \A m \in Model : d.failed[m] = 0
  <2> HIDE DEF on, t
  <2> DEFINE none == [m \in Model |-> 0]
             refused == FALSE
  <2>1. none \in [Model -> 0 .. MaxSeq] /\ \A m \in Model : none[m] = 0 BY <1>4
  <2>2. d = [dueDisk EXCEPT !.failed = none, !.refused = refused] BY <1>1
  <2>3. refused \in BOOLEAN OBVIOUS
  <2> HIDE DEF d, none, refused
  <2> QED BY <1>3, <2>1, <2>2, <2>3 DEF Dues
<1>6. ASSUME NEW m \in on
      PROVE  /\ m \in Model /\ m \in Kept(disk) /\ ModelOK(disk.st[m], m, dueDisk) /\ disk.st[m].unavailable
             /\ ModelOK(t[m], m, d) /\ t[m].retry = disk.st[m].retry /\ t[m].unavailable /\ t[m].retry > now
             /\ Wrapped(disk.st[m]) => Wrapped(t[m])
  <2>1. m \in Model /\ disk.st[m] # Nil /\ disk.st[m].retry > now BY <1>6
  <2>2. m \in Kept(disk) BY <2>1 DEF Kept
  <2>3. ModelOK(disk.st[m], m, dueDisk) /\ disk.st[m].unavailable BY <1>3, <2>2 DEF DiskOK
  <2>4. t[m] = Restored(disk.st[m]) BY <1>6
  <2> HIDE DEF t, on, d
  <2>5. /\ ModelOK(t[m], m, d) /\ t[m].retry = disk.st[m].retry /\ t[m].unavailable = disk.st[m].unavailable
        /\ Wrapped(disk.st[m]) => Wrapped(t[m])
    <3> DEFINE s == disk.st[m]
               r == Restored(s)
    <3>1. /\ d \in Dues /\ d.own[m] = dueDisk.own[m] /\ d.ownMost[m] = dueDisk.ownMost[m]
          /\ d.credMost = dueDisk.credMost /\ d.failed[m] = 0 /\ d.mixed = dueDisk.mixed
      BY <1>5, <2>1
    <3>2. ModelOK(s, m, dueDisk) /\ dueDisk \in Dues /\ m \in Model BY <1>3, <2>1, <2>3
    <3> HIDE DEF s
    <3>3. ModelOK(r, m, d) /\ r.retry = s.retry /\ r.unavailable = s.unavailable /\ (Wrapped(s) => Wrapped(r))
      BY <3>1, <3>2, RestoredIs
    <3> QED BY <2>4, <3>3 DEF s
  <2> QED BY <2>1, <2>2, <2>3, <2>5
<1>7. \A m \in Kept(disk) : disk.st[m].retry > now => m \in on BY DEF Kept
<1>8. ASSUME NEW m \in Model PROVE ModelOK(t[m], m, d) /\ t[m] \in States /\ (m \notin on => t[m] = Reset)
  <2>1. CASE m \in on BY <1>5, <1>6, <2>1, ModelIs
  <2>2. CASE m \notin on
    <3>1. t[m] = Reset BY <2>2
    <3> HIDE DEF t
    <3>2. ~(d.own[m] > now) \/ m \in d.mixed
      <4> SUFFICES ASSUME d.own[m] > now, m \notin d.mixed PROVE FALSE OBVIOUS
      <4>1. m \in Kept(disk) BY <1>3, <1>5 DEF DiskOK
      <4>2. ModelOK(disk.st[m], m, dueDisk) BY <1>3, <4>1 DEF DiskOK
      <4>3. disk.st[m].retry >= dueDisk.own[m] /\ disk.st[m].retry \in Nat /\ dueDisk.own[m] \in Nat
        <5>1. disk.st[m].retry >= dueDisk.own[m] BY <1>5, <4>2 DEF ModelOK, OwedIn, HeldUntil
        <5> QED BY <1>3, <4>2, <5>1, ModelIs, DueIs
      <4>4. disk.st[m].retry > now BY <1>3, <1>5, <4>3
      <4> QED BY <1>7, <2>2, <4>1, <4>4
    <3>3. ModelOK(Reset, m, d) /\ Reset \in States BY <1>3, <1>5, <3>2, ResetOK
    <3> QED BY <3>1, <3>3
  <2> QED BY <2>1, <2>2
<1>9. ModelsOK(on, t, d)
  <2>1. t \in [Model -> States] BY <1>8
  <2> HIDE DEF t, on, d
  <2> QED BY <1>8, <2>1 DEF ModelsOK
<1>10. on \in SUBSET Model OBVIOUS
<1>11. \A m \in on : t[m] \in States /\ (t[m].quota.exc => t[m].quota.recover > 0)
  <2> SUFFICES ASSUME NEW m \in on PROVE t[m] \in States /\ (t[m].quota.exc => t[m].quota.recover > 0) OBVIOUS
  <2>1. m \in Model /\ ModelOK(t[m], m, d) BY <1>6
  <2> HIDE DEF t, on, d
  <2> QED BY <1>5, <2>1, ModelIs
<1>12. ASSUME ~(disk.auth # Nil /\ disk.auth.retry > now)
       PROVE  /\ AuthOK(auth', on, Refreshed(on, t), d) /\ ~(d.cred > now)
              /\ on = {} => auth' = Blank
  <2>1. PlainOK(FoldSet(AddRecord, fresh, on).auth, on, t)
    <3> HIDE DEF t, on
    <3> QED BY <1>3, <1>10, <1>11, FoldSetIs
  <2>2. auth' = FoldSet(AddRecord, fresh, on).auth BY <1>2, <1>12
  <2>3. PlainOK(auth', on, t) BY <2>1, <2>2
  <2> HIDE DEF t, on, d
  <2>4. ~(d.cred > now)
    <3> SUFFICES ASSUME d.cred > now PROVE FALSE OBVIOUS
    <3>1. disk.auth # Nil BY <1>3, <1>5 DEF DiskOK
    <3>2. AuthOK(disk.auth, Kept(disk), disk.st, dueDisk) /\ disk.auth.retry # 0 BY <1>3, <3>1 DEF DiskOK
    <3>3. disk.auth.retry >= d.cred /\ disk.auth.retry \in Nat /\ d.cred \in Nat
      <4>1. disk.auth.retry >= d.cred BY <1>5, <3>2 DEF AuthOK
      <4> QED BY <1>5, <3>2, <4>1 DEF AuthOK, Credentials, Dues
    <3>4. disk.auth.retry > now BY <1>3, <3>3
    <3> QED BY <1>12, <3>1, <3>4
  <2>5. AuthOK(auth', on, Refreshed(on, t), d) BY <1>1, <1>3, <1>5, <1>9, <1>10, <2>3, <2>4, PlainAuth
  <2>6. on = {} => auth' = Blank BY <2>3 DEF PlainOK
  <2> QED BY <2>4, <2>5, <2>6
<1>13. ASSUME disk.auth # Nil, disk.auth.retry > now
       PROVE  AuthOK(auth', on, Refreshed(on, t), d) /\ auth'.retry \in Nat /\ auth'.retry > now
  <2> DEFINE a == disk.auth
             u == Refreshed(on, t)
  <2>1. auth' = a BY <1>2, <1>13
  <2>2. AuthOK(a, Kept(disk), disk.st, dueDisk) /\ a.unavailable BY <1>3, <1>13 DEF DiskOK
  <2>3. a \in Credentials /\ a.retry \in Nat BY <2>2 DEF AuthOK, Credentials
  <2>4. \A m \in Model : /\ Wrapped(u[m]) <=> Wrapped(t[m])
                         /\ t[m].unavailable /\ t[m].retry > now => u[m] = t[m]
    <3> HIDE DEF t, on, d
    <3> QED BY <1>3, <1>5, <1>9, RefreshedAll
  <2>5. \A m \in on : /\ m \in Kept(disk) /\ u[m].unavailable /\ u[m].retry = disk.st[m].retry
                      /\ Wrapped(disk.st[m]) => Wrapped(u[m])
    <3> HIDE DEF t, on, u, d
    <3> QED BY <1>6, <1>10, <2>4
  <2> HIDE DEF t, on, u, d
  <2>6. \/ a.retry <= d.credMost /\ a.quota.recover <= d.credMost
        \/ \E m \in on : u[m].unavailable /\ u[m].retry >= a.retry
    <3>1. CASE \E m \in Kept(disk) : disk.st[m].unavailable /\ disk.st[m].retry >= a.retry
      <4>1. PICK m \in Kept(disk) : disk.st[m].unavailable /\ disk.st[m].retry >= a.retry BY <3>1
      <4>2. m \in Model /\ ModelOK(disk.st[m], m, dueDisk) BY <1>3, <4>1 DEF DiskOK, Kept
      <4>3. disk.st[m].retry \in Nat BY <1>3, <4>2, ModelIs
      <4>4. disk.st[m].retry > now BY <1>3, <1>13, <2>3, <4>1, <4>3
      <4>5. m \in on BY <1>7, <4>1, <4>4
      <4> QED BY <2>5, <4>1, <4>5
    <3>2. CASE ~\E m \in Kept(disk) : disk.st[m].unavailable /\ disk.st[m].retry >= a.retry
      BY <1>5, <1>13, <2>2, <3>2 DEF AuthOK
    <3> QED BY <3>1, <3>2
  <2>7. a.retry > 0 BY <1>3, <1>13, <2>3
  <2>8. CredentialQuota(a) => Covered(on, u, d)
    <3> SUFFICES ASSUME CredentialQuota(a), NEW m \in on
                 PROVE  Wrapped(u[m]) \/ u[m] = Reset \/ m \in d.mixed
      BY DEF Covered
    <3>1. Wrapped(disk.st[m]) \/ disk.st[m] = Reset \/ m \in d.mixed BY <1>5, <2>2, <2>5 DEF AuthOK, Covered
    <3>2. disk.st[m] # Reset
      <4> SUFFICES ASSUME disk.st[m] = Reset PROVE FALSE OBVIOUS
      <4>1. Reset.retry = 0 BY DEF Reset
      <4>2. t[m].retry = disk.st[m].retry /\ t[m].retry > now BY <1>6
      <4>3. 0 > now BY <4>1, <4>2
      <4> QED BY <1>3, <4>3
    <3> QED BY <2>5, <3>1, <3>2
  <2>9. AuthOK(a, on, u, d) BY <1>5, <2>2, <2>6, <2>7, <2>8 DEF AuthOK
  <2> QED BY <1>1, <1>13, <2>1, <2>3, <2>9 DEF u
<1> HIDE DEF t, on, d
<1>14. AuthOK(auth', known', st', d) BY <1>1, <1>12, <1>13
<1>15. ModelsOK(known', st', d) BY <1>1, <1>3, <1>5, <1>9, RefreshedAll
<1>16. known' \in SUBSET Model BY <1>1, <1>10
<1>17. d.cred > now => auth'.retry # 0 BY <1>3, <1>12, <1>13
<1>18. /\ disk' \in [auth : Credentials \cup {Nil}, st : [Model -> States \cup {Nil}]]
       /\ DiskOK(disk', d)
  BY <1>1, <1>3, <1>5, <1>14, <1>15, <1>16, <1>17, RecordsAre
<1>19. RefusedOK'
  <2>1. ~terminal' BY <1>1
  <2>2. ASSUME known' = {}, auth'.unavailable PROVE auth'.retry > 0
    <3>1. CASE ~(disk.auth # Nil /\ disk.auth.retry > now)
      <4>1. auth' = Blank BY <1>1, <1>12, <2>2, <3>1
      <4> QED BY <2>2, <4>1, BlankIs
    <3>2. CASE disk.auth # Nil /\ disk.auth.retry > now BY <1>3, <1>13, <3>2
    <3> QED BY <3>1, <3>2
  <2> QED BY <2>1, <2>2 DEF RefusedOK
<1>20. /\ seq' \in 0 .. MaxSeq /\ running' \subseteq [seq : 1 .. MaxSeq, model : Model]
       /\ restarts' \in 0 .. MaxRestarts /\ observed' \in BOOLEAN /\ ~observed' /\ dirty' \in BOOLEAN
       /\ terminal' \in BOOLEAN
  <2>1. 0 \in 0 .. MaxSeq /\ restarts + 1 \in 0 .. MaxRestarts BY <1>1, <1>4
  <2>2. seq' \in 0 .. MaxSeq /\ restarts' \in 0 .. MaxRestarts BY <1>1, <2>1
  <2>3. observed' \in BOOLEAN /\ ~observed' /\ dirty' \in BOOLEAN /\ terminal' \in BOOLEAN BY <1>1, Zenon
  <2>4. running' \subseteq [seq : 1 .. MaxSeq, model : Model] BY <1>1
  <2> QED BY <2>2, <2>3, <2>4
<1>21. \A m \in Model : d.failed[m] <= seq' BY <1>1, <1>5
<1>22. /\ known' \subseteq Model /\ due' \in Dues /\ ModelsOK(known', st', due') /\ AuthOK(auth', known', st', due')
       /\ dueDisk' \in Dues /\ DiskOK(disk', dueDisk') /\ \A m \in Model : due'.failed[m] <= seq'
  BY <1>1, <1>5, <1>14, <1>15, <1>16, <1>18, <1>21 DEF d
<1>23. CooldownInv' BY <1>1, <1>18, <1>19, <1>20, <1>22, Preserved
<1>24. Ladder
  <2>1. restarts' # restarts BY <1>1, <1>4
  <2> QED BY <2>1 DEF Ladder
<1> QED BY <1>23, <1>24 DEF StepOK

-----------------------------------------------------------------------------
(* The theorems. *)

LEMMA InitHolds == CooldownInit => CooldownInv
<1> SUFFICES ASSUME CooldownInit PROVE CooldownInv OBVIOUS
<1>1. MaxTime \in Nat /\ MaxTime # 0 /\ MaxSeq \in Nat /\ MaxRestarts \in Nat BY CooldownAssumption
<1>2. /\ now = 1 /\ seq = 0 /\ running = {} /\ known = {} /\ st = [m \in Model |-> Reset] /\ auth = Blank
      /\ terminal = FALSE /\ observed = FALSE /\ dirty = FALSE /\ restarts = 0
      /\ disk = [auth |-> Nil, st |-> [m \in Model |-> Nil]] /\ due = NoDue /\ dueDisk = NoDue
  BY DEF CooldownInit
<1>3. /\ NoDue \in Dues /\ NoDue.cred = 0 /\ NoDue.credMost = 0
      /\ \A m \in Model : NoDue.own[m] = 0 /\ NoDue.ownMost[m] = 0 /\ NoDue.failed[m] = 0
  BY <1>1 DEF NoDue, Dues
<1>4. /\ Blank \in Credentials /\ ~Blank.quota.exc /\ Blank.quota.reason = "" /\ ~Blank.unavailable
      /\ Blank.retry = 0 /\ Blank.quota.recover = 0
  BY BlankIs
<1>5. \A m \in Model : ModelOK(Reset, m, NoDue) /\ Reset \in States /\ Reset.shadow = Nil
  <2> SUFFICES ASSUME NEW m \in Model PROVE ModelOK(Reset, m, NoDue) /\ Reset \in States /\ Reset.shadow = Nil
    OBVIOUS
  <2>1. now \in Nat /\ ~(NoDue.own[m] > now) BY <1>2, <1>3
  <2> QED BY <1>3, <2>1, ResetOK
<1>6. now \in 1 .. MaxTime /\ seq \in 0 .. MaxSeq /\ restarts \in 0 .. MaxRestarts BY <1>1, <1>2
<1>7. observed \in BOOLEAN /\ dirty \in BOOLEAN /\ terminal \in BOOLEAN /\ ~observed /\ ~terminal BY <1>2, Zenon
<1>8. st \in [Model -> States] /\ \A m \in Model : st[m] = Reset BY <1>2, <1>5
<1>9. disk \in [auth : Credentials \cup {Nil}, st : [Model -> States \cup {Nil}]] BY <1>2
<1>10. CooldownTypeOK BY <1>2, <1>3, <1>4, <1>5, <1>6, <1>7, <1>8, <1>9 DEF CooldownTypeOK
<1>11. AuthOK(auth, known, st, due)
  <2>1. ~(NoDue.cred > now) /\ 0 <= NoDue.credMost BY <1>2, <1>3
  <2> QED BY <1>2, <1>4, <2>1 DEF AuthOK, CredentialQuota
<1>12. LiveOK(known, st, auth, due) BY <1>2, <1>5, <1>8, <1>11 DEF LiveOK
<1>13. DiskOK(disk, dueDisk)
  <2>1. disk.auth = Nil /\ \A m \in Model : disk.st[m] = Nil BY <1>2
  <2>2. Kept(disk) = {} BY <2>1 DEF Kept
  <2>3. ~(NoDue.cred > now) /\ \A m \in Model : ~(NoDue.own[m] > now) BY <1>2, <1>3
  <2> QED BY <1>2, <2>1, <2>2, <2>3 DEF DiskOK
<1>14. \A m \in Model : due.failed[m] <= seq BY <1>2, <1>3
<1>15. RefusedOK BY <1>2, <1>4, <1>7 DEF RefusedOK
<1> QED BY <1>7, <1>10, <1>12, <1>13, <1>14, <1>15 DEF CooldownInv

LEMMA NextHolds == ASSUME CooldownInv, [CooldownNext]_cooldownVars PROVE StepOK
<1>1. CASE Tick BY <1>1, TickStep
<1>2. CASE Observe BY <1>2, ObserveStep
<1>3. CASE RefreshRefused BY <1>3, RefreshRefusedStep
<1>4. CASE RefreshCancelled BY <1>4, RefreshCancelledStep
<1>5. CASE Login BY <1>5, LoginStep
<1>6. CASE ResetQuota BY <1>6, ResetQuotaStep
<1>7. CASE Persist BY <1>7, PersistStep
<1>8. CASE Restart BY <1>8, RestartStep
<1>9. CASE \E replaced \in BOOLEAN : RefreshSucceeds(replaced) BY <1>9, RefreshSucceedsStep
<1>10. CASE \E m \in Model : Dispatch(m) BY <1>10, DispatchStep
<1>11. ASSUME NEW e \in running, NEW countTokens \in BOOLEAN, Success(e, countTokens) PROVE StepOK
  BY <1>11, SuccessStep
<1>12. ASSUME NEW e \in running, Neutral(e) PROVE StepOK BY <1>12, NeutralStep
<1>13. ASSUME NEW e \in running, NEW f \in Failure, Fail(e, f) PROVE StepOK
  <2>1. CASE f.scope BY <1>13, <2>1, FailAll
  <2>2. CASE ~f.scope BY <1>13, <2>2, FailAlone
  <2> QED BY <2>1, <2>2
<1>14. CASE UNCHANGED cooldownVars
  <2>1. UNCHANGED <<now, seq, running, known, st, auth, terminal, observed, disk, dirty, restarts, due, dueDisk>>
    BY <1>14 DEF cooldownVars
  <2>2. CooldownTypeOK' BY <2>1 DEF CooldownInv, CooldownTypeOK, Wrapped
  <2>3. LiveOK(known, st, auth, due)'
    BY <2>1 DEF CooldownInv, LiveOK, ModelOK, OwedIn, AuthOK, CredentialQuota
  <2>4. DiskOK(disk, dueDisk)'
    BY <2>1 DEF CooldownInv, DiskOK, Kept, ModelOK, OwedIn, AuthOK, CredentialQuota
  <2>5. RefusedOK' BY <2>1 DEF CooldownInv, RefusedOK
  <2>6. CooldownInv' BY <2>1, <2>2, <2>3, <2>4, <2>5 DEF CooldownInv
  <2> QED BY <2>1, <2>6, NoLadder DEF StepOK
<1> QED
  BY <1>1, <1>2, <1>3, <1>4, <1>5, <1>6, <1>7, <1>8, <1>9, <1>10, <1>11, <1>12, <1>13, <1>14
  DEF CooldownNext

LEMMA CooldownInvHolds == CooldownSpec => []CooldownInv
<1>1. CooldownInv /\ [CooldownNext]_cooldownVars => CooldownInv' BY NextHolds DEF StepOK
<1> QED BY <1>1, InitHolds, PTL DEF CooldownSpec

(* The variables keep their types, and shadows never nest. *)
THEOREM CooldownTypes == CooldownSpec => []CooldownTypeOK
<1>1. CooldownInv => CooldownTypeOK BY DEF CooldownInv
<1> QED BY <1>1, CooldownInvHolds, PTL

(* Nothing releases a model before the deadline that its own failures, or   *)
(* the credential's, ask for, but what takes that demand back.              *)
THEOREM CooldownNeverEarly == CooldownSpec => []NeverEarly
<1>1. CooldownInv => NeverEarly
  <2> SUFFICES ASSUME CooldownInv, NEW m \in Model,
                      (due.own[m] > now /\ m \notin due.mixed) \/ due.cred > now
               PROVE  Blocked(m)
    BY DEF NeverEarly
  <2>1. /\ now \in Nat /\ due \in Dues /\ ModelsOK(known, st, due) /\ AuthOK(auth, known, st, due)
    BY InvIs DEF Clock
  <2>2. due.own[m] \in Nat /\ due.cred \in Nat BY <2>1, DueIs
  <2>3. CASE due.cred > now
    <3>1. auth.quota.reason = "credential" /\ auth.quota.recover >= due.cred /\ auth.quota.exc
      BY <2>1, <2>3 DEF AuthOK
    <3>2. auth.quota.recover \in Nat BY <2>1 DEF AuthOK, Credentials, Quotas
    <3>3. auth.quota.recover > now BY <2>1, <2>2, <2>3, <3>1, <3>2
    <3> QED BY <3>1, <3>3 DEF Blocked, CredentialQuota
  <2>4. CASE due.own[m] > now /\ m \notin due.mixed
    <3>1. HeldUntil(st[m], due.own[m], due.failed[m]) BY <2>1, <2>4 DEF ModelsOK, ModelOK, OwedIn
    <3>2. st[m].retry \in Nat BY <2>1, LayerIs DEF ModelsOK
    <3>3. st[m].unavailable /\ st[m].retry > now BY <2>1, <2>2, <2>4, <3>1, <3>2 DEF HeldUntil
    <3>4. m \in known
      <4> SUFFICES ASSUME m \notin known PROVE FALSE OBVIOUS
      <4>1. st[m] = Reset /\ Reset.retry = 0 BY <2>1 DEF ModelsOK, Reset
      <4> QED BY <2>1, <3>3, <4>1
    <3> QED BY <3>3, <3>4 DEF Blocked, AvailabilityBlock
  <2> QED BY <2>3, <2>4
<1> QED BY <1>1, CooldownInvHolds, PTL

(* Nothing is held back later than its failures justify, unless the         *)
(* credential is refused.                                                   *)
THEOREM CooldownNeverLate == CooldownSpec => []NeverLate
<1>1. CooldownInv => NeverLate
  <2> SUFFICES ASSUME CooldownInv, NEW m \in Model, Blocked(m), ~terminal, ~(due.refused /\ known = {})
               PROVE  due.ownMost[m] > now \/ due.credMost > now
    BY DEF NeverLate
  <2>1. /\ now \in Nat /\ now > 0 /\ due \in Dues /\ ModelsOK(known, st, due) /\ AuthOK(auth, known, st, due)
    BY InvIs DEF Clock
  <2>2. due.ownMost[m] \in Nat /\ due.credMost \in Nat BY <2>1, DueIs
  <2>3. auth.retry \in Nat /\ auth.quota.recover \in Nat BY <2>1 DEF AuthOK, Credentials, Quotas
  <2>4. CASE auth.quota.exc /\ CredentialQuota(auth)
    <3>1. auth.quota.recover > now /\ auth.quota.recover <= due.credMost BY <2>1, <2>4 DEF AuthOK, CredentialQuota
    <3> QED BY <2>1, <2>2, <2>3, <3>1
  <2>5. CASE known = {} /\ AvailabilityBlock(auth)
    <3>1. /\ auth.retry <= due.credMost /\ auth.quota.recover <= due.credMost
          /\ auth.unavailable => auth.retry > 0 \/ auth.quota.recover > 0
          /\ auth.quota.exc => auth.quota.recover > 0
      BY <2>1, <2>5 DEF AuthOK, CooldownInv, RefusedOK
    <3>2. auth.retry > now \/ auth.quota.recover > now BY <2>5, <3>1 DEF AvailabilityBlock
    <3> QED BY <2>1, <2>2, <2>3, <3>1, <3>2
  <2>6. CASE m \in known /\ AvailabilityBlock(st[m])
    <3>1. /\ st[m].retry \in Nat /\ st[m].quota.recover \in Nat
          /\ st[m].unavailable => st[m].retry > 0
          /\ st[m].quota.exc => st[m].quota.recover > 0
          /\ st[m].retry <= due.ownMost[m] \/ st[m].retry <= due.credMost
          /\ st[m].quota.recover <= due.ownMost[m] \/ st[m].quota.recover <= due.credMost
      BY <2>1, ModelIs DEF ModelsOK
    <3>2. st[m].retry > now \/ st[m].quota.recover > now BY <2>6, <3>1 DEF AvailabilityBlock
    <3> QED BY <2>1, <2>2, <3>1, <3>2
  <2> QED BY <2>4, <2>5, <2>6 DEF Blocked
<1> QED BY <1>1, CooldownInvHolds, PTL

(* A burst of failures climbs a ladder at most once per window. *)
THEOREM CooldownOncePerWindow == CooldownSpec => OncePerWindow
<1>1. CooldownInv /\ [CooldownNext]_cooldownVars => [Ladder]_cooldownVars BY NextHolds DEF StepOK
<1> QED BY <1>1, CooldownInvHolds, PTL DEF CooldownSpec, OncePerWindow, Ladder

=============================================================================
