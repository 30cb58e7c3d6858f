------------------------- MODULE RelaySessionProofs -------------------------
(***************************************************************************)
(* Theorems about a websocket session, for any number of requests, any     *)
(* capacity of their channels and any number of chunks.                    *)
(***************************************************************************)
EXTENDS RelaySession, TLAPS

-----------------------------------------------------------------------------
(* Type correctness, one part of the state at a time. *)

(* The initial states have their types. *)
LEMMA InitType == Init => TypeOK
<1> SUFFICES ASSUME Init PROVE TypeOK OBVIOUS
<1> USE DEF Init, Idle
<1>1. SessionType BY DEF SessionType
<1>2. RequestType BY CapacityAssumption DEF RequestType
<1>3. CallerType BY MaxChunksAssumption DEF CallerType
<1>4. ReaderType BY DEF ReaderType, Dispatching
<1> QED BY <1>1, <1>2, <1>3, <1>4 DEF TypeOK

(* The session's state keeps its type. *)
LEMMA SessionStep == ASSUME TypeOK, Next PROVE SessionType'
<1> USE DEF TypeOK, SessionType, sessionVars
<1>1. ASSUME NEW r \in Requests,
             Send(r) \/ NotConnected(r) \/ Request(r) \/ Arm(r) \/ SendCheck(r) \/ Write(r)
      PROVE  SessionType'
  BY <1>1 DEF Send, NotConnected, Request, Arm, SendCheck, Write, SendOk, SendFails, Unsend
<1>2. ASSUME NEW r \in Requests,
             Consume(r) \/ CancelCtx(r) \/ Callback(r) \/ \E f \in Frames : ReadFrame(r, f)
      PROVE  SessionType'
  BY <1>2 DEF Consume, Receive, ChannelClosed, CtxAbort, CancelCtx, Callback, AfterTake,
              AfterCancel, ReadFrame
<1>3. CASE Lock \/ Deliver \/ ReaderTake \/ ReaderFinish \/ ReadFails \/ RunReturns
  BY <1>3 DEF Lock, Deliver, Put, Drop, ReaderTake, ReaderFinish, ReadFails, RunReturns
<1>4. CASE Stop \/ CleanupBegin \/ CleanupStep
  BY <1>4 DEF Stop, CleanupBegin, CleanupStep, CleanupRange, CleanupTake, CleanupCancel,
              CleanupConn, handleSessionClosed
<1> QED BY <1>1, <1>2, <1>3, <1>4 DEF Next

(* The callers keep their type. *)
LEMMA CallerStep == ASSUME TypeOK, Next PROVE CallerType'
<1> USE DEF TypeOK, CallerType, callerVars, peerVars, Terminal
<1>1. ASSUME NEW r \in Requests,
             Send(r) \/ NotConnected(r) \/ Request(r) \/ Arm(r) \/ SendCheck(r) \/ Write(r)
      PROVE  CallerType'
  BY <1>1 DEF Send, NotConnected, Request, Arm, SendCheck, Write, SendOk, SendFails, Unsend,
              Return, StopCancel
<1>2. ASSUME NEW r \in Requests, Consume(r) \/ CancelCtx(r) \/ Callback(r)
      PROVE  CallerType'
  <2>1. CASE Receive(r)
    <3>1. UNCHANGED <<ctx, after, peer, sent>> BY <2>1 DEF Receive
    <3>2. CASE Head(req[r].ch) = "chunk"
      <4>1. got' = [got EXCEPT ![r] = @ + 1] /\ UNCHANGED <<caller, result>>
        BY <2>1, <3>2 DEF Receive
      <4> QED BY <3>1, <4>1
    <3>3. CASE Head(req[r].ch) # "chunk"
      <4>1. Return(r, Answer(Head(req[r].ch))) /\ UNCHANGED got
        BY <2>1, <3>3 DEF Receive
      <4>2. Answer(Head(req[r].ch)) \in {"complete", "error"} BY DEF Answer
      <4> QED BY <3>1, <4>1, <4>2 DEF Return
    <3> QED BY <3>2, <3>3
  <2>2. CASE ChannelClosed(r) \/ CtxAbort(r)
    BY <2>2 DEF ChannelClosed, CtxAbort, Return
  <2>3. CASE CancelCtx(r) \/ Callback(r)
    BY <2>3 DEF CancelCtx, Callback, AfterTake, AfterCancel
  <2> QED BY <1>2, <2>1, <2>2, <2>3 DEF Consume
<1>3. ASSUME NEW r \in Requests, NEW f \in Frames, ReadFrame(r, f) PROVE CallerType'
  BY <1>3, MaxChunksAssumption DEF ReadFrame, Frames
<1>4. CASE Lock \/ Deliver \/ ReaderTake \/ ReaderFinish \/ ReadFails \/ RunReturns
  <2>1. CASE ReaderFinish
    <3>1. StopCancel(reader.req) /\ UNCHANGED <<caller, ctx, result, got, peer, sent>>
      BY <2>1 DEF ReaderFinish
    <3> QED BY <3>1 DEF StopCancel
  <2> QED BY <1>4, <2>1 DEF Lock, Deliver, Put, Drop, ReaderTake, ReadFails, RunReturns
<1>5. CASE Stop \/ CleanupBegin \/ CleanupStep
  BY <1>5 DEF Stop, CleanupBegin, CleanupStep, CleanupRange, CleanupTake, CleanupCancel,
              CleanupConn, handleSessionClosed, StopCancel
<1> QED BY <1>1, <1>2, <1>3, <1>4, <1>5 DEF Next

(* The reader with another position, and with another outcome, is a reader. *)
LEMMA ReaderMoves ==
    ASSUME ReaderType, Dispatching, NEW ok \in BOOLEAN,
           NEW at \in {"delivering", "taking", "finishing"},
           \/ reader' = Idle
           \/ reader' = [reader EXCEPT !.at = at]
           \/ reader' = [reader EXCEPT !.at = at, !.ok = ok]
    PROVE  ReaderType'
<1>1. CASE reader' = Idle BY <1>1 DEF ReaderType, Dispatching, Idle
<1>2. CASE reader' = [reader EXCEPT !.at = at] BY <1>2 DEF ReaderType, Dispatching
<1>3. CASE reader' = [reader EXCEPT !.at = at, !.ok = ok]
  BY <1>3 DEF ReaderType, Dispatching
<1> QED BY <1>1, <1>2, <1>3

(* The reader keeps its type. *)
LEMMA ReaderStep == ASSUME TypeOK, Next PROVE ReaderType'
<1> USE DEF TypeOK, ReaderType, Dispatching, Idle
<1>1. ASSUME NEW r \in Requests,
             Send(r) \/ NotConnected(r) \/ Request(r) \/ Arm(r) \/ SendCheck(r) \/ Write(r)
      PROVE  ReaderType'
  BY <1>1 DEF Send, NotConnected, Request, Arm, SendCheck, Write, SendOk, SendFails, Unsend
<1>2. ASSUME NEW r \in Requests, Consume(r) \/ CancelCtx(r) \/ Callback(r)
      PROVE  ReaderType'
  BY <1>2 DEF Consume, Receive, ChannelClosed, CtxAbort, CancelCtx, Callback, AfterTake,
              AfterCancel
<1>3. ASSUME NEW r \in Requests, NEW f \in Frames, ReadFrame(r, f) PROVE ReaderType'
  BY <1>3 DEF ReadFrame
<1>4. CASE Lock BY <1>4, ReaderMoves DEF Lock, Delivered
<1>5. CASE Deliver BY <1>5, ReaderMoves DEF Deliver, Put, Drop, Delivered
<1>6. CASE ReaderTake BY <1>6, ReaderMoves DEF ReaderTake
<1>7. CASE ReaderFinish \/ ReadFails \/ RunReturns
  <2>1. CASE reader' = Idle BY <2>1
  <2>2. CASE \E at \in {"cleaning", "off"} : reader' = [Idle EXCEPT !.at = at] BY <2>2
  <2> QED BY <1>7, <2>1, <2>2, Zenon DEF ReaderFinish, ReadFails, RunReturns
<1>8. CASE Stop \/ CleanupBegin \/ CleanupStep
  BY <1>8 DEF Stop, CleanupBegin, CleanupStep, CleanupRange, CleanupTake, CleanupCancel,
              CleanupConn, handleSessionClosed
<1> QED BY <1>1, <1>2, <1>3, <1>4, <1>5, <1>6, <1>7, <1>8 DEF Next

(* A channel that takes an error keeps to its capacity. *)
LEMMA WithErrorFits ==
    ASSUME NEW ch \in Seq(Frames), Len(ch) =< Capacity
    PROVE  WithError(ch) \in Seq(Frames) /\ Len(WithError(ch)) =< Capacity
  BY CapacityAssumption DEF WithError, Frames, Terminal

(* Whoever closes a request leaves a well-formed channel. *)
LEMMA ShutType ==
    ASSUME RequestType, NEW r \in Requests,
           close(r) \/ cancel(r) \/ cancelWithError(r)
    PROVE  RequestType'
<1>1. PICK ch \in Seq(Frames) : Len(ch) =< Capacity /\ Shut(r, ch)
  BY WithErrorFits DEF close, cancel, cancelWithError, RequestType
<1> QED BY <1>1 DEF Shut, RequestType

(* The pending requests keep their type. *)
LEMMA RequestStep == ASSUME TypeOK, Next PROVE RequestType'
<1> USE DEF TypeOK
<1>1. CASE UNCHANGED req BY <1>1 DEF RequestType
<1>2. ASSUME NEW r \in Requests, SendCheck(r) \/ Write(r) PROVE RequestType'
  BY <1>1, <1>2, ShutType DEF SendCheck, Write, SendOk, SendFails, Unsend
<1>3. ASSUME NEW r \in Requests, Receive(r) PROVE RequestType'
  <2>1. /\ req[r].ch \in Seq(Frames) /\ req[r].ch # <<>> /\ Len(req[r].ch) =< Capacity
        /\ req' = [req EXCEPT ![r].ch = Tail(@)]
    BY <1>3 DEF Receive, RequestType
  <2>2. Tail(req[r].ch) \in Seq(Frames) /\ Len(Tail(req[r].ch)) =< Capacity
    BY <2>1, CapacityAssumption
  <2> QED BY <2>1, <2>2 DEF RequestType
<1>4. ASSUME NEW r \in Requests, AfterCancel(r) PROVE RequestType'
  BY <1>4, ShutType DEF AfterCancel
<1>5. CASE Put
  <2> DEFINE r == reader.req
  <2>1. /\ r \in Requests /\ reader.frame \in Frames
        /\ req[r].ch \in Seq(Frames) /\ Len(req[r].ch) < Capacity
        /\ req' = [req EXCEPT ![r].ch = Append(@, reader.frame),
                              ![r].terminal = reader.frame \in Terminal]
    BY <1>5 DEF Put, RequestType, ReaderType, Dispatching
  <2>2. /\ Append(req[r].ch, reader.frame) \in Seq(Frames)
        /\ Len(Append(req[r].ch, reader.frame)) =< Capacity
    BY <2>1, CapacityAssumption
  <2>3. (reader.frame \in Terminal) \in BOOLEAN OBVIOUS
  <2> HIDE DEF r
  <2> QED BY <2>1, <2>2, <2>3 DEF RequestType
<1>6. CASE ReaderFinish
  BY <1>6, ShutType DEF ReaderFinish, ReaderType, Dispatching
<1>7. CASE CleanupCancel
  BY <1>7, ShutType DEF CleanupCancel, SessionType
<1>8. ASSUME NEW r \in Requests,
             \/ Send(r) \/ NotConnected(r) \/ Request(r) \/ Arm(r)
             \/ ChannelClosed(r) \/ CtxAbort(r) \/ CancelCtx(r) \/ AfterTake(r)
             \/ \E f \in Frames : ReadFrame(r, f)
      PROVE  RequestType'
  BY <1>1, <1>8 DEF Send, NotConnected, Request, Arm, ChannelClosed, CtxAbort, CancelCtx,
                    AfterTake, ReadFrame
<1>9. CASE Lock \/ Drop \/ ReaderTake \/ ReadFails \/ RunReturns
  BY <1>1, <1>9 DEF Lock, Drop, ReaderTake, ReadFails, RunReturns
<1>10. CASE Stop \/ CleanupBegin \/ CleanupRange \/ CleanupConn \/ handleSessionClosed
            \/ \E r \in Requests : CleanupTake(r)
  BY <1>1, <1>10 DEF Stop, CleanupBegin, CleanupRange, CleanupTake, CleanupConn,
                     handleSessionClosed
<1> QED BY <1>2, <1>3, <1>4, <1>5, <1>6, <1>7, <1>8, <1>9, <1>10
        DEF Next, Consume, Callback, Deliver, CleanupStep

(* Type correctness: among the rest, no channel ever exceeds its capacity, and   *)
(* the reader always knows which request it dispatches to.                       *)
THEOREM TypeCorrect == Spec => []TypeOK
<1>1. TypeOK /\ UNCHANGED vars => TypeOK'
  BY DEF TypeOK, SessionType, RequestType, CallerType, ReaderType, Dispatching,
         vars, sessionVars, callerVars, peerVars
<1>2. TypeOK /\ [Next]_vars => TypeOK'
  BY <1>1, SessionStep, CallerStep, ReaderStep, RequestStep DEF TypeOK
<1> QED BY InitType, <1>2, PTL DEF Spec

-----------------------------------------------------------------------------
(* The mutex: only its holder, or a goroutine that finds it free, closes. *)

(* Closing a request that the reader does not block on leaves the reader's alone. *)
LEMMA ShutElsewhere ==
    ASSUME TypeOK, NoSendOnClosed, NEW r \in Requests, MuFree(r),
           close(r) \/ cancel(r) \/ cancelWithError(r), UNCHANGED reader
    PROVE  NoSendOnClosed'
<1>1. PICK ch : Shut(r, ch) BY DEF close, cancel, cancelWithError
<1> SUFFICES ASSUME reader.at = "delivering" PROVE ~req'[reader.req].closed
  BY DEF NoSendOnClosed
<1>2. reader.req \in Requests /\ reader.req # r /\ ~req[reader.req].closed
  BY DEF TypeOK, ReaderType, Dispatching, MuFree, NoSendOnClosed
<1> QED BY <1>1, <1>2 DEF Shut, TypeOK, RequestType

(* A deliver that returns has given the mutex back. *)
LEMMA DeliveredReturns ==
    ASSUME ReaderType, NEW ok \in BOOLEAN, Delivered(ok)
    PROVE  reader'.at # "delivering"
  BY DEF Delivered, ReaderType, Idle

(* No step closes a channel that the reader sends on. *)
LEMMA MutexStep == ASSUME TypeOK, NoSendOnClosed, Next PROVE NoSendOnClosed'
<1>1. CASE UNCHANGED <<req, reader>> BY <1>1 DEF NoSendOnClosed
<1>2. ASSUME reader'.at # "delivering" PROVE NoSendOnClosed' BY <1>2 DEF NoSendOnClosed
<1>3. ASSUME NEW r \in Requests, SendCheck(r) \/ Write(r) PROVE NoSendOnClosed'
  BY <1>1, <1>3, ShutElsewhere DEF SendCheck, Write, SendOk, SendFails, Unsend
<1>4. ASSUME NEW r \in Requests, Receive(r) PROVE NoSendOnClosed'
  BY <1>4 DEF Receive, NoSendOnClosed, TypeOK, RequestType, ReaderType, Dispatching
<1>5. ASSUME NEW r \in Requests, AfterCancel(r) PROVE NoSendOnClosed'
  BY <1>5, ShutElsewhere DEF AfterCancel
<1>6. CASE Lock
  <2>1. CASE req[reader.req].closed \/ req[reader.req].terminal
    BY <1>2, <1>6, <2>1, DeliveredReturns DEF Lock, TypeOK
  <2>2. CASE ~(req[reader.req].closed \/ req[reader.req].terminal)
    <3>1. reader' = [reader EXCEPT !.at = "delivering"] /\ UNCHANGED req
      BY <1>6, <2>2 DEF Lock
    <3>2. reader'.req = reader.req BY <3>1 DEF TypeOK, ReaderType
    <3> QED BY <2>2, <3>1, <3>2 DEF NoSendOnClosed
  <2> QED BY <2>1, <2>2
<1>7. CASE Deliver \/ ReaderTake \/ ReaderFinish \/ ReadFails \/ RunReturns
  <2>1. CASE Deliver
    BY <1>2, <2>1, DeliveredReturns DEF Deliver, Put, Drop, TypeOK
  <2>2. CASE ReaderTake
    BY <1>2, <2>2 DEF ReaderTake, Idle, TypeOK, ReaderType
  <2>3. CASE ReaderFinish \/ ReadFails \/ RunReturns
    <3>1. CASE reader' = Idle BY <1>2, <3>1 DEF Idle
    <3>2. CASE \E at \in {"cleaning", "off"} : reader' = [Idle EXCEPT !.at = at]
      BY <1>2, <3>2 DEF Idle
    <3> QED BY <2>3, <3>1, <3>2, Zenon DEF ReaderFinish, ReadFails, RunReturns
  <2> QED BY <1>7, <2>1, <2>2, <2>3
<1>8. CASE CleanupCancel
  BY <1>8, ShutElsewhere DEF CleanupCancel, TypeOK, SessionType
<1>9. ASSUME NEW r \in Requests, NEW f \in Frames, ReadFrame(r, f) PROVE NoSendOnClosed'
  BY <1>2, <1>9 DEF ReadFrame, Idle
<1>10. ASSUME NEW r \in Requests,
              \/ Send(r) \/ NotConnected(r) \/ Request(r) \/ Arm(r)
              \/ ChannelClosed(r) \/ CtxAbort(r) \/ CancelCtx(r) \/ AfterTake(r)
       PROVE  NoSendOnClosed'
  BY <1>1, <1>10 DEF Send, NotConnected, Request, Arm, ChannelClosed, CtxAbort, CancelCtx,
                     AfterTake
<1>11. CASE Stop \/ CleanupBegin \/ CleanupRange \/ CleanupConn \/ handleSessionClosed
            \/ \E r \in Requests : CleanupTake(r)
  BY <1>1, <1>11 DEF Stop, CleanupBegin, CleanupRange, CleanupTake, CleanupConn,
                     handleSessionClosed
<1> QED BY <1>3, <1>4, <1>5, <1>6, <1>7, <1>8, <1>9, <1>10, <1>11
        DEF Next, Consume, Callback, CleanupStep

(* deliver never meets a closed channel, for any number of requests: a goroutine  *)
(* that cancels, closes or cleans up waits for the mutex the reader blocks with.   *)
THEOREM MutexCorrect == Spec => []NoSendOnClosed
<1>1. Init => NoSendOnClosed BY DEF Init, NoSendOnClosed, Idle
<1>2. NoSendOnClosed /\ UNCHANGED vars => NoSendOnClosed' BY DEF NoSendOnClosed, vars
<1>3. TypeOK /\ NoSendOnClosed /\ [Next]_vars => NoSendOnClosed' BY <1>2, MutexStep
<1> QED BY <1>1, <1>3, TypeCorrect, PTL DEF Spec

-----------------------------------------------------------------------------
(* The table of pending requests after cleanup. *)

(* A caller that has stored its request and has not yet passed the check in send. *)
BeforeCheck(r) == caller[r] \in {"stored", "armed"}

(* While Range runs, a request past the check is one it has still to visit: it was *)
(* stored before the session closed.  Afterwards there is none.                    *)
RangeInv ==
    /\ cleanup = "ranging" => \A r \in pending : BeforeCheck(r) \/ r \in unvisited
    /\ cleanup \in {"unlisting", "done"} => \A r \in pending : BeforeCheck(r)

(* Every step leaves what cleanup has still to visit among the unvisited. *)
LEMMA RangeStep == ASSUME TypeOK, RangeInv, Next PROVE RangeInv'
<1> USE DEF RangeInv, BeforeCheck, TypeOK, SessionType, CallerType
<1>1. ASSUME NEW r \in Requests, Send(r) \/ NotConnected(r) \/ Request(r) \/ Arm(r)
      PROVE  RangeInv'
  BY <1>1 DEF Send, NotConnected, Request, Arm, Return, sessionVars
<1>2. ASSUME NEW r \in Requests, Unsend(r) PROVE RangeInv'
  BY <1>2 DEF Unsend, Return, sessionVars
<1>3. ASSUME NEW r \in Requests, SendCheck(r) PROVE RangeInv'
  BY <1>2, <1>3 DEF SendCheck, SendRefused, closed, sessionVars
<1>4. ASSUME NEW r \in Requests, Write(r) PROVE RangeInv'
  BY <1>2, <1>4 DEF Write, SendOk, SendFails, sessionVars
<1>5. ASSUME NEW r \in Requests, Consume(r) PROVE RangeInv'
  BY <1>5 DEF Consume, Receive, ChannelClosed, CtxAbort, Return, sessionVars
<1>6. ASSUME NEW r \in Requests,
             CancelCtx(r) \/ Callback(r) \/ \E f \in Frames : ReadFrame(r, f)
      PROVE  RangeInv'
  BY <1>6 DEF CancelCtx, Callback, AfterTake, AfterCancel, ReadFrame, sessionVars, callerVars
<1>7. CASE Lock \/ Deliver \/ ReaderTake \/ ReaderFinish \/ ReadFails \/ RunReturns
  BY <1>7 DEF Lock, Deliver, Put, Drop, ReaderTake, ReaderFinish, ReadFails, RunReturns,
              sessionVars, callerVars
<1>8. CASE Stop \/ CleanupBegin \/ CleanupRange \/ CleanupCancel
  BY <1>8 DEF Stop, CleanupBegin, CleanupRange, CleanupCancel, callerVars
<1>9. ASSUME NEW r \in Requests, CleanupTake(r) PROVE RangeInv'
  BY <1>9 DEF CleanupTake, callerVars
<1>10. CASE CleanupConn \/ handleSessionClosed
  BY <1>10 DEF CleanupConn, handleSessionClosed, callerVars
<1> QED BY <1>1, <1>3, <1>4, <1>5, <1>6, <1>7, <1>8, <1>9, <1>10 DEF Next, CleanupStep

(* When cleanup is done no request waits in the table for an answer that cannot    *)
(* come, however many callers stored theirs while Range was running.               *)
THEOREM CleanupCorrect == Spec => []NoStranded
<1>1. Init => RangeInv BY DEF Init, RangeInv
<1>2. RangeInv /\ UNCHANGED vars => RangeInv'
  BY DEF RangeInv, BeforeCheck, vars, sessionVars, callerVars
<1>3. TypeOK /\ RangeInv /\ [Next]_vars => RangeInv' BY <1>2, RangeStep
<1>4. RangeInv => NoStranded BY DEF RangeInv, BeforeCheck, NoStranded
<1> QED BY <1>1, <1>3, <1>4, TypeCorrect, PTL DEF Spec

-----------------------------------------------------------------------------
(* The frame that ends an answer. *)

(* An open channel without a terminal frame holds only chunks. *)
OnlyChunks ==
    \A r \in Requests : ~req[r].closed /\ ~req[r].terminal =>
        \A i \in 1..Len(req[r].ch) : req[r].ch[i] = "chunk"

(* The provider answers what was written to it, and the reader and the channel *)
(* hold the frame it ended the answer with.                                    *)
PeerInv ==
    /\ \A r \in Requests : peer[r] # None => caller[r] \in {"waiting", "done"}
    /\ \A r \in Requests : req[r].terminal => peer[r] \in Terminal
    /\ Dispatching => peer[reader.req] # None
    /\ Dispatching /\ reader.frame \in Terminal => peer[reader.req] = reader.frame

(* While the reader blocks, nobody else ends the answer. *)
NotEnded == reader.at = "delivering" => ~req[reader.req].terminal

AnswerInv == OnlyChunks /\ PeerInv /\ NotEnded /\ NoSendOnClosed /\ AnswerStays

(* How a step of somebody else may change a request: it closes it, adding an error *)
(* to an answer that has not ended, and changes nothing else the answer depends on. *)
OnlyShuts ==
    /\ UNCHANGED peer
    /\ \A q \in Requests : caller'[q] = caller[q] \/ caller'[q] = "done"
    /\ \A q \in Requests :
          /\ req'[q].terminal = req[q].terminal
          /\ req[q].closed => req'[q].closed
          /\ req[q].terminal \/ ~req'[q].closed => req'[q].ch = req[q].ch

(* Closing requests so keeps the answers in order. *)
LEMMA ShutsKeepAnswers ==
    ASSUME TypeOK, AnswerInv, NoSendOnClosed', OnlyShuts,
           UNCHANGED reader \/ ~Dispatching'
    PROVE  AnswerInv'
<1> USE DEF AnswerInv, OnlyShuts
<1>1. OnlyChunks' BY DEF OnlyChunks
<1>2. PeerInv' BY DEF PeerInv, Dispatching, TypeOK, ReaderType
<1>3. NotEnded' BY DEF NotEnded, Dispatching, TypeOK, ReaderType
<1>4. AnswerStays'
  <2> SUFFICES ASSUME NEW r \in Requests, req'[r].terminal, caller'[r] = "waiting"
               PROVE  /\ req'[r].ch # <<>>
                      /\ req'[r].ch[Len(req'[r].ch)] = peer'[r]
                      /\ \A i \in 1..(Len(req'[r].ch) - 1) : req'[r].ch[i] = "chunk"
    BY DEF AnswerStays
  <2>1. req[r].terminal /\ caller[r] = "waiting" /\ req'[r].ch = req[r].ch OBVIOUS
  <2> QED BY <2>1 DEF AnswerStays
<1> QED BY <1>1, <1>2, <1>3, <1>4

(* The three ways to close a request are of that kind. *)
LEMMA ShutIsShut ==
    ASSUME TypeOK, NEW r \in Requests, close(r) \/ cancel(r) \/ cancelWithError(r)
    PROVE  \A q \in Requests :
             /\ req'[q].terminal = req[q].terminal
             /\ req[q].closed => req'[q].closed
             /\ req[q].terminal \/ ~req'[q].closed => req'[q].ch = req[q].ch
<1>1. PICK ch : Shut(r, ch) /\ (req[r].terminal => ch = req[r].ch)
  BY DEF close, cancel, cancelWithError, ErrorAllowed
<1> QED BY <1>1 DEF Shut, TypeOK, RequestType

(* A caller on its way to the write, and the write itself, meet no answer yet. *)
LEMMA CallersKeepAnswers ==
    ASSUME TypeOK, AnswerInv, NoSendOnClosed', NEW r \in Requests,
           caller[r] \in {"idle", "found", "stored", "armed", "sending"},
           \A q \in Requests \ {r} : caller'[q] = caller[q], req' = req, reader' = reader,
           \/ peer' = peer
           \/ caller'[r] = "waiting" /\ peer' = [peer EXCEPT ![r] = "serving"]
    PROVE  AnswerInv'
<1>1. peer[r] = None /\ ~req[r].terminal
  BY DEF AnswerInv, PeerInv, Terminal, None
<1>2. OnlyChunks' /\ NotEnded' BY DEF AnswerInv, OnlyChunks, NotEnded
<1>3. PeerInv'
  BY <1>1 DEF AnswerInv, PeerInv, Dispatching, TypeOK, CallerType, ReaderType
<1>4. AnswerStays'
  BY <1>1, SMTT(40) DEF AnswerInv, AnswerStays, TypeOK, CallerType
<1> QED BY <1>2, <1>3, <1>4 DEF AnswerInv

(* The reader's steps outside deliver touch no request. *)
LEMMA ReaderKeepsAnswers ==
    ASSUME TypeOK, AnswerInv, NoSendOnClosed', UNCHANGED <<req, caller, peer>>,
           reader'.at = "delivering" => ~req[reader'.req].terminal,
           Dispatching' => /\ Dispatching
                           /\ reader'.req = reader.req /\ reader'.frame = reader.frame
    PROVE  AnswerInv'
<1>1. OnlyChunks' /\ AnswerStays' BY DEF AnswerInv, OnlyChunks, AnswerStays
<1>2. NotEnded' BY DEF NotEnded
<1>3. PeerInv' BY DEF AnswerInv, PeerInv
<1> QED BY <1>1, <1>2, <1>3 DEF AnswerInv

(* What Append does to a sequence. *)
LEMMA Appended ==
    ASSUME NEW S, NEW s \in Seq(S), NEW e \in S
    PROVE  /\ Append(s, e) \in Seq(S) /\ Len(s) \in Nat
           /\ Len(Append(s, e)) = Len(s) + 1 /\ Append(s, e)[Len(s) + 1] = e
           /\ \A i \in 1..Len(s) : Append(s, e)[i] = s[i]
  OBVIOUS

(* A sequence with elements is not the empty one. *)
LEMMA Inhabited == ASSUME NEW S, NEW s \in Seq(S), Len(s) > 0 PROVE s # <<>>
  OBVIOUS

(* The frame that the reader appends is a chunk, or the one that ends the answer. *)
LEMMA PutStep == ASSUME TypeOK, AnswerInv, NoSendOnClosed', Put PROVE AnswerInv'
<1> DEFINE r == reader.req
           f == reader.frame
           ch == req[r].ch
<1>1. /\ r \in Requests /\ f \in Frames /\ ch \in Seq(Frames) /\ Dispatching
      /\ ~req[r].terminal /\ ~req[r].closed
      /\ UNCHANGED <<caller, peer>>
      /\ req' = [req EXCEPT ![r].ch = Append(@, f), ![r].terminal = f \in Terminal]
  BY DEF Put, AnswerInv, NotEnded, NoSendOnClosed, TypeOK, ReaderType, RequestType,
         Dispatching, callerVars, peerVars
<1>2. \A i \in 1..Len(ch) : ch[i] = "chunk"
  BY <1>1 DEF AnswerInv, OnlyChunks
<1>3. /\ req'[r].ch = Append(ch, f) /\ req'[r].terminal = (f \in Terminal)
      /\ req'[r].closed = req[r].closed
      /\ \A q \in Requests \ {r} : req'[q] = req[q]
  BY <1>1 DEF TypeOK, RequestType
<1>4. f \in Terminal => peer[r] = f
  BY <1>1 DEF AnswerInv, PeerInv
<1>5. /\ Len(Append(ch, f)) = Len(ch) + 1 /\ Append(ch, f)[Len(ch) + 1] = f
      /\ \A i \in 1..Len(ch) : Append(ch, f)[i] = "chunk"
      /\ Append(ch, f) # <<>> /\ Len(ch) \in Nat
  <2> HIDE DEF ch, f
  <2>1. /\ Append(ch, f) \in Seq(Frames) /\ Len(ch) \in Nat
        /\ Len(Append(ch, f)) = Len(ch) + 1 /\ Append(ch, f)[Len(ch) + 1] = f
        /\ \A i \in 1..Len(ch) : Append(ch, f)[i] = ch[i]
    BY <1>1, Appended
  <2>2. Append(ch, f) # <<>> BY <2>1, Inhabited
  <2> QED BY <1>2, <2>1, <2>2
<1>6. reader' = Idle \/ (f \in Terminal /\ reader' = [reader EXCEPT !.at = "taking", !.ok = TRUE])
  BY DEF Put, Delivered
<1>7. reader'.at # "delivering"
      /\ (Dispatching' => f \in Terminal /\ reader'.req = r /\ reader'.frame = f)
  <2>1. CASE reader' = Idle BY <2>1 DEF Dispatching, Idle
  <2>2. CASE f \in Terminal /\ reader' = [reader EXCEPT !.at = "taking", !.ok = TRUE]
    <3>1. /\ reader'.at = "taking" /\ reader'.req = reader.req
          /\ reader'.frame = reader.frame
      BY <2>2 DEF TypeOK, ReaderType
    <3> QED BY <2>2, <3>1
  <2> QED BY <1>6, <2>1, <2>2
<1> HIDE DEF r, f, ch
<1>8. OnlyChunks'
  <2> SUFFICES ASSUME NEW q \in Requests, ~req'[q].closed, ~req'[q].terminal,
                      NEW i \in 1..Len(req'[q].ch)
               PROVE  req'[q].ch[i] = "chunk"
    BY DEF OnlyChunks
  <2>1. CASE q = r
    <3>1. f = "chunk" BY <1>1, <1>3, <2>1 DEF Frames
    <3> QED BY <1>3, <1>5, <2>1, <3>1
  <2>2. CASE q # r BY <1>3, <2>2 DEF AnswerInv, OnlyChunks
  <2> QED BY <2>1, <2>2
<1>9. PeerInv'
  <2>1. \A q \in Requests : req'[q].terminal => peer[q] \in Terminal
    BY <1>3, <1>4 DEF AnswerInv, PeerInv
  <2>2. Dispatching' => peer[reader'.req] # None /\ peer[reader'.req] = reader'.frame
    BY <1>4, <1>7 DEF Terminal, None
  <2> QED BY <1>1, <2>1, <2>2 DEF AnswerInv, PeerInv
<1>10. NotEnded' BY <1>7 DEF NotEnded
<1>11. AnswerStays'
  <2> SUFFICES ASSUME NEW q \in Requests, req'[q].terminal, caller'[q] = "waiting"
               PROVE  /\ req'[q].ch # <<>>
                      /\ req'[q].ch[Len(req'[q].ch)] = peer'[q]
                      /\ \A i \in 1..(Len(req'[q].ch) - 1) : req'[q].ch[i] = "chunk"
    BY DEF AnswerStays
  <2>1. CASE q = r
    <3>1. req'[q].ch = Append(ch, f) /\ peer'[q] = f BY <1>1, <1>3, <1>4, <2>1
    <3>2. Len(Append(ch, f)) - 1 = Len(ch) BY <1>5
    <3> QED BY <1>5, <3>1, <3>2
  <2>2. CASE q # r
    <3>1. req'[q] = req[q] /\ caller[q] = "waiting" /\ peer'[q] = peer[q]
      BY <1>1, <1>3, <2>2
    <3> QED BY <3>1 DEF AnswerInv, AnswerStays
  <2> QED BY <2>1, <2>2
<1> QED BY <1>8, <1>9, <1>10, <1>11 DEF AnswerInv

(* A caller that goes on reading has taken a chunk, and the end is still there. *)
LEMMA ReceiveStep ==
    ASSUME TypeOK, AnswerInv, NoSendOnClosed', NEW r \in Requests, Receive(r)
    PROVE  AnswerInv'
<1> DEFINE ch == req[r].ch
<1>1. /\ ch \in Seq(Frames) /\ ch # <<>>
      /\ UNCHANGED <<reader, peer>>
      /\ req' = [req EXCEPT ![r].ch = Tail(@)]
  BY DEF Receive, TypeOK, RequestType, peerVars
<1>2. /\ req'[r].ch = Tail(ch) /\ req'[r].terminal = req[r].terminal
      /\ req'[r].closed = req[r].closed
      /\ \A q \in Requests \ {r} : req'[q] = req[q]
  BY <1>1 DEF TypeOK, RequestType
<1>3. /\ Len(Tail(ch)) = Len(ch) - 1 /\ Len(ch) \in Nat \ {0}
      /\ \A i \in 1..(Len(ch) - 1) : Tail(ch)[i] = ch[i + 1]
  BY <1>1
<1>4. \/ Head(ch) = "chunk" /\ UNCHANGED caller
      \/ caller' = [caller EXCEPT ![r] = "done"]
  BY DEF Receive, Return
<1>5. caller[r] = "waiting" BY DEF Receive
<1>6. Head(ch) = ch[1] /\ Tail(ch) \in Seq(Frames) BY <1>1
<1> HIDE DEF ch
<1>7. OnlyChunks'
  <2> SUFFICES ASSUME NEW q \in Requests, ~req'[q].closed, ~req'[q].terminal,
                      NEW i \in 1..Len(req'[q].ch)
               PROVE  req'[q].ch[i] = "chunk"
    BY DEF OnlyChunks
  <2>1. CASE q = r
    <3>1. \A j \in 1..Len(ch) : ch[j] = "chunk"
      BY <1>2, <2>1 DEF AnswerInv, OnlyChunks, ch
    <3>2. i \in 1..(Len(ch) - 1) /\ i + 1 \in 1..Len(ch) BY <1>2, <1>3, <2>1
    <3> QED BY <1>2, <1>3, <2>1, <3>1, <3>2
  <2>2. CASE q # r BY <1>2, <2>2 DEF AnswerInv, OnlyChunks
  <2> QED BY <2>1, <2>2
<1>8. PeerInv'
  BY <1>1, <1>2, <1>4, <1>5, ZenonT(60) DEF AnswerInv, PeerInv, Dispatching, TypeOK, CallerType, ReaderType
<1>9. NotEnded'
  BY <1>1, <1>2 DEF AnswerInv, NotEnded, TypeOK, ReaderType, Dispatching
<1>10. AnswerStays'
  <2> SUFFICES ASSUME NEW q \in Requests, req'[q].terminal, caller'[q] = "waiting"
               PROVE  /\ req'[q].ch # <<>>
                      /\ req'[q].ch[Len(req'[q].ch)] = peer'[q]
                      /\ \A i \in 1..(Len(req'[q].ch) - 1) : req'[q].ch[i] = "chunk"
    BY DEF AnswerStays
  <2>1. CASE q = r
    <3>1. Head(ch) = "chunk" BY <1>4, <2>1 DEF TypeOK, CallerType
    <3>2. /\ ch[Len(ch)] = peer[r] /\ peer[r] # "chunk"
          /\ \A i \in 1..(Len(ch) - 1) : ch[i] = "chunk"
      BY <1>2, <1>5, <2>1 DEF AnswerInv, AnswerStays, PeerInv, Terminal, ch
    <3>3. Len(ch) > 1 BY <1>3, <1>6, <3>1, <3>2
    <3>4. Tail(ch)[Len(Tail(ch))] = peer[r] BY <1>3, <3>2, <3>3
    <3>5. \A i \in 1..(Len(Tail(ch)) - 1) : Tail(ch)[i] = "chunk" BY <1>3, <3>2, <3>3
    <3>6. Len(Tail(ch)) > 0 BY <1>3, <3>3
    <3>7. Tail(ch) # <<>> BY <1>6, <3>6, Inhabited
    <3> QED BY <1>1, <1>2, <2>1, <3>4, <3>5, <3>7, ZenonT(60)
  <2>2. CASE q # r
    <3>1. caller[q] = "waiting" BY <1>4, <2>2 DEF TypeOK, CallerType
    <3> QED BY <1>1, <1>2, <2>2, <3>1 DEF AnswerInv, AnswerStays
  <2> QED BY <2>1, <2>2
<1> QED BY <1>7, <1>8, <1>9, <1>10 DEF AnswerInv

(* A deliver that returns leaves the reader idle or on its way to LoadAndDelete. *)
LEMMA DeliveredMoves ==
    ASSUME NEW ok \in BOOLEAN, Delivered(ok)
    PROVE  \/ reader' = Idle
           \/ \E at \in {"taking", "finishing"}, o \in BOOLEAN :
                 reader' = [reader EXCEPT !.at = at, !.ok = o]
  BY DEF Delivered

(* Every step keeps the answers in order. *)
LEMMA AnswerStep == ASSUME TypeOK, AnswerInv, Next PROVE AnswerInv'
<1>1. NoSendOnClosed' BY MutexStep DEF AnswerInv
<1>2. ASSUME NEW r \in Requests, Send(r) \/ Request(r) \/ Arm(r) \/ SendOk(r)
      PROVE  AnswerInv'
  <2>1. /\ caller[r] \in {"idle", "found", "stored", "armed", "sending"}
        /\ \A q \in Requests \ {r} : caller'[q] = caller[q]
        /\ req' = req /\ reader' = reader
    BY <1>2 DEF Send, Request, Arm, SendOk, TypeOK, CallerType
  <2>2. \/ peer' = peer
        \/ caller'[r] = "waiting" /\ peer' = [peer EXCEPT ![r] = "serving"]
    BY <1>2 DEF Send, Request, Arm, SendOk, peerVars, TypeOK, CallerType
  <2> QED BY <1>1, <2>1, <2>2, CallersKeepAnswers
<1>3. ASSUME NEW r \in Requests, Unsend(r) PROVE AnswerInv'
  <2>1. \A q \in Requests : /\ req'[q].terminal = req[q].terminal
                            /\ req[q].closed => req'[q].closed
                            /\ req[q].terminal \/ ~req'[q].closed => req'[q].ch = req[q].ch
    BY <1>3, ShutIsShut DEF Unsend
  <2>2. OnlyShuts
    BY <1>3, <2>1 DEF OnlyShuts, Unsend, Return, peerVars, TypeOK, CallerType
  <2> QED BY <1>1, <1>3, <2>2, ShutsKeepAnswers DEF Unsend
<1>4. ASSUME NEW r \in Requests, SendCheck(r) PROVE AnswerInv'
  <2>1. CASE SendRefused(r) BY <1>3, <1>4, <2>1 DEF SendCheck
  <2>2. CASE ~SendRefused(r)
    BY <1>1, <1>4, <2>2, CallersKeepAnswers DEF SendCheck, peerVars, TypeOK, CallerType
  <2> QED BY <2>1, <2>2
<1>5. ASSUME NEW r \in Requests, Write(r) PROVE AnswerInv'
  BY <1>2, <1>3, <1>5 DEF Write, SendFails
<1>6. ASSUME NEW r \in Requests, Receive(r) PROVE AnswerInv'
  BY <1>1, <1>6, ReceiveStep
<1>7. ASSUME OnlyShuts, UNCHANGED reader PROVE AnswerInv'
  BY <1>1, <1>7, ShutsKeepAnswers
<1>8. ASSUME NEW r \in Requests,
             \/ NotConnected(r) \/ ChannelClosed(r) \/ CtxAbort(r) \/ CancelCtx(r) \/ AfterTake(r)
      PROVE  AnswerInv'
  <2>1. /\ UNCHANGED <<req, reader, peer>>
        /\ UNCHANGED caller \/ caller' = [caller EXCEPT ![r] = "done"]
    BY <1>8 DEF NotConnected, ChannelClosed, CtxAbort, CancelCtx, AfterTake, Return,
                callerVars, peerVars
  <2>2. OnlyShuts BY <2>1 DEF OnlyShuts, TypeOK, CallerType
  <2> QED BY <1>7, <2>1, <2>2
<1>9. ASSUME NEW r \in Requests, AfterCancel(r) PROVE AnswerInv'
  <2>1. cancel(r) /\ UNCHANGED <<caller, peer, reader>>
    BY <1>9 DEF AfterCancel, callerVars, peerVars
  <2>2. OnlyShuts BY <2>1, ShutIsShut DEF OnlyShuts
  <2> QED BY <1>7, <2>1, <2>2
<1>10. CASE CleanupCancel
  <2>1. cancelWithError(victim) /\ victim \in Requests /\ UNCHANGED <<caller, peer, reader>>
    BY <1>10 DEF CleanupCancel, callerVars, peerVars, TypeOK, SessionType
  <2>2. OnlyShuts BY <2>1, ShutIsShut DEF OnlyShuts
  <2> QED BY <1>7, <2>1, <2>2
<1>11. CASE ReaderFinish
  <2>1. /\ reader.req \in Requests /\ reader' = Idle /\ UNCHANGED <<caller, peer>>
        /\ close(reader.req) \/ cancel(reader.req) \/ cancelWithError(reader.req)
    BY <1>11 DEF ReaderFinish, callerVars, peerVars, TypeOK, ReaderType, Dispatching
  <2>2. OnlyShuts BY <2>1, ShutIsShut DEF OnlyShuts
  <2>3. ~Dispatching' BY <2>1 DEF Dispatching, Idle
  <2> QED BY <1>1, <2>2, <2>3, ShutsKeepAnswers
<1>12. ASSUME NEW r \in Requests, NEW f \in Frames, ReadFrame(r, f) PROVE AnswerInv'
  <2>1. /\ peer[r] = "serving" /\ UNCHANGED <<req, caller>>
        /\ \/ UNCHANGED peer /\ f = "chunk"
           \/ peer' = [peer EXCEPT ![r] = f] /\ f \in Terminal
        /\ \/ reader' = Idle
           \/ reader' = [at |-> "locking", req |-> r, frame |-> f, ok |-> FALSE]
    <3>1. f = "chunk" => UNCHANGED peer BY <1>12 DEF ReadFrame
    <3>2. f # "chunk" => f \in Terminal /\ peer' = [peer EXCEPT ![r] = f]
      BY <1>12 DEF ReadFrame, Frames
    <3>3. /\ peer[r] = "serving" /\ UNCHANGED <<req, caller>>
          /\ \/ reader' = Idle
             \/ reader' = [at |-> "locking", req |-> r, frame |-> f, ok |-> FALSE]
      BY <1>12 DEF ReadFrame, callerVars
    <3> QED BY <3>1, <3>2, <3>3
  <2>2. ~req[r].terminal BY <2>1 DEF AnswerInv, PeerInv, Terminal
  <2>3. OnlyChunks' /\ AnswerStays'
    BY <2>1, <2>2 DEF AnswerInv, OnlyChunks, AnswerStays, TypeOK, CallerType
  <2>4. reader'.at # "delivering" /\ (Dispatching' => reader'.req = r /\ reader'.frame = f)
    BY <2>1 DEF Idle, Dispatching
  <2>5. NotEnded' BY <2>4 DEF NotEnded
  <2>6. peer'[r] # None /\ (f \in Terminal => peer'[r] = f)
    <3>1. peer \in [Requests -> {None, "serving"} \cup Terminal] BY DEF TypeOK, CallerType
    <3>2. CASE UNCHANGED peer /\ f = "chunk" BY <2>1, <3>2 DEF Terminal, None
    <3>3. CASE peer' = [peer EXCEPT ![r] = f] /\ f \in Terminal
      BY <3>1, <3>3 DEF Terminal, None
    <3> QED BY <2>1, <3>2, <3>3
  <2>7. PeerInv'
    <3>1. \A q \in Requests \ {r} : peer'[q] = peer[q] BY <2>1 DEF TypeOK, CallerType
    <3>2. \A q \in Requests : peer'[q] # None => caller'[q] \in {"waiting", "done"}
      BY <2>1, <3>1 DEF AnswerInv, PeerInv, None
    <3>3. \A q \in Requests : req'[q].terminal => peer'[q] \in Terminal
      BY <2>1, <2>2, <3>1 DEF AnswerInv, PeerInv
    <3>4. Dispatching' => /\ peer'[reader'.req] # None
                          /\ reader'.frame \in Terminal => peer'[reader'.req] = reader'.frame
      BY <2>4, <2>6
    <3> QED BY <3>2, <3>3, <3>4 DEF PeerInv
  <2> QED BY <1>1, <2>3, <2>5, <2>7 DEF AnswerInv
<1>13. CASE Lock \/ Drop \/ ReaderTake \/ ReadFails \/ RunReturns
  <2>1. UNCHANGED <<req, caller, peer>>
    BY <1>13 DEF Lock, Drop, ReaderTake, ReadFails, RunReturns, callerVars, peerVars
  <2>2. \/ reader' = Idle
        \/ \E at \in {"cleaning", "off"} : reader' = [Idle EXCEPT !.at = at]
        \/ Dispatching /\ \E at \in {"taking", "finishing"}, ok \in BOOLEAN :
                             reader' = [reader EXCEPT !.at = at, !.ok = ok]
        \/ /\ Dispatching /\ ~req[reader.req].terminal
           /\ reader' = [reader EXCEPT !.at = "delivering"]
        \/ Dispatching /\ reader' = [reader EXCEPT !.at = "finishing"]
    <3>1. CASE Lock BY <3>1, DeliveredMoves DEF Lock, Dispatching
    <3>2. CASE Drop BY <3>2, DeliveredMoves DEF Drop, Dispatching
    <3>3. CASE ReaderTake BY <3>3 DEF ReaderTake, Dispatching
    <3>4. CASE ReadFails \/ RunReturns BY <3>4 DEF ReadFails, RunReturns
    <3> QED BY <1>13, <3>1, <3>2, <3>3, <3>4
  <2>3. /\ reader'.at = "delivering" => ~req[reader'.req].terminal
        /\ Dispatching' => /\ Dispatching
                           /\ reader'.req = reader.req /\ reader'.frame = reader.frame
    <3>1. CASE reader' = Idle BY <3>1 DEF Dispatching, Idle
    <3>2. CASE \E at \in {"cleaning", "off"} : reader' = [Idle EXCEPT !.at = at]
      BY <3>2 DEF Dispatching, Idle
    <3>3. ASSUME Dispatching, NEW at \in {"taking", "finishing"}, NEW ok \in BOOLEAN,
                 reader' = [reader EXCEPT !.at = at, !.ok = ok]
          PROVE  reader'.at = at /\ reader'.req = reader.req /\ reader'.frame = reader.frame
      BY <3>3 DEF TypeOK, ReaderType
    <3>4. ASSUME Dispatching, NEW at \in {"delivering", "finishing"},
                 reader' = [reader EXCEPT !.at = at]
          PROVE  reader'.at = at /\ reader'.req = reader.req /\ reader'.frame = reader.frame
      BY <3>4 DEF TypeOK, ReaderType
    <3> QED BY <2>2, <3>1, <3>2, <3>3, <3>4
  <2> QED BY <1>1, <2>1, <2>3, ReaderKeepsAnswers
<1>14. CASE Put BY <1>1, <1>14, PutStep
<1>15. CASE Stop \/ CleanupBegin \/ CleanupRange \/ CleanupConn \/ handleSessionClosed
            \/ \E r \in Requests : CleanupTake(r)
  <2>1. UNCHANGED <<req, caller, peer, reader>>
    BY <1>15 DEF Stop, CleanupBegin, CleanupRange, CleanupTake, CleanupConn,
                 handleSessionClosed, callerVars, peerVars
  <2>2. OnlyShuts BY <2>1 DEF OnlyShuts
  <2> QED BY <1>7, <2>1, <2>2
<1> QED BY <1>2, <1>4, <1>5, <1>6, <1>8, <1>9, <1>10, <1>11, <1>12, <1>13, <1>14, <1>15
        DEF Next, Consume, Callback, Deliver, CleanupStep

(* A caller finds the end of its answer as the provider sent it, last in the channel, *)
(* for any capacity and whatever closes the request once the end was delivered.       *)
THEOREM AnswerCorrect == Spec => []AnswerStays
<1>1. Init => AnswerInv
  BY DEF Init, AnswerInv, OnlyChunks, PeerInv, NotEnded, NoSendOnClosed, AnswerStays,
         Dispatching, Idle
<1>2. AnswerInv /\ UNCHANGED vars => AnswerInv'
  BY DEF AnswerInv, OnlyChunks, PeerInv, NotEnded, NoSendOnClosed, AnswerStays, Dispatching,
         vars, callerVars, peerVars
<1>3. TypeOK /\ AnswerInv /\ [Next]_vars => AnswerInv' BY <1>2, AnswerStep
<1>4. AnswerInv => AnswerStays BY DEF AnswerInv
<1> QED BY <1>1, <1>3, <1>4, TypeCorrect, PTL DEF Spec

-----------------------------------------------------------------------------
(* What a caller is told: how a channel is closed, and what it held before. *)

(* Nothing that ends is undone: a closed session, a cancelled context, a caller that *)
(* returned, a closed request and an answer that has ended.                          *)
Forward ==
    /\ closed => closed'
    /\ \A r \in Requests :
          /\ ctx[r] = "cancelled" => ctx'[r] = "cancelled"
          /\ caller[r] = "done" => caller'[r] = "done"
          /\ req[r].closed => req'[r].closed
          /\ req[r].terminal => req'[r].terminal
          /\ after'[r] = "taken" => after[r] = "taken" \/ ctx[r] = "cancelled"

(* Every step goes forward. *)
LEMMA ForwardStep == ASSUME TypeOK, AnswerInv, Next PROVE Forward
<1> USE DEF TypeOK
<1>1. closed => closed'
  <2>1. ASSUME NEW r \in Requests,
               \/ Send(r) \/ NotConnected(r) \/ Request(r) \/ Arm(r) \/ SendCheck(r) \/ Write(r)
               \/ Consume(r) \/ CancelCtx(r) \/ Callback(r) \/ \E f \in Frames : ReadFrame(r, f)
        PROVE  UNCHANGED cleanup
    BY <2>1 DEF Send, NotConnected, Request, Arm, SendCheck, Write, SendOk, SendFails, Unsend,
                Consume, Receive, ChannelClosed, CtxAbort, CancelCtx, Callback, AfterTake,
                AfterCancel, ReadFrame, sessionVars
  <2>2. ASSUME Lock \/ Deliver \/ ReaderTake \/ ReaderFinish \/ ReadFails \/ RunReturns \/ Stop
        PROVE  UNCHANGED cleanup
    BY <2>2 DEF Lock, Deliver, Put, Drop, ReaderTake, ReaderFinish, ReadFails, RunReturns, Stop,
                sessionVars
  <2>3. CASE CleanupBegin \/ CleanupStep
    BY <2>3 DEF CleanupBegin, CleanupStep, CleanupRange, CleanupTake, CleanupCancel,
                CleanupConn, handleSessionClosed, closed
  <2> QED BY <2>1, <2>2, <2>3 DEF Next, closed
<1>2. \A r \in Requests : /\ ctx[r] = "cancelled" => ctx'[r] = "cancelled"
                          /\ caller[r] = "done" => caller'[r] = "done"
  <2> USE DEF CallerType, callerVars
  <2>1. ASSUME NEW r \in Requests,
               \/ Send(r) \/ NotConnected(r) \/ Request(r) \/ Arm(r) \/ SendCheck(r) \/ Write(r)
        PROVE  UNCHANGED ctx /\ \E at : caller' = [caller EXCEPT ![r] = at] /\ caller[r] # "done"
    BY <2>1 DEF Send, NotConnected, Request, Arm, SendCheck, Write, SendOk, SendFails, Unsend,
                Return
  <2>2. ASSUME NEW r \in Requests, Consume(r)
        PROVE  UNCHANGED ctx /\ (UNCHANGED caller \/ caller' = [caller EXCEPT ![r] = "done"])
    BY <2>2 DEF Consume, Receive, ChannelClosed, CtxAbort, Return
  <2>3. ASSUME NEW r \in Requests,
               CancelCtx(r) \/ Callback(r) \/ \E f \in Frames : ReadFrame(r, f)
        PROVE  UNCHANGED caller /\ (UNCHANGED ctx \/ ctx' = [ctx EXCEPT ![r] = "cancelled"])
    BY <2>3 DEF CancelCtx, Callback, AfterTake, AfterCancel, ReadFrame
  <2>4. ASSUME \/ Lock \/ Deliver \/ ReaderTake \/ ReaderFinish \/ ReadFails \/ RunReturns
               \/ Stop \/ CleanupBegin \/ CleanupStep
        PROVE  UNCHANGED <<ctx, caller>>
    BY <2>4 DEF Lock, Deliver, Put, Drop, ReaderTake, ReaderFinish, ReadFails, RunReturns, Stop,
                CleanupBegin, CleanupStep, CleanupRange, CleanupTake, CleanupCancel, CleanupConn,
                handleSessionClosed
  <2> QED BY <2>1, <2>2, <2>3, <2>4 DEF Next
<1>3. \A r \in Requests : /\ req[r].closed => req'[r].closed
                          /\ req[r].terminal => req'[r].terminal
  <2> DEFINE Kept == \A r \in Requests : /\ req[r].closed => req'[r].closed
                                         /\ req[r].terminal => req'[r].terminal
  <2> SUFFICES Kept OBVIOUS
  <2>1. CASE UNCHANGED req BY <2>1
  <2>2. ASSUME NEW r \in Requests, close(r) \/ cancel(r) \/ cancelWithError(r) PROVE Kept
    BY <2>2, ShutIsShut
  <2>3. ASSUME NEW r \in Requests, SendCheck(r) \/ Write(r) \/ AfterCancel(r) PROVE Kept
    BY <2>1, <2>2, <2>3 DEF SendCheck, Write, SendOk, SendFails, Unsend, AfterCancel
  <2>4. ASSUME NEW r \in Requests, Receive(r) PROVE Kept
    BY <2>4 DEF Receive, RequestType
  <2>5. CASE ReaderFinish \/ CleanupCancel
    BY <2>2, <2>5 DEF ReaderFinish, CleanupCancel, ReaderType, Dispatching, SessionType
  <2>6. CASE Put
    BY <2>6 DEF Put, AnswerInv, NotEnded, RequestType
  <2>7. ASSUME NEW r \in Requests,
               \/ Send(r) \/ NotConnected(r) \/ Request(r) \/ Arm(r)
               \/ ChannelClosed(r) \/ CtxAbort(r) \/ CancelCtx(r) \/ AfterTake(r)
               \/ \E f \in Frames : ReadFrame(r, f)
        PROVE  Kept
    BY <2>1, <2>7 DEF Send, NotConnected, Request, Arm, ChannelClosed, CtxAbort, CancelCtx,
                      AfterTake, ReadFrame
  <2>8. CASE \/ Lock \/ Drop \/ ReaderTake \/ ReadFails \/ RunReturns
             \/ Stop \/ CleanupBegin \/ CleanupRange \/ CleanupConn \/ handleSessionClosed
             \/ \E r \in Requests : CleanupTake(r)
    BY <2>1, <2>8 DEF Lock, Drop, ReaderTake, ReadFails, RunReturns, Stop, CleanupBegin,
                      CleanupRange, CleanupTake, CleanupConn, handleSessionClosed
  <2> HIDE DEF Kept
  <2> QED BY <2>3, <2>4, <2>5, <2>6, <2>7, <2>8
          DEF Next, Consume, Callback, Deliver, CleanupStep
<1>4. \A r \in Requests : after'[r] = "taken" => after[r] = "taken" \/ ctx[r] = "cancelled"
  <2> USE DEF CallerType
  <2> DEFINE Kept == \A r \in Requests : after'[r] = "taken" => after[r] = "taken" \/ ctx[r] = "cancelled"
  <2> SUFFICES Kept OBVIOUS
  <2>1. CASE UNCHANGED after BY <2>1
  <2>2. ASSUME NEW r, StopCancel(r) PROVE Kept BY <2>2 DEF StopCancel
  <2>3. ASSUME NEW r \in Requests,
               \/ Send(r) \/ NotConnected(r) \/ Request(r) \/ Arm(r) \/ SendCheck(r) \/ Write(r)
        PROVE  Kept
    <3>1. UNCHANGED after \/ StopCancel(r) \/ after' = [after EXCEPT ![r] = "armed"]
      BY <2>3 DEF Send, NotConnected, Request, Arm, SendCheck, Write, SendOk, SendFails, Unsend
    <3> QED BY <2>1, <2>2, <3>1
  <2>4. ASSUME NEW r \in Requests,
               \/ Consume(r) \/ CancelCtx(r) \/ Callback(r) \/ \E f \in Frames : ReadFrame(r, f)
        PROVE  Kept
    BY <2>4 DEF Consume, Receive, ChannelClosed, CtxAbort, CancelCtx, Callback, AfterTake,
                AfterCancel, ReadFrame
  <2>5. CASE ReaderFinish \/ CleanupCancel
    BY <2>2, <2>5 DEF ReaderFinish, CleanupCancel
  <2>6. CASE \/ Lock \/ Deliver \/ ReaderTake \/ ReadFails \/ RunReturns
             \/ Stop \/ CleanupBegin \/ CleanupRange \/ CleanupConn \/ handleSessionClosed
             \/ \E r \in Requests : CleanupTake(r)
    BY <2>1, <2>6 DEF Lock, Deliver, Put, Drop, ReaderTake, ReadFails, RunReturns, Stop,
                      CleanupBegin, CleanupRange, CleanupTake, CleanupConn, handleSessionClosed
  <2> HIDE DEF Kept
  <2> QED BY <2>3, <2>4, <2>5, <2>6 DEF Next, CleanupStep
<1> QED BY <1>1, <1>2, <1>3, <1>4 DEF Forward

(* A channel whose last frame ends the answer. *)
Ends(ch) == ch # <<>> /\ ch[Len(ch)] \in Terminal

(* The callback of AfterFunc runs because the context was cancelled. *)
Armed == \A r \in Requests : after[r] = "taken" => ctx[r] = "cancelled"

(* Until the reader delivers, the answer has not ended. *)
Undelivered == reader.at = "locking" => ~req[reader.req].terminal

(* The reader reports a delivery that took place, or had a reason to give up. *)
Outcome ==
    reader.at \in {"taking", "finishing"} =>
        /\ reader.frame \in Terminal
        /\ IF reader.ok THEN req[reader.req].terminal
           ELSE GivesUp(reader.req) \/ req[reader.req].closed

(* While the context lives, a channel is closed with an end or an error in it. *)
Told ==
    \A r \in Requests : caller[r] # "done" /\ ctx[r] = "live" /\ req[r].closed => Ends(req[r].ch)

ToldInv == Armed /\ Undelivered /\ Outcome /\ Told /\ NoSilentClose

(* An error that is put into a channel ends it. *)
LEMMA WithErrorEnds ==
    ASSUME NEW ch \in Seq(Frames), Len(ch) =< Capacity
    PROVE  Ends(WithError(ch))
<1>1. "error" \in Frames /\ "error" \in Terminal BY DEF Frames, Terminal
<1> DEFINE s == IF Len(ch) < Capacity THEN ch ELSE Tail(ch)
<1>2. s \in Seq(Frames) /\ WithError(ch) = Append(s, "error")
  <2>1. CASE Len(ch) < Capacity BY <2>1 DEF WithError
  <2>2. CASE ~(Len(ch) < Capacity)
    <3>1. ch # <<>> BY <2>2, CapacityAssumption
    <3> QED BY <2>2, <3>1 DEF WithError
  <2> QED BY <2>1, <2>2
<1> HIDE DEF s
<1>3. /\ Append(s, "error") \in Seq(Frames) /\ Len(s) \in Nat
      /\ Len(Append(s, "error")) = Len(s) + 1
      /\ Append(s, "error")[Len(s) + 1] = "error"
  BY <1>1, <1>2, Appended
<1>4. Append(s, "error") # <<>> BY <1>3, Inhabited
<1> QED BY <1>1, <1>2, <1>3, <1>4 DEF Ends

(* Whoever closes a request leaves the others alone, and the channel as it was or *)
(* with an error at its end.                                                      *)
LEMMA ShutLeaves ==
    ASSUME TypeOK, NEW r \in Requests
    PROVE  /\ close(r) \/ cancel(r) \/ cancelWithError(r) =>
                 /\ \A q \in Requests \ {r} : req'[q] = req[q]
                 /\ req'[r].closed
                 /\ req[r].closed => req'[r] = req[r]
           /\ close(r) \/ cancel(r) => req'[r].ch = req[r].ch
           /\ cancelWithError(r) => \/ req'[r].ch = req[r].ch /\ (req[r].closed \/ req[r].terminal)
                                    \/ req'[r].ch = WithError(req[r].ch)
<1>1. req \in [Requests -> [closed : BOOLEAN, terminal : BOOLEAN, ch : Seq(Frames)]]
  BY DEF TypeOK, RequestType
<1>2. ASSUME NEW ch, Shut(r, ch)
      PROVE  /\ \A q \in Requests \ {r} : req'[q] = req[q]
             /\ req'[r].closed
             /\ req[r].closed => req'[r] = req[r]
             /\ ~req[r].closed => req'[r].ch = ch
  BY <1>1, <1>2 DEF Shut
<1>3. close(r) \/ cancel(r) => Shut(r, req[r].ch) BY DEF close, cancel
<1>4. cancelWithError(r) => \/ req[r].terminal /\ Shut(r, req[r].ch)
                            \/ Shut(r, WithError(req[r].ch))
  BY DEF cancelWithError, ErrorAllowed
<1> QED BY <1>2, <1>3, <1>4

(* Closing a request with a reason, or after its caller has gone, hides nothing. *)
LEMMA ShutTells ==
    ASSUME TypeOK, AnswerInv, Told, Forward, NEW r \in Requests,
           \/ close(r) /\ (req[r].terminal \/ caller'[r] = "done")
           \/ cancel(r) /\ ctx[r] = "cancelled"
           \/ cancelWithError(r)
           \/ req[r].closed /\ (close(r) \/ cancel(r))
    PROVE  Told'
<1> SUFFICES ASSUME NEW q \in Requests, caller'[q] # "done", ctx'[q] = "live", req'[q].closed
             PROVE  Ends(req'[q].ch)
  BY DEF Told, Ends
<1>1. caller[q] # "done" /\ ctx[q] = "live" BY DEF Forward, TypeOK, CallerType
<1>2. \A p \in Requests \ {r} : req'[p] = req[p] BY ShutLeaves
<1>3. CASE q # r BY <1>1, <1>2, <1>3 DEF Told
<1>4. CASE q = r
  <2>1. CASE req[r].closed BY <1>1, <1>4, <2>1, ShutLeaves DEF Told
  <2>2. ASSUME req[r].terminal PROVE Ends(req[r].ch)
    <3>1. peer[r] \in Terminal /\ caller[r] = "waiting"
      BY <1>1, <1>4, <2>2 DEF AnswerInv, PeerInv, Terminal, None
    <3> QED BY <2>2, <3>1 DEF AnswerInv, AnswerStays, Ends
  <2>3. CASE ~req[r].closed
    <3>1. CASE close(r) /\ req[r].terminal BY <1>4, <2>2, <3>1, ShutLeaves
    <3>2. CASE cancelWithError(r)
      <4>1. Ends(WithError(req[r].ch)) BY WithErrorEnds DEF TypeOK, RequestType
      <4> QED BY <1>4, <2>2, <2>3, <3>2, <4>1, ShutLeaves
    <3> QED BY <1>1, <1>4, <2>3, <3>1, <3>2 DEF Forward
  <2> QED BY <2>1, <2>3
<1> QED BY <1>3, <1>4

(* The reader's report stays true while the reader does not move. *)
LEMMA OutcomeStays ==
    ASSUME TypeOK, Undelivered, Outcome, Forward, UNCHANGED reader,
           \A r \in Requests : req'[r].terminal = req[r].terminal
    PROVE  Undelivered' /\ Outcome'
<1>1. Dispatching => reader.req \in Requests BY DEF TypeOK, ReaderType
<1>2. Undelivered' BY <1>1 DEF Undelivered, Dispatching
<1>3. Outcome' BY <1>1 DEF Outcome, Forward, GivesUp, Dispatching
<1> QED BY <1>2, <1>3

(* A step that touches neither the requests nor the reader tells nobody anything new. *)
LEMMA QuietTells ==
    ASSUME TypeOK, ToldInv, Forward, UNCHANGED <<req, reader>>,
           \A r \in Requests : result'[r] = "eof" => result[r] = "eof"
    PROVE  ToldInv'
<1>1. Undelivered' /\ Outcome' BY OutcomeStays DEF ToldInv
<1>2. Armed' BY DEF ToldInv, Armed, Forward
<1>3. Told' BY DEF ToldInv, Told, Forward, TypeOK, CallerType
<1>4. NoSilentClose' BY DEF ToldInv, NoSilentClose, Forward
<1> QED BY <1>1, <1>2, <1>3, <1>4 DEF ToldInv

(* Every step keeps what callers are told. *)
LEMMA ToldStep == ASSUME TypeOK, AnswerInv, ToldInv, Next PROVE ToldInv'
<1>1. Forward BY ForwardStep
<1>a. Armed' BY <1>1 DEF ToldInv, Armed, Forward
<1>b. ASSUME UNCHANGED result PROVE NoSilentClose'
  BY <1>1, <1>b DEF ToldInv, NoSilentClose, Forward
<1>c. ASSUME UNCHANGED <<req, caller>> PROVE Told'
  BY <1>1, <1>c DEF ToldInv, Told, Forward, TypeOK, CallerType
<1>d. \A r \in Requests : \A v : Return(r, v) /\ v # "eof" => NoSilentClose'
  BY <1>1 DEF ToldInv, NoSilentClose, Forward, Return, TypeOK, CallerType
<1>2. ASSUME NEW r \in Requests,
             Send(r) \/ NotConnected(r) \/ Request(r) \/ Arm(r) \/ SendOk(r)
      PROVE  ToldInv'
  <2>1. \A q \in Requests : result'[q] = "eof" => result[q] = "eof"
    BY <1>2 DEF Send, NotConnected, Request, Arm, SendOk, Return, TypeOK, CallerType
  <2> QED BY <1>1, <1>2, <2>1, QuietTells DEF Send, NotConnected, Request, Arm, SendOk
<1>3. ASSUME NEW r \in Requests, Unsend(r) PROVE ToldInv'
  <2>1. UNCHANGED reader /\ caller'[r] = "done" /\ Return(r, "failed")
    BY <1>3 DEF Unsend, Return, TypeOK, CallerType
  <2>2. CASE UNCHANGED req
    BY <1>1, <2>1, <2>2, QuietTells DEF Return, TypeOK, CallerType
  <2>3. CASE close(r)
    <3>1. Told' BY <1>1, <2>1, <2>3, ShutTells DEF ToldInv
    <3>2. \A q \in Requests : req'[q].terminal = req[q].terminal BY <2>3, ShutIsShut
    <3>3. Undelivered' /\ Outcome' BY <1>1, <2>1, <3>2, OutcomeStays DEF ToldInv
    <3> QED BY <1>a, <1>d, <2>1, <3>1, <3>3 DEF ToldInv
  <2> QED BY <1>3, <2>2, <2>3 DEF Unsend
<1>4. ASSUME NEW r \in Requests, SendCheck(r) PROVE ToldInv'
  <2>1. CASE SendRefused(r) BY <1>3, <1>4, <2>1 DEF SendCheck
  <2>2. CASE ~SendRefused(r) BY <1>1, <1>4, <2>2, QuietTells DEF SendCheck
  <2> QED BY <2>1, <2>2
<1>5. ASSUME NEW r \in Requests, Receive(r) PROVE ToldInv'
  <2> DEFINE ch == req[r].ch
  <2>1. /\ ch \in Seq(Frames) /\ ch # <<>> /\ UNCHANGED <<reader, ctx>>
        /\ req' = [req EXCEPT ![r].ch = Tail(@)]
    BY <1>5 DEF Receive, TypeOK, RequestType
  <2>2. /\ req'[r].ch = Tail(ch) /\ req'[r].closed = req[r].closed
        /\ \A q \in Requests : req'[q].terminal = req[q].terminal
        /\ \A q \in Requests \ {r} : req'[q] = req[q]
    BY <2>1 DEF TypeOK, RequestType
  <2>3. Undelivered' /\ Outcome' BY <1>1, <2>1, <2>2, OutcomeStays DEF ToldInv
  <2>4. \/ UNCHANGED result /\ UNCHANGED caller /\ Head(ch) = "chunk"
        \/ Return(r, Answer(Head(ch)))
    BY <1>5 DEF Receive
  <2>5. Answer(Head(ch)) # "eof" BY DEF Answer
  <2>6. NoSilentClose' BY <1>b, <1>d, <2>4, <2>5
  <2>7. Told'
    <3> SUFFICES ASSUME NEW q \in Requests, caller'[q] # "done", ctx'[q] = "live", req'[q].closed
                 PROVE  Ends(req'[q].ch)
      BY DEF Told, Ends
    <3>1. caller[q] # "done" /\ ctx[q] = "live" BY <1>1 DEF Forward, TypeOK, CallerType
    <3>2. CASE q # r BY <2>2, <3>1, <3>2 DEF ToldInv, Told
    <3>3. CASE q = r
      <4>1. Head(ch) = "chunk" BY <2>4, <3>3 DEF Return, TypeOK, CallerType
      <4>2. ch[Len(ch)] \in Terminal BY <2>2, <3>1, <3>3 DEF ToldInv, Told, Ends
      <4>3. /\ Len(ch) \in Nat \ {0} /\ Head(ch) = ch[1] /\ Tail(ch) \in Seq(Frames)
            /\ Len(Tail(ch)) = Len(ch) - 1
            /\ \A i \in 1..(Len(ch) - 1) : Tail(ch)[i] = ch[i + 1]
        BY <2>1
      <4> HIDE DEF ch
      <4>4. Len(ch) > 1 BY <4>1, <4>2, <4>3 DEF Terminal
      <4>5. Tail(ch)[Len(Tail(ch))] = ch[Len(ch)] BY <4>3, <4>4
      <4>6. Len(Tail(ch)) > 0 BY <4>3, <4>4
      <4>7. Tail(ch) # <<>> BY <4>3, <4>6, Inhabited
      <4> QED BY <2>2, <3>3, <4>2, <4>5, <4>7 DEF Ends
    <3> QED BY <3>2, <3>3
  <2> QED BY <1>a, <2>3, <2>6, <2>7 DEF ToldInv
<1>6. ASSUME NEW r \in Requests, ChannelClosed(r) PROVE ToldInv'
  <2>1. ctx[r] = "cancelled"
    <3>1. caller[r] # "done" /\ req[r].closed /\ ~Ends(req[r].ch)
      BY <1>6 DEF ChannelClosed, Ends
    <3> QED BY <3>1 DEF ToldInv, Told, TypeOK, CallerType
  <2>2. NoSilentClose'
    BY <1>6, <2>1 DEF ChannelClosed, Return, ToldInv, NoSilentClose, TypeOK, CallerType
  <2>3. UNCHANGED <<req, reader>> BY <1>6 DEF ChannelClosed
  <2>4. Undelivered' /\ Outcome' BY <1>1, <2>3, OutcomeStays DEF ToldInv
  <2>5. Told' BY <1>1, <2>3 DEF ToldInv, Told, Forward, TypeOK, CallerType
  <2> QED BY <1>a, <2>2, <2>4, <2>5 DEF ToldInv
<1>7. ASSUME NEW r \in Requests, CtxAbort(r) \/ CancelCtx(r) \/ AfterTake(r) PROVE ToldInv'
  <2>1. /\ UNCHANGED <<req, reader>>
        /\ \A q \in Requests : result'[q] = "eof" => result[q] = "eof"
    BY <1>7 DEF CtxAbort, CancelCtx, AfterTake, Return, callerVars, TypeOK, CallerType
  <2> QED BY <1>1, <2>1, QuietTells
<1>8. ASSUME NEW r \in Requests, AfterCancel(r) PROVE ToldInv'
  <2>1. cancel(r) /\ ctx[r] = "cancelled" /\ UNCHANGED <<reader, result>>
    BY <1>8 DEF AfterCancel, callerVars, ToldInv, Armed
  <2>2. Told' BY <1>1, <2>1, ShutTells DEF ToldInv
  <2>3. \A q \in Requests : req'[q].terminal = req[q].terminal BY <2>1, ShutIsShut
  <2>4. Undelivered' /\ Outcome' BY <1>1, <2>1, <2>3, OutcomeStays DEF ToldInv
  <2> QED BY <1>a, <1>b, <2>1, <2>2, <2>4 DEF ToldInv
<1>9. CASE CleanupCancel
  <2>1. victim \in Requests /\ cancelWithError(victim) /\ UNCHANGED <<reader, result>>
    BY <1>9 DEF CleanupCancel, callerVars, TypeOK, SessionType
  <2>2. Told' BY <1>1, <2>1, ShutTells DEF ToldInv
  <2>3. \A q \in Requests : req'[q].terminal = req[q].terminal BY <2>1, ShutIsShut
  <2>4. Undelivered' /\ Outcome' BY <1>1, <2>1, <2>3, OutcomeStays DEF ToldInv
  <2> QED BY <1>a, <1>b, <2>1, <2>2, <2>4 DEF ToldInv
<1>10. ASSUME NEW r \in Requests, NEW f \in Frames, ReadFrame(r, f) PROVE ToldInv'
  <2>1. /\ peer[r] = "serving" /\ UNCHANGED <<req, caller, result>>
        /\ \/ reader' = Idle
           \/ reader' = [at |-> "locking", req |-> r, frame |-> f, ok |-> FALSE]
    BY <1>10 DEF ReadFrame, callerVars
  <2>2. ~req[r].terminal BY <2>1 DEF AnswerInv, PeerInv, Terminal
  <2>3. Undelivered' BY <2>1, <2>2 DEF Undelivered, Idle
  <2>4. Outcome' BY <2>1 DEF Outcome, Idle
  <2> QED BY <1>a, <1>b, <1>c, <2>1, <2>3, <2>4 DEF ToldInv
<1>11. CASE Lock \/ Drop
  <2> DEFINE r == reader.req
  <2>1. /\ r \in Requests /\ UNCHANGED <<req, caller, result, cleanup, ctx>>
        /\ reader.at \in {"locking", "delivering"}
    BY <1>11 DEF Lock, Drop, callerVars, sessionVars, TypeOK, ReaderType, Dispatching
  <2>2. \/ reader' = [reader EXCEPT !.at = "delivering"]
        \/ Delivered(FALSE) /\ (GivesUp(r) \/ req[r].closed)
    BY <1>11 DEF Lock, Drop, ToldInv, Undelivered
  <2>3. CASE reader' = [reader EXCEPT !.at = "delivering"]
    <3>1. reader'.at = "delivering" BY <2>3 DEF TypeOK, ReaderType
    <3>2. Undelivered' /\ Outcome' BY <3>1 DEF Undelivered, Outcome
    <3> QED BY <1>a, <1>b, <1>c, <2>1, <3>2 DEF ToldInv
  <2>4. CASE Delivered(FALSE) /\ (GivesUp(r) \/ req[r].closed)
    <3>1. \/ reader' = Idle
          \/ /\ reader'.at = "taking" /\ reader'.req = r /\ ~reader'.ok
             /\ reader'.frame \in Terminal
      BY <2>4 DEF Delivered, TypeOK, ReaderType
    <3>2. Undelivered' BY <3>1 DEF Undelivered, Idle
    <3>3. Outcome' BY <2>1, <2>4, <3>1 DEF Outcome, Idle, GivesUp, closed
    <3> QED BY <1>a, <1>b, <1>c, <2>1, <3>2, <3>3 DEF ToldInv
  <2> QED BY <2>2, <2>3, <2>4
<1>12. CASE Put
  <2> DEFINE r == reader.req
             f == reader.frame
  <2>1. /\ r \in Requests /\ f \in Frames /\ UNCHANGED <<caller, result>>
        /\ ~req[r].closed /\ Delivered(TRUE)
        /\ req' = [req EXCEPT ![r].ch = Append(@, f), ![r].terminal = f \in Terminal]
    BY <1>12 DEF Put, AnswerInv, NoSendOnClosed, TypeOK, ReaderType, Dispatching, callerVars
  <2>2. /\ req'[r].closed = req[r].closed /\ req'[r].terminal = (f \in Terminal)
        /\ \A q \in Requests \ {r} : req'[q] = req[q]
    BY <2>1 DEF TypeOK, RequestType
  <2>3. \/ reader' = Idle
        \/ /\ f \in Terminal /\ reader'.at = "taking" /\ reader'.req = r /\ reader'.ok
           /\ reader'.frame = f
    BY <2>1 DEF Delivered, TypeOK, ReaderType
  <2>4. Undelivered' BY <2>3 DEF Undelivered, Idle
  <2>5. Outcome'
    <3>1. CASE reader' = Idle BY <3>1 DEF Outcome, Idle
    <3>2. CASE f \in Terminal /\ reader'.req = r /\ reader'.ok /\ reader'.frame = f
      <4>1. req'[r].terminal BY <2>2, <3>2
      <4> QED BY <3>2, <4>1 DEF Outcome
    <3> QED BY <2>3, <3>1, <3>2
  <2>6. Told' BY <1>1, <2>1, <2>2 DEF ToldInv, Told, Forward, TypeOK, CallerType
  <2> QED BY <1>a, <1>b, <2>1, <2>4, <2>5, <2>6 DEF ToldInv
<1>13. CASE ReaderTake
  <2>1. /\ UNCHANGED <<req, caller, result, cleanup, ctx>> /\ reader.at = "taking"
        /\ \/ reader' = Idle
           \/ reader' = [reader EXCEPT !.at = "finishing"]
    BY <1>13 DEF ReaderTake, callerVars, sessionVars
  <2>2. \/ reader' = Idle
        \/ /\ reader'.at = "finishing" /\ reader'.req = reader.req /\ reader'.ok = reader.ok
           /\ reader'.frame = reader.frame
    BY <2>1 DEF TypeOK, ReaderType
  <2>3. Undelivered' BY <2>2 DEF Undelivered, Idle
  <2>4. Outcome' BY <2>1, <2>2 DEF ToldInv, Outcome, Idle, GivesUp, closed
  <2> QED BY <1>a, <1>b, <1>c, <2>1, <2>3, <2>4 DEF ToldInv
<1>14. CASE ReaderFinish
  <2> DEFINE r == reader.req
  <2>1. /\ r \in Requests /\ reader' = Idle /\ UNCHANGED <<caller, result>>
        /\ IF reader.ok THEN close(r) /\ req[r].terminal
           ELSE \/ cancelWithError(r)
                \/ cancel(r) /\ req[r].closed
    BY <1>14 DEF ReaderFinish, callerVars, TypeOK, ReaderType, Dispatching, ToldInv, Outcome,
                 HasCause, GivesUp
  <2>2. Told' BY <1>1, <2>1, ShutTells DEF ToldInv
  <2>3. Undelivered' /\ Outcome' BY <2>1 DEF Undelivered, Outcome, Idle
  <2> QED BY <1>a, <1>b, <2>1, <2>2, <2>3 DEF ToldInv
<1>15. CASE ReadFails \/ RunReturns
  <2>1. /\ UNCHANGED <<req, caller, result>>
        /\ \E at \in {"cleaning", "off"} : reader' = [Idle EXCEPT !.at = at]
    BY <1>15 DEF ReadFails, RunReturns, callerVars
  <2>2. reader'.at \in {"cleaning", "off"} BY <2>1 DEF Idle
  <2>3. Undelivered' /\ Outcome' BY <2>2 DEF Undelivered, Outcome
  <2> QED BY <1>a, <1>b, <1>c, <2>1, <2>3 DEF ToldInv
<1>16. CASE Stop \/ CleanupBegin \/ CleanupRange \/ CleanupConn \/ handleSessionClosed
            \/ \E r \in Requests : CleanupTake(r)
  <2>1. UNCHANGED <<req, reader, result>>
    BY <1>16 DEF Stop, CleanupBegin, CleanupRange, CleanupTake, CleanupConn,
                 handleSessionClosed, callerVars
  <2> QED BY <1>1, <2>1, QuietTells
<1> QED BY <1>2, <1>3, <1>4, <1>5, <1>6, <1>7, <1>8, <1>9, <1>10, <1>11, <1>12, <1>13, <1>14,
           <1>15, <1>16
        DEF Next, Write, SendFails, Consume, Callback, Deliver, CleanupStep

-----------------------------------------------------------------------------
(* Where the chunks of an answer are. *)

(* The chunk the reader has read and not yet delivered. *)
Carries(r) == reader.at \in {"locking", "delivering"} /\ reader.req = r /\ reader.frame = "chunk"
Carried(r) == IF Carries(r) THEN 1 ELSE 0
Ended(r) == IF req[r].terminal THEN 1 ELSE 0

(* A request in good standing: its session open, its context alive. *)
Standing(r) == ~closed /\ ctx[r] = "live"

(* Until its answer has ended it is in the table, only the reader closes it, and the  *)
(* chunks sent are with the caller, in the channel or with the reader.                *)
Flows(r) ==
    Standing(r) /\ caller[r] # "done" =>
        /\ caller[r] \in {"stored", "armed", "sending", "waiting"} =>
              r \in pending \/ peer[r] \in Terminal
        /\ req[r].closed => req[r].terminal
        /\ got[r] + Len(req[r].ch) + Carried(r) = sent[r] + Ended(r)

(* A complete answer had every chunk, and there will be no other. *)
Whole(r) ==
    /\ result[r] = "complete" => caller[r] = "done"
    /\ Standing(r) /\ result[r] = "complete" => got[r] = sent[r] /\ peer[r] \in Terminal

(* The reader carries a chunk only while the provider has not ended the answer, and *)
(* only a session that is closed has a victim.                                      *)
FlowInv ==
    /\ \A r \in Requests : Flows(r) /\ Whole(r)
    /\ Carries(reader.req) => peer[reader.req] = "serving"
    /\ victim # None => closed

(* A step that moves no chunk of r. *)
Steady(r) ==
    /\ got'[r] = got[r] /\ sent'[r] = sent[r] /\ peer'[r] = peer[r]
    /\ Len(req'[r].ch) = Len(req[r].ch) /\ req'[r].terminal = req[r].terminal
    /\ req'[r].closed => req[r].closed \/ req[r].terminal
    /\ Carried(r)' = Carried(r)
    /\ r \in pending => r \in pending' \/ peer[r] \in Terminal
    /\ caller'[r] \in {"stored", "armed", "sending", "waiting"} =>
          caller[r] \in {"stored", "armed", "sending", "waiting"} \/ r \in pending'

(* Such a step keeps the count. *)
LEMMA SteadyFlows ==
    ASSUME TypeOK, Forward, NEW r \in Requests, Flows(r),
           Standing(r)' /\ caller'[r] # "done" => Steady(r)
    PROVE  Flows(r)'
<1> SUFFICES ASSUME Standing(r)', caller'[r] # "done"
             PROVE  /\ caller'[r] \in {"stored", "armed", "sending", "waiting"} =>
                          r \in pending' \/ peer'[r] \in Terminal
                    /\ req'[r].closed => req'[r].terminal
                    /\ got'[r] + Len(req'[r].ch) + Carried(r)' = sent'[r] + Ended(r)'
  BY DEF Flows
<1>1. Standing(r) /\ caller[r] # "done" /\ Steady(r)
  BY DEF Standing, Forward, TypeOK, CallerType
<1>2. Ended(r)' = Ended(r) BY <1>1 DEF Steady, Ended
<1> QED BY <1>1, <1>2 DEF Flows, Steady

(* A result that does not change stays true: nothing is sent after the end. *)
LEMMA WholeStays ==
    ASSUME TypeOK, Forward, NEW r \in Requests, Whole(r),
           result'[r] = "complete" => result[r] = "complete" /\ got'[r] = got[r],
           peer[r] \in Terminal => peer'[r] = peer[r] /\ sent'[r] = sent[r]
    PROVE  Whole(r)'
  BY DEF Whole, Standing, Forward, TypeOK, CallerType

(* The provider sends nothing after the frame that ended its answer. *)
LEMMA PeerForward ==
    ASSUME TypeOK, AnswerInv, Next, NEW r \in Requests, peer[r] \in Terminal
    PROVE  peer'[r] = peer[r] /\ sent'[r] = sent[r]
<1> USE DEF TypeOK, CallerType
<1>1. CASE UNCHANGED <<peer, sent>> BY <1>1
<1>2. ASSUME NEW q \in Requests, SendOk(q) PROVE peer'[r] = peer[r] /\ sent'[r] = sent[r]
  <2>1. peer[q] = None BY <1>2 DEF SendOk, AnswerInv, PeerInv
  <2>2. q # r BY <2>1 DEF Terminal, None
  <2> QED BY <1>2, <2>2 DEF SendOk
<1>3. ASSUME NEW q \in Requests, NEW f \in Frames, ReadFrame(q, f)
      PROVE  peer'[r] = peer[r] /\ sent'[r] = sent[r]
  <2>1. q # r BY <1>3 DEF ReadFrame, Terminal
  <2> QED BY <1>3, <2>1 DEF ReadFrame
<1>4. ASSUME NEW q \in Requests,
             \/ Send(q) \/ NotConnected(q) \/ Request(q) \/ Arm(q) \/ SendCheck(q) \/ SendFails(q)
             \/ Consume(q) \/ CancelCtx(q) \/ Callback(q)
      PROVE  UNCHANGED <<peer, sent>>
  BY <1>4 DEF Send, NotConnected, Request, Arm, SendCheck, SendFails, Unsend, Consume, Receive,
              ChannelClosed, CtxAbort, CancelCtx, Callback, AfterTake, AfterCancel, peerVars
<1>5. ASSUME \/ Lock \/ Deliver \/ ReaderTake \/ ReaderFinish \/ ReadFails \/ RunReturns
             \/ Stop \/ CleanupBegin \/ CleanupStep
      PROVE  UNCHANGED <<peer, sent>>
  BY <1>5 DEF Lock, Deliver, Put, Drop, ReaderTake, ReaderFinish, ReadFails, RunReturns, Stop,
              CleanupBegin, CleanupStep, CleanupRange, CleanupTake, CleanupCancel, CleanupConn,
              handleSessionClosed, peerVars
<1> QED BY <1>1, <1>2, <1>3, <1>4, <1>5 DEF Next, Write

(* A deliver that returns leaves the reader with no chunk in hand. *)
LEMMA DeliveredLeaves ==
    ASSUME ReaderType, NEW ok \in BOOLEAN, Delivered(ok)
    PROVE  reader'.at \notin {"locking", "delivering"}
  BY DEF Delivered, ReaderType, Idle

(* The chunk in hand is one of an answer under way. *)
LEMMA CarriesStep ==
    ASSUME TypeOK, Next, Carries(reader.req) => peer[reader.req] = "serving"
    PROVE  Carries(reader.req)' => peer'[reader'.req] = "serving"
<1> USE DEF TypeOK
<1>1. CASE UNCHANGED <<reader, peer>> BY <1>1 DEF Carries
<1>2. ASSUME NEW r \in Requests,
             \/ Send(r) \/ NotConnected(r) \/ Request(r) \/ Arm(r) \/ SendCheck(r) \/ SendFails(r)
             \/ Consume(r) \/ CancelCtx(r) \/ Callback(r)
      PROVE  UNCHANGED <<reader, peer>>
  BY <1>2 DEF Send, NotConnected, Request, Arm, SendCheck, SendFails, Unsend, Consume, Receive,
              ChannelClosed, CtxAbort, CancelCtx, Callback, AfterTake, AfterCancel, peerVars
<1>3. ASSUME NEW r \in Requests, SendOk(r)
      PROVE  Carries(reader.req)' => peer'[reader'.req] = "serving"
  BY <1>3 DEF SendOk, Carries, ReaderType, Dispatching, CallerType
<1>4. ASSUME NEW r \in Requests, NEW f \in Frames, ReadFrame(r, f)
      PROVE  Carries(reader.req)' => peer'[reader'.req] = "serving"
  BY <1>4 DEF ReadFrame, Idle, Carries
<1>5. CASE Lock \/ Deliver \/ ReaderTake \/ ReaderFinish \/ ReadFails \/ RunReturns
  <2>1. UNCHANGED peer
    BY <1>5 DEF Lock, Deliver, Put, Drop, ReaderTake, ReaderFinish, ReadFails, RunReturns,
                peerVars
  <2>2. \/ reader'.at \notin {"locking", "delivering"}
        \/ /\ reader.at = "locking" /\ reader'.req = reader.req
           /\ reader'.frame = reader.frame
    <3>1. CASE Deliver
      BY <3>1, DeliveredLeaves DEF Deliver, Put, Drop
    <3>2. CASE Lock
      <4>1. Delivered(FALSE) \/ reader' = [reader EXCEPT !.at = "delivering"]
        BY <3>2 DEF Lock
      <4>2. CASE Delivered(FALSE) BY <4>2, DeliveredLeaves
      <4>3. CASE reader' = [reader EXCEPT !.at = "delivering"]
        BY <3>2, <4>3 DEF Lock, ReaderType
      <4> QED BY <4>1, <4>2, <4>3
    <3>3. CASE ReaderTake BY <3>3 DEF ReaderTake, Idle, ReaderType
    <3>4. CASE ReaderFinish \/ ReadFails \/ RunReturns
      <4>1. reader' = Idle \/ \E at \in {"cleaning", "off"} : reader' = [Idle EXCEPT !.at = at]
        BY <3>4, Zenon DEF ReaderFinish, ReadFails, RunReturns
      <4> QED BY <4>1 DEF Idle
    <3> QED BY <1>5, <3>1, <3>2, <3>3, <3>4
  <2> QED BY <2>1, <2>2 DEF Carries
<1>6. ASSUME Stop \/ CleanupBegin \/ CleanupStep PROVE UNCHANGED <<reader, peer>>
  BY <1>6 DEF Stop, CleanupBegin, CleanupStep, CleanupRange, CleanupTake, CleanupCancel,
              CleanupConn, handleSessionClosed, peerVars
<1> QED BY <1>1, <1>2, <1>3, <1>4, <1>5, <1>6 DEF Next, Write

(* Only Range takes a victim. *)
LEMMA VictimStep ==
    ASSUME TypeOK, Next, Forward, victim # None => closed
    PROVE  victim' # None => closed'
<1>1. CASE UNCHANGED victim BY <1>1 DEF Forward
<1>2. ASSUME NEW r \in Requests,
             \/ Send(r) \/ NotConnected(r) \/ Request(r) \/ Arm(r) \/ SendCheck(r) \/ Write(r)
             \/ Consume(r) \/ CancelCtx(r) \/ Callback(r) \/ \E f \in Frames : ReadFrame(r, f)
      PROVE  UNCHANGED victim
  BY <1>2 DEF Send, NotConnected, Request, Arm, SendCheck, Write, SendOk, SendFails, Unsend,
              Consume, Receive, ChannelClosed, CtxAbort, CancelCtx, Callback, AfterTake,
              AfterCancel, ReadFrame, sessionVars
<1>3. ASSUME Lock \/ Deliver \/ ReaderTake \/ ReaderFinish \/ ReadFails \/ RunReturns \/ Stop
      PROVE  UNCHANGED victim
  BY <1>3 DEF Lock, Deliver, Put, Drop, ReaderTake, ReaderFinish, ReadFails, RunReturns, Stop,
              sessionVars
<1>4. CASE CleanupBegin \/ CleanupStep
  BY <1>4 DEF CleanupBegin, CleanupStep, CleanupRange, CleanupTake, CleanupCancel,
              CleanupConn, handleSessionClosed, closed
<1> QED BY <1>1, <1>2, <1>3, <1>4 DEF Next

(* A caller takes a chunk, or the end of an answer that was whole. *)
LEMMA ReceiveFlows ==
    ASSUME TypeOK, AnswerInv, FlowInv, Forward, NEW r \in Requests, Receive(r)
    PROVE  Flows(r)' /\ Whole(r)'
<1> DEFINE ch == req[r].ch
<1>1. /\ ch \in Seq(Frames) /\ ch # <<>> /\ caller[r] = "waiting"
      /\ UNCHANGED <<reader, ctx, cleanup, peer, sent, pending>>
      /\ req' = [req EXCEPT ![r].ch = Tail(@)]
  BY DEF Receive, TypeOK, RequestType, peerVars, sessionVars
<1>2. /\ req'[r].ch = Tail(ch) /\ req'[r].closed = req[r].closed
      /\ req'[r].terminal = req[r].terminal
  BY <1>1 DEF TypeOK, RequestType
<1>3. /\ Len(Tail(ch)) = Len(ch) - 1 /\ Len(ch) \in Nat \ {0} /\ Head(ch) = ch[1]
  BY <1>1
<1>4. /\ Carried(r)' = Carried(r) /\ Ended(r)' = Ended(r) /\ (Standing(r)' <=> Standing(r))
      /\ Carried(r) \in {0, 1} /\ Ended(r) \in {0, 1}
      /\ got[r] \in Nat /\ sent[r] \in Nat
  BY <1>1, <1>2, MaxChunksAssumption
     DEF Carried, Carries, Ended, Standing, closed, TypeOK, CallerType
<1>5. Flows(r) /\ Whole(r) BY DEF FlowInv
<1>6. result[r] # "complete" BY <1>1, <1>5 DEF Whole
<1>7. CASE Head(ch) = "chunk"
  <2>1. got'[r] = got[r] + 1 /\ UNCHANGED <<caller, result>>
    BY <1>7 DEF Receive, TypeOK, CallerType
  <2>2. Whole(r)' BY <1>6, <2>1 DEF Whole
  <2> HIDE DEF ch
  <2>3. Flows(r)'
    <3> SUFFICES ASSUME Standing(r)
                 PROVE  /\ r \in pending \/ peer[r] \in Terminal
                        /\ req[r].closed => req[r].terminal
                        /\ got'[r] + Len(Tail(ch)) + Carried(r) = sent[r] + Ended(r)
      BY <1>1, <1>2, <1>4, <2>1 DEF Flows
    <3>1. /\ r \in pending \/ peer[r] \in Terminal
          /\ req[r].closed => req[r].terminal
          /\ got[r] + Len(ch) + Carried(r) = sent[r] + Ended(r)
      BY <1>1, <1>5 DEF Flows, ch
    <3> QED BY <1>3, <1>4, <2>1, <3>1
  <2> QED BY <2>2, <2>3
<1>8. CASE Head(ch) # "chunk"
  <2>1. caller'[r] = "done" /\ UNCHANGED got
    BY <1>8 DEF Receive, Return, TypeOK, CallerType
  <2>2. Flows(r)' BY <2>1 DEF Flows
  <2>3. ASSUME Standing(r)' PROVE got'[r] = sent'[r] /\ peer'[r] \in Terminal
    <3>1. Standing(r) BY <1>4, <2>3
    <3>2. /\ req[r].closed => req[r].terminal
          /\ got[r] + Len(ch) + Carried(r) = sent[r] + Ended(r)
      BY <1>1, <1>5, <3>1 DEF Flows
    <3>3. req[r].terminal
      <4>1. SUFFICES ASSUME ~req[r].terminal PROVE FALSE OBVIOUS
      <4>2. \A i \in 1..Len(ch) : ch[i] = "chunk"
        BY <3>2, <4>1 DEF AnswerInv, OnlyChunks
      <4> QED BY <1>3, <1>8, <4>2
    <3>4. \A i \in 1..(Len(ch) - 1) : ch[i] = "chunk"
      BY <1>1, <3>3 DEF AnswerInv, AnswerStays
    <3> HIDE DEF ch
    <3>5. Len(ch) = 1 BY <1>3, <1>8, <3>4
    <3>6. peer[r] \in Terminal BY <3>3 DEF AnswerInv, PeerInv
    <3>7. Carried(r) = 0 /\ Ended(r) = 1
      BY <3>3, <3>6 DEF FlowInv, Carried, Carries, Ended, Terminal
    <3> QED BY <1>1, <1>4, <2>1, <3>2, <3>5, <3>6, <3>7
  <2> QED BY <2>1, <2>2, <2>3 DEF Whole
<1> QED BY <1>7, <1>8

(* The reader takes a chunk from the connection for a request that is in the table. *)
LEMMA ReadFlows ==
    ASSUME TypeOK, AnswerInv, FlowInv, Forward, NEW r \in Requests, NEW q \in Requests,
           NEW f \in Frames, ReadFrame(q, f)
    PROVE  Flows(r)'
<1>1. /\ reader.at = "reading" /\ peer[q] = "serving" /\ caller[q] \in {"waiting", "done"}
      /\ UNCHANGED <<req, caller, got, ctx, cleanup, pending>>
      /\ q \in pending => reader' = [at |-> "locking", req |-> q, frame |-> f, ok |-> FALSE]
      /\ reader' = Idle \/ reader' = [at |-> "locking", req |-> q, frame |-> f, ok |-> FALSE]
  BY DEF ReadFrame, callerVars, sessionVars, AnswerInv, PeerInv, None
<1>2. \A p \in Requests : ~Carries(p) BY <1>1 DEF Carries
<1>3. CASE r # q
  <2>1. peer'[r] = peer[r] /\ sent'[r] = sent[r]
    BY <1>3 DEF ReadFrame, TypeOK, CallerType
  <2>2. Carried(r)' = Carried(r) BY <1>1, <1>2, <1>3 DEF Carried, Carries, Idle
  <2>3. Steady(r) BY <1>1, <2>1, <2>2 DEF Steady
  <2> QED BY <2>3, SteadyFlows DEF FlowInv
<1>4. CASE r = q
  <2> SUFFICES ASSUME Standing(r)', caller'[r] # "done"
               PROVE  /\ r \in pending' \/ peer'[r] \in Terminal
                      /\ req'[r].closed => req'[r].terminal
                      /\ got'[r] + Len(req'[r].ch) + Carried(r)' = sent'[r] + Ended(r)'
    BY DEF Flows
  <2>1. Standing(r) /\ caller[r] = "waiting" /\ peer[r] \notin Terminal
    BY <1>1, <1>4 DEF Standing, closed, Terminal
  <2>2. /\ r \in pending /\ (req[r].closed => req[r].terminal)
        /\ got[r] + Len(req[r].ch) + Carried(r) = sent[r] + Ended(r)
    BY <2>1 DEF FlowInv, Flows
  <2>3. reader' = [at |-> "locking", req |-> r, frame |-> f, ok |-> FALSE]
    BY <1>1, <1>4, <2>2
  <2>4. Carried(r) = 0 /\ Ended(r)' = Ended(r) /\ Ended(r) \in {0, 1}
        /\ got[r] \in Nat /\ sent[r] \in Nat /\ Len(req[r].ch) \in Nat
    BY <1>1, <1>2, MaxChunksAssumption DEF Carried, Ended, TypeOK, CallerType, RequestType
  <2>5. CASE f = "chunk"
    <3>1. sent'[r] = sent[r] + 1 BY <1>4, <2>5 DEF ReadFrame, TypeOK, CallerType
    <3>2. Carried(r)' = 1 BY <2>3, <2>5 DEF Carried, Carries
    <3> QED BY <1>1, <2>2, <2>4, <3>1, <3>2
  <2>6. CASE f # "chunk"
    <3>1. sent'[r] = sent[r] BY <1>4, <2>6 DEF ReadFrame
    <3>2. Carried(r)' = 0 BY <2>3, <2>6 DEF Carried, Carries
    <3> QED BY <1>1, <2>2, <2>4, <3>1, <3>2
  <2> QED BY <2>5, <2>6
<1> QED BY <1>3, <1>4

(* The reader puts the frame it carries into the channel. *)
LEMMA PutFlows ==
    ASSUME TypeOK, AnswerInv, FlowInv, Forward, NEW r \in Requests, Put
    PROVE  Flows(r)'
<1> DEFINE q == reader.req
           f == reader.frame
<1>1. /\ q \in Requests /\ f \in Frames /\ reader.at = "delivering"
      /\ ~req[q].closed /\ ~req[q].terminal /\ req[q].ch \in Seq(Frames)
      /\ UNCHANGED <<caller, got, sent, peer, ctx, cleanup, pending>>
      /\ req' = [req EXCEPT ![q].ch = Append(@, f), ![q].terminal = f \in Terminal]
  BY DEF Put, AnswerInv, NoSendOnClosed, NotEnded, TypeOK, ReaderType, RequestType, Dispatching,
         callerVars, peerVars, sessionVars
<1>2. /\ req'[q].closed = req[q].closed /\ req'[q].terminal = (f \in Terminal)
      /\ req'[q].ch = Append(req[q].ch, f)
      /\ \A p \in Requests \ {q} : req'[p] = req[p]
  BY <1>1 DEF TypeOK, RequestType
<1>3. Len(req'[q].ch) = Len(req[q].ch) + 1 /\ Len(req[q].ch) \in Nat
  <2> HIDE DEF q, f
  <2>1. /\ Len(req[q].ch) \in Nat
        /\ Len(Append(req[q].ch, f)) = Len(req[q].ch) + 1
    BY <1>1
  <2> QED BY <1>2, <2>1
<1>4. reader'.at \notin {"locking", "delivering"}
  BY DeliveredLeaves DEF Put, TypeOK
<1>5. Carried(r)' = 0 BY <1>4 DEF Carried, Carries
<1>6. CASE r # q
  <2>1. Carried(r) = 0 BY <1>6 DEF Carried, Carries
  <2>2. Steady(r) BY <1>1, <1>2, <1>5, <1>6, <2>1 DEF Steady
  <2> QED BY <2>2, SteadyFlows DEF FlowInv
<1>7. CASE r = q
  <2> HIDE DEF q, f
  <2> SUFFICES ASSUME Standing(r)', caller'[r] # "done"
               PROVE  /\ caller'[r] \in {"stored", "armed", "sending", "waiting"} =>
                            r \in pending' \/ peer'[r] \in Terminal
                      /\ req'[r].closed => req'[r].terminal
                      /\ got'[r] + Len(req'[r].ch) + Carried(r)' = sent'[r] + Ended(r)'
    BY DEF Flows
  <2>1. Standing(r) /\ caller[r] # "done"
    BY DEF Standing, Forward, TypeOK, CallerType
  <2>2. /\ caller[r] \in {"stored", "armed", "sending", "waiting"} =>
              r \in pending \/ peer[r] \in Terminal
        /\ got[r] + Len(req[r].ch) + Carried(r) = sent[r] + Ended(r)
    BY <2>1 DEF FlowInv, Flows
  <2>3. Ended(r) = 0 /\ got[r] \in Nat /\ sent[r] \in Nat
    BY <1>1, <1>7, MaxChunksAssumption DEF Ended, TypeOK, CallerType
  <2>4. /\ ~req'[r].closed /\ pending' = pending /\ peer'[r] = peer[r]
        /\ caller'[r] = caller[r] /\ got'[r] = got[r] /\ sent'[r] = sent[r]
        /\ Len(req'[r].ch) = Len(req[r].ch) + 1 /\ Len(req[r].ch) \in Nat
    BY <1>1, <1>2, <1>3, <1>7
  <2>5. CASE f = "chunk"
    <3>1. Carried(r) = 1 BY <1>1, <1>7, <2>5 DEF Carried, Carries, q, f
    <3>2. Ended(r)' = 0 BY <1>2, <1>7, <2>5 DEF Ended, Terminal
    <3> QED BY <1>5, <2>2, <2>3, <2>4, <3>1, <3>2
  <2>6. CASE f # "chunk"
    <3>1. Carried(r) = 0 BY <1>7, <2>6 DEF Carried, Carries, f
    <3>2. f \in Terminal BY <1>1, <2>6 DEF Frames
    <3>3. Ended(r)' = 1 BY <1>2, <1>7, <3>2 DEF Ended
    <3>4. got[r] + Len(req[r].ch) = sent[r] BY <2>2, <2>3, <2>4, <3>1
    <3>5. got'[r] + Len(req'[r].ch) + Carried(r)' = sent'[r] + Ended(r)'
      BY <1>5, <2>3, <2>4, <3>3, <3>4
    <3> QED BY <2>2, <2>4, <3>5
  <2> QED BY <2>5, <2>6
<1> QED BY <1>6, <1>7

(* The steps of the callers and their contexts move no other chunk. *)
LEMMA CallersFlow ==
    ASSUME TypeOK, AnswerInv, ToldInv, FlowInv, Forward, NEW r \in Requests, NEW q \in Requests,
           \/ Send(q) \/ NotConnected(q) \/ Request(q) \/ Arm(q) \/ SendOk(q) \/ SendCheck(q)
           \/ SendFails(q) \/ ChannelClosed(q) \/ CtxAbort(q) \/ CancelCtx(q)
           \/ AfterTake(q) \/ AfterCancel(q)
    PROVE  Flows(r)'
<1> USE DEF TypeOK, CallerType
<1>1. CASE Standing(r)' /\ caller'[r] # "done" => Steady(r)
  BY <1>1, SteadyFlows DEF FlowInv
<1>2. CASE Send(q) \/ NotConnected(q) \/ Request(q) \/ Arm(q)
  <2>1. /\ UNCHANGED <<got, sent, peer, req, reader>> /\ pending \subseteq pending'
        /\ caller'[r] \in {"stored", "armed", "sending", "waiting"} =>
              caller[r] \in {"stored", "armed", "sending", "waiting"} \/ r \in pending'
    BY <1>2 DEF Send, NotConnected, Request, Arm, Return, peerVars
  <2>2. Steady(r) BY <2>1 DEF Steady, Carried, Carries
  <2> QED BY <1>1, <2>2
<1>3. CASE SendOk(q)
  <2>1. /\ UNCHANGED <<got, sent, req, reader, pending, ctx, cleanup>>
        /\ caller[q] = "sending" /\ caller' = [caller EXCEPT ![q] = "waiting"]
        /\ peer' = [peer EXCEPT ![q] = "serving"]
    BY <1>3 DEF SendOk, sessionVars
  <2>2. CASE r # q
    <3>1. Steady(r) BY <2>1, <2>2 DEF Steady, Carried, Carries
    <3> QED BY <1>1, <3>1
  <2>3. CASE r = q
    <3>1. peer[r] \notin Terminal
      BY <2>1, <2>3 DEF AnswerInv, PeerInv, Terminal, None
    <3>2. Standing(r)' <=> Standing(r) BY <2>1 DEF Standing, closed
    <3>3. Carried(r)' = Carried(r) /\ Ended(r)' = Ended(r)
      BY <2>1 DEF Carried, Carries, Ended
    <3>4. Flows(r) BY DEF FlowInv
    <3> QED BY <2>1, <2>3, <3>1, <3>2, <3>3, <3>4 DEF Flows
  <2> QED BY <2>2, <2>3
<1>4. CASE Unsend(q)
  <2>1. /\ UNCHANGED <<got, sent, peer, reader>> /\ pending' = pending \ {q}
        /\ caller' = [caller EXCEPT ![q] = "done"] /\ (UNCHANGED req \/ close(q))
    BY <1>4 DEF Unsend, Return, peerVars
  <2>2. CASE r = q BY <2>1, <2>2 DEF Flows
  <2>3. CASE r # q
    <3>1. req'[r] = req[r] /\ caller'[r] = caller[r] BY <2>1, <2>3, ShutLeaves
    <3>2. Steady(r) BY <2>1, <2>3, <3>1 DEF Steady, Carried, Carries
    <3> QED BY <1>1, <3>2
  <2> QED BY <2>2, <2>3
<1>5. CASE SendCheck(q)
  <2>1. CASE SendRefused(q) BY <1>4, <1>5, <2>1 DEF SendCheck
  <2>2. CASE ~SendRefused(q)
    <3>1. /\ UNCHANGED <<got, sent, peer, req, reader, pending>>
          /\ caller[q] = "armed" /\ caller' = [caller EXCEPT ![q] = "sending"]
      BY <1>5, <2>2 DEF SendCheck, peerVars
    <3>2. Steady(r) BY <3>1 DEF Steady, Carried, Carries
    <3> QED BY <1>1, <3>2
  <2> QED BY <2>1, <2>2
<1>6. CASE ChannelClosed(q) \/ CtxAbort(q) \/ CancelCtx(q)
  <2>1. /\ UNCHANGED <<got, sent, peer, req, reader, pending>>
        /\ UNCHANGED caller \/ caller' = [caller EXCEPT ![q] = "done"]
    BY <1>6 DEF ChannelClosed, CtxAbort, CancelCtx, Return, peerVars
  <2>2. Steady(r) BY <2>1 DEF Steady, Carried, Carries
  <2> QED BY <1>1, <2>2
<1>7. CASE AfterTake(q)
  <2>1. /\ UNCHANGED <<got, sent, peer, req, reader, caller, ctx>>
        /\ ctx[q] = "cancelled" /\ pending' = pending \ {q}
    BY <1>7 DEF AfterTake, peerVars, callerVars
  <2>2. CASE r = q BY <2>1, <2>2 DEF Flows, Standing
  <2>3. CASE r # q
    <3>1. Steady(r) BY <2>1, <2>3 DEF Steady, Carried, Carries
    <3> QED BY <1>1, <3>1
  <2> QED BY <2>2, <2>3
<1>8. CASE AfterCancel(q)
  <2>1. /\ UNCHANGED <<got, sent, peer, reader, caller, ctx, pending>>
        /\ ctx[q] = "cancelled" /\ cancel(q)
    BY <1>8 DEF AfterCancel, peerVars, callerVars, ToldInv, Armed
  <2>2. CASE r = q BY <2>1, <2>2 DEF Flows, Standing
  <2>3. CASE r # q
    <3>1. req'[r] = req[r] BY <2>1, <2>3, ShutLeaves
    <3>2. Steady(r) BY <2>1, <3>1 DEF Steady, Carried, Carries
    <3> QED BY <1>1, <3>2
  <2> QED BY <2>2, <2>3
<1> QED BY <1>2, <1>3, <1>4, <1>5, <1>6, <1>7, <1>8 DEF SendFails

(* Nor do those of the reader outside a delivery. *)
LEMMA ReaderFlows ==
    ASSUME TypeOK, AnswerInv, ToldInv, FlowInv, Forward, NEW r \in Requests,
           Lock \/ Drop \/ ReaderTake \/ ReaderFinish \/ ReadFails \/ RunReturns
    PROVE  Flows(r)'
<1> USE DEF TypeOK
<1> SUFFICES ASSUME Standing(r)', caller'[r] # "done" PROVE Steady(r)
  BY SteadyFlows DEF FlowInv
<1>a. Standing(r) /\ caller[r] # "done" BY DEF Standing, Forward, CallerType
<1>b. req[r].closed => req[r].terminal BY <1>a DEF FlowInv, Flows
<1>c. Dispatching => reader.req \in Requests BY DEF ReaderType
<1>1. UNCHANGED <<got, sent, peer, caller>>
  BY DEF Lock, Drop, ReaderTake, ReaderFinish, ReadFails, RunReturns, callerVars, peerVars
<1>2. CASE Lock
  <2>1. UNCHANGED <<req, pending>> /\ reader.at = "locking" BY <1>2 DEF Lock
  <2>2. Carried(r)' = Carried(r)
    <3>1. CASE reader' = [reader EXCEPT !.at = "delivering"]
      BY <2>1, <3>1 DEF Carried, Carries, ReaderType
    <3>2. CASE Delivered(FALSE) /\ (req[reader.req].closed \/ req[reader.req].terminal)
      <4>1. reader.req # r BY <1>b, <2>1, <3>2 DEF ToldInv, Undelivered
      <4>2. reader'.at \notin {"locking", "delivering"} BY <3>2, DeliveredLeaves
      <4> QED BY <4>1, <4>2 DEF Carried, Carries
    <3> QED BY <1>2, <3>1, <3>2 DEF Lock
  <2> QED BY <1>1, <2>1, <2>2 DEF Steady
<1>3. CASE Drop
  <2>1. UNCHANGED <<req, pending>> /\ reader.at = "delivering" BY <1>3 DEF Drop
  <2>2. reader.req # r BY <1>3, <1>a DEF Drop, GivesUp, Standing
  <2>3. reader'.at \notin {"locking", "delivering"} BY <1>3, DeliveredLeaves DEF Drop
  <2>4. Carried(r)' = Carried(r) BY <2>2, <2>3 DEF Carried, Carries
  <2> QED BY <1>1, <2>1, <2>4 DEF Steady
<1>4. CASE ReaderTake
  <2>1. /\ UNCHANGED req /\ reader.at = "taking" /\ pending' = pending \ {reader.req}
        /\ reader'.at \notin {"locking", "delivering"}
    BY <1>4 DEF ReaderTake, Idle, ReaderType
  <2>2. Carried(r)' = Carried(r) BY <2>1 DEF Carried, Carries
  <2>3. peer[reader.req] \in Terminal
    BY <2>1 DEF ToldInv, Outcome, AnswerInv, PeerInv, Dispatching
  <2> QED BY <1>1, <2>1, <2>2, <2>3 DEF Steady
<1>5. CASE ReaderFinish
  <2> DEFINE q == reader.req
  <2>1. /\ UNCHANGED pending /\ reader.at = "finishing" /\ reader' = Idle /\ q \in Requests
        /\ close(q) \/ cancel(q) \/ cancelWithError(q)
        /\ IF reader.ok THEN req[q].terminal ELSE GivesUp(q) \/ req[q].closed
    BY <1>5, <1>c DEF ReaderFinish, Dispatching, ToldInv, Outcome
  <2>2. Carried(r)' = Carried(r) BY <2>1 DEF Carried, Carries, Idle
  <2>3. \A p \in Requests : req'[p].terminal = req[p].terminal BY <2>1, ShutIsShut
  <2>4. CASE q # r
    <3>1. req'[r] = req[r] BY <2>1, <2>4, ShutLeaves
    <3> QED BY <1>1, <2>1, <2>2, <3>1 DEF Steady
  <2>5. CASE q = r
    <3>1. req[r].terminal BY <1>a, <1>b, <2>1, <2>5 DEF GivesUp, Standing
    <3>2. req'[r].ch = req[r].ch BY <2>1, <2>5, <3>1, ShutIsShut
    <3> QED BY <1>1, <2>1, <2>2, <2>3, <3>1, <3>2 DEF Steady
  <2> QED BY <2>4, <2>5
<1>6. CASE ReadFails \/ RunReturns
  <2>1. /\ UNCHANGED <<req, pending>> /\ reader.at \in {"reading", "cleaning"}
        /\ \E at \in {"cleaning", "off"} : reader' = [Idle EXCEPT !.at = at]
    BY <1>6 DEF ReadFails, RunReturns
  <2>2. Carried(r)' = Carried(r) BY <2>1 DEF Carried, Carries, Idle
  <2> QED BY <1>1, <2>1, <2>2 DEF Steady
<1> QED BY <1>2, <1>3, <1>4, <1>5, <1>6

(* Every step accounts for the chunks of every answer. *)
LEMMA FlowStep == ASSUME TypeOK, AnswerInv, ToldInv, FlowInv, Next PROVE FlowInv'
<1>1. Forward BY ForwardStep
<1>2. Carries(reader.req)' => peer'[reader'.req] = "serving" BY CarriesStep DEF FlowInv
<1>3. victim' # None => closed' BY <1>1, VictimStep DEF FlowInv
<1>4. ASSUME NEW r \in Requests PROVE Flows(r)' /\ Whole(r)'
  <2>1. Flows(r) /\ Whole(r) BY DEF FlowInv
  <2>2. peer[r] \in Terminal => peer'[r] = peer[r] /\ sent'[r] = sent[r] BY PeerForward
  <2>3. ASSUME result'[r] = "complete" => result[r] = "complete" /\ got'[r] = got[r]
        PROVE  Whole(r)'
    BY <1>1, <2>1, <2>2, <2>3, WholeStays
  <2>4. ASSUME NEW q \in Requests,
               \/ Send(q) \/ NotConnected(q) \/ Request(q) \/ Arm(q) \/ SendOk(q) \/ SendCheck(q)
               \/ SendFails(q) \/ ChannelClosed(q) \/ CtxAbort(q) \/ CancelCtx(q)
               \/ AfterTake(q) \/ AfterCancel(q)
        PROVE  Flows(r)' /\ Whole(r)'
    <3>1. Flows(r)' BY <1>1, <2>4, CallersFlow
    <3>2. result'[r] = "complete" => result[r] = "complete" /\ got'[r] = got[r]
      BY <2>4 DEF Send, NotConnected, Request, Arm, SendOk, SendCheck, SendFails, Unsend,
                  ChannelClosed, CtxAbort, CancelCtx, AfterTake, AfterCancel, Return, callerVars,
                  TypeOK, CallerType
    <3> QED BY <2>3, <3>1, <3>2
  <2>5. ASSUME NEW q \in Requests, Receive(q) PROVE Flows(r)' /\ Whole(r)'
    <3>1. CASE q = r BY <1>1, <2>5, <3>1, ReceiveFlows
    <3>2. CASE q # r
      <4>1. /\ UNCHANGED <<reader, peer, sent, pending>> /\ req'[r] = req[r]
            /\ got'[r] = got[r] /\ result'[r] = result[r] /\ caller'[r] = caller[r]
        BY <2>5, <3>2 DEF Receive, Return, peerVars, TypeOK, CallerType, RequestType
      <4>2. Steady(r) BY <4>1 DEF Steady, Carried, Carries
      <4> QED BY <1>1, <2>1, <2>3, <4>1, <4>2, SteadyFlows
    <3> QED BY <3>1, <3>2
  <2>6. ASSUME NEW q \in Requests, NEW f \in Frames, ReadFrame(q, f) PROVE Flows(r)' /\ Whole(r)'
    <3>1. UNCHANGED <<result, got>> BY <2>6 DEF ReadFrame, callerVars
    <3> QED BY <1>1, <2>3, <2>6, <3>1, ReadFlows
  <2>7. CASE Put
    <3>1. UNCHANGED <<result, got>> BY <2>7 DEF Put, callerVars
    <3> QED BY <1>1, <2>3, <2>7, <3>1, PutFlows
  <2>8. CASE Lock \/ Drop \/ ReaderTake \/ ReaderFinish \/ ReadFails \/ RunReturns
    <3>1. UNCHANGED <<result, got>>
      BY <2>8 DEF Lock, Drop, ReaderTake, ReaderFinish, ReadFails, RunReturns, callerVars
    <3> QED BY <1>1, <2>3, <2>8, <3>1, ReaderFlows
  <2>9. CASE Stop \/ CleanupBegin
    <3>1. UNCHANGED <<req, pending, reader, callerVars, peerVars>>
      BY <2>9 DEF Stop, CleanupBegin
    <3>2. Steady(r) BY <3>1 DEF Steady, Carried, Carries, callerVars, peerVars
    <3> QED BY <1>1, <2>1, <2>3, <3>1, <3>2, SteadyFlows DEF callerVars
  <2>10. CASE CleanupStep
    <3>1. closed /\ UNCHANGED <<result, got>>
      BY <2>10 DEF CleanupStep, CleanupRange, CleanupTake, CleanupCancel, CleanupConn,
                   handleSessionClosed, closed, callerVars, FlowInv
    <3>2. ~Standing(r)' BY <1>1, <3>1 DEF Standing, Forward
    <3> QED BY <2>3, <3>1, <3>2 DEF Flows
  <2> QED BY <2>4, <2>5, <2>6, <2>7, <2>8, <2>9, <2>10
          DEF Next, Write, Consume, Callback, Deliver
<1> QED BY <1>2, <1>3, <1>4 DEF FlowInv

(* What a caller is told is true, for any capacity and any number of chunks: a closed    *)
(* channel without an answer means that its context was cancelled, and a complete answer *)
(* of an open session had every chunk, however slow its consumer was.                    *)
THEOREM WholeCorrect == Spec => []AnswersAreWhole
<1> DEFINE Inv == AnswerInv /\ ToldInv /\ FlowInv
<1>1. Init => Inv
  <2> SUFFICES ASSUME Init PROVE Inv OBVIOUS
  <2>1. AnswerInv
    BY DEF Init, AnswerInv, OnlyChunks, PeerInv, NotEnded, NoSendOnClosed, AnswerStays,
           Dispatching, Idle
  <2>2. ToldInv
    BY DEF Init, ToldInv, Armed, Undelivered, Outcome, Told, NoSilentClose, Idle, None
  <2>3. FlowInv
    BY DEF Init, FlowInv, Flows, Whole, Carried, Carries, Ended, Idle, None
  <2> QED BY <2>1, <2>2, <2>3
<1>2. Inv /\ UNCHANGED vars => Inv'
  <2> SUFFICES ASSUME Inv, UNCHANGED vars PROVE Inv' OBVIOUS
  <2> USE DEF vars, sessionVars, callerVars, peerVars
  <2>1. AnswerInv'
    BY DEF AnswerInv, OnlyChunks, PeerInv, NotEnded, NoSendOnClosed, AnswerStays, Dispatching
  <2>2. ToldInv'
    BY DEF ToldInv, Armed, Undelivered, Outcome, Told, NoSilentClose, GivesUp, closed
  <2>3. FlowInv'
    BY DEF FlowInv, Flows, Whole, Standing, Carried, Carries, Ended, closed
  <2> QED BY <2>1, <2>2, <2>3
<1>3. TypeOK /\ Inv /\ [Next]_vars => Inv' BY <1>2, AnswerStep, ToldStep, FlowStep
<1>4. Inv => AnswersAreWhole
  BY DEF ToldInv, FlowInv, AnswersAreWhole, WholeWhileOpen, Whole, Standing
<1> HIDE DEF Inv
<1> QED BY <1>1, <1>3, <1>4, TypeCorrect, PTL DEF Spec
=============================================================================
