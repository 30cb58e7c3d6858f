---------------------------- MODULE RelaySession ----------------------------
(***************************************************************************)
(* One websocket session of the relay (internal/wsrelay/session.go) and    *)
(* the requests of the proxy that travel over it: the callers that store a *)
(* pending request and read its channel, the reader that dispatches frames *)
(* into the bounded channels while holding the request's mutex, the        *)
(* cancellation callbacks of the request contexts, and the cleanup that    *)
(* whoever first sees the connection fail, or the manager when it stops,   *)
(* runs once.  Identifiers are fresh UUIDs, so a request stands for its    *)
(* identifier and for its pendingRequest, and the branch of request that   *)
(* meets a duplicate is left out.  The channel pr.done is left out as well:*)
(* it is closed under the mutex that the only select on it holds.          *)
(***************************************************************************)
EXTENDS Integers, Sequences, FiniteSets

CONSTANTS
    Requests,   \* the requests of the proxy to this provider
    Capacity,   \* pendingChannelBuffer
    MaxChunks   \* bound on the chunks the provider sends for a request

ASSUME CapacityAssumption == Capacity \in Nat \ {0}
ASSUME MaxChunksAssumption == MaxChunks \in Nat
ASSUME RequestsAssumption == "none" \notin Requests   \* None is no request

VARIABLES
    cleanup, unvisited, victim, stopping,
                \* the closeOnce body, what Range has left, the request it took;
                \* Manager.Stop has dropped the session from its table
    pending,    \* the keys of s.pending
    req,        \* per request: closed, terminal and the channel ch
    caller, ctx, after, result, got,
                \* per request: the caller's position, its context, the AfterFunc
                \* callback, what the caller returned and the chunks it received
    reader,     \* the goroutine of run: its position, request, frame and outcome
    peer, sent  \* external: the provider's side of a request (the frame that ended
                \* it when it has), chunks it has sent

sessionVars == <<cleanup, unvisited, victim, stopping>>
callerVars == <<caller, ctx, result, got>>
peerVars == <<peer, sent>>
vars == <<sessionVars, pending, req, callerVars, after, reader, peerVars>>

None == "none"
Terminal == {"end", "error"}    \* http_response and stream_end both end an answer
Frames == {"chunk"} \cup Terminal
closed == cleanup # "no"                        \* the channel s.closed
connClosed == cleanup \in {"unlisting", "done"}
listed == ~stopping /\ cleanup # "done"         \* Manager.session finds it
Idle == [at |-> "reading", req |-> None, frame |-> None, ok |-> FALSE]

(* Mutant: the critical sections of pr.mu do not exclude deliver. *)
MuIgnored(r) == TRUE

(* pr.mu: every critical section is one step but deliver, which blocks inside it. *)
MuFree(r) == ~(reader.at = "delivering" /\ reader.req = r)

-----------------------------------------------------------------------------
(* pendingRequest: the three ways to close it. *)

Shut(r, ch) ==
    req' = IF req[r].closed THEN req
           ELSE [req EXCEPT ![r].closed = TRUE, ![r].ch = ch]

(* stopCancel, called by whoever closes: a callback not yet started never runs. *)
StopCancel(r) ==
    after' = IF req[r].closed THEN after
             ELSE [after EXCEPT ![r] = IF @ = "armed" THEN "over" ELSE @]

close(r) == Shut(r, req[r].ch)

cancel(r) == Shut(r, req[r].ch)

(* Mutant: a full channel refuses the error. *)
WithErrorIfRoom(ch) == IF Len(ch) < Capacity THEN Append(ch, "error") ELSE ch

(* A full channel gives up its oldest frame for the error. *)
WithError(ch) == Append(IF Len(ch) < Capacity THEN ch ELSE Tail(ch), "error")

(* Mutant: an error is added to an answer that has already ended. *)
ErrorAlways(r) == TRUE

ErrorAllowed(r) == ~req[r].terminal

cancelWithError(r) ==
    Shut(r, IF ErrorAllowed(r) THEN WithError(req[r].ch) ELSE req[r].ch)

-----------------------------------------------------------------------------
(* The caller: Manager.Send, session.request, and the loop of NonStream or Stream. *)

Return(r, value) ==
    /\ caller' = [caller EXCEPT ![r] = "done"]
    /\ result' = [result EXCEPT ![r] = value]

Send(r) ==
    /\ caller[r] = "idle"
    /\ listed
    /\ caller' = [caller EXCEPT ![r] = "found"]
    /\ UNCHANGED <<sessionVars, pending, req, ctx, after, result, got, reader, peerVars>>

NotConnected(r) ==
    /\ caller[r] = "idle"
    /\ ~listed
    /\ Return(r, "failed")
    /\ UNCHANGED <<sessionVars, pending, req, ctx, after, got, reader, peerVars>>

(* LoadOrStore.  A Range that is under way may or may not visit the new key. *)
Request(r) ==
    /\ caller[r] = "found"
    /\ caller' = [caller EXCEPT ![r] = "stored"]
    /\ pending' = pending \cup {r}
    /\ \/ UNCHANGED unvisited
       \/ cleanup = "ranging" /\ unvisited' = unvisited \cup {r}
    /\ UNCHANGED <<cleanup, victim, stopping, req, ctx, after, result, got, reader, peerVars>>

Arm(r) ==
    /\ caller[r] = "stored"
    /\ caller' = [caller EXCEPT ![r] = "armed"]
    /\ after' = [after EXCEPT ![r] = "armed"]
    /\ UNCHANGED <<sessionVars, pending, req, ctx, result, got, reader, peerVars>>

(* What request does when send returned an error. *)
Unsend(r) ==
    /\ IF r \in pending
       THEN MuFree(r) /\ close(r) /\ StopCancel(r)
       ELSE UNCHANGED <<req, after>>
    /\ pending' = pending \ {r}
    /\ Return(r, "failed")
    /\ UNCHANGED <<sessionVars, ctx, got, reader, peerVars>>

(* Mutant: send does not look at s.closed. *)
SendNotRefused(r) == FALSE

SendRefused(r) == closed

SendCheck(r) ==
    /\ caller[r] = "armed"
    /\ IF SendRefused(r)
       THEN Unsend(r)
       ELSE /\ caller' = [caller EXCEPT ![r] = "sending"]
            /\ UNCHANGED <<sessionVars, pending, req, ctx, after, result, got, reader, peerVars>>

SendOk(r) ==
    /\ caller[r] = "sending"
    /\ ~connClosed
    /\ caller' = [caller EXCEPT ![r] = "waiting"]
    /\ peer' = [peer EXCEPT ![r] = "serving"]
    /\ UNCHANGED <<sessionVars, pending, req, ctx, after, result, got, reader, sent>>

SendFails(r) ==
    /\ caller[r] = "sending"
    /\ Unsend(r)

Answer(frame) == IF frame = "end" THEN "complete" ELSE "error"

Receive(r) ==
    /\ caller[r] = "waiting"
    /\ req[r].ch # <<>>
    /\ req' = [req EXCEPT ![r].ch = Tail(@)]
    /\ IF Head(req[r].ch) = "chunk"
       THEN got' = [got EXCEPT ![r] = @ + 1] /\ UNCHANGED <<caller, result>>
       ELSE Return(r, Answer(Head(req[r].ch))) /\ UNCHANGED got
    /\ UNCHANGED <<sessionVars, pending, ctx, after, reader, peerVars>>

(* The channel is closed and empty: NonStream returns what it has, Stream an error. *)
ChannelClosed(r) ==
    /\ caller[r] = "waiting"
    /\ req[r].closed
    /\ req[r].ch = <<>>
    /\ Return(r, "eof")
    /\ UNCHANGED <<sessionVars, pending, req, ctx, after, got, reader, peerVars>>

CtxAbort(r) ==
    /\ caller[r] = "waiting"
    /\ ctx[r] = "cancelled"
    /\ Return(r, "aborted")
    /\ UNCHANGED <<sessionVars, pending, req, ctx, after, got, reader, peerVars>>

-----------------------------------------------------------------------------
(* The request's context, and the callback request registered with AfterFunc. *)

CancelCtx(r) ==
    /\ ctx[r] = "live"
    /\ ctx' = [ctx EXCEPT ![r] = "cancelled"]
    /\ UNCHANGED <<sessionVars, pending, req, caller, after, result, got, reader, peerVars>>

AfterTake(r) ==
    /\ ctx[r] = "cancelled"
    /\ after[r] = "armed"
    /\ after' = [after EXCEPT ![r] = IF r \in pending THEN "taken" ELSE "over"]
    /\ pending' = pending \ {r}
    /\ UNCHANGED <<sessionVars, req, callerVars, reader, peerVars>>

AfterCancel(r) ==
    /\ after[r] = "taken"
    /\ MuFree(r)
    /\ cancel(r)
    /\ after' = [after EXCEPT ![r] = "over"]
    /\ UNCHANGED <<sessionVars, pending, callerVars, reader, peerVars>>

-----------------------------------------------------------------------------
(* The reader: run reads a frame and dispatch carries it to its request.      *)

(* Until ReadJSON fails it may still return frames received before the close. *)
ReadFrame(r, f) ==
    /\ reader.at = "reading"
    /\ peer[r] = "serving"
    /\ IF f = "chunk"
       THEN sent[r] < MaxChunks /\ sent' = [sent EXCEPT ![r] = @ + 1] /\ UNCHANGED peer
       ELSE peer' = [peer EXCEPT ![r] = f] /\ UNCHANGED sent
    /\ reader' = IF r \in pending
                 THEN [at |-> "locking", req |-> r, frame |-> f, ok |-> FALSE]
                 ELSE Idle
    /\ UNCHANGED <<sessionVars, pending, req, callerVars, after>>

(* deliver and deliverTerminal return: a terminal frame goes on to LoadAndDelete. *)
Delivered(ok) ==
    reader' = IF reader.frame \in Terminal
              THEN [reader EXCEPT !.at = "taking", !.ok = ok]
              ELSE Idle

Lock ==
    /\ reader.at = "locking"
    /\ IF req[reader.req].closed \/ req[reader.req].terminal
       THEN Delivered(FALSE)
       ELSE reader' = [reader EXCEPT !.at = "delivering"]
    /\ UNCHANGED <<sessionVars, pending, req, callerVars, after, peerVars>>

Put ==
    /\ reader.at = "delivering"
    /\ Len(req[reader.req].ch) < Capacity
    /\ req' = [req EXCEPT ![reader.req].ch = Append(@, reader.frame),
                          ![reader.req].terminal = reader.frame \in Terminal]
    /\ Delivered(TRUE)
    /\ UNCHANGED <<sessionVars, pending, callerVars, after, peerVars>>

(* Mutant: the select of deliver has a default case, taken on a full channel. *)
GivesUpWhenFull(r) == closed \/ ctx[r] = "cancelled" \/ Len(req[r].ch) = Capacity

(* Mutant: the select does not wait for s.closed. *)
GivesUpOnCtxOnly(r) == ctx[r] = "cancelled"

(* Mutant: the select does not wait for the request's context. *)
GivesUpOnCloseOnly(r) == closed

(* The other cases of the select: any case that is ready may be taken. *)
GivesUp(r) == closed \/ ctx[r] = "cancelled"

Drop ==
    /\ reader.at = "delivering"
    /\ GivesUp(reader.req)
    /\ Delivered(FALSE)
    /\ UNCHANGED <<sessionVars, pending, req, callerVars, after, peerVars>>

ReaderTake ==
    /\ reader.at = "taking"
    /\ reader' = IF reader.req \in pending
                 THEN [reader EXCEPT !.at = "finishing"]
                 ELSE Idle
    /\ pending' = pending \ {reader.req}
    /\ UNCHANGED <<sessionVars, req, callerVars, after, peerVars>>

HasCause(r) == closed \/ ctx[r] = "cancelled" \/ reader.frame = "error"

ReaderFinish ==
    /\ reader.at = "finishing"
    /\ IF reader.ok THEN close(reader.req)
       ELSE IF HasCause(reader.req) THEN cancelWithError(reader.req)
       ELSE cancel(reader.req)
    /\ StopCancel(reader.req)
    /\ reader' = Idle
    /\ UNCHANGED <<sessionVars, pending, callerVars, peerVars>>

ReadFails ==
    /\ reader.at = "reading"
    /\ reader' = [Idle EXCEPT !.at = "cleaning"]
    /\ UNCHANGED <<sessionVars, pending, req, callerVars, after, peerVars>>

(* closeOnce.Do returns once the body has run, whoever ran it. *)
RunReturns ==
    /\ reader.at = "cleaning"
    /\ cleanup = "done"
    /\ reader' = [Idle EXCEPT !.at = "off"]
    /\ UNCHANGED <<sessionVars, pending, req, callerVars, after, peerVars>>

-----------------------------------------------------------------------------
(* Closing the session.  Manager.Stop, a heartbeat that cannot be written and *)
(* the reader all call cleanup; the first one runs it.                        *)

Stop ==
    /\ listed
    /\ stopping' = TRUE
    /\ UNCHANGED <<cleanup, unvisited, victim, pending, req, callerVars, after, reader, peerVars>>

(* close(s.closed) *)
CleanupBegin ==
    /\ cleanup = "no"
    /\ cleanup' = "closed"
    /\ UNCHANGED <<unvisited, victim, stopping, pending, req, callerVars, after, reader, peerVars>>

(* Range visits every key that is there when it begins. *)
CleanupRange ==
    /\ cleanup = "closed"
    /\ cleanup' = "ranging"
    /\ unvisited' = pending
    /\ UNCHANGED <<victim, stopping, pending, req, callerVars, after, reader, peerVars>>

CleanupTake(r) ==
    /\ cleanup = "ranging"
    /\ victim = None
    /\ r \in unvisited
    /\ unvisited' = unvisited \ {r}
    /\ victim' = IF r \in pending THEN r ELSE None
    /\ pending' = pending \ {r}
    /\ UNCHANGED <<cleanup, stopping, req, callerVars, after, reader, peerVars>>

CleanupCancel ==
    /\ victim # None
    /\ MuFree(victim)
    /\ cancelWithError(victim)
    /\ StopCancel(victim)
    /\ victim' = None
    /\ UNCHANGED <<cleanup, unvisited, stopping, pending, callerVars, reader, peerVars>>

(* conn.Close *)
CleanupConn ==
    /\ cleanup = "ranging"
    /\ unvisited = {}
    /\ victim = None
    /\ cleanup' = "unlisting"
    /\ UNCHANGED <<unvisited, victim, stopping, pending, req, callerVars, after, reader, peerVars>>

handleSessionClosed ==
    /\ cleanup = "unlisting"
    /\ cleanup' = "done"
    /\ UNCHANGED <<unvisited, victim, stopping, pending, req, callerVars, after, reader, peerVars>>

-----------------------------------------------------------------------------
Init ==
    /\ cleanup = "no" /\ unvisited = {} /\ victim = None /\ stopping = FALSE
    /\ pending = {}
    /\ req = [r \in Requests |-> [closed |-> FALSE, terminal |-> FALSE, ch |-> <<>>]]
    /\ caller = [r \in Requests |-> "idle"]
    /\ ctx = [r \in Requests |-> "live"]
    /\ after = [r \in Requests |-> "none"]
    /\ result = [r \in Requests |-> None]
    /\ got = [r \in Requests |-> 0]
    /\ reader = Idle
    /\ peer = [r \in Requests |-> None]
    /\ sent = [r \in Requests |-> 0]

Write(r) == SendOk(r) \/ SendFails(r)
Consume(r) == Receive(r) \/ ChannelClosed(r) \/ CtxAbort(r)
Callback(r) == AfterTake(r) \/ AfterCancel(r)
Deliver == Put \/ Drop
CleanupStep ==
    \/ CleanupRange
    \/ \E r \in Requests : CleanupTake(r)
    \/ CleanupCancel
    \/ CleanupConn
    \/ handleSessionClosed

Next ==
    \/ \E r \in Requests :
          \/ Send(r) \/ NotConnected(r) \/ Request(r) \/ Arm(r) \/ SendCheck(r)
          \/ Write(r) \/ Consume(r) \/ CancelCtx(r) \/ Callback(r)
          \/ \E f \in Frames : ReadFrame(r, f)
    \/ Lock \/ Deliver \/ ReaderTake \/ ReaderFinish \/ ReadFails \/ RunReturns
    \/ Stop \/ CleanupBegin \/ CleanupStep

Spec == Init /\ [][Next]_vars

(* Goroutines run on until they wait for something.  Nothing is assumed of   *)
(* the provider, of the connection while it is open or of the consumers.  A  *)
(* write ends within writeTimeout, a read of a closed connection fails, and  *)
(* Stop and a reader that failed go on to call cleanup.                      *)
Fairness ==
    /\ \A r \in Requests : WF_vars(Request(r) \/ Arm(r) \/ SendCheck(r) \/ Write(r))
    /\ \A r \in Requests : WF_vars(Callback(r))
    /\ WF_vars(Lock \/ Deliver \/ ReaderTake \/ ReaderFinish \/ RunReturns)
    /\ WF_vars(connClosed /\ ReadFails)
    /\ WF_vars((stopping \/ reader.at = "cleaning") /\ CleanupBegin)
    /\ WF_vars(CleanupStep)

FairSpec == Spec /\ Fairness

-----------------------------------------------------------------------------
SessionType ==
    /\ cleanup \in {"no", "closed", "ranging", "unlisting", "done"}
    /\ unvisited \subseteq Requests
    /\ victim \in Requests \cup {None}
    /\ stopping \in BOOLEAN
    /\ pending \subseteq Requests

RequestType ==
    /\ req \in [Requests -> [closed : BOOLEAN, terminal : BOOLEAN, ch : Seq(Frames)]]
    /\ \A r \in Requests : Len(req[r].ch) =< Capacity

CallerType ==
    /\ caller \in [Requests ->
          {"idle", "found", "stored", "armed", "sending", "waiting", "done"}]
    /\ ctx \in [Requests -> {"live", "cancelled"}]
    /\ after \in [Requests -> {"none", "armed", "taken", "over"}]
    /\ result \in [Requests -> {None, "failed", "complete", "error", "eof", "aborted"}]
    /\ got \in [Requests -> Nat]
    /\ peer \in [Requests -> {None, "serving"} \cup Terminal]
    /\ sent \in [Requests -> 0..MaxChunks]

(* While it dispatches, the reader has a request and a frame for it. *)
Dispatching == reader.at \in {"locking", "delivering", "taking", "finishing"}

ReaderType ==
    /\ reader \in [at : {"reading", "locking", "delivering", "taking", "finishing",
                         "cleaning", "off"},
                   req : Requests \cup {None}, frame : Frames \cup {None}, ok : BOOLEAN]
    /\ Dispatching => reader.req \in Requests /\ reader.frame \in Frames

TypeOK == SessionType /\ RequestType /\ CallerType /\ ReaderType

(* No goroutine closes a channel on which the reader is blocked in a send, which *)
(* would panic: the reader holds the request's mutex for as long as it blocks.   *)
NoSendOnClosed == reader.at = "delivering" => ~req[reader.req].closed

(* Once the reader has delivered the frame that ends an answer, its caller finds  *)
(* that frame, behind nothing but chunks and before nothing: a cleanup or a       *)
(* cancellation that races the reader neither displaces it nor adds an error.     *)
AnswerStays ==
    \A r \in Requests : req[r].terminal /\ caller[r] = "waiting" =>
        LET ch == req[r].ch IN
        /\ ch # <<>>
        /\ ch[Len(ch)] = peer[r]
        /\ \A i \in 1..(Len(ch) - 1) : ch[i] = "chunk"

(* When cleanup is done, a request still in the table belongs to a caller that *)
(* has yet to see the session closed in send and will take it out itself.      *)
NoStranded ==
    cleanup = "done" => \A r \in pending : caller[r] \in {"stored", "armed"}

(* A caller finds its channel closed without an answer or an error only when its *)
(* context was cancelled, also when the channel was full at the time.            *)
NoSilentClose ==
    \A r \in Requests : result[r] = "eof" => ctx[r] = "cancelled"

(* While the session is open and the context lives, an answer that ended normally *)
(* had all the chunks the provider sent, however slow the consumer was.           *)
WholeWhileOpen ==
    \A r \in Requests :
        result[r] = "complete" /\ ctx[r] = "live" /\ ~closed => got[r] = sent[r]

(* The same with the session closing at any time: dispatch loses no frame of an *)
(* answer that ends normally.                                                   *)
NoSilentFrameLoss ==
    \A r \in Requests :
        result[r] = "complete" /\ ctx[r] = "live" => got[r] = sent[r]

(* What a caller is told is true: neither an answer nor a close of its channel   *)
(* hides that something is missing while the session is open.                    *)
AnswersAreWhole == NoSilentClose /\ WholeWhileOpen

(* Once the session closes or the manager stops, cleanup ends and the reader *)
(* returns, even if every consumer has stopped reading its full channel.     *)
SessionEnds == (closed \/ stopping) ~> (cleanup = "done" /\ reader.at = "off")

(* A request that waits when the session closes or its context is cancelled has *)
(* its channel closed, even if the reader is blocked on its full channel.       *)
WaitersReleased ==
    \A r \in Requests :
        (caller[r] = "waiting" /\ (closed \/ ctx[r] = "cancelled")) ~> req[r].closed

(* Nobody waits for ever on a session that is over: neither its own goroutines  *)
(* nor the callers, whichever of them is blocked on a full channel.             *)
SessionSettles == SessionEnds /\ WaitersReleased

=============================================================================
