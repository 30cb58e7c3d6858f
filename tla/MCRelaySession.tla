--------------------------- MODULE MCRelaySession ---------------------------
(***************************************************************************)
(* Small instances of RelaySession.  Either one request is made, with an    *)
(* answer longer than its channel, or several share the reader, each with   *)
(* a short answer and none of them cancelled.                               *)
(***************************************************************************)
EXTENDS RelaySession

VARIABLE alone      \* the request of a behaviour that has only one

Within ==
    IF alone # None THEN \A r \in Requests \ {alone} : caller[r] = "idle"
    ELSE \A r \in Requests : sent[r] <= 1 /\ ctx[r] = "live"

MCInit == Init /\ alone \in {CHOOSE r \in Requests : TRUE, None}
MCNext == Next /\ UNCHANGED alone /\ Within'

MCSpec == MCInit /\ [][MCNext]_<<vars, alone>> /\ Fairness
=============================================================================
