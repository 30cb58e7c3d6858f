--------------------------- MODULE MCMetadataSave ---------------------------
(* Small instances of MetadataSave for TLC, all explored by one run: which  *)
(* of them a behaviour belongs to is chosen at the start and only decides   *)
(* which mutations are called and which hints are found.                    *)
EXTENDS MetadataSave

CONSTANTS c1, c2, f1, f2

VARIABLE alone      \* one credential, two mutations and every revision of its
                    \* hints; otherwise two credentials, a mutation of one of
                    \* them and one revision of each

MCCredOf == [f \in Fg |-> c1]

MCInit == Init /\ alone \in BOOLEAN

MCNext ==
    /\ UNCHANGED alone
    /\ \/ \E f \in Fg : FgNext(f) /\ (fg[f].pc = "idle" => alone \/ f = f1)
       \/ \E c \in Cred : BgNext(c) \/ Queue(c)
       \/ \E c \in Cred : NewHints(c) /\ IF alone THEN c = c1 ELSE rev[c] = 0

MCSpec == MCInit /\ [][MCNext]_<<vars, alone>> /\ Fairness

=============================================================================
