--------------------------- MODULE MCSessionCache ---------------------------
(* A small instance of SessionCache for TLC. *)
EXTENDS SessionCache

CONSTANTS x1, x2, p1, p2, a1, a2, s1, s2, pa, pb

MCProviderOf == [a \in {a1, a2} |-> IF a = a1 THEN pa ELSE pb]

(* Two sessions, each with a stable and a prompt cache alias. *)
MCSessionOf == [x \in {x1, x2, p1, p2} |-> IF x \in {x1, p1} THEN s1 ELSE s2]

(* Credentials may be exchanged together with their providers, and the      *)
(* sessions together with their aliases.                                    *)
Exchange(auths, aliases) ==
    (IF auths THEN a1 :> a2 @@ a2 :> a1 @@ pa :> pb @@ pb :> pa
              ELSE a1 :> a1) @@
    (IF aliases THEN p1 :> p2 @@ p2 :> p1 @@ x1 :> x2 @@ x2 :> x1
                         @@ s1 :> s2 @@ s2 :> s1
                ELSE p1 :> p1)
Symmetry == {Exchange(auths, aliases) : auths, aliases \in BOOLEAN}

=============================================================================
