------------------------- MODULE MCCallerCredential -------------------------
EXTENDS CallerCredential, TLC

CONSTANTS ann, ben, eve
\* Two people bound to a traveler each, and one bound to both.
BoundTravelers == (ann :> {"v"}) @@ (ben :> {"w"}) @@ (eve :> {"v", "w"})
\* Bound: while a second turn goes on, every turn is a concierge's before its Runtime calls a tool.
Together == \A t \in Turns : turn[t].stage # "idle"
Bounded == Together => /\ now <= 1 /\ design = "interceptor" /\ \A r \in runs : r.calls = 0
                       /\ \A t \in Turns : turn[t].kind # "workflow"
Symmetry == Permutations(Turns)
=============================================================================
