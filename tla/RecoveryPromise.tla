--------------------------- MODULE RecoveryPromise ---------------------------
(***************************************************************************)
(* What a recovery promises of its hold: no request is saved before the    *)
(* traveler answered, the saved request never changes, it is booked at     *)
(* most once and for the package of the saved plan, and a booking that was *)
(* given back is not taken again.                                          *)
(***************************************************************************)
CONSTANTS Requests, None

VARIABLES
    asked,      \* the traveler answered a review or a confirmation
    request,    \* the hold request of the saved plan
    booked      \* the bookings, as <<request, status>>

vars == <<asked, request, booked>>

Init == asked = FALSE /\ request = None /\ booked = {}

Answer  == asked' = TRUE /\ UNCHANGED <<request, booked>>

Save(r) == /\ asked /\ request = None
           /\ request' = r
           /\ UNCHANGED <<asked, booked>>

Book == /\ request # None /\ booked = {}
        /\ booked' = {<<request, "held">>}
        /\ UNCHANGED <<asked, request>>

GiveBack == /\ booked = {<<request, "held">>}
            /\ booked' = {<<request, "released">>}
            /\ UNCHANGED <<asked, request>>

Next == Answer \/ (\E r \in Requests : Save(r)) \/ Book \/ GiveBack

Spec == Init /\ [][Next]_vars
=============================================================================
