----------------------------- MODULE MCRecovery -----------------------------
(* Workers are interchangeable, for the safety runs only. *)
EXTENDS Recovery, TLC
CONSTANTS w1, w2, w3, p1, p2

\* A run that stopped to ask for the confirmation, and is over: the state a resume starts from.
InitPaused ==
    /\ execution = [w \in Workers |-> "none"] /\ lapsed = {}
    /\ snap = [Fresh("recovery") EXCEPT !.done = 3, !.pause = "confirm"]
    /\ bookings = [w \in Workers |-> "none"] /\ journeyLock = None
    /\ pc = [w \in Workers |-> "idle"]
    /\ cmd = [w \in Workers |-> NoCommand]
    /\ graph = [w \in Workers |-> Fresh("recovery")]
    /\ confirmed = [w \in Workers |-> FALSE]
    /\ call = [w \in Workers |-> "none"] /\ asks = [w \in Workers |-> None] /\ timely = {}
    /\ consented = FALSE /\ placer = None
PausedSpec == InitPaused /\ [][Next]_vars
EitherSpec == (Init \/ InitPaused) /\ [][Next]_vars

\* Its confirmation was answered and its request saved; the worker that sent the hold then died.
InitInFlight ==
    /\ execution = [w \in Workers |-> IF w = w1 THEN "running" ELSE "none"] /\ lapsed = {}
    /\ snap = [Fresh("recovery") EXCEPT !.done = 4, !.pause = "confirm", !.answered = TRUE,
                                        !.intent = w1, !.package = Top]
    /\ bookings = [w \in Workers |-> "none"] /\ journeyLock = None
    /\ pc = [w \in Workers |-> IF w = w1 THEN "dead" ELSE "idle"]
    /\ cmd = [w \in Workers |-> NoCommand]
    /\ graph = [w \in Workers |-> Fresh("recovery")]
    /\ confirmed = [w \in Workers |-> FALSE]
    /\ call = [w \in Workers |-> IF w = w1 THEN "hold" ELSE "none"]
    /\ asks = [w \in Workers |-> IF w = w1 THEN w1 ELSE None] /\ timely = {}
    /\ consented = TRUE /\ placer = None

Symmetry == Permutations(Workers)
=============================================================================
