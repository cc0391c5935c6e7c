-------------------- MODULE MCLocks -----------------------------------------
(* The locks of Aurora end every wait for them: of the execution row, of the *)
(* journey and of a request id.                                            *)
(* Each behaviour is of one component, which it picks at its first state;  *)
(* the components share nothing, so the places s1, s2, ... hold the        *)
(* variables of that one.                                                  *)
EXTENDS Naturals, Sequences, FiniteSets, TLC

CONSTANTS None, w1, w2, w3, p1, p2
VARIABLES part, \* which component this behaviour is of
          \* the variables of that component, in the order in which it declares them
          s1, s2, s3, s4, s5, s6, s7, s8, s9, s10, s11, s12, s13, s14, s15, s16, s17

all == <<part, s1, s2, s3, s4, s5, s6, s7, s8, s9, s10, s11, s12, s13, s14, s15, s16, s17>>

Lease == INSTANCE ExecutionLease WITH
    Runs <- {"r1", "r2"}, Stops <- {"s1"}, None <- None, LeaseTicks <- 1, MaxTime <- 1,
    Steps <- 1, MaxSnapshots <- 1, now <- s1, status <- s2, attempt <- s3, lease <- s4,
    started <- s5, journey <- s6, snapshots <- s7, stops <- s8, pc <- s9, resume <- s10,
    target <- s11, mem <- s12, pulse <- s13, orphans <- s14, spc <- s15, seen <- s16,
    picked <- s17
Holds == INSTANCE HoldInventory WITH
    Creates <- {"c1", "c2"}, Confirms <- {"x1"}, Releases <- {"y1"}, Journeys <- {"j1"},
    None <- None, Capacity <- 1, MaxParty <- 1, HoldTicks <- 1, MaxTime <- 1, MaxChain <- 2,
    now <- s1, journey <- s2, party <- s3, workflow <- s4, requests <- s5, status <- s6,
    expires <- s7, late <- s8, pc <- s9, ts <- s10, probe <- s11, target <- s12
Resumed == INSTANCE MCRecovery WITH
    Packages <- {p1}, Top <- p1, None <- None, Workers <- {w1, w2}, Queries <- {"recovery"},
    execution <- s1, lapsed <- s2, snap <- s3, bookings <- s4, journeyLock <- s5, pc <- s6,
    cmd <- s7, graph <- s8, confirmed <- s9, call <- s10, asks <- s11, timely <- s12,
    consented <- s13, placer <- s14

Unused == "unused"
OnLease == part = "lease"
OnHolds == part = "holds"
OnResumed == part = "recovery"

LeaseInit == /\ OnLease /\ Lease!Init
LeaseNext == OnLease /\ Lease!Next /\ UNCHANGED <<part>>
HoldsInit == /\ OnHolds /\ Holds!Init
             /\ s13 = Unused /\ s14 = Unused /\ s15 = Unused /\ s16 = Unused /\ s17 = Unused
HoldsNext == OnHolds /\ Holds!Next /\ UNCHANGED <<part, s13, s14, s15, s16, s17>>
ResumedInit == /\ OnResumed /\ Resumed!InitInFlight
               /\ s15 = Unused /\ s16 = Unused /\ s17 = Unused
ResumedNext == OnResumed /\ Resumed!Next /\ UNCHANGED <<part, s15, s16, s17>>

Init == \/ LeaseInit
        \/ HoldsInit
        \/ ResumedInit
Next == \/ LeaseNext
        \/ HoldsNext
        \/ ResumedNext
Spec == Init /\ [][Next]_all

\* An invoked process takes its next step when it has one, Aurora ends the transaction
\* a dead one left open, and a stop request once made is carried on.  No failure is
\* owed, so a wait for a lock is not excused by its timing out; neither is a death, a
\* request nobody makes, a heartbeat or a tick of the clock.
LeaseVars == Lease!vars
LeaseFairness ==
    /\ \A r \in {"r1", "r2"} : /\ WF_LeaseVars(OnLease /\ Lease!RunGoesOn(r))
                               /\ WF_LeaseVars(OnLease /\ Lease!TransactionEnds(r))
    /\ WF_LeaseVars(OnLease /\ Lease!StopGoesOn("s1"))

\* A call that was made sends its next statement; nothing else is owed.
HoldsVars == Holds!vars
HoldsFairness ==
    /\ \A c \in {"c1", "c2"} : WF_HoldsVars(OnHolds /\ Holds!Hold(c))
    /\ WF_HoldsVars(OnHolds /\ Holds!Confirm("x1")) /\ WF_HoldsVars(OnHolds /\ Holds!Release("y1"))

\* A live process goes on, the Lambda and Aurora finish what they began.
ResumedVars == Resumed!vars
ResumedFairness ==
    \A w \in {w1, w2} : /\ WF_ResumedVars(OnResumed /\ Resumed!Run(w)) /\ WF_ResumedVars(OnResumed /\ Resumed!Lambda(w))
                        /\ WF_ResumedVars(OnResumed /\ Resumed!FreeJourney(w))


-----------------------------------------------------------------------------
\* No wait for a row or index lock of the lease is for ever: an invoked run answers or dies (r1
\* does, and so does r2, the runs being alike), a stop request is answered, and what a dead
\* worker left locked is freed.
RunsEnd ==
    OnLease /\ LeaseFairness =>
        /\ (OnLease /\ Lease!Begun("r1")) ~> (OnLease => Lease!Over("r1"))
        /\ (OnLease /\ Lease!StopBegun("s1")) ~> (OnLease => Lease!StopOver("s1"))
        /\ (OnLease /\ Lease!Locked("r1")) ~> (OnLease => ~Lease!Locked("r1"))

\* The advisory locks and the row locks of a booking never leave anybody waiting for ever:
\* every call for a hold, a confirmation or a release is answered, and a resumed workflow ends,
\* whatever another worker and the Lambda hold.
CallsEnd ==
    /\ OnHolds /\ HoldsFairness =>
           \A c \in {"c1", "c2", "x1", "y1"} : (OnHolds /\ Holds!Waiting(c)) ~> (OnHolds => Holds!Answered(c))
    /\ OnResumed /\ ResumedFairness =>
           \A w \in {w1, w2} : /\ (OnResumed /\ Resumed!Begun(w)) ~> (OnResumed => Resumed!Over(w))
                             /\ (OnResumed /\ Resumed!Arrived(w)) ~> (OnResumed => ~Resumed!Arrived(w))

=============================================================================
