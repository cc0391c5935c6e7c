-------------------- MODULE MCEnds ------------------------------------------
(* What began outside Aurora comes to an end too: turns, their streams, releases, *)
(* rollbacks, refreshes and what the page shows.                           *)
(* Each behaviour is of one component, which it picks at its first state;  *)
(* the components share nothing, so the places s1, s2, ... hold the        *)
(* variables of that one.                                                  *)
EXTENDS Naturals, Sequences, FiniteSets, TLC

VARIABLES part, \* which component this behaviour is of
          \* the variables of that component, in the order in which it declares them
          s1, s2, s3, s4, s5, s6, s7, s8, s9, s10, s11, s12, s13, s14, s15, s16, s17, s18

all == <<part, s1, s2, s3, s4, s5, s6, s7, s8, s9, s10, s11, s12, s13, s14, s15, s16, s17, s18>>

Turn == INSTANCE GovernedTurn WITH
    MaxCancels <- 1, operation <- s1, pc <- s2, thread <- s3, attempt <- s4, progress <- s5,
    decision <- s6, runtime <- s7, gateway <- s8, wire <- s9, error <- s10, row <- s11,
    cancels <- s12, pending <- s13, remembered <- s14, answer <- s15
History == INSTANCE TurnHistory WITH
    MaxTurns <- 2, MaxMessages <- 2, phase <- s1, task <- s2, messages <- s3, repair <- s4,
    closing <- s5, stop <- s6, registry <- s7, saving <- s8, saved <- s9, clock <- s10,
    leftOpen <- s11
Stream == INSTANCE EventStream WITH
    Keepalive <- 2, Idle <- 4, Ceiling <- 6, Cap <- 6, RequestLimit <- 7,
    MaxAuthorization <- 1, MaxTransit <- 1, MaxLag <- 1, MaxOutput <- 1, MayDie <- FALSE,
    now <- s1, touched <- s2, told <- s3, heard <- s4, server <- s5, opened <- s6,
    lastSent <- s7, connected <- s8, work <- s9, finished <- s10, output <- s11, handed <- s12,
    queue <- s13, wire <- s14
Memory == INSTANCE TravelerMemory WITH
    DisplayLimit <- 1, GovernanceLimit <- 5,
    Initial <- {{[type |-> "learned", key |-> "cap", value |-> 1, conf |-> 1, at |-> 1]}},
    Signals <- {<<"learned", "cap", 2, 2>>}, Changes <- {"change", "remove"} \X {"cap"} \X {2},
    MaxWrites <- 3, MaxRequests <- 2, Reliable <- TRUE, rows <- s1, clock <- s2, edited <- s3,
    forgotten <- s4, phase <- s5, enabled <- s6, facts <- s7, preview <- s8, ceiling <- s9,
    asof <- s10, reading <- s11, refresh <- s12, edit <- s13, late <- s14, turn <- s15,
    last <- s16, asked <- s17, requests <- s18
Release == INSTANCE GatewayReplacement WITH
    Goals <- {"jwt"}, MaxGateways <- 2, MaxFaults <- 3, gate <- s1, learned <- s2,
    moving <- s3, logGroup <- s4, file <- s5, render <- s6, url <- s7, saved <- s8,
    ready <- s9, pin <- s10, cmd <- s11, orphan <- s12, made <- s13, faults <- s14
Rollback == INSTANCE ReleaseRollback WITH
    Snaps <- {"s1"}, MaxFaults <- 1, live <- s1, cache <- s2, result <- s3, run <- s4,
    replaced <- s5, faults <- s6
Harness == INSTANCE GatewayHarness WITH
    MaxFaults <- 2, MaxPasted <- 1, cloud <- s1, logs <- s2, joined <- s3, file <- s4,
    pc <- s5, step <- s6, entries <- s7, todo <- s8, owned <- s9, groups <- s10, left <- s11,
    code <- s12, hit <- s13, faults <- s14, pasted <- s15
Session == INSTANCE BrowserSession WITH
    Requests <- {"plain", "stream"}, Streams <- {"stream"}, Greets <- TRUE, MaxTokens <- 2,
    MaxFaults <- 1, status <- s1, tokens <- s2, gen <- s3, inflight <- s4, timer <- s5,
    calls <- s6, refreshing <- s7, signedOut <- s8, req <- s9, dead <- s10, left <- s11,
    faults <- s12
Trips == INSTANCE TripWrites WITH
    Tabs <- {"t1"}, Products <- {"p1"}, MaxIntents <- 2, MaxFaults <- 3, device <- s1,
    hold <- s2, product <- s3, work <- s4, tab <- s5, shown <- s6, restore <- s7, faults <- s8
Desk == INSTANCE RecoveryDesk WITH
    Views <- {"desk"}, MaxTurns <- 2, MaxMoves <- 1, MaxFaults <- 1, page <- s1, url <- s2,
    turns <- s3, saved <- s4, live <- s5, read <- s6, moves <- s7, faults <- s8

\* What each component assumes of its constants.
ASSUME Instances == 
    /\ Turn!MaxCancelsAssumption
    /\ History!BoundsAssumption
    /\ Stream!TimesFit
    /\ Memory!LimitsAreOrdered
    /\ Memory!BoundsAreNatural
    /\ Release!GoalsAssumption
    /\ Release!BoundsAssumption
    /\ Rollback!RollbackAssumption
    /\ Harness!BoundsAreNatural
    /\ Session!SessionAssumption
    /\ Trips!WritesAssumption
    /\ Desk!DeskAssumption

Unused == "unused"
OnTurn == part = "turn"
OnHistory == part = "history"
OnStream == part = "stream"
OnMemory == part = "memory"
OnRelease == part = "release"
OnRollback == part = "rollback"
OnHarness == part = "harness"
OnSession == part = "session"
OnTrips == part = "trips"
OnDesk == part = "desk"

TurnInit == /\ OnTurn /\ Turn!Init
            /\ s16 = Unused /\ s17 = Unused /\ s18 = Unused
TurnNext == OnTurn /\ Turn!Next /\ UNCHANGED <<part, s16, s17, s18>>
HistoryInit == /\ OnHistory /\ History!Init
               /\ s12 = Unused /\ s13 = Unused /\ s14 = Unused /\ s15 = Unused /\ s16 = Unused
               /\ s17 = Unused /\ s18 = Unused
HistoryNext == OnHistory /\ History!Next /\ UNCHANGED <<part, s12, s13, s14, s15, s16, s17, s18>>
StreamInit == /\ OnStream /\ Stream!Init
              /\ s15 = Unused /\ s16 = Unused /\ s17 = Unused /\ s18 = Unused
StreamNext == OnStream /\ Stream!Next /\ UNCHANGED <<part, s15, s16, s17, s18>>
MemoryInit == /\ OnMemory /\ Memory!Init
MemoryNext == OnMemory /\ Memory!Next /\ UNCHANGED <<part>>
ReleaseInit == /\ OnRelease /\ Release!Init
               /\ s15 = Unused /\ s16 = Unused /\ s17 = Unused /\ s18 = Unused
ReleaseNext == OnRelease /\ Release!Onward /\ UNCHANGED <<part, s15, s16, s17, s18>>
RollbackInit == /\ OnRollback /\ Rollback!Init
                /\ s7 = Unused /\ s8 = Unused /\ s9 = Unused /\ s10 = Unused /\ s11 = Unused
                /\ s12 = Unused /\ s13 = Unused /\ s14 = Unused /\ s15 = Unused /\ s16 = Unused
                /\ s17 = Unused /\ s18 = Unused
RollbackNext == /\ OnRollback /\ Rollback!Next
                /\ UNCHANGED <<part, s7, s8, s9, s10, s11, s12, s13, s14, s15, s16, s17, s18>>
HarnessInit == /\ OnHarness /\ Harness!Init
               /\ s16 = Unused /\ s17 = Unused /\ s18 = Unused
HarnessNext == OnHarness /\ Harness!Next /\ UNCHANGED <<part, s16, s17, s18>>
SessionInit == /\ OnSession /\ Session!Init
               /\ s13 = Unused /\ s14 = Unused /\ s15 = Unused /\ s16 = Unused /\ s17 = Unused
               /\ s18 = Unused
SessionNext == OnSession /\ Session!Next /\ UNCHANGED <<part, s13, s14, s15, s16, s17, s18>>
TripsInit == /\ OnTrips /\ Trips!Init
             /\ s9 = Unused /\ s10 = Unused /\ s11 = Unused /\ s12 = Unused /\ s13 = Unused
             /\ s14 = Unused /\ s15 = Unused /\ s16 = Unused /\ s17 = Unused /\ s18 = Unused
TripsNext == /\ OnTrips /\ Trips!Next
             /\ UNCHANGED <<part, s9, s10, s11, s12, s13, s14, s15, s16, s17, s18>>
DeskInit == /\ OnDesk /\ Desk!Init
            /\ s9 = Unused /\ s10 = Unused /\ s11 = Unused /\ s12 = Unused /\ s13 = Unused
            /\ s14 = Unused /\ s15 = Unused /\ s16 = Unused /\ s17 = Unused /\ s18 = Unused
DeskNext == /\ OnDesk /\ Desk!Next
            /\ UNCHANGED <<part, s9, s10, s11, s12, s13, s14, s15, s16, s17, s18>>

Init == \/ TurnInit
        \/ HistoryInit
        \/ StreamInit
        \/ MemoryInit
        \/ ReleaseInit
        \/ RollbackInit
        \/ HarnessInit
        \/ SessionInit
        \/ TripsInit
        \/ DeskInit
Next == \/ TurnNext
        \/ HistoryNext
        \/ StreamNext
        \/ MemoryNext
        \/ ReleaseNext
        \/ RollbackNext
        \/ HarnessNext
        \/ SessionNext
        \/ TripsNext
        \/ DeskNext
Spec == Init /\ [][Next]_all

\* The event loop runs the request and its audit task, the process its thread and the
\* Runtime its turn; a wait before the response and a write to Aurora end by their own time
\* limits.  The Gateway and the Lambda owe no answer, and a stream need not break.
TurnVars == Turn!vars
TurnFairness ==
    /\ WF_TurnVars(OnTurn /\ Turn!Request) /\ WF_TurnVars(OnTurn /\ Turn!AuditTask)
    /\ WF_TurnVars(OnTurn /\ (Turn!Send \/ Turn!SendRefused)) /\ WF_TurnVars(OnTurn /\ Turn!NoResponse)
    /\ WF_TurnVars(OnTurn /\ (Turn!ReadEvent \/ Turn!StreamEnd))
    /\ \A a \in 1..2 : WF_TurnVars(OnTurn /\ Turn!Concierge(a))

\* The watchdog and the event loop's timeouts; a save or a repair owes no end.
HistoryVars == History!vars
HistoryFairness ==
    \A t \in 1..2 : /\ WF_HistoryVars(OnHistory /\ History!Waits(t)) /\ WF_HistoryVars(OnHistory /\ History!CutShort(t))
                    /\ WF_HistoryVars(OnHistory /\ History!Restore(t))
                    /\ WF_HistoryVars(OnHistory /\ (History!StartRepair(t) \/ History!TaskStuck(t)))

\* The work returns, an authorized call is opened, and the event loop moves what is queued.
StreamVars == Stream!vars
StreamFairness ==
    /\ WF_StreamVars(OnStream /\ Stream!Finish) /\ WF_StreamVars(OnStream /\ Stream!Open)
    /\ WF_StreamVars(OnStream /\ Stream!Frame) /\ WF_StreamVars(OnStream /\ Stream!Deliver)

\* The timer runs while the page is visible, and what is served is answered.
MemoryVars == Memory!vars
MemoryFairness ==
    /\ WF_MemoryVars(OnMemory /\ Memory!Tick) /\ WF_MemoryVars(OnMemory /\ Memory!ServeRefresh)
    /\ WF_MemoryVars(OnMemory /\ Memory!RefreshAnswered) /\ WF_MemoryVars(OnMemory /\ Memory!ServeRead)
    /\ WF_MemoryVars(OnMemory /\ Memory!ReadAnswered) /\ WF_MemoryVars(OnMemory /\ Memory!EditAnswered)

\* The operator goes on along the release steps.
ReleaseVars == Release!vars
ReleaseFairness ==
    WF_ReleaseVars(OnRelease /\ Release!Follows("jwt"))

\* The operator runs the rollback and its remedies until it reports success; the platform
\* is never relied on to start the Lambda afresh.
RollbackVars == Rollback!vars
RollbackFairness ==
    /\ WF_RollbackVars(OnRollback /\ Rollback!Working)
    /\ WF_RollbackVars(OnRollback /\ Rollback!Unsuccessful /\ Rollback!Start("s1"))
    /\ \A h \in Rollback!Hops : WF_RollbackVars(OnRollback /\ Rollback!Remedy(h))

\* A started process runs on, and somebody runs --teardown until it is told that nothing
\* is left.
HarnessVars == Harness!vars
HarnessFairness ==
    WF_HarnessVars(OnHarness /\ Harness!Proceed) /\ WF_HarnessVars(OnHarness /\ Harness!TeardownFile)

\* Timers fire, the token endpoint answers or the connection fails; the API need not.
SessionVars == Session!vars
SessionFairness ==
    /\ WF_SessionVars(OnSession /\ Session!TimerFires) /\ WF_SessionVars(OnSession /\ Session!RefreshAnswered)
    /\ \A r \in {"plain", "stream"} : /\ WF_SessionVars(OnSession /\ Session!GiveUp(r))
                                      /\ WF_SessionVars(OnSession /\ Session!Resume(r))

\* The person goes on clicking until the page shows the trip; reads and writes end.
TripsVars == Trips!vars
TripsFairness ==
    /\ WF_TripsVars(OnTrips /\ Trips!Steps("t1")) /\ WF_TripsVars(OnTrips /\ Trips!HoldClick("t1", "p1"))
    /\ WF_TripsVars(OnTrips /\ Trips!ConfirmClick("t1", "p1"))
    /\ \A i \in 1..2, k \in {"hold", "book"} : WF_TripsVars(OnTrips /\ Trips!Serve(<<"t1", i, k>>))

\* Reads and waits end, effects run, and the person who is blocked reads it again.
DeskVars == Desk!vars
DeskFairness ==
    /\ WF_DeskVars(OnDesk /\ Desk!Reads) /\ WF_DeskVars(OnDesk /\ Desk!Settle)
    /\ WF_DeskVars(OnDesk /\ Desk!RestoreJourney) /\ WF_DeskVars(OnDesk /\ Desk!Blocked)
    /\ WF_DeskVars(OnDesk /\ Desk!WriteEnds)
    /\ \A n \in 1..2 : WF_DeskVars(OnDesk /\ (Desk!Reply(n) \/ Desk!Fails(n)))


-----------------------------------------------------------------------------
\* A turn comes to its end: the request, though the Gateway never answers the Runtime; the
\* Concierge's turn, though no save and no repair of its history ever ends; and the work of a
\* stream, though its page has gone.
TurnsEnd ==
    /\ OnTurn /\ TurnFairness => <>(OnTurn => Turn!RequestOver)
    /\ OnHistory /\ HistoryFairness =>
           \A t \in 1..2 : (OnHistory /\ History!Begun(t)) ~> (OnHistory => History!Over(t))
    /\ OnStream /\ StreamFairness => (OnStream /\ Stream!Working) ~> (OnStream => Stream!Worked)

\* What an operator began can be finished: along the release steps, whatever was lost or rolled
\* back on the way; by the rollback and its remedies, an owed restart included; by --teardown,
\* until nothing in the ledger is left, foreign entries in the file or not.
OperatorFinishes ==
    /\ OnRelease /\ ReleaseFairness => <>(OnRelease => Release!Finished("jwt"))
    /\ OnRollback /\ RollbackFairness => <>[](OnRollback => Rollback!Restarted)
    /\ OnHarness /\ HarnessFairness => <>[](OnHarness => Harness!LedgerIsEmpty)

\* Every request ends for the person, though the API and its streams may go on, and an expired
\* token is replaced or the person is told that the session ended.
EveryWaitEnds ==
    OnSession /\ SessionFairness =>
        /\ \A r \in {"plain", "stream"} : (OnSession /\ Session!Awaited(r)) ~> (OnSession => Session!Ended(r))
        /\ (OnSession /\ Session!Expired) ~> (OnSession => ~Session!Expired)

\* The page comes to show what Aurora holds: the budget the Lambda would derive, once the
\* preferences stop changing; a confirmation whose answers were lost; an outcome the page did
\* not know.
PageCatchesUp ==
    /\ OnMemory /\ MemoryFairness =>
           (<>[][OnMemory => Memory!RowsStay]_all => <>[](OnMemory => Memory!BudgetIsCurrent))
    /\ OnTrips /\ TripsFairness =>
           \A i \in 1..2 : (OnTrips /\ Trips!Confirmed(i)) ~> (OnTrips => Trips!Shows("t1", i))
    /\ OnDesk /\ DeskFairness =>
           \A n \in 1..2 : (OnDesk /\ Desk!Owed(n)) ~> (OnDesk => Desk!Known(n))

=============================================================================
