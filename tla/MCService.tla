-------------------- MODULE MCService ---------------------------------------
(* What a traveler meets: turns, their history and their streams, scoped   *)
(* rows, memory, searches, checkpoints, and the browser.                   *)
(* Each behaviour is of one component, which it picks at its first state;  *)
(* the components share nothing, so the places s1, s2, ... hold the        *)
(* variables of that one.                                                  *)
EXTENDS Naturals, Sequences, FiniteSets, TLC

CONSTANTS NoPackage, Nobody, x1, x2, c1, c2, t1, t2, p1, p2
VARIABLES part, \* which component this behaviour is of
          \* the variables of that component, in the order in which it declares them
          s1, s2, s3, s4, s5, s6, s7, s8, s9, s10, s11, s12, s13, s14, s15, s16, s17, s18, s19

all == <<part, s1, s2, s3, s4, s5, s6, s7, s8, s9, s10, s11, s12, s13, s14, s15, s16, s17, s18, s19>>

\* A seeded traveler: a cap outranked by a range, and a preference.
Fact(key, value, conf, at) ==
    [type |-> "learned", key |-> key, value |-> value, conf |-> conf, at |-> at]
Ranked == {Fact("cap", 2, 1, 1), Fact("range", 1, 1, 2), Fact("diet", 0, 2, 3)}

Turn == INSTANCE GovernedTurn WITH
    MaxCancels <- 1, operation <- s1, pc <- s2, thread <- s3, attempt <- s4, progress <- s5,
    decision <- s6, runtime <- s7, gateway <- s8, wire <- s9, error <- s10, row <- s11,
    cancels <- s12, pending <- s13, remembered <- s14, answer <- s15
History == INSTANCE TurnHistory WITH
    MaxTurns <- 2, MaxMessages <- 2, phase <- s1, task <- s2, messages <- s3, repair <- s4,
    closing <- s5, stop <- s6, registry <- s7, saving <- s8, saved <- s9, clock <- s10,
    leftOpen <- s11
Repairs == INSTANCE TurnHistory WITH
    MaxTurns <- 3, MaxMessages <- 1, phase <- s1, task <- s2, messages <- s3, repair <- s4,
    closing <- s5, stop <- s6, registry <- s7, saving <- s8, saved <- s9, clock <- s10,
    leftOpen <- s11
Stream == INSTANCE EventStream WITH
    Keepalive <- 2, Idle <- 4, Ceiling <- 6, Cap <- 6, RequestLimit <- 7,
    MaxAuthorization <- 1, MaxTransit <- 1, MaxLag <- 1, MaxOutput <- 2, MayDie <- TRUE,
    now <- s1, touched <- s2, told <- s3, heard <- s4, server <- s5, opened <- s6,
    lastSent <- s7, connected <- s8, work <- s9, finished <- s10, output <- s11, handed <- s12,
    queue <- s13, wire <- s14
Scope == INSTANCE TravelerScope WITH
    Sessions <- {x1, x2}, Connections <- {c1, c2}, Travelers <- {t1, t2}, Nobody <- Nobody,
    MaxFaults <- 1, MaxChanges <- 1, grants <- s1, audit <- s2, journeys <- s3, bound <- s4,
    lock <- s5, leftover <- s6, pc <- s7, side <- s8, who <- s9, conn <- s10, setting <- s11,
    role <- s12, row <- s13, made <- s14, binds <- s15, seen <- s16, told <- s17,
    faults <- s18, changes <- s19
Memory == INSTANCE TravelerMemory WITH
    DisplayLimit <- 1, GovernanceLimit <- 5, Initial <- {Ranked},
    Signals <- {"explicit", "learned"} \X {"cap", "range"} \X {1} \X {1, 2},
    Changes <- {"change", "remove"} \X {"cap", "diet"} \X {2}, MaxWrites <- 4,
    MaxRequests <- 2, Reliable <- FALSE, rows <- s1, clock <- s2, edited <- s3,
    forgotten <- s4, phase <- s5, enabled <- s6, facts <- s7, preview <- s8, ceiling <- s9,
    asof <- s10, reading <- s11, refresh <- s12, edit <- s13, late <- s14, turn <- s15,
    last <- s16, asked <- s17, requests <- s18
Preview == INSTANCE TravelerMemory WITH
    DisplayLimit <- 1, GovernanceLimit <- 5, Initial <- {{Fact("cap", 1, 1, 1)}},
    Signals <- {<<"learned", "cap", 2, 2>>}, Changes <- {"change", "remove"} \X {"cap"} \X {2},
    MaxWrites <- 2, MaxRequests <- 3, Reliable <- FALSE, rows <- s1, clock <- s2, edited <- s3,
    forgotten <- s4, phase <- s5, enabled <- s6, facts <- s7, preview <- s8, ceiling <- s9,
    asof <- s10, reading <- s11, refresh <- s12, edit <- s13, late <- s14, turn <- s15,
    last <- s16, asked <- s17, requests <- s18
Search == INSTANCE HybridSearch WITH
    Packages <- {p1, p2}, Durations <- <<"week", "fortnight">>, Ceiling <- 1, MaxLimit <- 2,
    Shortlist <- 1, Party <- 1, MaxChanges <- 1, None <- NoPackage, catalog <- s1,
    changes <- s2, pc <- s3, limit <- s4, semantic <- s5, rows <- s6, then <- s7,
    offered <- s8, checked <- s9, chosen <- s10, intent <- s11
Batches == INSTANCE CheckpointSaver WITH
    Workers <- {"w1", "w2"}, Overlap <- TRUE, MaxStarts <- 2, MaxVersion <- 2,
    checkpoints <- s1, blobs <- s2, writes <- s3, pc <- s4, base <- s5, value <- s6, id <- s7,
    size <- s8, parts <- s9, tx <- s10, row <- s11, seg <- s12, starts <- s13
Saves == INSTANCE CheckpointSaver WITH
    Workers <- {"w1", "w2"}, Overlap <- FALSE, MaxStarts <- 3, MaxVersion <- 2,
    checkpoints <- s1, blobs <- s2, writes <- s3, pc <- s4, base <- s5, value <- s6, id <- s7,
    size <- s8, parts <- s9, tx <- s10, row <- s11, seg <- s12, starts <- s13
Session == INSTANCE BrowserSession WITH
    Requests <- {"plain", "stream"}, Streams <- {"stream"}, Greets <- FALSE, MaxTokens <- 2,
    MaxFaults <- 2, status <- s1, tokens <- s2, gen <- s3, inflight <- s4, timer <- s5,
    calls <- s6, refreshing <- s7, signedOut <- s8, req <- s9, dead <- s10, left <- s11,
    faults <- s12
Trips == INSTANCE TripWrites WITH
    Tabs <- {"t1"}, Products <- {"p1", "p2"}, MaxIntents <- 2, MaxFaults <- 3, device <- s1,
    hold <- s2, product <- s3, work <- s4, tab <- s5, shown <- s6, restore <- s7, faults <- s8
Desk == INSTANCE RecoveryDesk WITH
    Views <- {"desk", "concierge"}, MaxTurns <- 2, MaxMoves <- 1, MaxFaults <- 1, page <- s1,
    url <- s2, turns <- s3, saved <- s4, live <- s5, read <- s6, moves <- s7, faults <- s8
Moves == INSTANCE RecoveryDesk WITH
    Views <- {"desk", "concierge"}, MaxTurns <- 1, MaxMoves <- 2, MaxFaults <- 1, page <- s1,
    url <- s2, turns <- s3, saved <- s4, live <- s5, read <- s6, moves <- s7, faults <- s8

\* What each component assumes of its constants.
ASSUME Instances == 
    /\ Turn!MaxCancelsAssumption
    /\ History!BoundsAssumption
    /\ Repairs!BoundsAssumption
    /\ Stream!TimesFit
    /\ Scope!NobodyIsNobody
    /\ Scope!BoundsAreNatural
    /\ Memory!LimitsAreOrdered
    /\ Memory!BoundsAreNatural
    /\ Memory!InputsKnown
    /\ Preview!LimitsAreOrdered
    /\ Preview!BoundsAreNatural
    /\ Preview!InputsKnown
    /\ Batches!ConstantsAreUsable
    /\ Saves!ConstantsAreUsable
    /\ Session!SessionAssumption
    /\ Trips!WritesAssumption
    /\ Desk!DeskAssumption
    /\ Moves!DeskAssumption

Unused == "unused"
OnTurn == part = "turn"
OnHistory == part = "history"
OnRepairs == part = "repairs"
OnStream == part = "stream"
OnScope == part = "scope"
OnMemory == part = "memory"
OnPreview == part = "preview"
OnSearch == part = "search"
OnBatches == part = "batches"
OnSaves == part = "saves"
OnSession == part = "session"
OnTrips == part = "trips"
OnDesk == part = "desk"
OnMoves == part = "moves"

TurnInit == /\ OnTurn /\ Turn!Init
            /\ s16 = Unused /\ s17 = Unused /\ s18 = Unused /\ s19 = Unused
TurnNext == OnTurn /\ Turn!Next /\ UNCHANGED <<part, s16, s17, s18, s19>>
HistoryInit == /\ OnHistory /\ History!Init
               /\ s12 = Unused /\ s13 = Unused /\ s14 = Unused /\ s15 = Unused /\ s16 = Unused
               /\ s17 = Unused /\ s18 = Unused /\ s19 = Unused
HistoryNext == OnHistory /\ History!Next /\ UNCHANGED <<part, s12, s13, s14, s15, s16, s17, s18, s19>>
RepairsInit == /\ OnRepairs /\ Repairs!Init
               /\ s12 = Unused /\ s13 = Unused /\ s14 = Unused /\ s15 = Unused /\ s16 = Unused
               /\ s17 = Unused /\ s18 = Unused /\ s19 = Unused
RepairsNext == OnRepairs /\ Repairs!Next /\ UNCHANGED <<part, s12, s13, s14, s15, s16, s17, s18, s19>>
StreamInit == /\ OnStream /\ Stream!Init
              /\ s15 = Unused /\ s16 = Unused /\ s17 = Unused /\ s18 = Unused /\ s19 = Unused
StreamNext == OnStream /\ Stream!Next /\ UNCHANGED <<part, s15, s16, s17, s18, s19>>
ScopeInit == /\ OnScope /\ Scope!Init
ScopeNext == OnScope /\ Scope!Next /\ UNCHANGED <<part>>
MemoryInit == /\ OnMemory /\ Memory!Init
              /\ s19 = Unused
MemoryNext == OnMemory /\ Memory!Next /\ UNCHANGED <<part, s19>>
PreviewInit == /\ OnPreview /\ Preview!Init
               /\ s19 = Unused
PreviewNext == OnPreview /\ Preview!Next /\ UNCHANGED <<part, s19>>
SearchInit == /\ OnSearch /\ Search!Init
              /\ s12 = Unused /\ s13 = Unused /\ s14 = Unused /\ s15 = Unused /\ s16 = Unused
              /\ s17 = Unused /\ s18 = Unused /\ s19 = Unused
SearchNext == OnSearch /\ Search!Next /\ UNCHANGED <<part, s12, s13, s14, s15, s16, s17, s18, s19>>
BatchesInit == /\ OnBatches /\ Batches!Init
               /\ s14 = Unused /\ s15 = Unused /\ s16 = Unused /\ s17 = Unused /\ s18 = Unused
               /\ s19 = Unused
BatchesNext == OnBatches /\ Batches!Next /\ UNCHANGED <<part, s14, s15, s16, s17, s18, s19>>
SavesInit == /\ OnSaves /\ Saves!Init
             /\ s14 = Unused /\ s15 = Unused /\ s16 = Unused /\ s17 = Unused /\ s18 = Unused
             /\ s19 = Unused
SavesNext == OnSaves /\ Saves!Next /\ UNCHANGED <<part, s14, s15, s16, s17, s18, s19>>
SessionInit == /\ OnSession /\ Session!Init
               /\ s13 = Unused /\ s14 = Unused /\ s15 = Unused /\ s16 = Unused /\ s17 = Unused
               /\ s18 = Unused /\ s19 = Unused
SessionNext == OnSession /\ Session!Next /\ UNCHANGED <<part, s13, s14, s15, s16, s17, s18, s19>>
TripsInit == /\ OnTrips /\ Trips!Init
             /\ s9 = Unused /\ s10 = Unused /\ s11 = Unused /\ s12 = Unused /\ s13 = Unused
             /\ s14 = Unused /\ s15 = Unused /\ s16 = Unused /\ s17 = Unused /\ s18 = Unused
             /\ s19 = Unused
TripsNext == /\ OnTrips /\ Trips!Next
             /\ UNCHANGED <<part, s9, s10, s11, s12, s13, s14, s15, s16, s17, s18, s19>>
DeskInit == /\ OnDesk /\ Desk!Init
            /\ s9 = Unused /\ s10 = Unused /\ s11 = Unused /\ s12 = Unused /\ s13 = Unused
            /\ s14 = Unused /\ s15 = Unused /\ s16 = Unused /\ s17 = Unused /\ s18 = Unused
            /\ s19 = Unused
DeskNext == /\ OnDesk /\ Desk!Next
            /\ UNCHANGED <<part, s9, s10, s11, s12, s13, s14, s15, s16, s17, s18, s19>>
MovesInit == /\ OnMoves /\ Moves!Init
             /\ s9 = Unused /\ s10 = Unused /\ s11 = Unused /\ s12 = Unused /\ s13 = Unused
             /\ s14 = Unused /\ s15 = Unused /\ s16 = Unused /\ s17 = Unused /\ s18 = Unused
             /\ s19 = Unused
MovesNext == /\ OnMoves /\ Moves!Next
             /\ UNCHANGED <<part, s9, s10, s11, s12, s13, s14, s15, s16, s17, s18, s19>>

Init == \/ TurnInit
        \/ HistoryInit
        \/ RepairsInit
        \/ StreamInit
        \/ ScopeInit
        \/ MemoryInit
        \/ PreviewInit
        \/ SearchInit
        \/ BatchesInit
        \/ SavesInit
        \/ SessionInit
        \/ TripsInit
        \/ DeskInit
        \/ MovesInit
Next == \/ TurnNext
        \/ HistoryNext
        \/ RepairsNext
        \/ StreamNext
        \/ ScopeNext
        \/ MemoryNext
        \/ PreviewNext
        \/ SearchNext
        \/ BatchesNext
        \/ SavesNext
        \/ SessionNext
        \/ TripsNext
        \/ DeskNext
        \/ MovesNext
Spec == Init /\ [][Next]_all

-----------------------------------------------------------------------------
\* A governed turn tells the traveler, the audit and its memory only what happened, however its
\* request is cancelled and whatever is lost on the way to the Lambda.
TurnIsTold ==
    OnTurn => /\ Turn!TypeOK
              /\ Turn!PlacedIsWritten  \* a receipt stands for a committed write
              /\ Turn!UnwrittenUnlessGivenUp  \* only a Gateway call given up on hides a write
              /\ Turn!CalledOnce  \* one click is one call, retries included
              /\ Turn!RowBeforeTheEnd  \* the row is committed, or its loss known, before the end
              /\ Turn!RowIsTruthful  \* the row says no more than happened
              /\ Turn!RememberedIsAudited  \* no memory of a turn without its row

\* The conversation a turn reads is one it can go on from: cut-off turns are repaired, or
\* reported as left open, and a new turn never works beside an older repair (settle_history).
HistoryIsClosed ==
    /\ OnHistory => /\ History!TypeOK
                    /\ History!ClosedOrReported  \* roles alternate, tool calls are paired, or it was said
    /\ OnRepairs => Repairs!ReadAfterRepair  \* a repair still at it was told to stop

\* A page that shows a completed answer showed all of it, and neither the ceiling, the idle
\* timer nor the platform cuts off a stream that is alive.
StreamIsWhole ==
    OnStream => /\ Stream!TypeOK
                /\ Stream!CompleteIsAll  \* all the output, in order, before the end
                /\ Stream!FinishedIsDelivered  \* a reply that is finished beats the ceiling
                /\ Stream!EndsOnce  \* no frame follows the last
                /\ Stream!LiveIsNotQuiet  \* a live stream is not taken for a dead one
                /\ Stream!NeverCut  \* the page gives up before the platform does

\* A scoped session acts for its traveler alone, on whatever connection, and its audit row
\* outlives its refusal; a lost race for a journey is no refusal (scoped_session,
\* ensure_journey).
ScopeIsKept ==
    OnScope => /\ Scope!TypeOK
               /\ Scope!SeesOwnOnly  \* no other traveler's rows; none for nobody
               /\ Scope!RefusalIsKept  \* a refusal left its deny row
               /\ Scope!EffectsAreAudited  \* a journey has the allow row of its maker
               /\ Scope!NoOrphanJourney  \* a journey made is the one its thread has
               /\ Scope!NotOwnedIsTrue  \* only another traveler is refused a thread
               /\ Scope!EndedHoldsNoLock  \* a session that ended blocks nobody

\* What the traveler told the memory is what every reader derives from it, on the page, in a
\* turn and in the Lambda, whichever answers are late; what was put away stays away.
MemoryIsTheTravelers ==
    /\ [](/\ OnMemory => /\ Memory!TypeOK
                         /\ Memory!EditWins  \* an edit outranks every signal
                         /\ Memory!ForgottenIsGone  \* under every type it was stored as
                         /\ Memory!OneCeiling  \* page, turn and Lambda derive one budget
          /\ OnPreview => Preview!PutAwayStaysAway)  \* an older answer does not bring it back
    /\ [][OnPreview => Preview!GoesForward]_all  \* the preview shows no older facts than before

\* A package that is offered could be taken at one and the same moment of the search, whatever
\* changes between the arms, the join, the reranker and the hold that is prepared
\* (keep_eligible, _hydrate).
SearchIsOfOneMoment ==
    OnSearch => /\ Search!TakenFromOneMoment  \* within the ceiling and with places, at once
                /\ Search!MovementAddsUp  \* each once, and its movement adds up
                /\ Search!SomethingIsOffered  \* an eligible candidate is never left out for nothing
                /\ Search!IntentWasSeated  \* a prepared hold seated the party at the price shown

\* What a worker that resumes can see of a task is all there and of one attempt, whoever was
\* killed or cancelled between two segments of a blob or a batch.
CheckpointsAreWhole ==
    /\ [](/\ OnBatches => /\ Batches!TypeOK
                          /\ Batches!WritesAreWhole  \* a committed write is one value in full
                          /\ Batches!BatchIsWhole  \* a task's writes are all there or none
                          /\ Batches!CancelledHoldsNoLock  \* only a worker at work, or killed, blocks
          /\ OnSaves => /\ Saves!TypeOK
                        /\ Saves!VisibleIsWhole)  \* a visible checkpoint is read back as one value
    /\ [][OnBatches => Batches!KeepsOutput]_all  \* task output is never replaced

\* Refusals that arrive in any order share one refresh and never end a session that could go
\* on; one that ended stays ended, and no stream is run again after the person heard it.
SessionIsKept ==
    /\ [](OnSession => /\ Session!TypeOK
                       /\ Session!OneRefresh  \* "One expiry never sends two requests"
                       /\ Session!KeptUnlessRefused)  \* requests alone never end the session
    /\ [][OnSession => Session!StaysOut]_all  \* no late answer brings an ended session back
    /\ [][OnSession => Session!RunsAgain]_all  \* a stream is run again at most once, and unheard

\* Whatever answers are lost and however often the page is clicked, reloaded or moved to
\* another view: one product has one hold, a reload finds it, and each answer is shown where it
\* belongs.
PageIsHonest ==
    /\ OnTrips => /\ Trips!TypeOK
                  /\ Trips!NoSecondHold  \* however often it is clicked
                  /\ Trips!NothingForgotten  \* a reload finds what the server may hold
    /\ OnDesk => /\ Desk!TypeOK
                 /\ Desk!NoStrayAnswer  \* nothing of a turn that was left behind
    /\ OnMoves => Moves!LoadingIsWaiting  \* busy exactly while it waits

Symmetry == Permutations({x1, x2}) \union Permutations({c1, c2})
            \union Permutations({t1, t2}) \union Permutations({p1, p2})
=============================================================================
