------------------------- MODULE MCService_proofs -------------------------
(* The group's behaviours keep what Service_proofs and Operations_proofs prove *)
(* of each component: the theorems are cited through an instance of those      *)
(* modules, over the places that hold the component's variables.  One instance *)
(* serves two components when no variable of the one has the name of a         *)
(* variable of the other.                                                      *)
EXTENDS MCService, TLAPS

\* Constants and variables of the components that an instance is not about.
Sessions == Unused
Connections == Unused
Travelers == Unused
MaxFaults == Unused
MaxChanges == Unused
grants == Unused
audit == Unused
journeys == Unused
bound == Unused
lock == Unused
leftover == Unused
pc == Unused
side == Unused
who == Unused
conn == Unused
setting == Unused
role == Unused
row == Unused
made == Unused
binds == Unused
seen == Unused
told == Unused
faults == Unused
changes == Unused
MaxCancels == Unused
operation == Unused
thread == Unused
attempt == Unused
progress == Unused
decision == Unused
runtime == Unused
gateway == Unused
wire == Unused
error == Unused
cancels == Unused
pending == Unused
remembered == Unused
answer == Unused
Keepalive == Unused
Idle == Unused
Ceiling == Unused
Cap == Unused
RequestLimit == Unused
MaxAuthorization == Unused
MaxTransit == Unused
MaxLag == Unused
MaxOutput == Unused
MayDie == Unused
now == Unused
touched == Unused
heard == Unused
server == Unused
opened == Unused
lastSent == Unused
connected == Unused
work == Unused
finished == Unused
output == Unused
handed == Unused
queue == Unused
Views == Unused
MaxTurns == Unused
MaxMoves == Unused
page == Unused
url == Unused
turns == Unused
saved == Unused
live == Unused
read == Unused
moves == Unused
Tabs == Unused
Products == Unused
MaxIntents == Unused
device == Unused
hold == Unused
product == Unused
tab == Unused
shown == Unused
restore == Unused
Requests == Unused
Streams == Unused
Greets == Unused
MaxTokens == Unused
status == Unused
tokens == Unused
gen == Unused
inflight == Unused
timer == Unused
calls == Unused
refreshing == Unused
signedOut == Unused
req == Unused
dead == Unused
left == Unused
Publishes == Unused
MaxCommit == Unused
TightenAny == Unused
Still == Unused
mode == Unused
kind == Unused
tighten == Unused
image == Unused
head == Unused
proof == Unused
proven == Unused
hops == Unused
roles == Unused
service == Unused
op == Unused
ended == Unused
site == Unused
receipt == Unused
Goals == Unused
MaxGateways == Unused
gate == Unused
learned == Unused
moving == Unused
logGroup == Unused
file == Unused
render == Unused
ready == Unused
pin == Unused
cmd == Unused
orphan == Unused
Snaps == Unused
cache == Unused
result == Unused
run == Unused
replaced == Unused
Runs == Unused
Logins == Unused
InPlace == Unused
NoRun == Unused
MaxVersions == Unused
Attempts == Unused
Together == Unused
login == Unused
found == Unused
lines == Unused
verifier == Unused
secret == Unused
versions == Unused
env == Unused
last == Unused
alone == Unused
broken == Unused
Operators == Unused
Scripts == Unused
Newest == Unused
MaxRuns == Unused
db == Unused
advisory == Unused
keys == Unused
runs == Unused
Workers == Unused
Overlap == Unused
MaxStarts == Unused
MaxVersion == Unused
checkpoints == Unused
blobs == Unused
writes == Unused
base == Unused
value == Unused
id == Unused
size == Unused
parts == Unused
tx == Unused
seg == Unused
starts == Unused
DisplayLimit == Unused
GovernanceLimit == Unused
Initial == Unused
Signals == Unused
Changes == Unused
MaxWrites == Unused
MaxRequests == Unused
Reliable == Unused
rows == Unused
clock == Unused
edited == Unused
forgotten == Unused
phase == Unused
enabled == Unused
facts == Unused
preview == Unused
ceiling == Unused
asof == Unused
reading == Unused
refresh == Unused
edit == Unused
late == Unused
turn == Unused
asked == Unused
requests == Unused
MaxBreaks == Unused
MaxPasted == Unused
cloud == Unused
logs == Unused
joined == Unused
book == Unused
at == Unused
step == Unused
entries == Unused
todo == Unused
owned == Unused
groups == Unused
code == Unused
hit == Unused
breaks == Unused
pasted == Unused
Jobs == Unused
NoJob == Unused
Parallel == Unused
MaxUpsets == Unused
pp == Unused
exit == Unused
verdict == Unused
backend == Unused
answerer == Unused
failed == Unused
tried == Unused
whole == Unused
data == Unused
purge == Unused
superseded == Unused
upsets == Unused

-----------------------------------------------------------------------------
Proofs1 == INSTANCE Service_proofs WITH
    Keepalive <- 2, Idle <- 4, Ceiling <- 6, Cap <- 6, RequestLimit <- 7, MaxAuthorization <- 1,
    MaxTransit <- 1, MaxLag <- 1, MaxOutput <- 2, MayDie <- TRUE, now <- s1, touched <- s2,
    told <- s3, heard <- s4, server <- s5, opened <- s6, lastSent <- s7, connected <- s8,
    work <- s9, finished <- s10, output <- s11, handed <- s12, queue <- s13, wire <- s14,
    Requests <- {"plain", "stream"}, Streams <- {"stream"}, Greets <- FALSE, MaxTokens <- 2,
    MaxFaults <- 2, status <- s1, tokens <- s2, gen <- s3, inflight <- s4, timer <- s5,
    calls <- s6, refreshing <- s7, signedOut <- s8, req <- s9, dead <- s10, left <- s11,
    faults <- s12, DisplayLimit <- 1, GovernanceLimit <- 5, Initial <- {Ranked},
    Signals <- {"explicit", "learned"} \X {"cap", "range"} \X {1} \X {1, 2},
    Changes <- {"change", "remove"} \X {"cap", "diet"} \X {2}, MaxWrites <- 4, MaxRequests <- 2,
    Reliable <- FALSE, rows <- s1, clock <- s2, edited <- s3, forgotten <- s4, phase <- s5,
    enabled <- s6, facts <- s7, preview <- s8, ceiling <- s9, asof <- s10, reading <- s11,
    refresh <- s12, edit <- s13, late <- s14, turn <- s15, last <- s16, asked <- s17,
    requests <- s18

\* The group's instance of EventStream and the one Service_proofs makes are the same
\* system, over the same places, and promise the same things.
LEMMA StreamMatch ==
    /\ Stream!Init => Proofs1!Stream!Init
    /\ Stream!Next => Proofs1!Stream!Next
    /\ UNCHANGED Stream!vars => UNCHANGED Proofs1!Stream!vars
    /\ Proofs1!StreamPromise =>
         /\ Stream!TypeOK
         /\ Stream!CompleteIsAll
         /\ Stream!FinishedIsDelivered
         /\ Stream!EndsOnce
         /\ Stream!LiveIsNotQuiet
         /\ Stream!NeverCut
<1>1. Stream!Init => Proofs1!Stream!Init
  BY DEF Stream!Init, Proofs1!Stream!Init
<1>2. Stream!Next => Proofs1!Stream!Next
  BY DEF Stream!Next, Proofs1!Stream!Next, Stream!Open, Proofs1!Stream!Open, Stream!Emit,
         Proofs1!Stream!Emit, Stream!Finish, Proofs1!Stream!Finish, Stream!Deliver,
         Proofs1!Stream!Deliver, Stream!Frame, Proofs1!Stream!Frame, Stream!Close,
         Proofs1!Stream!Close, Stream!Beat, Proofs1!Stream!Beat, Stream!Notice,
         Proofs1!Stream!Notice, Stream!Die, Proofs1!Stream!Die, Stream!Arrive,
         Proofs1!Stream!Arrive, Stream!Quiet, Proofs1!Stream!Quiet, Stream!TooLong,
         Proofs1!Stream!TooLong, Stream!Broken, Proofs1!Stream!Broken, Stream!Leave,
         Proofs1!Stream!Leave, Stream!Pass, Proofs1!Stream!Pass, Stream!Sent, Proofs1!Stream!Sent,
         Stream!Greeting, Proofs1!Stream!Greeting, Stream!page, Proofs1!Stream!page, Stream!stream,
         Proofs1!Stream!stream, Stream!Terminal, Proofs1!Stream!Terminal, Stream!task,
         Proofs1!Stream!task, Stream!Listening, Proofs1!Stream!Listening, Stream!Over,
         Proofs1!Stream!Over, Stream!ReadBack, Proofs1!Stream!ReadBack, Stream!Silent,
         Proofs1!Stream!Silent, Stream!Keep, Proofs1!Stream!Keep, Stream!Outputs,
         Proofs1!Stream!Outputs, Stream!WaitedEnough, Proofs1!Stream!WaitedEnough, Stream!Due,
         Proofs1!Stream!Due
<1>3. UNCHANGED Stream!vars => UNCHANGED Proofs1!Stream!vars
  BY DEF Stream!vars, Proofs1!Stream!vars, Stream!page, Proofs1!Stream!page, Stream!stream,
         Proofs1!Stream!stream, Stream!task, Proofs1!Stream!task
<1>4. Proofs1!StreamPromise =>
         /\ Stream!TypeOK
         /\ Stream!CompleteIsAll
         /\ Stream!FinishedIsDelivered
         /\ Stream!EndsOnce
         /\ Stream!LiveIsNotQuiet
         /\ Stream!NeverCut
  BY DEF Proofs1!StreamPromise, Stream!TypeOK, Proofs1!Stream!TypeOK, Stream!CompleteIsAll,
         Proofs1!Stream!CompleteIsAll, Stream!FinishedIsDelivered,
         Proofs1!Stream!FinishedIsDelivered, Stream!EndsOnce, Proofs1!Stream!EndsOnce,
         Stream!LiveIsNotQuiet, Proofs1!Stream!LiveIsNotQuiet, Stream!NeverCut,
         Proofs1!Stream!NeverCut, Stream!Outputs, Proofs1!Stream!Outputs, Stream!Answers,
         Proofs1!Stream!Answers, Stream!Terminal, Proofs1!Stream!Terminal, Stream!ReadBack,
         Proofs1!Stream!ReadBack, Stream!ToSet, Proofs1!Stream!ToSet,
         Proofs1!Stream!LiveWhilePrompt, Proofs1!Stream!ConnectionIsPrompt, Proofs1!Stream!Gap
<1>5. QED BY <1>1, <1>2, <1>3, <1>4

\* A page that shows a completed answer was shown all of it, a finished reply is delivered, and
\* no stream that is alive is cut off, in the group's behaviours (routers/chat.py, request.ts).
THEOREM StreamHolds == Spec => []StreamIsWhole
<1> DEFINE Inv == OnStream => Proofs1!Stream!IInv
<1>1. Proofs1!Stream!TimesFit
  BY DEF Stream!TimesFit, Proofs1!Stream!TimesFit
<1>2. Init => Inv
  BY <1>1, Proofs1!StreamInit, StreamMatch DEF Init, TurnInit, OnTurn, HistoryInit, OnHistory,
     RepairsInit, OnRepairs, StreamInit, OnStream, ScopeInit, OnScope, MemoryInit, OnMemory,
     PreviewInit, OnPreview, SearchInit, OnSearch, BatchesInit, OnBatches, SavesInit, OnSaves,
     SessionInit, OnSession, TripsInit, OnTrips, DeskInit, OnDesk, MovesInit, OnMoves
<1>3. Inv /\ [Next]_all => Inv'
  <2>1. OnStream /\ [Next]_all => Stream!Next \/ UNCHANGED Stream!vars
    BY DEF all, Next, Stream!vars, Stream!page, Stream!stream, Stream!task, TurnNext, OnTurn,
           HistoryNext, OnHistory, RepairsNext, OnRepairs, StreamNext, OnStream, ScopeNext, OnScope,
           MemoryNext, OnMemory, PreviewNext, OnPreview, SearchNext, OnSearch, BatchesNext,
           OnBatches, SavesNext, OnSaves, SessionNext, OnSession, TripsNext, OnTrips, DeskNext,
           OnDesk, MovesNext, OnMoves
  <2>2. [Next]_all => part' = part
    BY DEF all, Next, TurnNext, HistoryNext, RepairsNext, StreamNext, ScopeNext, MemoryNext,
           PreviewNext, SearchNext, BatchesNext, SavesNext, SessionNext, TripsNext, DeskNext,
           MovesNext
  <2>. QED BY <1>1, <2>1, <2>2, Proofs1!StreamStep, StreamMatch DEF OnStream
<1>4. Inv => StreamIsWhole
  BY <1>1, Proofs1!StreamSays, StreamMatch DEF StreamIsWhole
<1>5. QED BY <1>2, <1>3, <1>4, PTL DEF Spec

-----------------------------------------------------------------------------
\* The group's instance of BrowserSession and the one Service_proofs makes are the same system,
\* over the same places, and promise the same things.
LEMMA SessionMatch ==
    /\ Session!Init => Proofs1!Session!Init
    /\ Session!Next => Proofs1!Session!Next
    /\ UNCHANGED Session!vars => UNCHANGED Proofs1!Session!vars
    /\ Proofs1!SessionPromise =>
         /\ Session!TypeOK
         /\ Session!OneRefresh
         /\ Session!KeptUnlessRefused
    /\ Proofs1!Session!StaysOut => Session!StaysOut
    /\ Proofs1!Session!RunsAgain => Session!RunsAgain
<1>1. Session!Init => Proofs1!Session!Init
  BY DEF Session!Init, Proofs1!Session!Init, Session!None, Proofs1!Session!None, Session!Idle,
         Proofs1!Session!Idle
<1>2. Session!Next => Proofs1!Session!Next
  BY DEF Session!Next, Proofs1!Session!Next, Session!SignIn, Proofs1!Session!SignIn,
         Session!TimerFires, Proofs1!Session!TimerFires, Session!TabShown, Proofs1!Session!TabShown,
         Session!SignOut, Proofs1!Session!SignOut, Session!Renewed, Proofs1!Session!Renewed,
         Session!RefreshFails, Proofs1!Session!RefreshFails, Session!Works, Proofs1!Session!Works,
         Session!Tokens, Proofs1!Session!Tokens, Session!Expire, Proofs1!Session!Expire,
         Session!ApplyTokens, Proofs1!Session!ApplyTokens, Session!SignedOut,
         Proofs1!Session!SignedOut, Session!Renews, Proofs1!Session!Renews, Session!AnswerCounts,
         Proofs1!Session!AnswerCounts, Session!session, Proofs1!Session!session, Session!Answered,
         Proofs1!Session!Answered, Session!Retry, Proofs1!Session!Retry, Session!Fault,
         Proofs1!Session!Fault, Session!Send, Proofs1!Session!Send, Session!Accept,
         Proofs1!Session!Accept, Session!Resume, Proofs1!Session!Resume, Session!Refuse,
         Proofs1!Session!Refuse, Session!Greet, Proofs1!Session!Greet, Session!Speak,
         Proofs1!Session!Speak, Session!Complete, Proofs1!Session!Complete, Session!StreamExpired,
         Proofs1!Session!StreamExpired, Session!StreamRequired, Proofs1!Session!StreamRequired,
         Session!GiveUp, Proofs1!Session!GiveUp, Session!None, Proofs1!Session!None, Session!Wire,
         Proofs1!Session!Wire, Session!Waits, Proofs1!Session!Waits, Session!RefreshNow,
         Proofs1!Session!RefreshNow, Session!Told, Proofs1!Session!Told, Session!Idle,
         Proofs1!Session!Idle, Session!EndsWith, Proofs1!Session!EndsWith, Session!Headers,
         Proofs1!Session!Headers, Session!RefreshOnce, Proofs1!Session!RefreshOnce, Session!Framed,
         Proofs1!Session!Framed, Session!End, Proofs1!Session!End, Session!ContentDelivered,
         Proofs1!Session!ContentDelivered, Session!Capped, Proofs1!Session!Capped,
         Session!EndSession, Proofs1!Session!EndSession
<1>3. UNCHANGED Session!vars => UNCHANGED Proofs1!Session!vars
  BY DEF Session!vars, Proofs1!Session!vars, Session!session, Proofs1!Session!session
<1>4. Proofs1!SessionPromise =>
         /\ Session!TypeOK
         /\ Session!OneRefresh
         /\ Session!KeptUnlessRefused
  BY DEF Proofs1!SessionPromise, Session!TypeOK, Proofs1!Session!TypeOK, Session!OneRefresh,
         Proofs1!Session!OneRefresh, Session!KeptUnlessRefused, Proofs1!Session!KeptUnlessRefused,
         Session!Tokens, Proofs1!Session!Tokens, Session!None, Proofs1!Session!None, Session!Wire,
         Proofs1!Session!Wire, Session!Waits, Proofs1!Session!Waits, Session!Ends,
         Proofs1!Session!Ends
<1>5. /\ Proofs1!Session!StaysOut => Session!StaysOut
      /\ Proofs1!Session!RunsAgain => Session!RunsAgain
  BY DEF Session!StaysOut, Proofs1!Session!StaysOut, Session!RunsAgain, Proofs1!Session!RunsAgain
<1>6. QED BY <1>1, <1>2, <1>3, <1>4, <1>5

\* The inductive invariant of BrowserSession holds of the group's behaviours that are its.
LEMMA SessionHold == Spec => [](OnSession => Proofs1!Session!IInv)
<1> DEFINE Inv == OnSession => Proofs1!Session!IInv
<1>1. Proofs1!Session!SessionAssumption
  BY Instances DEF Session!SessionAssumption, Proofs1!Session!SessionAssumption
<1>2. Init => Inv
  BY <1>1, Proofs1!SessionInit, SessionMatch DEF Init, TurnInit, OnTurn, HistoryInit, OnHistory,
     RepairsInit, OnRepairs, StreamInit, OnStream, ScopeInit, OnScope, MemoryInit, OnMemory,
     PreviewInit, OnPreview, SearchInit, OnSearch, BatchesInit, OnBatches, SavesInit, OnSaves,
     SessionInit, OnSession, TripsInit, OnTrips, DeskInit, OnDesk, MovesInit, OnMoves
<1>3. Inv /\ [Next]_all => Inv'
  <2>1. OnSession /\ [Next]_all => Session!Next \/ UNCHANGED Session!vars
    BY DEF all, Next, Session!vars, Session!session, TurnNext, OnTurn, HistoryNext, OnHistory,
           RepairsNext, OnRepairs, StreamNext, OnStream, ScopeNext, OnScope, MemoryNext, OnMemory,
           PreviewNext, OnPreview, SearchNext, OnSearch, BatchesNext, OnBatches, SavesNext, OnSaves,
           SessionNext, OnSession, TripsNext, OnTrips, DeskNext, OnDesk, MovesNext, OnMoves
  <2>2. [Next]_all => part' = part
    BY DEF all, Next, TurnNext, HistoryNext, RepairsNext, StreamNext, ScopeNext, MemoryNext,
           PreviewNext, SearchNext, BatchesNext, SavesNext, SessionNext, TripsNext, DeskNext,
           MovesNext
  <2>. QED BY <1>1, <2>1, <2>2, Proofs1!SessionStep, SessionMatch DEF OnSession
<1>4. QED BY <1>2, <1>3, PTL DEF Spec

-----------------------------------------------------------------------------
\* Refusals that arrive in any order share one refresh and never end a session that could go on;
\* one that ended stays ended, and no stream is run again after the person heard it, in the
\* group's behaviours (auth/session.ts, api/request.ts).
THEOREM SessionHolds == Spec => SessionIsKept
<1> DEFINE Inv == OnSession => Proofs1!Session!IInv
           Holds == OnSession => /\ Session!TypeOK
                                 /\ Session!OneRefresh
                                 /\ Session!KeptUnlessRefused
<1>1. Proofs1!Session!SessionAssumption
  BY Instances DEF Session!SessionAssumption, Proofs1!Session!SessionAssumption
<1>2. Inv => Holds
  BY <1>1, Proofs1!SessionSays, SessionMatch
<1>3. Inv /\ [Next]_all => [OnSession => Session!StaysOut /\ Session!RunsAgain]_all
  <2>1. OnSession /\ [Next]_all => Session!Next \/ UNCHANGED Session!vars
    BY DEF all, Next, Session!vars, Session!session, TurnNext, OnTurn, HistoryNext, OnHistory,
           RepairsNext, OnRepairs, StreamNext, OnStream, ScopeNext, OnScope, MemoryNext, OnMemory,
           PreviewNext, OnPreview, SearchNext, OnSearch, BatchesNext, OnBatches, SavesNext, OnSaves,
           SessionNext, OnSession, TripsNext, OnTrips, DeskNext, OnDesk, MovesNext, OnMoves
  <2> QED BY <1>1, <2>1, Proofs1!SessionMoves, SessionMatch
<1>4. Inv /\ [Next]_all =>
        [OnSession => Session!StaysOut]_all /\ [OnSession => Session!RunsAgain]_all
  BY <1>3
<1> HIDE DEF Inv, Holds
<1>5. Spec => []Inv
  BY SessionHold DEF Inv
<1>6. Spec => /\ []Holds
              /\ [][OnSession => Session!StaysOut]_all
              /\ [][OnSession => Session!RunsAgain]_all
  BY <1>2, <1>4, <1>5, PTL DEF Spec
<1>7. QED BY <1>6 DEF Holds, SessionIsKept

-----------------------------------------------------------------------------
Proofs2 == INSTANCE Service_proofs WITH
    MaxCancels <- 1, operation <- s1, pc <- s2, thread <- s3, attempt <- s4, progress <- s5,
    decision <- s6, runtime <- s7, gateway <- s8, wire <- s9, error <- s10, row <- s11,
    cancels <- s12, pending <- s13, remembered <- s14, answer <- s15, Tabs <- {"t1"},
    Products <- {"p1", "p2"}, MaxIntents <- 2, MaxFaults <- 3, device <- s1, hold <- s2,
    product <- s3, work <- s4, tab <- s5, shown <- s6, restore <- s7, faults <- s8,
    DisplayLimit <- 1, GovernanceLimit <- 5, Initial <- {{Fact("cap", 1, 1, 1)}},
    Signals <- {<<"learned", "cap", 2, 2>>}, Changes <- {"change", "remove"} \X {"cap"} \X {2},
    MaxWrites <- 2, MaxRequests <- 3, Reliable <- FALSE, rows <- s1, clock <- s2, edited <- s3,
    forgotten <- s4, phase <- s5, enabled <- s6, facts <- s7, preview <- s8, ceiling <- s9,
    asof <- s10, reading <- s11, refresh <- s12, edit <- s13, late <- s14, turn <- s15,
    last <- s16, asked <- s17, requests <- s18

\* The group's instance of GovernedTurn and the one Service_proofs makes are the same
\* system, over the same places, and promise the same things.
LEMMA TurnMatch ==
    /\ Turn!Init => Proofs2!Turn!Init
    /\ Turn!Next => Proofs2!Turn!Next
    /\ UNCHANGED Turn!vars => UNCHANGED Proofs2!Turn!vars
    /\ Proofs2!TurnPromise =>
         /\ Turn!TypeOK
         /\ Turn!PlacedIsWritten
         /\ Turn!UnwrittenUnlessGivenUp
         /\ Turn!CalledOnce
         /\ Turn!RowBeforeTheEnd
         /\ Turn!RowIsTruthful
         /\ Turn!RememberedIsAudited
<1>1. Turn!Init => Proofs2!Turn!Init
  BY DEF Turn!Init, Proofs2!Turn!Init, Turn!Nothing, Proofs2!Turn!Nothing, Turn!Attempts,
         Proofs2!Turn!Attempts, Turn!NoRow, Proofs2!Turn!NoRow
<1>2. Turn!Next => Proofs2!Turn!Next
  BY DEF Turn!Next, Proofs2!Turn!Next, Turn!Request, Proofs2!Turn!Request, Turn!Thread,
         Proofs2!Turn!Thread, Turn!AuditTask, Proofs2!Turn!AuditTask, Turn!Cancel,
         Proofs2!Turn!Cancel, Turn!Attempts, Proofs2!Turn!Attempts, Turn!Concierge,
         Proofs2!Turn!Concierge, Turn!Lambda, Proofs2!Turn!Lambda, Turn!Authorize,
         Proofs2!Turn!Authorize, Turn!Return, Proofs2!Turn!Return, Turn!CallFails,
         Proofs2!Turn!CallFails, Turn!Trace, Proofs2!Turn!Trace, Turn!Hydrate, Proofs2!Turn!Hydrate,
         Turn!BeginAudit, Proofs2!Turn!BeginAudit, Turn!AuditWaited, Proofs2!Turn!AuditWaited,
         Turn!Remember, Proofs2!Turn!Remember, Turn!Log, Proofs2!Turn!Log, Turn!Send,
         Proofs2!Turn!Send, Turn!SendRefused, Proofs2!Turn!SendRefused, Turn!Closed,
         Proofs2!Turn!Closed, Turn!NoResponse, Proofs2!Turn!NoResponse, Turn!Respond,
         Proofs2!Turn!Respond, Turn!ReadEvent, Proofs2!Turn!ReadEvent, Turn!StreamEnd,
         Proofs2!Turn!StreamEnd, Turn!StreamBreak, Proofs2!Turn!StreamBreak, Turn!invoke,
         Proofs2!Turn!invoke, Turn!agent, Proofs2!Turn!agent, Turn!Over, Proofs2!Turn!Over,
         Turn!kept, Proofs2!Turn!kept, Turn!RuntimeFails, Proofs2!Turn!RuntimeFails, Turn!PlaceCall,
         Proofs2!Turn!PlaceCall, Turn!AnswerDirectly, Proofs2!Turn!AnswerDirectly,
         Turn!ExpireBeforeCall, Proofs2!Turn!ExpireBeforeCall, Turn!CallAnswered,
         Proofs2!Turn!CallAnswered, Turn!CallGivesUp, Proofs2!Turn!CallGivesUp, Turn!RuntimeErrors,
         Proofs2!Turn!RuntimeErrors, Turn!RuntimeAnswers, Proofs2!Turn!RuntimeAnswers,
         Turn!GatewayDecides, Proofs2!Turn!GatewayDecides, Turn!LambdaRefuses,
         Proofs2!Turn!LambdaRefuses, Turn!LambdaWrites, Proofs2!Turn!LambdaWrites, Turn!StartAudit,
         Proofs2!Turn!StartAudit, Turn!AuditEnded, Proofs2!Turn!AuditEnded, Turn!Returned,
         Proofs2!Turn!Returned, Turn!ReplyToFailedCall, Proofs2!Turn!ReplyToFailedCall,
         Turn!RowFailed, Proofs2!Turn!RowFailed, Turn!ReplyToFailedStep,
         Proofs2!Turn!ReplyToFailedStep, Turn!Remembers, Proofs2!Turn!Remembers, Turn!Reply,
         Proofs2!Turn!Reply, Turn!MayResend, Proofs2!Turn!MayResend, Turn!Apply, Proofs2!Turn!Apply,
         Turn!RuntimeGoes, Proofs2!Turn!RuntimeGoes, Turn!Emit, Proofs2!Turn!Emit,
         Turn!BackendStays, Proofs2!Turn!BackendStays, Turn!Outcome, Proofs2!Turn!Outcome,
         Turn!GatewayMoves, Proofs2!Turn!GatewayMoves, Turn!Verdict, Proofs2!Turn!Verdict,
         Turn!Calls, Proofs2!Turn!Calls, Turn!Placed, Proofs2!Turn!Placed, Turn!OutcomeUnknown,
         Proofs2!Turn!OutcomeUnknown, Turn!Spans, Proofs2!Turn!Spans
<1>3. UNCHANGED Turn!vars => UNCHANGED Proofs2!Turn!vars
  BY DEF Turn!vars, Proofs2!Turn!vars, Turn!invoke, Proofs2!Turn!invoke, Turn!agent,
         Proofs2!Turn!agent, Turn!kept, Proofs2!Turn!kept
<1>4. Proofs2!TurnPromise =>
         /\ Turn!TypeOK
         /\ Turn!PlacedIsWritten
         /\ Turn!UnwrittenUnlessGivenUp
         /\ Turn!CalledOnce
         /\ Turn!RowBeforeTheEnd
         /\ Turn!RowIsTruthful
         /\ Turn!RememberedIsAudited
  BY DEF Proofs2!TurnPromise, Turn!TypeOK, Proofs2!Turn!TypeOK, Turn!PlacedIsWritten,
         Proofs2!Turn!PlacedIsWritten, Turn!UnwrittenUnlessGivenUp,
         Proofs2!Turn!UnwrittenUnlessGivenUp, Turn!CalledOnce, Proofs2!Turn!CalledOnce,
         Turn!RowBeforeTheEnd, Proofs2!Turn!RowBeforeTheEnd, Turn!RowIsTruthful,
         Proofs2!Turn!RowIsTruthful, Turn!RememberedIsAudited, Proofs2!Turn!RememberedIsAudited,
         Turn!Attempts, Proofs2!Turn!Attempts, Turn!Spans, Proofs2!Turn!Spans, Turn!Events,
         Proofs2!Turn!Events, Turn!Written, Proofs2!Turn!Written, Turn!GaveUp, Proofs2!Turn!GaveUp
<1>5. QED BY <1>1, <1>2, <1>3, <1>4

\* What the traveler is told of a governed turn, what its audit row says and what was done
\* agree, in the group's behaviours (agents/phase_04_production and the Gateway it calls).
THEOREM TurnHolds == Spec => []TurnIsTold
<1> DEFINE Inv == OnTurn => Proofs2!Turn!IInv
<1>1. Proofs2!Turn!MaxCancelsAssumption
  BY Instances DEF Turn!MaxCancelsAssumption, Proofs2!Turn!MaxCancelsAssumption
<1>2. Init => Inv
  BY <1>1, Proofs2!TurnInit, TurnMatch DEF Init, TurnInit, OnTurn, HistoryInit, OnHistory,
     RepairsInit, OnRepairs, StreamInit, OnStream, ScopeInit, OnScope, MemoryInit, OnMemory,
     PreviewInit, OnPreview, SearchInit, OnSearch, BatchesInit, OnBatches, SavesInit, OnSaves,
     SessionInit, OnSession, TripsInit, OnTrips, DeskInit, OnDesk, MovesInit, OnMoves
<1>3. Inv /\ [Next]_all => Inv'
  <2>1. OnTurn /\ [Next]_all => Turn!Next \/ UNCHANGED Turn!vars
    BY DEF all, Next, Turn!vars, Turn!invoke, Turn!agent, Turn!kept, TurnNext, OnTurn, HistoryNext,
           OnHistory, RepairsNext, OnRepairs, StreamNext, OnStream, ScopeNext, OnScope, MemoryNext,
           OnMemory, PreviewNext, OnPreview, SearchNext, OnSearch, BatchesNext, OnBatches,
           SavesNext, OnSaves, SessionNext, OnSession, TripsNext, OnTrips, DeskNext, OnDesk,
           MovesNext, OnMoves
  <2>2. [Next]_all => part' = part
    BY DEF all, Next, TurnNext, HistoryNext, RepairsNext, StreamNext, ScopeNext, MemoryNext,
           PreviewNext, SearchNext, BatchesNext, SavesNext, SessionNext, TripsNext, DeskNext,
           MovesNext
  <2>. QED BY <1>1, <2>1, <2>2, Proofs2!TurnStep, TurnMatch DEF OnTurn
<1>4. Inv => TurnIsTold
  BY <1>1, Proofs2!TurnSays, TurnMatch DEF TurnIsTold
<1>5. QED BY <1>2, <1>3, <1>4, PTL DEF Spec

-----------------------------------------------------------------------------
\* The group's instance of TripWrites and the one Service_proofs makes are the same system,
\* over the same places, and promise the same things.
LEMMA TripsMatch ==
    /\ Trips!Init => Proofs2!Trips!Init
    /\ Trips!Next => Proofs2!Trips!Next
    /\ UNCHANGED Trips!vars => UNCHANGED Proofs2!Trips!vars
    /\ Proofs2!TripsPromise =>
         /\ Trips!TypeOK
         /\ Trips!NoSecondHold
         /\ Trips!NothingForgotten
<1>1. Trips!Init => Proofs2!Trips!Init
  BY DEF Trips!Init, Proofs2!Trips!Init, Trips!Empty, Proofs2!Trips!Empty, Trips!Intents,
         Proofs2!Trips!Intents, Trips!Free, Proofs2!Trips!Free, Trips!Blank, Proofs2!Trips!Blank,
         Trips!Nothing, Proofs2!Trips!Nothing, Trips!None, Proofs2!Trips!None
<1>2. Trips!Next => Proofs2!Trips!Next
  BY DEF Trips!Next, Proofs2!Trips!Next, Trips!Clicks, Proofs2!Trips!Clicks, Trips!Steps,
         Proofs2!Trips!Steps, Trips!ReadFails, Proofs2!Trips!ReadFails, Trips!StopWaiting,
         Proofs2!Trips!StopWaiting, Trips!Reload, Proofs2!Trips!Reload, Trips!RestoreFails,
         Proofs2!Trips!RestoreFails, Trips!Serve, Proofs2!Trips!Serve, Trips!Refuse,
         Proofs2!Trips!Refuse, Trips!Intents, Proofs2!Trips!Intents, Trips!Expire,
         Proofs2!Trips!Expire, Trips!HoldClick, Proofs2!Trips!HoldClick, Trips!ConfirmClick,
         Proofs2!Trips!ConfirmClick, Trips!HoldRead, Proofs2!Trips!HoldRead, Trips!BookingRead,
         Proofs2!Trips!BookingRead, Trips!ReadBack, Proofs2!Trips!ReadBack, Trips!Restored,
         Proofs2!Trips!Restored, Trips!Settle, Proofs2!Trips!Settle, Trips!Fault,
         Proofs2!Trips!Fault, Trips!Free, Proofs2!Trips!Free, Trips!Blank, Proofs2!Trips!Blank,
         Trips!Written, Proofs2!Trips!Written, Trips!Waits, Proofs2!Trips!Waits, Trips!Remember,
         Proofs2!Trips!Remember, Trips!ReadFirst, Proofs2!Trips!ReadFirst, Trips!Draw,
         Proofs2!Trips!Draw, Trips!SawItExpire, Proofs2!Trips!SawItExpire, Trips!Kept,
         Proofs2!Trips!Kept, Trips!None, Proofs2!Trips!None, Trips!Receipt, Proofs2!Trips!Receipt,
         Trips!Empty, Proofs2!Trips!Empty, Trips!Drawn, Proofs2!Trips!Drawn, Trips!NextIntent,
         Proofs2!Trips!NextIntent, Trips!Nothing, Proofs2!Trips!Nothing
<1>3. UNCHANGED Trips!vars => UNCHANGED Proofs2!Trips!vars
  BY DEF Trips!vars, Proofs2!Trips!vars
<1>4. Proofs2!TripsPromise =>
         /\ Trips!TypeOK
         /\ Trips!NoSecondHold
         /\ Trips!NothingForgotten
  BY DEF Proofs2!TripsPromise, Trips!Cardinality, Proofs2!Trips!Cardinality, Trips!TypeOK,
         Proofs2!Trips!TypeOK, Trips!NoSecondHold, Proofs2!Trips!NoSecondHold,
         Trips!NothingForgotten, Proofs2!Trips!NothingForgotten, Trips!Intents,
         Proofs2!Trips!Intents, Trips!None, Proofs2!Trips!None, Trips!Drawn, Proofs2!Trips!Drawn,
         Trips!Live, Proofs2!Trips!Live
<1>5. QED BY <1>1, <1>2, <1>3, <1>4

\* The inductive invariant of TripWrites holds of the group's behaviours that are its.
LEMMA TripsHold == Spec => [](OnTrips => Proofs2!Trips!IInv)
<1> DEFINE Inv == OnTrips => Proofs2!Trips!IInv
<1>1. Proofs2!Trips!WritesAssumption /\ Proofs2!Trips!OneTab
  BY Instances DEF Trips!WritesAssumption, Proofs2!Trips!WritesAssumption, Trips!OneTab,
     Proofs2!Trips!OneTab
<1>2. Init => Inv
  BY <1>1, Proofs2!TripsInit, TripsMatch DEF Init, TurnInit, OnTurn, HistoryInit, OnHistory,
     RepairsInit, OnRepairs, StreamInit, OnStream, ScopeInit, OnScope, MemoryInit, OnMemory,
     PreviewInit, OnPreview, SearchInit, OnSearch, BatchesInit, OnBatches, SavesInit, OnSaves,
     SessionInit, OnSession, TripsInit, OnTrips, DeskInit, OnDesk, MovesInit, OnMoves
<1>3. Inv /\ [Next]_all => Inv'
  <2>1. OnTrips /\ [Next]_all => Trips!Next \/ UNCHANGED Trips!vars
    BY DEF all, Next, Trips!vars, TurnNext, OnTurn, HistoryNext, OnHistory, RepairsNext, OnRepairs,
           StreamNext, OnStream, ScopeNext, OnScope, MemoryNext, OnMemory, PreviewNext, OnPreview,
           SearchNext, OnSearch, BatchesNext, OnBatches, SavesNext, OnSaves, SessionNext, OnSession,
           TripsNext, OnTrips, DeskNext, OnDesk, MovesNext, OnMoves
  <2>2. [Next]_all => part' = part
    BY DEF all, Next, TurnNext, HistoryNext, RepairsNext, StreamNext, ScopeNext, MemoryNext,
           PreviewNext, SearchNext, BatchesNext, SavesNext, SessionNext, TripsNext, DeskNext,
           MovesNext
  <2>. QED BY <1>1, <2>1, <2>2, Proofs2!TripsStep, TripsMatch DEF OnTrips
<1>4. QED BY <1>2, <1>3, PTL DEF Spec

-----------------------------------------------------------------------------
Proofs3 == INSTANCE Operations_proofs WITH
    Workers <- {"w1", "w2"}, Overlap <- TRUE, MaxStarts <- 2, MaxVersion <- 2, checkpoints <- s1,
    blobs <- s2, writes <- s3, pc <- s4, base <- s5, value <- s6, id <- s7, size <- s8,
    parts <- s9, tx <- s10, row <- s11, seg <- s12, starts <- s13

\* The group's first instance of TravelerMemory and the one Service_proofs makes are the same
\* system, over the same places, and promise the same things.
LEMMA MemoryMatch ==
    /\ Memory!Init => Proofs1!Memory!Init
    /\ Memory!Next => Proofs1!Memory!Next
    /\ UNCHANGED Memory!vars => UNCHANGED Proofs1!Memory!vars
    /\ Proofs1!MemoryPromise =>
         /\ Memory!TypeOK
         /\ Memory!EditWins
         /\ Memory!ForgottenIsGone
         /\ Memory!OneCeiling
<1>1. Memory!Init => Proofs1!Memory!Init
  BY DEF Memory!Init, Proofs1!Memory!Init, Memory!Keys, Proofs1!Memory!Keys, Memory!Nothing,
         Proofs1!Memory!Nothing, Memory!None, Proofs1!Memory!None, Memory!Cardinality,
         Proofs1!Memory!Cardinality
<1>2. Memory!Next => Proofs1!Memory!Next
  BY DEF Memory!Next, Proofs1!Memory!Next, Memory!Learns, Proofs1!Memory!Learns, Memory!Enable,
         Proofs1!Memory!Enable, Memory!Disable, Proofs1!Memory!Disable, Memory!SelectPhase,
         Proofs1!Memory!SelectPhase, Memory!ClearChat, Proofs1!Memory!ClearChat, Memory!ServeRead,
         Proofs1!Memory!ServeRead, Memory!ReadAnswered, Proofs1!Memory!ReadAnswered,
         Memory!ReadFailed, Proofs1!Memory!ReadFailed, Memory!Tick, Proofs1!Memory!Tick,
         Memory!ServeRefresh, Proofs1!Memory!ServeRefresh, Memory!RefreshAnswered,
         Proofs1!Memory!RefreshAnswered, Memory!RefreshFailed, Proofs1!Memory!RefreshFailed,
         Memory!StartEdit, Proofs1!Memory!StartEdit, Memory!ServeEdit, Proofs1!Memory!ServeEdit,
         Memory!ServeLate, Proofs1!Memory!ServeLate, Memory!EditAnswered,
         Proofs1!Memory!EditAnswered, Memory!EditFailed, Proofs1!Memory!EditFailed, Memory!Send,
         Proofs1!Memory!Send, Memory!ServeTurn, Proofs1!Memory!ServeTurn, Memory!TurnAnswered,
         Proofs1!Memory!TurnAnswered, Memory!Learn, Proofs1!Memory!Learn, Memory!Ask,
         Proofs1!Memory!Ask, Memory!Stale, Proofs1!Memory!Stale, Memory!table, Proofs1!Memory!table,
         Memory!page, Proofs1!Memory!page, Memory!Invalidate, Proofs1!Memory!Invalidate,
         Memory!None, Proofs1!Memory!None, Memory!Profile, Proofs1!Memory!Profile, Memory!chat,
         Proofs1!Memory!chat, Memory!Shown, Proofs1!Memory!Shown, Memory!Serve,
         Proofs1!Memory!Serve, Memory!Request, Proofs1!Memory!Request, Memory!InContext,
         Proofs1!Memory!InContext, Memory!Written, Proofs1!Memory!Written, Memory!Nothing,
         Proofs1!Memory!Nothing, Memory!Top, Proofs1!Memory!Top, Memory!PageCeiling,
         Proofs1!Memory!PageCeiling, Memory!Delete, Proofs1!Memory!Delete, Memory!Update,
         Proofs1!Memory!Update, Memory!Fits, Proofs1!Memory!Fits, Memory!Before,
         Proofs1!Memory!Before, Memory!Ceiling, Proofs1!Memory!Ceiling, Memory!Basis,
         Proofs1!Memory!Basis, Memory!First, Proofs1!Memory!First, Memory!BudgetKeys,
         Proofs1!Memory!BudgetKeys, Memory!Cardinality, Proofs1!Memory!Cardinality
<1>3. UNCHANGED Memory!vars => UNCHANGED Proofs1!Memory!vars
  BY DEF Memory!vars, Proofs1!Memory!vars, Memory!table, Proofs1!Memory!table, Memory!page,
         Proofs1!Memory!page, Memory!chat, Proofs1!Memory!chat
<1>4. Proofs1!MemoryPromise =>
         /\ Memory!TypeOK
         /\ Memory!EditWins
         /\ Memory!ForgottenIsGone
         /\ Memory!OneCeiling
  BY DEF Proofs1!MemoryPromise, Memory!TypeOK, Proofs1!Memory!TypeOK, Memory!EditWins,
         Proofs1!Memory!EditWins, Memory!ForgottenIsGone, Proofs1!Memory!ForgottenIsGone,
         Memory!OneCeiling, Proofs1!Memory!OneCeiling, Memory!Keys, Proofs1!Memory!Keys,
         Memory!Amounts, Proofs1!Memory!Amounts, Memory!Fits, Proofs1!Memory!Fits, Memory!Nothing,
         Proofs1!Memory!Nothing, Memory!First, Proofs1!Memory!First, Memory!PageCeiling,
         Proofs1!Memory!PageCeiling, Memory!TurnCeiling, Proofs1!Memory!TurnCeiling,
         Memory!LambdaCeiling, Proofs1!Memory!LambdaCeiling, Memory!Before, Proofs1!Memory!Before,
         Memory!Ceiling, Proofs1!Memory!Ceiling, Memory!Top, Proofs1!Memory!Top, Memory!Basis,
         Proofs1!Memory!Basis, Memory!BudgetKeys, Proofs1!Memory!BudgetKeys, Memory!Cardinality,
         Proofs1!Memory!Cardinality
<1>5. QED BY <1>1, <1>2, <1>3, <1>4

\* The group's steps are this component's steps while the behaviour is of it, and leave its
\* places alone otherwise.
LEMMA MemoryInductive ==
    /\ Init => (OnMemory => Proofs1!Memory!IInv)
    /\ (OnMemory => Proofs1!Memory!IInv) /\ [Next]_all => (OnMemory => Proofs1!Memory!IInv)'
    /\ (OnMemory => Proofs1!Memory!IInv) =>
         (OnMemory =>
            /\ Memory!TypeOK
            /\ Memory!EditWins
            /\ Memory!ForgottenIsGone
            /\ Memory!OneCeiling)
<1>1. Proofs1!Memory!BoundsAreNatural /\ Proofs1!Memory!InputsKnown
  BY Instances DEF Memory!BoundsAreNatural, Proofs1!Memory!BoundsAreNatural, Memory!InputsKnown,
     Proofs1!Memory!InputsKnown, Memory!Seeded, Proofs1!Memory!Seeded, Memory!Keys,
     Proofs1!Memory!Keys, Memory!Amounts, Proofs1!Memory!Amounts, Memory!Rows, Proofs1!Memory!Rows,
     Memory!Cardinality, Proofs1!Memory!Cardinality, Memory!IsFiniteSet, Proofs1!Memory!IsFiniteSet
<1>2. Init => (OnMemory => Proofs1!Memory!IInv)
  BY <1>1, Proofs1!MemoryInit, MemoryMatch DEF Init, TurnInit, OnTurn, HistoryInit, OnHistory,
     RepairsInit, OnRepairs, StreamInit, OnStream, ScopeInit, OnScope, MemoryInit, OnMemory,
     PreviewInit, OnPreview, SearchInit, OnSearch, BatchesInit, OnBatches, SavesInit, OnSaves,
     SessionInit, OnSession, TripsInit, OnTrips, DeskInit, OnDesk, MovesInit, OnMoves
<1>3. OnMemory /\ [Next]_all => Memory!Next \/ UNCHANGED Memory!vars
  BY DEF all, Next, Memory!vars, Memory!table, Memory!page, Memory!chat, TurnNext, OnTurn,
         HistoryNext, OnHistory, RepairsNext, OnRepairs, StreamNext, OnStream, ScopeNext, OnScope,
         MemoryNext, OnMemory, PreviewNext, OnPreview, SearchNext, OnSearch, BatchesNext, OnBatches,
         SavesNext, OnSaves, SessionNext, OnSession, TripsNext, OnTrips, DeskNext, OnDesk,
         MovesNext, OnMoves
<1>4. [Next]_all => part' = part
  BY DEF all, Next, TurnNext, HistoryNext, RepairsNext, StreamNext, ScopeNext, MemoryNext,
         PreviewNext, SearchNext, BatchesNext, SavesNext, SessionNext, TripsNext, DeskNext,
         MovesNext
<1>5. (OnMemory => Proofs1!Memory!IInv) /\ [Next]_all => (OnMemory => Proofs1!Memory!IInv)'
  BY <1>1, <1>3, <1>4, Proofs1!MemoryStep, MemoryMatch DEF OnMemory
<1>6. (OnMemory => Proofs1!Memory!IInv) =>
        (OnMemory =>
            /\ Memory!TypeOK
            /\ Memory!EditWins
            /\ Memory!ForgottenIsGone
            /\ Memory!OneCeiling)
  BY <1>1, Proofs1!MemorySays, MemoryMatch
<1>7. QED BY <1>2, <1>5, <1>6

-----------------------------------------------------------------------------
\* The group's first instance of CheckpointSaver and the one Operations_proofs makes are the same
\* system, over the same places, and promise the same things.
LEMMA BatchesMatch ==
    /\ Batches!Init => Proofs3!Saver!Init
    /\ Batches!Next => Proofs3!Saver!Next
    /\ UNCHANGED Batches!vars => UNCHANGED Proofs3!Saver!vars
    /\ Proofs3!SaverPromise =>
         /\ Batches!TypeOK
         /\ Batches!WritesAreWhole
         /\ Batches!BatchIsWhole
         /\ Batches!CancelledHoldsNoLock
    /\ Proofs3!Saver!KeepsOutput => Batches!KeepsOutput
<1>1. Batches!Init => Proofs3!Saver!Init
  BY DEF Batches!Init, Proofs3!Saver!Init, Batches!NoCheckpoint, Proofs3!Saver!NoCheckpoint
<1>2. Batches!Next => Proofs3!Saver!Next
  BY DEF Batches!Next, Proofs3!Saver!Next, Batches!Load, Proofs3!Saver!Load, Batches!Read,
         Proofs3!Saver!Read, Batches!Insert, Proofs3!Saver!Insert, Batches!AppendRest,
         Proofs3!Saver!AppendRest, Batches!Commit, Proofs3!Saver!Commit, Batches!Cancel,
         Proofs3!Saver!Cancel, Batches!PutBlob, Proofs3!Saver!PutBlob, Batches!PutRow,
         Proofs3!Saver!PutRow, Batches!Die, Proofs3!Saver!Die, Batches!Expire, Proofs3!Saver!Expire,
         Batches!Latest, Proofs3!Saver!Latest, Batches!NoCheckpoint, Proofs3!Saver!NoCheckpoint,
         Batches!To, Proofs3!Saver!To, Batches!batch, Proofs3!Saver!batch, Batches!InBatch,
         Proofs3!Saver!InBatch, Batches!Locked, Proofs3!Saver!Locked, Batches!Key,
         Proofs3!Saver!Key, Batches!Reserved, Proofs3!Saver!Reserved, Batches!NextRow,
         Proofs3!Saver!NextRow, Batches!Put, Proofs3!Saver!Put, Batches!Whole, Proofs3!Saver!Whole,
         Batches!Mine, Proofs3!Saver!Mine, Batches!reading, Proofs3!Saver!reading, Batches!Segments,
         Proofs3!Saver!Segments, Batches!Batches, Proofs3!Saver!Batches, Batches!Saved,
         Proofs3!Saver!Saved, Batches!NewId, Proofs3!Saver!NewId, Batches!Ids, Proofs3!Saver!Ids
<1>3. UNCHANGED Batches!vars => UNCHANGED Proofs3!Saver!vars
  BY DEF Batches!vars, Proofs3!Saver!vars
<1>4. Proofs3!SaverPromise =>
         /\ Batches!TypeOK
         /\ Batches!WritesAreWhole
         /\ Batches!BatchIsWhole
         /\ Batches!CancelledHoldsNoLock
  BY DEF Proofs3!SaverPromise, Batches!TypeOK, Proofs3!Saver!TypeOK, Batches!WritesAreWhole,
         Proofs3!Saver!WritesAreWhole, Batches!BatchIsWhole, Proofs3!Saver!BatchIsWhole,
         Batches!CancelledHoldsNoLock, Proofs3!Saver!CancelledHoldsNoLock, Batches!Segments,
         Proofs3!Saver!Segments, Batches!Values, Proofs3!Saver!Values, Batches!Whole,
         Proofs3!Saver!Whole, Batches!Batches, Proofs3!Saver!Batches, Batches!ToSet,
         Proofs3!Saver!ToSet
<1>5. Proofs3!Saver!KeepsOutput => Batches!KeepsOutput
  BY DEF Batches!KeepsOutput, Proofs3!Saver!KeepsOutput
<1>6. QED BY <1>1, <1>2, <1>3, <1>4, <1>5

\* The group's steps are this component's steps while the behaviour is of it, and leave its
\* places alone otherwise.
LEMMA BatchesInductive ==
    /\ Init => (OnBatches => Proofs3!Saver!IInv)
    /\ (OnBatches => Proofs3!Saver!IInv) /\ [Next]_all => (OnBatches => Proofs3!Saver!IInv)'
    /\ (OnBatches => Proofs3!Saver!IInv) =>
         (OnBatches =>
            /\ Batches!TypeOK
            /\ Batches!WritesAreWhole
            /\ Batches!BatchIsWhole
            /\ Batches!CancelledHoldsNoLock)
    /\ (OnBatches => Proofs3!Saver!IInv) /\ [Next]_all => (OnBatches => Batches!KeepsOutput)
<1>1. Proofs3!Saver!ConstantsAreUsable
  BY Instances DEF Batches!ConstantsAreUsable, Proofs3!Saver!ConstantsAreUsable,
     Batches!IsFiniteSet, Proofs3!Saver!IsFiniteSet
<1>2. Init => (OnBatches => Proofs3!Saver!IInv)
  BY <1>1, Proofs3!SaverInit, BatchesMatch DEF Init, TurnInit, OnTurn, HistoryInit, OnHistory,
     RepairsInit, OnRepairs, StreamInit, OnStream, ScopeInit, OnScope, MemoryInit, OnMemory,
     PreviewInit, OnPreview, SearchInit, OnSearch, BatchesInit, OnBatches, SavesInit, OnSaves,
     SessionInit, OnSession, TripsInit, OnTrips, DeskInit, OnDesk, MovesInit, OnMoves
<1>3. OnBatches /\ [Next]_all => Batches!Next \/ UNCHANGED Batches!vars
  BY DEF all, Next, Batches!vars, TurnNext, OnTurn, HistoryNext, OnHistory, RepairsNext, OnRepairs,
         StreamNext, OnStream, ScopeNext, OnScope, MemoryNext, OnMemory, PreviewNext, OnPreview,
         SearchNext, OnSearch, BatchesNext, OnBatches, SavesNext, OnSaves, SessionNext, OnSession,
         TripsNext, OnTrips, DeskNext, OnDesk, MovesNext, OnMoves
<1>4. [Next]_all => part' = part
  BY DEF all, Next, TurnNext, HistoryNext, RepairsNext, StreamNext, ScopeNext, MemoryNext,
         PreviewNext, SearchNext, BatchesNext, SavesNext, SessionNext, TripsNext, DeskNext,
         MovesNext
<1>5. (OnBatches => Proofs3!Saver!IInv) /\ [Next]_all => (OnBatches => Proofs3!Saver!IInv)'
  BY <1>1, <1>3, <1>4, Proofs3!SaverStep, BatchesMatch DEF OnBatches
<1>6. (OnBatches => Proofs3!Saver!IInv) =>
        (OnBatches =>
            /\ Batches!TypeOK
            /\ Batches!WritesAreWhole
            /\ Batches!BatchIsWhole
            /\ Batches!CancelledHoldsNoLock)
  BY <1>1, Proofs3!SaverSays, BatchesMatch
<1>7. (OnBatches => Proofs3!Saver!IInv) /\ [Next]_all => (OnBatches => Batches!KeepsOutput)
  BY <1>1, <1>3, <1>4, <1>5, Proofs3!StepKeepsOutput, BatchesMatch DEF OnBatches
<1>8. QED BY <1>2, <1>5, <1>6, <1>7

-----------------------------------------------------------------------------
Proofs4 == INSTANCE Operations_proofs WITH
    Workers <- {"w1", "w2"}, Overlap <- FALSE, MaxStarts <- 3, MaxVersion <- 2, checkpoints <- s1,
    blobs <- s2, writes <- s3, pc <- s4, base <- s5, value <- s6, id <- s7, size <- s8,
    parts <- s9, tx <- s10, row <- s11, seg <- s12, starts <- s13

\* The group's second instance of TravelerMemory and the one Service_proofs makes are the same
\* system, over the same places, and promise the same things.
LEMMA PreviewMatch ==
    /\ Preview!Init => Proofs2!Memory!Init
    /\ Preview!Next => Proofs2!Memory!Next
    /\ UNCHANGED Preview!vars => UNCHANGED Proofs2!Memory!vars
    /\ Proofs2!MemoryPromise =>
         /\ Preview!PutAwayStaysAway
    /\ Proofs2!Memory!GoesForward => Preview!GoesForward
<1>1. Preview!Init => Proofs2!Memory!Init
  BY DEF Preview!Init, Proofs2!Memory!Init, Preview!Keys, Proofs2!Memory!Keys, Preview!Nothing,
         Proofs2!Memory!Nothing, Preview!None, Proofs2!Memory!None, Preview!Cardinality,
         Proofs2!Memory!Cardinality
<1>2. Preview!Next => Proofs2!Memory!Next
  BY DEF Preview!Next, Proofs2!Memory!Next, Preview!Learns, Proofs2!Memory!Learns, Preview!Enable,
         Proofs2!Memory!Enable, Preview!Disable, Proofs2!Memory!Disable, Preview!SelectPhase,
         Proofs2!Memory!SelectPhase, Preview!ClearChat, Proofs2!Memory!ClearChat, Preview!ServeRead,
         Proofs2!Memory!ServeRead, Preview!ReadAnswered, Proofs2!Memory!ReadAnswered,
         Preview!ReadFailed, Proofs2!Memory!ReadFailed, Preview!Tick, Proofs2!Memory!Tick,
         Preview!ServeRefresh, Proofs2!Memory!ServeRefresh, Preview!RefreshAnswered,
         Proofs2!Memory!RefreshAnswered, Preview!RefreshFailed, Proofs2!Memory!RefreshFailed,
         Preview!StartEdit, Proofs2!Memory!StartEdit, Preview!ServeEdit, Proofs2!Memory!ServeEdit,
         Preview!ServeLate, Proofs2!Memory!ServeLate, Preview!EditAnswered,
         Proofs2!Memory!EditAnswered, Preview!EditFailed, Proofs2!Memory!EditFailed, Preview!Send,
         Proofs2!Memory!Send, Preview!ServeTurn, Proofs2!Memory!ServeTurn, Preview!TurnAnswered,
         Proofs2!Memory!TurnAnswered, Preview!Learn, Proofs2!Memory!Learn, Preview!Ask,
         Proofs2!Memory!Ask, Preview!Stale, Proofs2!Memory!Stale, Preview!table,
         Proofs2!Memory!table, Preview!page, Proofs2!Memory!page, Preview!Invalidate,
         Proofs2!Memory!Invalidate, Preview!None, Proofs2!Memory!None, Preview!Profile,
         Proofs2!Memory!Profile, Preview!chat, Proofs2!Memory!chat, Preview!Shown,
         Proofs2!Memory!Shown, Preview!Serve, Proofs2!Memory!Serve, Preview!Request,
         Proofs2!Memory!Request, Preview!InContext, Proofs2!Memory!InContext, Preview!Written,
         Proofs2!Memory!Written, Preview!Nothing, Proofs2!Memory!Nothing, Preview!Top,
         Proofs2!Memory!Top, Preview!PageCeiling, Proofs2!Memory!PageCeiling, Preview!Delete,
         Proofs2!Memory!Delete, Preview!Update, Proofs2!Memory!Update, Preview!Fits,
         Proofs2!Memory!Fits, Preview!Before, Proofs2!Memory!Before, Preview!Ceiling,
         Proofs2!Memory!Ceiling, Preview!Basis, Proofs2!Memory!Basis, Preview!First,
         Proofs2!Memory!First, Preview!BudgetKeys, Proofs2!Memory!BudgetKeys, Preview!Cardinality,
         Proofs2!Memory!Cardinality
<1>3. UNCHANGED Preview!vars => UNCHANGED Proofs2!Memory!vars
  BY DEF Preview!vars, Proofs2!Memory!vars, Preview!table, Proofs2!Memory!table, Preview!page,
         Proofs2!Memory!page, Preview!chat, Proofs2!Memory!chat
<1>4. Proofs2!MemoryPromise =>
         /\ Preview!PutAwayStaysAway
  BY DEF Proofs2!MemoryPromise, Preview!PutAwayStaysAway, Proofs2!Memory!PutAwayStaysAway
<1>5. Proofs2!Memory!GoesForward => Preview!GoesForward
  BY DEF Preview!GoesForward, Proofs2!Memory!GoesForward
<1>6. QED BY <1>1, <1>2, <1>3, <1>4, <1>5

\* The group's steps are this component's steps while the behaviour is of it, and leave its
\* places alone otherwise.
LEMMA PreviewInductive ==
    /\ Init => (OnPreview => Proofs2!Memory!IInv)
    /\ (OnPreview => Proofs2!Memory!IInv) /\ [Next]_all => (OnPreview => Proofs2!Memory!IInv)'
    /\ (OnPreview => Proofs2!Memory!IInv) =>
         (OnPreview => Preview!PutAwayStaysAway)
    /\ (OnPreview => Proofs2!Memory!IInv) /\ [Next]_all => (OnPreview => Preview!GoesForward)
<1>1. Proofs2!Memory!BoundsAreNatural /\ Proofs2!Memory!InputsKnown
  BY Instances DEF Preview!BoundsAreNatural, Proofs2!Memory!BoundsAreNatural, Preview!InputsKnown,
     Proofs2!Memory!InputsKnown, Preview!Seeded, Proofs2!Memory!Seeded, Preview!Keys,
     Proofs2!Memory!Keys, Preview!Amounts, Proofs2!Memory!Amounts, Preview!Rows,
     Proofs2!Memory!Rows, Preview!Cardinality, Proofs2!Memory!Cardinality, Preview!IsFiniteSet,
     Proofs2!Memory!IsFiniteSet
<1>2. Init => (OnPreview => Proofs2!Memory!IInv)
  BY <1>1, Proofs2!MemoryInit, PreviewMatch DEF Init, TurnInit, OnTurn, HistoryInit, OnHistory,
     RepairsInit, OnRepairs, StreamInit, OnStream, ScopeInit, OnScope, MemoryInit, OnMemory,
     PreviewInit, OnPreview, SearchInit, OnSearch, BatchesInit, OnBatches, SavesInit, OnSaves,
     SessionInit, OnSession, TripsInit, OnTrips, DeskInit, OnDesk, MovesInit, OnMoves
<1>3. OnPreview /\ [Next]_all => Preview!Next \/ UNCHANGED Preview!vars
  BY DEF all, Next, Preview!vars, Preview!table, Preview!page, Preview!chat, TurnNext, OnTurn,
         HistoryNext, OnHistory, RepairsNext, OnRepairs, StreamNext, OnStream, ScopeNext, OnScope,
         MemoryNext, OnMemory, PreviewNext, OnPreview, SearchNext, OnSearch, BatchesNext, OnBatches,
         SavesNext, OnSaves, SessionNext, OnSession, TripsNext, OnTrips, DeskNext, OnDesk,
         MovesNext, OnMoves
<1>4. [Next]_all => part' = part
  BY DEF all, Next, TurnNext, HistoryNext, RepairsNext, StreamNext, ScopeNext, MemoryNext,
         PreviewNext, SearchNext, BatchesNext, SavesNext, SessionNext, TripsNext, DeskNext,
         MovesNext
<1>5. (OnPreview => Proofs2!Memory!IInv) /\ [Next]_all => (OnPreview => Proofs2!Memory!IInv)'
  BY <1>1, <1>3, <1>4, Proofs2!MemoryStep, PreviewMatch DEF OnPreview
<1>6. (OnPreview => Proofs2!Memory!IInv) =>
        (OnPreview => Preview!PutAwayStaysAway)
  BY <1>1, Proofs2!MemorySays, PreviewMatch
<1>7. (OnPreview => Proofs2!Memory!IInv) /\ [Next]_all => (OnPreview => Preview!GoesForward)
  BY <1>1, <1>3, <1>4, <1>5, Proofs2!StepGoesForward, PreviewMatch DEF OnPreview
<1>8. QED BY <1>2, <1>5, <1>6, <1>7

-----------------------------------------------------------------------------
\* The group's second instance of CheckpointSaver and the one Operations_proofs makes are the same
\* system, over the same places, and promise the same things.
LEMMA SavesMatch ==
    /\ Saves!Init => Proofs4!Saver!Init
    /\ Saves!Next => Proofs4!Saver!Next
    /\ UNCHANGED Saves!vars => UNCHANGED Proofs4!Saver!vars
    /\ Proofs4!SaverPromise =>
         /\ Saves!TypeOK
         /\ Saves!VisibleIsWhole
<1>1. Saves!Init => Proofs4!Saver!Init
  BY DEF Saves!Init, Proofs4!Saver!Init, Saves!NoCheckpoint, Proofs4!Saver!NoCheckpoint
<1>2. Saves!Next => Proofs4!Saver!Next
  BY DEF Saves!Next, Proofs4!Saver!Next, Saves!Load, Proofs4!Saver!Load, Saves!Read,
         Proofs4!Saver!Read, Saves!Insert, Proofs4!Saver!Insert, Saves!AppendRest,
         Proofs4!Saver!AppendRest, Saves!Commit, Proofs4!Saver!Commit, Saves!Cancel,
         Proofs4!Saver!Cancel, Saves!PutBlob, Proofs4!Saver!PutBlob, Saves!PutRow,
         Proofs4!Saver!PutRow, Saves!Die, Proofs4!Saver!Die, Saves!Expire, Proofs4!Saver!Expire,
         Saves!Latest, Proofs4!Saver!Latest, Saves!NoCheckpoint, Proofs4!Saver!NoCheckpoint,
         Saves!To, Proofs4!Saver!To, Saves!batch, Proofs4!Saver!batch, Saves!InBatch,
         Proofs4!Saver!InBatch, Saves!Locked, Proofs4!Saver!Locked, Saves!Key, Proofs4!Saver!Key,
         Saves!Reserved, Proofs4!Saver!Reserved, Saves!NextRow, Proofs4!Saver!NextRow, Saves!Put,
         Proofs4!Saver!Put, Saves!Whole, Proofs4!Saver!Whole, Saves!Mine, Proofs4!Saver!Mine,
         Saves!reading, Proofs4!Saver!reading, Saves!Segments, Proofs4!Saver!Segments,
         Saves!Batches, Proofs4!Saver!Batches, Saves!Saved, Proofs4!Saver!Saved, Saves!NewId,
         Proofs4!Saver!NewId, Saves!Ids, Proofs4!Saver!Ids
<1>3. UNCHANGED Saves!vars => UNCHANGED Proofs4!Saver!vars
  BY DEF Saves!vars, Proofs4!Saver!vars
<1>4. Proofs4!SaverPromise =>
         /\ Saves!TypeOK
         /\ Saves!VisibleIsWhole
  BY DEF Proofs4!SaverPromise, Saves!TypeOK, Proofs4!Saver!TypeOK, Saves!VisibleIsWhole,
         Proofs4!Saver!VisibleIsWhole, Saves!Segments, Proofs4!Saver!Segments, Saves!NoCheckpoint,
         Proofs4!Saver!NoCheckpoint, Saves!Values, Proofs4!Saver!Values, Saves!Whole,
         Proofs4!Saver!Whole
<1>5. QED BY <1>1, <1>2, <1>3, <1>4

\* The group's steps are this component's steps while the behaviour is of it, and leave its
\* places alone otherwise.
LEMMA SavesInductive ==
    /\ Init => (OnSaves => Proofs4!Saver!IInv)
    /\ (OnSaves => Proofs4!Saver!IInv) /\ [Next]_all => (OnSaves => Proofs4!Saver!IInv)'
    /\ (OnSaves => Proofs4!Saver!IInv) =>
         (OnSaves => Saves!TypeOK /\ Saves!VisibleIsWhole)
<1>1. Proofs4!Saver!ConstantsAreUsable
  BY Instances DEF Saves!ConstantsAreUsable, Proofs4!Saver!ConstantsAreUsable, Saves!IsFiniteSet,
     Proofs4!Saver!IsFiniteSet
<1>2. Init => (OnSaves => Proofs4!Saver!IInv)
  BY <1>1, Proofs4!SaverInit, SavesMatch DEF Init, TurnInit, OnTurn, HistoryInit, OnHistory,
     RepairsInit, OnRepairs, StreamInit, OnStream, ScopeInit, OnScope, MemoryInit, OnMemory,
     PreviewInit, OnPreview, SearchInit, OnSearch, BatchesInit, OnBatches, SavesInit, OnSaves,
     SessionInit, OnSession, TripsInit, OnTrips, DeskInit, OnDesk, MovesInit, OnMoves
<1>3. OnSaves /\ [Next]_all => Saves!Next \/ UNCHANGED Saves!vars
  BY DEF all, Next, Saves!vars, TurnNext, OnTurn, HistoryNext, OnHistory, RepairsNext, OnRepairs,
         StreamNext, OnStream, ScopeNext, OnScope, MemoryNext, OnMemory, PreviewNext, OnPreview,
         SearchNext, OnSearch, BatchesNext, OnBatches, SavesNext, OnSaves, SessionNext, OnSession,
         TripsNext, OnTrips, DeskNext, OnDesk, MovesNext, OnMoves
<1>4. [Next]_all => part' = part
  BY DEF all, Next, TurnNext, HistoryNext, RepairsNext, StreamNext, ScopeNext, MemoryNext,
         PreviewNext, SearchNext, BatchesNext, SavesNext, SessionNext, TripsNext, DeskNext,
         MovesNext
<1>5. (OnSaves => Proofs4!Saver!IInv) /\ [Next]_all => (OnSaves => Proofs4!Saver!IInv)'
  BY <1>1, <1>3, <1>4, Proofs4!SaverStep, SavesMatch DEF OnSaves
<1>6. (OnSaves => Proofs4!Saver!IInv) =>
        (OnSaves => Saves!TypeOK /\ Saves!VisibleIsWhole)
  BY <1>1, Proofs4!SaverSays, SavesMatch
<1>7. QED BY <1>2, <1>5, <1>6

-----------------------------------------------------------------------------
\* What the traveler told the memory is what page, turn and Lambda derive from it, an edit
\* outranks every signal, what is forgotten is gone, and no late answer brings back what was put
\* away, in the group's behaviours (services/traveler_profile.py, useTravelerMemory.ts).
THEOREM MemoryHolds == Spec => MemoryIsTheTravelers
<1> DEFINE Inv == /\ OnMemory => Proofs1!Memory!IInv
                  /\ OnPreview => Proofs2!Memory!IInv
           Holds == /\ OnMemory => /\ Memory!TypeOK
                                   /\ Memory!EditWins
                                   /\ Memory!ForgottenIsGone
                                   /\ Memory!OneCeiling
                    /\ OnPreview => Preview!PutAwayStaysAway
<1>1. Init => Inv
  BY MemoryInductive, PreviewInductive
<1>2. Inv /\ [Next]_all => Inv'
  BY MemoryInductive, PreviewInductive
<1>3. Inv => Holds
  BY MemoryInductive, PreviewInductive
<1>4. Inv /\ [Next]_all => [OnPreview => Preview!GoesForward]_all
  BY PreviewInductive
<1> HIDE DEF Inv
<1>5. Spec
       => /\ []Holds
          /\ [][OnPreview => Preview!GoesForward]_all
  BY <1>1, <1>2, <1>3, <1>4, PTL DEF Spec
<1>6. QED BY <1>5 DEF MemoryIsTheTravelers

-----------------------------------------------------------------------------
\* Whoever is killed or cancelled between two segments of a blob or a batch, a worker that resumes
\* reads what one attempt wrote and all of it, saved output is never replaced, and a worker that
\* stopped blocks nobody, in the group's behaviours (examples/langgraph/aurora_dataapi_saver.py).
THEOREM CheckpointsHold == Spec => CheckpointsAreWhole
<1> DEFINE Inv == /\ OnBatches => Proofs3!Saver!IInv
                  /\ OnSaves => Proofs4!Saver!IInv
           Holds == /\ OnBatches => /\ Batches!TypeOK
                                    /\ Batches!WritesAreWhole
                                    /\ Batches!BatchIsWhole
                                    /\ Batches!CancelledHoldsNoLock
                    /\ OnSaves => /\ Saves!TypeOK
                                  /\ Saves!VisibleIsWhole
<1>1. Init => Inv
  BY BatchesInductive, SavesInductive
<1>2. Inv /\ [Next]_all => Inv'
  BY BatchesInductive, SavesInductive
<1>3. Inv => Holds
  BY BatchesInductive, SavesInductive
<1>4. Inv /\ [Next]_all => [OnBatches => Batches!KeepsOutput]_all
  BY BatchesInductive
<1> HIDE DEF Inv
<1>5. Spec
       => /\ []Holds
          /\ [][OnBatches => Batches!KeepsOutput]_all
  BY <1>1, <1>2, <1>3, <1>4, PTL DEF Spec
<1>6. QED BY <1>5 DEF CheckpointsAreWhole

-----------------------------------------------------------------------------
Proofs5 == INSTANCE Service_proofs WITH
    Sessions <- {x1, x2}, Connections <- {c1, c2}, Travelers <- {t1, t2}, Nobody <- Nobody,
    MaxFaults <- 1, MaxChanges <- 1, grants <- s1, audit <- s2, journeys <- s3, bound <- s4,
    lock <- s5, leftover <- s6, pc <- s7, side <- s8, who <- s9, conn <- s10, setting <- s11,
    role <- s12, row <- s13, made <- s14, binds <- s15, seen <- s16, told <- s17, faults <- s18,
    changes <- s19

\* The group's instance of TravelerScope and the one Service_proofs makes are the same
\* system, over the same places, and promise the same things.
LEMMA ScopeMatch ==
    /\ Scope!Init => Proofs5!Scope!Init
    /\ Scope!Next => Proofs5!Scope!Next
    /\ UNCHANGED Scope!vars => UNCHANGED Proofs5!Scope!vars
    /\ Proofs5!ScopePromise =>
         /\ Scope!TypeOK
         /\ Scope!SeesOwnOnly
         /\ Scope!RefusalIsKept
         /\ Scope!EffectsAreAudited
         /\ Scope!NoOrphanJourney
         /\ Scope!NotOwnedIsTrue
         /\ Scope!EndedHoldsNoLock
<1>1. Scope!Init => Proofs5!Scope!Init
  BY DEF Scope!Init, Proofs5!Scope!Init, Scope!Sides, Proofs5!Scope!Sides
<1>2. Scope!Next => Proofs5!Scope!Next
  BY DEF Scope!Next, Proofs5!Scope!Next, Scope!Begins, Proofs5!Scope!Begins, Scope!Change,
         Proofs5!Scope!Change, Scope!Check, Proofs5!Scope!Check, Scope!Refuse, Proofs5!Scope!Refuse,
         Scope!RecordDenied, Proofs5!Scope!RecordDenied, Scope!Pin, Proofs5!Scope!Pin,
         Scope!AssumeRole, Proofs5!Scope!AssumeRole, Scope!ReadUnscoped, Proofs5!Scope!ReadUnscoped,
         Scope!TakeLock, Proofs5!Scope!TakeLock, Scope!Look, Proofs5!Scope!Look, Scope!Create,
         Proofs5!Scope!Create, Scope!Bind, Proofs5!Scope!Bind, Scope!NotOwned,
         Proofs5!Scope!NotOwned, Scope!Commit, Proofs5!Scope!Commit, Scope!Fail, Proofs5!Scope!Fail,
         Scope!Abandon, Proofs5!Scope!Abandon, Scope!Expire, Proofs5!Scope!Expire, Scope!Sides,
         Proofs5!Scope!Sides, Scope!Begin, Proofs5!Scope!Begin, Scope!database,
         Proofs5!Scope!database, Scope!caller, Proofs5!Scope!caller, Scope!scope,
         Proofs5!Scope!scope, Scope!pending, Proofs5!Scope!pending, Scope!To, Proofs5!Scope!To,
         Scope!bounds, Proofs5!Scope!bounds, Scope!End, Proofs5!Scope!End, Scope!Keep,
         Proofs5!Scope!Keep, Scope!Tell, Proofs5!Scope!Tell, Scope!Owner, Proofs5!Scope!Owner,
         Scope!Visible, Proofs5!Scope!Visible, Scope!Bound, Proofs5!Scope!Bound, Scope!Waits,
         Proofs5!Scope!Waits, Scope!InTransaction, Proofs5!Scope!InTransaction, Scope!Fault,
         Proofs5!Scope!Fault
<1>3. UNCHANGED Scope!vars => UNCHANGED Proofs5!Scope!vars
  BY DEF Scope!vars, Proofs5!Scope!vars
<1>4. Proofs5!ScopePromise =>
         /\ Scope!TypeOK
         /\ Scope!SeesOwnOnly
         /\ Scope!RefusalIsKept
         /\ Scope!EffectsAreAudited
         /\ Scope!NoOrphanJourney
         /\ Scope!NotOwnedIsTrue
         /\ Scope!EndedHoldsNoLock
  BY DEF Proofs5!ScopePromise, Scope!TypeOK, Proofs5!Scope!TypeOK, Scope!SeesOwnOnly,
         Proofs5!Scope!SeesOwnOnly, Scope!RefusalIsKept, Proofs5!Scope!RefusalIsKept,
         Scope!EffectsAreAudited, Proofs5!Scope!EffectsAreAudited, Scope!NoOrphanJourney,
         Proofs5!Scope!NoOrphanJourney, Scope!NotOwnedIsTrue, Proofs5!Scope!NotOwnedIsTrue,
         Scope!EndedHoldsNoLock, Proofs5!Scope!EndedHoldsNoLock, Scope!Sides, Proofs5!Scope!Sides,
         Scope!InTransaction, Proofs5!Scope!InTransaction
<1>5. QED BY <1>1, <1>2, <1>3, <1>4

\* A session scoped to a traveler sees that traveler's rows and no others, its refusals and
\* effects are on the audit, and it leaves no orphan and no lock behind, in the group's
\* behaviours (backend/db/scoped_session.py and the agents' tools).
THEOREM ScopeHolds == Spec => []ScopeIsKept
<1> DEFINE Inv == OnScope => Proofs5!Scope!IInv
<1>1. Proofs5!Scope!NobodyIsNobody /\ Proofs5!Scope!BoundsAreNatural
  BY Instances DEF Scope!NobodyIsNobody, Proofs5!Scope!NobodyIsNobody, Scope!BoundsAreNatural,
     Proofs5!Scope!BoundsAreNatural
<1>2. Init => Inv
  BY <1>1, Proofs5!ScopeInit, ScopeMatch DEF Init, TurnInit, OnTurn, HistoryInit, OnHistory,
     RepairsInit, OnRepairs, StreamInit, OnStream, ScopeInit, OnScope, MemoryInit, OnMemory,
     PreviewInit, OnPreview, SearchInit, OnSearch, BatchesInit, OnBatches, SavesInit, OnSaves,
     SessionInit, OnSession, TripsInit, OnTrips, DeskInit, OnDesk, MovesInit, OnMoves
<1>3. Inv /\ [Next]_all => Inv'
  <2>1. OnScope /\ [Next]_all => Scope!Next \/ UNCHANGED Scope!vars
    BY DEF all, Next, Scope!vars, TurnNext, OnTurn, HistoryNext, OnHistory, RepairsNext, OnRepairs,
           StreamNext, OnStream, ScopeNext, OnScope, MemoryNext, OnMemory, PreviewNext, OnPreview,
           SearchNext, OnSearch, BatchesNext, OnBatches, SavesNext, OnSaves, SessionNext, OnSession,
           TripsNext, OnTrips, DeskNext, OnDesk, MovesNext, OnMoves
  <2>2. [Next]_all => part' = part
    BY DEF all, Next, TurnNext, HistoryNext, RepairsNext, StreamNext, ScopeNext, MemoryNext,
           PreviewNext, SearchNext, BatchesNext, SavesNext, SessionNext, TripsNext, DeskNext,
           MovesNext
  <2>. QED BY <1>1, <2>1, <2>2, Proofs5!ScopeStep, ScopeMatch DEF OnScope
<1>4. Inv => ScopeIsKept
  BY <1>1, Proofs5!ScopeSays, ScopeMatch DEF ScopeIsKept
<1>5. QED BY <1>2, <1>3, <1>4, PTL DEF Spec

-----------------------------------------------------------------------------
Proofs6 == INSTANCE Service_proofs WITH
    Views <- {"desk", "concierge"}, MaxTurns <- 2, MaxMoves <- 1, MaxFaults <- 1, page <- s1,
    url <- s2, turns <- s3, saved <- s4, live <- s5, read <- s6, moves <- s7, faults <- s8

\* The group's first instance of RecoveryDesk and the one Service_proofs makes are the same
\* system, over the same places, and promise the same things.
LEMMA DeskMatch ==
    /\ Desk!Init => Proofs6!Desk!Init
    /\ Desk!Next => Proofs6!Desk!Next
    /\ UNCHANGED Desk!vars => UNCHANGED Proofs6!Desk!vars
    /\ Proofs6!DeskPromise =>
         /\ Desk!TypeOK
         /\ Desk!NoStrayAnswer
<1>1. Desk!Init => Proofs6!Desk!Init
  BY DEF Desk!Init, Proofs6!Desk!Init, Desk!Opened, Proofs6!Desk!Opened, Desk!None,
         Proofs6!Desk!None, Desk!Turns, Proofs6!Desk!Turns, Desk!NoTurn, Proofs6!Desk!NoTurn,
         Desk!NotRead, Proofs6!Desk!NotRead, Desk!NoDoc, Proofs6!Desk!NoDoc
<1>2. Desk!Next => Proofs6!Desk!Next
  BY DEF Desk!Next, Proofs6!Desk!Next, Desk!Turns, Proofs6!Desk!Turns, Desk!Turn, Proofs6!Desk!Turn,
         Desk!Stream, Proofs6!Desk!Stream, Desk!Reply, Proofs6!Desk!Reply, Desk!Fails,
         Proofs6!Desk!Fails, Desk!Serve, Proofs6!Desk!Serve, Desk!Blocked, Proofs6!Desk!Blocked,
         Desk!Write, Proofs6!Desk!Write, Desk!WriteEnds, Proofs6!Desk!WriteEnds, Desk!ClearChat,
         Proofs6!Desk!ClearChat, Desk!ClearError, Proofs6!Desk!ClearError, Desk!Reload,
         Proofs6!Desk!Reload, Desk!Limit, Proofs6!Desk!Limit, Desk!SetSelectedPhase,
         Proofs6!Desk!SetSelectedPhase, Desk!SetView, Proofs6!Desk!SetView, Desk!Reads,
         Proofs6!Desk!Reads, Desk!ReadFails, Proofs6!Desk!ReadFails, Desk!Settle,
         Proofs6!Desk!Settle, Desk!RestoreJourney, Proofs6!Desk!RestoreJourney, Desk!Ask,
         Proofs6!Desk!Ask, Desk!Recover, Proofs6!Desk!Recover, Desk!Resume, Proofs6!Desk!Resume,
         Desk!IsCurrent, Proofs6!Desk!IsCurrent, Desk!Concierge, Proofs6!Desk!Concierge,
         Desk!server, Proofs6!Desk!server, Desk!Settled, Proofs6!Desk!Settled, Desk!None,
         Proofs6!Desk!None, Desk!Fault, Proofs6!Desk!Fault, Desk!Claim, Proofs6!Desk!Claim,
         Desk!SaveStep, Proofs6!Desk!SaveStep, Desk!Answer, Proofs6!Desk!Answer, Desk!Refuse,
         Proofs6!Desk!Refuse, Desk!Busy, Proofs6!Desk!Busy, Desk!Move, Proofs6!Desk!Move,
         Desk!Cleared, Proofs6!Desk!Cleared, Desk!Opened, Proofs6!Desk!Opened, Desk!NotRead,
         Proofs6!Desk!NotRead, Desk!Restart, Proofs6!Desk!Restart, Desk!Again, Proofs6!Desk!Again,
         Desk!Sample, Proofs6!Desk!Sample, Desk!Apply, Proofs6!Desk!Apply, Desk!Same,
         Proofs6!Desk!Same, Desk!NoDoc, Proofs6!Desk!NoDoc, Desk!ReadingBack,
         Proofs6!Desk!ReadingBack, Desk!Doc, Proofs6!Desk!Doc, Desk!Restored, Proofs6!Desk!Restored,
         Desk!OnDesk, Proofs6!Desk!OnDesk, Desk!NotShown, Proofs6!Desk!NotShown, Desk!First,
         Proofs6!Desk!First, Desk!Send, Proofs6!Desk!Send, Desk!Begin, Proofs6!Desk!Begin,
         Desk!Ends, Proofs6!Desk!Ends, Desk!StillLoading, Proofs6!Desk!StillLoading, Desk!Key,
         Proofs6!Desk!Key, Desk!Poll, Proofs6!Desk!Poll, Desk!RunPhase, Proofs6!Desk!RunPhase,
         Desk!Unsent, Proofs6!Desk!Unsent, Desk!Watching, Proofs6!Desk!Watching
<1>3. UNCHANGED Desk!vars => UNCHANGED Proofs6!Desk!vars
  BY DEF Desk!vars, Proofs6!Desk!vars
<1>4. Proofs6!DeskPromise =>
         /\ Desk!TypeOK
         /\ Desk!NoStrayAnswer
  BY DEF Proofs6!DeskPromise, Desk!TypeOK, Proofs6!Desk!TypeOK, Desk!NoStrayAnswer,
         Proofs6!Desk!NoStrayAnswer, Desk!None, Proofs6!Desk!None, Desk!Turns, Proofs6!Desk!Turns,
         Desk!Concierge, Proofs6!Desk!Concierge
<1>5. QED BY <1>1, <1>2, <1>3, <1>4

\* The inductive invariant of RecoveryDesk holds of the group's behaviours that are its.
LEMMA DeskHold == Spec => [](OnDesk => Proofs6!Desk!IInv)
<1> DEFINE Inv == OnDesk => Proofs6!Desk!IInv
<1>1. Proofs6!Desk!DeskAssumption
  BY Instances DEF Desk!DeskAssumption, Proofs6!Desk!DeskAssumption
<1>2. Init => Inv
  BY <1>1, Proofs6!DeskInit, DeskMatch DEF Init, TurnInit, OnTurn, HistoryInit, OnHistory,
     RepairsInit, OnRepairs, StreamInit, OnStream, ScopeInit, OnScope, MemoryInit, OnMemory,
     PreviewInit, OnPreview, SearchInit, OnSearch, BatchesInit, OnBatches, SavesInit, OnSaves,
     SessionInit, OnSession, TripsInit, OnTrips, DeskInit, OnDesk, MovesInit, OnMoves
<1>3. Inv /\ [Next]_all => Inv'
  <2>1. OnDesk /\ [Next]_all => Desk!Next \/ UNCHANGED Desk!vars
    BY DEF all, Next, Desk!vars, TurnNext, OnTurn, HistoryNext, OnHistory, RepairsNext, OnRepairs,
           StreamNext, OnStream, ScopeNext, OnScope, MemoryNext, OnMemory, PreviewNext, OnPreview,
           SearchNext, OnSearch, BatchesNext, OnBatches, SavesNext, OnSaves, SessionNext, OnSession,
           TripsNext, OnTrips, DeskNext, OnDesk, MovesNext, OnMoves
  <2>2. [Next]_all => part' = part
    BY DEF all, Next, TurnNext, HistoryNext, RepairsNext, StreamNext, ScopeNext, MemoryNext,
           PreviewNext, SearchNext, BatchesNext, SavesNext, SessionNext, TripsNext, DeskNext,
           MovesNext
  <2>. QED BY <1>1, <2>1, <2>2, Proofs6!DeskStep, DeskMatch DEF OnDesk
<1>4. QED BY <1>2, <1>3, PTL DEF Spec

-----------------------------------------------------------------------------
Proofs7 == INSTANCE Service_proofs WITH
    Views <- {"desk", "concierge"}, MaxTurns <- 1, MaxMoves <- 2, MaxFaults <- 1, page <- s1,
    url <- s2, turns <- s3, saved <- s4, live <- s5, read <- s6, moves <- s7, faults <- s8

\* The group's second instance of RecoveryDesk and the one Service_proofs makes are the same
\* system, over the same places, and promise the same things.
LEMMA MovesMatch ==
    /\ Moves!Init => Proofs7!Desk!Init
    /\ Moves!Next => Proofs7!Desk!Next
    /\ UNCHANGED Moves!vars => UNCHANGED Proofs7!Desk!vars
    /\ Proofs7!DeskPromise =>
         /\ Moves!LoadingIsWaiting
<1>1. Moves!Init => Proofs7!Desk!Init
  BY DEF Moves!Init, Proofs7!Desk!Init, Moves!Opened, Proofs7!Desk!Opened, Moves!None,
         Proofs7!Desk!None, Moves!Turns, Proofs7!Desk!Turns, Moves!NoTurn, Proofs7!Desk!NoTurn,
         Moves!NotRead, Proofs7!Desk!NotRead, Moves!NoDoc, Proofs7!Desk!NoDoc
<1>2. Moves!Next => Proofs7!Desk!Next
  BY DEF Moves!Next, Proofs7!Desk!Next, Moves!Turns, Proofs7!Desk!Turns, Moves!Turn,
         Proofs7!Desk!Turn, Moves!Stream, Proofs7!Desk!Stream, Moves!Reply, Proofs7!Desk!Reply,
         Moves!Fails, Proofs7!Desk!Fails, Moves!Serve, Proofs7!Desk!Serve, Moves!Blocked,
         Proofs7!Desk!Blocked, Moves!Write, Proofs7!Desk!Write, Moves!WriteEnds,
         Proofs7!Desk!WriteEnds, Moves!ClearChat, Proofs7!Desk!ClearChat, Moves!ClearError,
         Proofs7!Desk!ClearError, Moves!Reload, Proofs7!Desk!Reload, Moves!Limit,
         Proofs7!Desk!Limit, Moves!SetSelectedPhase, Proofs7!Desk!SetSelectedPhase, Moves!SetView,
         Proofs7!Desk!SetView, Moves!Reads, Proofs7!Desk!Reads, Moves!ReadFails,
         Proofs7!Desk!ReadFails, Moves!Settle, Proofs7!Desk!Settle, Moves!RestoreJourney,
         Proofs7!Desk!RestoreJourney, Moves!Ask, Proofs7!Desk!Ask, Moves!Recover,
         Proofs7!Desk!Recover, Moves!Resume, Proofs7!Desk!Resume, Moves!IsCurrent,
         Proofs7!Desk!IsCurrent, Moves!Concierge, Proofs7!Desk!Concierge, Moves!server,
         Proofs7!Desk!server, Moves!Settled, Proofs7!Desk!Settled, Moves!None, Proofs7!Desk!None,
         Moves!Fault, Proofs7!Desk!Fault, Moves!Claim, Proofs7!Desk!Claim, Moves!SaveStep,
         Proofs7!Desk!SaveStep, Moves!Answer, Proofs7!Desk!Answer, Moves!Refuse,
         Proofs7!Desk!Refuse, Moves!Busy, Proofs7!Desk!Busy, Moves!Move, Proofs7!Desk!Move,
         Moves!Cleared, Proofs7!Desk!Cleared, Moves!Opened, Proofs7!Desk!Opened, Moves!NotRead,
         Proofs7!Desk!NotRead, Moves!Restart, Proofs7!Desk!Restart, Moves!Again, Proofs7!Desk!Again,
         Moves!Sample, Proofs7!Desk!Sample, Moves!Apply, Proofs7!Desk!Apply, Moves!Same,
         Proofs7!Desk!Same, Moves!NoDoc, Proofs7!Desk!NoDoc, Moves!ReadingBack,
         Proofs7!Desk!ReadingBack, Moves!Doc, Proofs7!Desk!Doc, Moves!Restored,
         Proofs7!Desk!Restored, Moves!OnDesk, Proofs7!Desk!OnDesk, Moves!NotShown,
         Proofs7!Desk!NotShown, Moves!First, Proofs7!Desk!First, Moves!Send, Proofs7!Desk!Send,
         Moves!Begin, Proofs7!Desk!Begin, Moves!Ends, Proofs7!Desk!Ends, Moves!StillLoading,
         Proofs7!Desk!StillLoading, Moves!Key, Proofs7!Desk!Key, Moves!Poll, Proofs7!Desk!Poll,
         Moves!RunPhase, Proofs7!Desk!RunPhase, Moves!Unsent, Proofs7!Desk!Unsent, Moves!Watching,
         Proofs7!Desk!Watching
<1>3. UNCHANGED Moves!vars => UNCHANGED Proofs7!Desk!vars
  BY DEF Moves!vars, Proofs7!Desk!vars
<1>4. Proofs7!DeskPromise =>
         /\ Moves!LoadingIsWaiting
  BY DEF Proofs7!DeskPromise, Moves!LoadingIsWaiting, Proofs7!Desk!LoadingIsWaiting, Moves!None,
         Proofs7!Desk!None
<1>5. QED BY <1>1, <1>2, <1>3, <1>4

\* The inductive invariant of RecoveryDesk holds of the group's behaviours that are its.
LEMMA MovesHold == Spec => [](OnMoves => Proofs7!Desk!IInv)
<1> DEFINE Inv == OnMoves => Proofs7!Desk!IInv
<1>1. Proofs7!Desk!DeskAssumption
  BY Instances DEF Moves!DeskAssumption, Proofs7!Desk!DeskAssumption
<1>2. Init => Inv
  BY <1>1, Proofs7!DeskInit, MovesMatch DEF Init, TurnInit, OnTurn, HistoryInit, OnHistory,
     RepairsInit, OnRepairs, StreamInit, OnStream, ScopeInit, OnScope, MemoryInit, OnMemory,
     PreviewInit, OnPreview, SearchInit, OnSearch, BatchesInit, OnBatches, SavesInit, OnSaves,
     SessionInit, OnSession, TripsInit, OnTrips, DeskInit, OnDesk, MovesInit, OnMoves
<1>3. Inv /\ [Next]_all => Inv'
  <2>1. OnMoves /\ [Next]_all => Moves!Next \/ UNCHANGED Moves!vars
    BY DEF all, Next, Moves!vars, TurnNext, OnTurn, HistoryNext, OnHistory, RepairsNext, OnRepairs,
           StreamNext, OnStream, ScopeNext, OnScope, MemoryNext, OnMemory, PreviewNext, OnPreview,
           SearchNext, OnSearch, BatchesNext, OnBatches, SavesNext, OnSaves, SessionNext, OnSession,
           TripsNext, OnTrips, DeskNext, OnDesk, MovesNext, OnMoves
  <2>2. [Next]_all => part' = part
    BY DEF all, Next, TurnNext, HistoryNext, RepairsNext, StreamNext, ScopeNext, MemoryNext,
           PreviewNext, SearchNext, BatchesNext, SavesNext, SessionNext, TripsNext, DeskNext,
           MovesNext
  <2>. QED BY <1>1, <2>1, <2>2, Proofs7!DeskStep, MovesMatch DEF OnMoves
<1>4. QED BY <1>2, <1>3, PTL DEF Spec

-----------------------------------------------------------------------------
\* Whatever answers are lost and however often the page is clicked, reloaded or moved to
\* another view: one product has one hold that a reload finds, nothing of a turn that was left
\* behind is shown, and the page is busy exactly while it waits (useMeridianShowcase).
THEOREM PageHolds == Spec => []PageIsHonest
<1>1. /\ Proofs2!Trips!WritesAssumption
      /\ Proofs6!Desk!DeskAssumption
      /\ Proofs7!Desk!DeskAssumption
  BY Instances DEF Trips!WritesAssumption, Proofs2!Trips!WritesAssumption, Desk!DeskAssumption,
     Proofs6!Desk!DeskAssumption, Moves!DeskAssumption, Proofs7!Desk!DeskAssumption
<1>2. (OnTrips => Proofs2!Trips!IInv) /\ (OnDesk => Proofs6!Desk!IInv)
      /\ (OnMoves => Proofs7!Desk!IInv)
        => PageIsHonest
  BY <1>1, Proofs2!TripsSays, Proofs6!DeskSays, Proofs7!DeskSays, TripsMatch, DeskMatch, MovesMatch
     DEF PageIsHonest
<1>3. QED BY <1>2, TripsHold, DeskHold, MovesHold, PTL
=============================================================================
