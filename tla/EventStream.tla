----------------------------- MODULE EventStream -----------------------------
(***************************************************************************)
(* One streamed call: the work as a task of its own, its events handed to  *)
(* the event loop and queued for the page, keepalives in every gap, a      *)
(* ceiling on the stream, and the page with its idle timer and hard cap.   *)
(* Time passes in units; nothing that is due is left behind by it.         *)
(***************************************************************************)
EXTENDS Naturals, Sequences, SequencesExt

CONSTANTS Keepalive, Idle,     \* a gap the server breaks, a silence the page takes for the end
          Ceiling, Cap,        \* of the stream, of the page's wait
          RequestLimit,        \* after which the platform ends any request
          MaxAuthorization,    \* the longest the caller's check takes, before any header
          MaxTransit,          \* the longest a frame travels
          MaxLag,              \* the longest a slow connection keeps a frame back
          MaxOutput,           \* bound: events of the work before its last
          MayDie               \* whether the server may be lost

TimesFit == /\ {Keepalive, Idle, Ceiling, Cap, RequestLimit, MaxAuthorization, MaxTransit,
                MaxLag, MaxOutput} \subseteq Nat
            /\ 0 < Keepalive /\ Keepalive < Idle /\ Ceiling = Cap /\ Cap < RequestLimit

VARIABLES now, touched,     \* the time; when the page last heard anything
          told,             \* how the page's wait ended, or "waiting"
          heard,            \* the output the page was shown
          server,           \* "authorizing", "streaming", "ended", "dead"
          opened, lastSent, \* when the stream began and last sent a frame
          connected,        \* the listener still queues
          work,             \* "none", "running", "done"
          finished,         \* when the work returned
          output,           \* events the work has emitted
          handed, queue,    \* handed to the loop, queued for the page
          wire              \* frames under way: <<frame, when sent>>

page == <<touched, told, heard>>
stream == <<server, opened, lastSent, connected>>
task == <<work, finished, output>>
vars == <<now, page, stream, task, handed, queue, wire>>

Greeting == 0
Outputs == 1..MaxOutput
Keep == MaxOutput + 1
Terminal == MaxOutput + 2
ReadBack == MaxOutput + 3

Init == /\ now = 0 /\ touched = 0 /\ told = "waiting" /\ heard = <<>>
        /\ server = "authorizing" /\ opened = 0 /\ lastSent = 0 /\ connected = TRUE
        /\ work = "none" /\ finished = 0 /\ output = 0
        /\ handed = <<>> /\ queue = <<>> /\ wire = <<>>

Sent(frame) == wire' = Append(wire, <<frame, now>>) /\ lastSent' = now

-----------------------------------------------------------------------------
(* The server.                                                             *)
(* Authorized: headers, a greeting, and the work in a task of its own.     *)
Open == /\ server = "authorizing" /\ server' = "streaming" /\ opened' = now /\ work' = "running"
        /\ Sent(Greeting)
        /\ UNCHANGED <<now, page, connected, finished, output, handed, queue>>

Emit == /\ work = "running" /\ server # "dead" /\ output < MaxOutput
        /\ output' = output + 1 /\ handed' = Append(handed, output + 1)
        /\ UNCHANGED <<now, page, stream, work, finished, queue, wire>>

(* The work returns, or its failure is worded: one last event.             *)
Finish == /\ work = "running" /\ server # "dead" /\ work' = "done" /\ finished' = now
          /\ handed' = Append(handed, Terminal)
          /\ UNCHANGED <<now, page, stream, output, queue, wire>>

(* call_soon_threadsafe: in order, and queued while somebody listens.      *)
Deliver == /\ handed # <<>> /\ server # "dead" /\ handed' = Tail(handed)
           /\ queue' = IF connected THEN Append(queue, Head(handed)) ELSE queue
           /\ UNCHANGED <<now, page, stream, task, wire>>

Over == now >= opened + Ceiling
Listening == server = "streaming" /\ connected

Frame == /\ Listening /\ queue # <<>> /\ queue' = Tail(queue) /\ Sent(Head(queue))
         /\ IF Head(queue) = Terminal THEN server' = "ended" /\ connected' = FALSE
            ELSE UNCHANGED <<server, connected>>
         /\ UNCHANGED <<now, page, opened, task, handed>>

\* Mutant: at the ceiling a reply that is queued already is not looked for.
CloseBlind == /\ Listening /\ Over /\ Sent(ReadBack)
              /\ server' = "ended" /\ connected' = FALSE
              /\ UNCHANGED <<now, page, opened, task, handed, queue>>
(* At the ceiling, with nothing queued: the page is to read the outcome.   *)
Close == /\ Listening /\ Over /\ queue = <<>> /\ Sent(ReadBack)
         /\ server' = "ended" /\ connected' = FALSE
         /\ UNCHANGED <<now, page, opened, task, handed, queue>>

Silent == Listening /\ ~Over /\ queue = <<>> /\ now >= lastSent + Keepalive
Beat == /\ Silent /\ Sent(Keep)
        /\ UNCHANGED <<now, page, server, opened, connected, task, handed, queue>>

(* The page has gone: the listener stops, the work goes on.                *)
Notice == /\ told # "waiting" /\ Listening /\ server' = "ended" /\ connected' = FALSE
          /\ UNCHANGED <<now, page, opened, lastSent, task, handed, queue, wire>>

(* A deploy or a scale-in takes the server, and the work with it.          *)
Die == /\ MayDie /\ server # "dead" /\ server' = "dead" /\ connected' = FALSE
       /\ UNCHANGED <<now, page, opened, lastSent, task, handed, queue, wire>>

-----------------------------------------------------------------------------
(* The page.                                                               *)
Answers(frame) == frame \in {Terminal, ReadBack}
Arrive == /\ wire # <<>> /\ wire' = Tail(wire)
          /\ IF told = "waiting"
             THEN /\ touched' = now
                  /\ told' = CASE Head(wire)[1] = Terminal -> "complete"
                              [] Head(wire)[1] = ReadBack -> "read_back" [] OTHER -> told
                  /\ heard' = IF Head(wire)[1] \in Outputs THEN Append(heard, Head(wire)[1]) ELSE heard
             ELSE UNCHANGED page
          /\ UNCHANGED <<now, stream, task, handed, queue>>

Quiet == /\ told = "waiting" /\ now >= touched + Idle /\ told' = "quiet"
         /\ UNCHANGED <<now, touched, heard, stream, task, handed, queue, wire>>

WaitedEnough == now >= Cap
TooLong == /\ told = "waiting" /\ WaitedEnough /\ told' = "too_long"
           /\ UNCHANGED <<now, touched, heard, stream, task, handed, queue, wire>>

(* The connection ends with no last event: the reply was interrupted.      *)
Broken == /\ told = "waiting" /\ server = "dead" /\ wire = <<>> /\ told' = "broken"
          /\ UNCHANGED <<now, touched, heard, stream, task, handed, queue, wire>>

Leave == /\ told = "waiting" /\ told' = "left"
         /\ UNCHANGED <<now, touched, heard, stream, task, handed, queue, wire>>

(* Time passes when nothing is due.                                        *)
Due == \/ server = "authorizing" /\ now >= MaxAuthorization
       \/ server # "dead" /\ handed # <<>>
       \/ Silent
       \/ Listening /\ now >= lastSent + MaxLag /\ (queue # <<>> \/ Over \/ told # "waiting")
       \/ wire # <<>> /\ now >= wire[1][2] + MaxTransit
       \/ told = "waiting" /\ (now >= touched + Idle \/ WaitedEnough)
Pass == /\ ~Due /\ now <= RequestLimit /\ now' = now + 1
        /\ UNCHANGED <<page, stream, task, handed, queue, wire>>

Next == \/ Open \/ Emit \/ Finish \/ Deliver \/ Frame \/ Close \/ Beat \/ Notice \/ Die
        \/ Arrive \/ Quiet \/ TooLong \/ Broken \/ Leave \/ Pass
Spec == Init /\ [][Next]_vars
-----------------------------------------------------------------------------
TypeOK ==
    /\ now \in 0..RequestLimit + 1 /\ touched \in 0..now
    /\ told \in {"waiting", "complete", "read_back", "quiet", "too_long", "broken", "left"}
    /\ heard \in Seq(Outputs) /\ server \in {"authorizing", "streaming", "ended", "dead"}
    /\ opened \in 0..now /\ lastSent \in 0..now /\ connected \in BOOLEAN
    /\ work \in {"none", "running", "done"} /\ finished \in 0..now /\ output \in 0..MaxOutput
    /\ \A f \in ToSet(wire) : f[2] \in 0..now

(* A completed page was shown all the work put out, in order, before it.   *)
CompleteIsAll == told = "complete" => heard = [i \in 1..output |-> i]

(* A page is sent to read the outcome back only when the work was still    *)
(* under way at the ceiling: a finished reply is delivered instead.        *)
FinishedIsDelivered == told = "read_back" => work # "done" \/ finished >= opened + Ceiling

(* The stream ends once: no frame follows the one that ends it.            *)
EndsOnce == \A i \in 1..Len(wire) : Answers(wire[i][1]) => i = Len(wire)

(* A stream that began is never taken for a dead one while its server      *)
(* lives.                                                                  *)
LiveIsNotQuiet == told = "quiet" /\ server = "streaming" => opened + MaxTransit >= Idle

(* The page stops waiting before the platform ends the request under it.   *)
NeverCut == told = "waiting" => now < RequestLimit

(* request.ts:6: "The backend sends a keepalive every 10 s, so a silent    *)
(* stream means the connection or the server is gone."                     *)
QuietMeansGone == told = "quiet" => server \in {"dead", "ended"}

(* chat.py:1535: the server ends a stream at the browser's own ceiling and *)
(* "then tells the page to read the outcome back from Aurora".             *)
ReadBackIsHeard == told = "too_long" => server # "streaming" \/ ~Over

(* Of the work, for the liveness a run asks: it has begun, it has ended.   *)
Working == work = "running"
Worked == work = "done"
-----------------------------------------------------------------------------
(* The inductive invariant: what is on its way continues what was shown, and *)
(* a stream that is open was never silent for long.                          *)

Times == 0..RequestLimit + 1
WellFormed == /\ TypeOK
              /\ wire \in Seq((0..ReadBack) \X Times)
              /\ queue \in Seq(Outputs \union {Terminal})
              /\ handed \in Seq(Outputs \union {Terminal})

\* Before the stream opens there is nothing, and it is listened to while it is open.
Opened ==
    /\ connected <=> server \in {"authorizing", "streaming"}
    /\ server = "authorizing" => work = "none" /\ wire = <<>> /\ told \notin {"complete", "read_back"}
    /\ server = "streaming" => work # "none" /\ opened <= lastSent
    /\ work = "none" => output = 0 /\ queue = <<>> /\ handed = <<>>

\* What waits to be framed: the events after the ones framed so far.
Emitted == output + (IF work = "done" THEN 1 ELSE 0)
Framed == Emitted - Len(queue) - Len(handed)
Event(n) == IF n <= output THEN n ELSE Terminal
QueuedInOrder ==
    connected => /\ \A i \in 1..Len(queue) : queue[i] = Event(Framed + i)
                 /\ \A i \in 1..Len(handed) : handed[i] = Event(Framed + Len(queue) + i)

\* A last event that has not reached the queue was emitted just now.
HandedAtOnce == server # "dead" /\ work = "done" /\ handed # <<>> => finished = now

\* The output on the wire continues what the page was shown; f counts it.
Counts(f) ==
    /\ told = "waiting" => f[0] = Len(heard)
    /\ \A i \in 1..Len(wire) :
          /\ f[i] = f[i - 1] + (IF wire[i][1] \in Outputs THEN 1 ELSE 0)
          /\ wire[i][1] \in Outputs => wire[i][1] = f[i]
          /\ wire[i][1] = Terminal => work = "done" /\ f[i] = output
    /\ connected => f[Len(wire)] = Framed
ShownInOrder ==
    /\ heard = [i \in 1..Len(heard) |-> i]
    /\ told = "complete" => work = "done"
    /\ \E f \in [0..Len(wire) -> 0..output] : Counts(f)

\* A stream that was sent its last event is over; one sent to read back, after the ceiling.
LastIsLast == (\E i \in 1..Len(wire) : Answers(wire[i][1])) => ~connected
ReadBackIsLate ==
    told = "read_back" \/ (\E i \in 1..Len(wire) : wire[i][1] = ReadBack) =>
      /\ now >= opened + Ceiling
      /\ work # "done" \/ finished >= opened + Ceiling

\* The longest an open stream is silent, and a page that waits is in touch with it.
Gap == IF MaxLag > Keepalive THEN MaxLag ELSE Keepalive
ConnectionIsPrompt == Gap + MaxTransit < Idle
LiveWhilePrompt == ConnectionIsPrompt => LiveIsNotQuiet
NotSilent == server = "streaming" => now <= lastSent + Gap
WireInTime ==
    \A i \in 1..Len(wire) :
       /\ now <= wire[i][2] + MaxTransit
       /\ wire[i][2] <= lastSent
       /\ \A j \in i..Len(wire) : wire[i][2] <= wire[j][2]
       /\ i < Len(wire) => wire[i + 1][2] <= wire[i][2] + Gap
       /\ i = Len(wire) => wire[i][2] = lastSent
InTouch ==
    /\ told = "waiting" /\ server = "streaming" =>
         IF wire = <<>> THEN lastSent <= touched
         ELSE wire[1][2] <= touched + Gap \/ wire[1][2] = opened
    /\ told = "quiet" => now >= Idle
    /\ told = "waiting" => now <= Cap

IInv == /\ WellFormed /\ Opened /\ QueuedInOrder /\ HandedAtOnce /\ ShownInOrder /\ LastIsLast
        /\ ReadBackIsLate /\ NotSilent /\ WireInTime /\ InTouch
        /\ CompleteIsAll /\ FinishedIsDelivered /\ EndsOnce /\ LiveWhilePrompt /\ NeverCut
=============================================================================
