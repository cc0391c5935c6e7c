---------------------------- MODULE GovernedTurn ----------------------------
(***************************************************************************)
(* One request of the Phase 4 concierge: a chat turn, or a hold or booking *)
(* the traveler confirmed with a button.  The backend's request awaits a   *)
(* thread that invokes the Concierge Runtime and reads its events; the     *)
(* Runtime places the confirmed write through the Gateway and narrates it. *)
(* Then the backend writes the turn's audit row and remembers the turn.    *)
(* Here: what each failure, at each step, lets the backend say about the   *)
(* write, and what its audit row says, while the request may be cancelled. *)
(***************************************************************************)
EXTENDS Naturals, Sequences

CONSTANTS MaxCancels    \* bound: the cancellations that reach one request

MaxCancelsAssumption == MaxCancels \in Nat

VARIABLES
    operation,  \* "turn", or "write": a confirmed hold or booking
    pc,         \* the request's coroutine: ProductionAgent.process_*
    thread,     \* invoke_turn's thread, which a cancelled request leaves running
    attempt,    \* _send's attempt, counted from 1
    progress,   \* TurnProgress.may_have_run
    decision,   \* the RuntimeDecision as its events arrived
    runtime,    \* the Concierge's turn, by attempt
    gateway,    \* its tool call at the Gateway and the Lambda, by attempt
    wire,       \* the events the Runtime sent and the thread has not read, by attempt
    error,      \* the exception in flight in the coroutine; "none"
    row,        \* the audit row's task and contents
    cancels,    \* cancellations that arrived
    pending,    \* a cancellation that arrived during the audit write
    remembered, \* the turn is in conversation memory
    answer      \* what the route answers; "none" until it does

invoke == <<thread, attempt, progress, decision>>
agent  == <<runtime, gateway, wire>>
kept   == <<row, remembered>>
vars   == <<operation, pc, invoke, agent, error, kept, cancels, pending, answer>>

Attempts == 1..2
Spans    == {"none", "allowed", "denied", "refused", "error"}
Events   == {"started", "allowed", "denied", "refused", "error",     \* activity spans of the call
             "placed", "unplaced", "unplaced_by_policy",             \* the hold or booking event
             "failed", "expired", "result"}
Nothing  == [call |-> "none", placed |-> FALSE, refused |-> FALSE,
             policyDenied |-> FALSE, message |-> FALSE]
NoRow    == [state |-> "none", verdict |-> "none", call |-> "none"]

TypeOK ==
    /\ operation \in {"turn", "write"}
    /\ pc \in {"read", "invoke", "trace", "hydrate", "audit", "auditing", "memory", "log", "over"}
    /\ thread \in {"idle", "send", "wait", "read", "returned", "transport", "unsent",
                 "event", "credential", "over"}
    /\ attempt \in Attempts /\ progress \in BOOLEAN
    /\ decision \in [call: Spans, placed: BOOLEAN, refused: BOOLEAN,
                     policyDenied: BOOLEAN, message: BOOLEAN]
    /\ runtime \in [Attempts -> {"none", "start", "call", "raise", "narrate", "ended"}]
    /\ gateway \in [Attempts -> {"none", "sent", "running", "rejected", "denied", "refused", "written"}]
    /\ wire \in [Attempts -> Seq(Events)]
    /\ error \in {"none", "grant", "transport", "unsent", "event", "credential", "trace", "catalog",
                  "audit", "memory", "cancelled"}
    /\ row \in [state: {"none", "writing", "committed", "lost"},
                verdict: {"none", "allow", "deny", "error"}, call: Spans \cup {"unknown"}]
    /\ cancels \in 0..MaxCancels /\ pending \in BOOLEAN /\ remembered \in BOOLEAN
    /\ answer \in {"none", "done", "placed", "unplaced", "unfinished", "unknown", "failed", "cancelled"}

Init ==
    /\ operation \in {"turn", "write"}
    /\ pc = "read" /\ thread = "idle" /\ attempt = 1 /\ progress = FALSE /\ decision = Nothing
    /\ runtime = [a \in Attempts |-> "none"] /\ gateway = [a \in Attempts |-> "none"]
    /\ wire = [a \in Attempts |-> <<>>]
    /\ error = "none" /\ row = NoRow /\ cancels = 0 /\ pending = FALSE
    /\ remembered = FALSE /\ answer = "none"

-----------------------------------------------------------------------------
(* What the backend says, and what the row says. *)

Over(reply) == pc' = "over" /\ answer' = reply

\* A reported write of this request was placed.
Placed == operation = "write" /\ decision.placed

\* _outcome_unknown: the Runtime may have run the write, and reported neither it nor its refusal.
OutcomeUnknown == ~decision.refused /\ error # "credential" /\ progress

\* _unfinished_write, and the error itself where it returns None.
ReplyToFailedCall ==
    CASE Placed -> "unfinished"
      [] ~Placed /\ operation = "write" /\ OutcomeUnknown -> "unknown"
      [] OTHER -> "failed"

\* _naming_a_placed_write, around every step after the Runtime returned.
ReplyToFailedStep == IF Placed THEN "unfinished" ELSE "failed"

Reply == IF operation = "turn" THEN "done" ELSE IF Placed THEN "placed" ELSE "unplaced"

\* _runtime_turn returned, so the row is the caller's to write.
Returned == thread = "over" /\ error \notin {"transport", "unsent", "event", "credential"}

\* read_turn: the calls are unknown when a reported denial is no call's.  audit_of_failed_turn:
\* only an error event carries the calls that were reported before it.
Calls == IF \/ ~Returned /\ (error # "event" \/ decision.call = "none")
            \/ decision.policyDenied /\ decision.call # "denied"
         THEN "unknown" ELSE decision.call

\* TurnAudit.decision and authorization_decision.
Verdict(call) ==
    IF call = "denied" \/ (call = "unknown" /\ decision.policyDenied /\ Returned) THEN "deny"
    ELSE IF call \in {"unknown", "error"} \/ error # "none" THEN "error" ELSE "allow"

\* The row's task, started before the coroutine awaits it under asyncio.shield.
StartAudit == row' = [state |-> "writing", verdict |-> Verdict(Calls), call |-> Calls]

-----------------------------------------------------------------------------
(* The thread: AgentCoreRuntimeAdapter.invoke_turn. *)

Emit(a, events) == wire' = [wire EXCEPT ![a] = @ \o events]

\* Mutant: every request is sent again.
MayResendWrites == attempt = 1

\* retry_allowed and the first attempt.
MayResend == operation = "turn" /\ attempt = 1

\* The request reaches the Runtime, or nothing shows that it did not.
Send ==
    /\ thread = "send"
    /\ \/ thread' = "wait" /\ runtime' = [runtime EXCEPT ![attempt] = "start"]
       \/ thread' = "wait" /\ UNCHANGED runtime
    /\ UNCHANGED <<operation, pc, attempt, progress, decision, gateway, wire, error, kept,
                   cancels, pending, answer>>

\* A ConnectError, a refusal before the turn, or no credential: it never ran.
SendRefused ==
    /\ thread = "send" /\ thread' = "unsent" /\ progress' = FALSE
    /\ UNCHANGED <<operation, pc, attempt, decision, agent, error, kept, cancels, pending, answer>>

\* ConnectionClosedError or ConnectionDropped before any response.
Closed ==
    /\ thread = "wait"
    /\ IF MayResend
       THEN thread' = "send" /\ attempt' = attempt + 1 /\ UNCHANGED progress
       ELSE thread' = "transport" /\ progress' = TRUE /\ UNCHANGED attempt
    /\ UNCHANGED <<operation, pc, decision, agent, error, kept, cancels, pending, answer>>

\* Any other error before a response: a read timeout, a 424, a 5xx.
NoResponse ==
    /\ thread = "wait" /\ thread' = "transport" /\ progress' = TRUE
    /\ UNCHANGED <<operation, pc, attempt, decision, agent, error, kept, cancels, pending, answer>>

Respond ==
    /\ thread = "wait" /\ runtime[attempt] # "none"
    /\ thread' = "read" /\ progress' = TRUE
    /\ UNCHANGED <<operation, pc, attempt, decision, agent, error, kept, cancels, pending, answer>>

\* _apply_event.  A call whose result span never arrives ended in an error.
Apply(event) ==
    CASE event = "started" -> [decision EXCEPT !.call = "error"]
      [] event \in Spans   -> [decision EXCEPT !.call = event]
      [] event = "placed"  -> [decision EXCEPT !.placed = TRUE, !.refused = FALSE]
      [] event = "unplaced" -> [decision EXCEPT !.placed = FALSE, !.refused = TRUE]
      [] event = "unplaced_by_policy" ->
             [decision EXCEPT !.placed = FALSE, !.refused = TRUE, !.policyDenied = TRUE]
      [] event = "result"  -> [decision EXCEPT !.message = TRUE]
      [] OTHER -> decision

ReadEvent ==
    /\ thread = "read" /\ wire[attempt] # <<>>
    /\ LET event == Head(wire[attempt]) IN
         /\ decision' = Apply(event)
         /\ thread' = CASE event = "failed"  -> "event"
                         [] event = "expired" -> "credential"
                         [] OTHER             -> "read"
    /\ wire' = [wire EXCEPT ![attempt] = Tail(@)]
    /\ UNCHANGED <<operation, pc, attempt, progress, runtime, gateway, error, kept, cancels,
                   pending, answer>>

\* The stream ends: with a message, or with RuntimeError("no concierge message").
StreamEnd ==
    /\ thread = "read" /\ wire[attempt] = <<>> /\ runtime[attempt] = "ended"
    /\ thread' = IF decision.message THEN "returned" ELSE "transport"
    /\ UNCHANGED <<operation, pc, attempt, progress, decision, agent, error, kept, cancels,
                   pending, answer>>

\* The stream breaks, stays silent past the read timeout, or holds no event.
StreamBreak ==
    /\ thread = "read" /\ thread' = "transport"
    /\ UNCHANGED <<operation, pc, attempt, progress, decision, agent, error, kept, cancels,
                   pending, answer>>

-----------------------------------------------------------------------------
(* The Concierge Runtime and the Gateway. *)

RuntimeGoes(a, from, to) == runtime[a] = from /\ runtime' = [runtime EXCEPT ![a] = to]
BackendStays == UNCHANGED <<operation, pc, invoke, error, kept, cancels, pending, answer>>

\* The caller's token expired or is refused, or the Gateway client, the tool list or the
\* Memory span fails.
RuntimeFails(a) ==
    /\ RuntimeGoes(a, "start", "ended") /\ \E event \in {"failed", "expired"} : Emit(a, <<event>>)
    /\ UNCHANGED gateway /\ BackendStays

\* The platform's call of the confirmed write, or the model's call of a tool.
PlaceCall(a) ==
    /\ RuntimeGoes(a, "start", "call") /\ Emit(a, <<"started">>)
    /\ gateway' = [gateway EXCEPT ![a] = "sent"]
    /\ BackendStays

\* The model answers a chat turn without a tool.
AnswerDirectly(a) ==
    /\ operation = "turn" /\ RuntimeGoes(a, "start", "narrate")
    /\ UNCHANGED <<gateway, wire>> /\ BackendStays

\* call_tool's raise_if_expired: the watchdog has ended the turn, nothing is sent.
ExpireBeforeCall(a) ==
    /\ operation = "write" /\ RuntimeGoes(a, "start", "raise")
    /\ Emit(a, <<"started", "error", "unplaced">>)
    /\ UNCHANGED gateway /\ BackendStays

GatewayMoves(a, from, to) ==
    /\ gateway[a] = from /\ gateway' = [gateway EXCEPT ![a] = to]
    /\ UNCHANGED <<runtime, wire>> /\ BackendStays

\* The Gateway rejects the credential, Cedar denies, or the Lambda runs and answers;
\* its transaction commits whether or not anyone still waits for it.
GatewayDecides(a) == \E to \in {"rejected", "denied", "running"} : GatewayMoves(a, "sent", to)
LambdaRefuses(a)  == GatewayMoves(a, "running", "refused")
LambdaWrites(a)   == GatewayMoves(a, "running", "written")

\* TraceHooks.after: the hold event goes before the span of a success and after the span
\* of a failure.  A chat turn has one when the model proposed a write, which Cedar denies.
Outcome(a) ==
    IF operation = "turn"
    THEN CASE gateway[a] = "written" -> <<"allowed">>
           [] gateway[a] = "denied"  -> <<"denied", "unplaced_by_policy">>
           [] OTHER -> <<"error">>
    ELSE CASE gateway[a] = "written" -> <<"placed", "allowed">>
           [] gateway[a] = "denied" -> <<"denied", "unplaced_by_policy">>
           [] gateway[a] = "refused" -> <<"refused", "unplaced">>
           [] OTHER -> <<"error", "unplaced">>

CallAnswered(a) ==
    /\ gateway[a] \in {"rejected", "denied", "refused", "written"}
    /\ RuntimeGoes(a, "call", IF gateway[a] = "rejected" THEN "raise" ELSE "narrate")
    /\ Emit(a, Outcome(a))
    /\ UNCHANGED gateway /\ BackendStays

\* Mutant: nothing ends a call that the Gateway does not answer.
NeverGivesUp(a) == FALSE /\ UNCHANGED vars

\* The read timeout of call_tool_sync or a lost connection: the hooks report a failed call,
\* and the error either is raised or is the result the model narrates.
CallGivesUp(a) ==
    /\ gateway[a] \in {"sent", "running", "refused", "written"}
    /\ \E to \in {"raise", "narrate"} : RuntimeGoes(a, "call", to)
    /\ Emit(a, IF operation = "turn" THEN <<"error">> ELSE <<"error", "unplaced">>)
    /\ UNCHANGED gateway /\ BackendStays

\* The error event: the call raised, or the watchdog, a setup error or the model ended the turn.
RuntimeErrors(a) ==
    /\ \E from \in {"raise", "narrate"} : RuntimeGoes(a, from, "ended")
    /\ Emit(a, <<"failed">>)
    /\ UNCHANGED gateway /\ BackendStays

RuntimeAnswers(a) ==
    /\ RuntimeGoes(a, "narrate", "ended") /\ Emit(a, <<"result">>)
    /\ UNCHANGED gateway /\ BackendStays

-----------------------------------------------------------------------------
(* The request: ProductionAgent.process_turn, process_hold and process_booking. *)

\* _authorized_read: no row is owed before the Runtime is called.
Authorize ==
    /\ pc = "read"
    /\ \/ pc' = "invoke" /\ thread' = "send" /\ UNCHANGED <<error, answer>>
       \/ error' = "grant" /\ Over("failed") /\ UNCHANGED thread
    /\ UNCHANGED <<operation, attempt, progress, decision, agent, kept, cancels, pending>>

Return ==
    /\ pc = "invoke" /\ thread = "returned" /\ thread' = "over"
    /\ pc' = "trace"
    /\ UNCHANGED <<operation, attempt, progress, decision, agent, error, kept, cancels, pending, answer>>

CallFails ==
    /\ pc = "invoke" /\ thread \in {"transport", "unsent", "event", "credential"}
    /\ thread' = "over" /\ error' = thread
    /\ pc' = "audit"
    /\ UNCHANGED <<operation, attempt, progress, decision, agent, kept, cancels, pending, answer>>

\* _forward_turn, and for a chat turn _hydrate: their errors are named in the row.
Trace ==
    /\ pc = "trace"
    /\ \/ pc' = (IF operation = "turn" THEN "hydrate" ELSE "audit") /\ UNCHANGED error
       \/ pc' = "audit" /\ error' = "trace"
    /\ UNCHANGED <<operation, invoke, agent, kept, cancels, pending, answer>>

Hydrate ==
    /\ pc = "hydrate" /\ pc' = "audit"
    /\ error' \in {"none", "catalog"}
    /\ UNCHANGED <<operation, invoke, agent, kept, cancels, pending, answer>>

\* _audit_turn after the Runtime returned; _audit_failed_turn when its call raised.
BeginAudit ==
    /\ pc = "audit" /\ pc' = "auditing" /\ StartAudit
    /\ UNCHANGED <<operation, invoke, agent, error, remembered, cancels, pending, answer>>

\* _audit_unit: its own transaction, in a task of its own.
AuditTask ==
    /\ row.state = "writing"
    /\ \E state \in {"committed", "lost"} : row' = [row EXCEPT !.state = state]
    /\ UNCHANGED <<operation, pc, invoke, agent, error, remembered, cancels, pending, answer>>

AuditEnded == row.state \in {"committed", "lost"}

RowFailed == row.state = "lost"

\* The step after the row: nothing failed, or only the trace of a placed write.
Remembers == error = "none" \/ (error = "trace" /\ Placed)

\* _write_through_cancellation ends: a cancellation wins over the row's error.
AuditWaited ==
    /\ pc = "auditing" /\ AuditEnded
    /\ CASE pending \/ error = "cancelled" -> error' = "cancelled" /\ Over("cancelled")
         [] ~pending /\ error # "cancelled" /\ ~Returned -> Over(ReplyToFailedCall) /\ UNCHANGED error
         [] ~pending /\ error # "cancelled" /\ Returned /\ RowFailed ->
                error' = "audit" /\ Over(ReplyToFailedStep)
         [] OTHER -> IF Remembers THEN pc' = "memory" /\ UNCHANGED <<error, answer>>
                     ELSE Over(ReplyToFailedStep) /\ UNCHANGED error
    /\ UNCHANGED <<operation, invoke, agent, kept, cancels, pending>>

\* _memory_unit: one transaction, then its trace.  A trace error in flight is raised again.
Remember ==
    /\ pc = "memory"
    /\ \/ /\ remembered' = TRUE
          /\ IF error = "none" THEN pc' = "log" /\ UNCHANGED <<error, answer>>
             ELSE Over(ReplyToFailedStep) /\ UNCHANGED error
       \/ error' = "memory" /\ Over(ReplyToFailedStep) /\ UNCHANGED remembered
    /\ UNCHANGED <<operation, invoke, agent, row, cancels, pending>>

\* The last trace entries.
Log ==
    /\ pc = "log"
    /\ \/ Over(Reply) /\ UNCHANGED error
       \/ error' = "trace" /\ Over(ReplyToFailedStep)
    /\ UNCHANGED <<operation, invoke, agent, kept, cancels, pending>>

\* The client goes away: the await in progress raises.  The thread runs on, and the
\* audit write is waited for however often the request is cancelled.
Cancel ==
    /\ cancels < MaxCancels /\ cancels' = cancels + 1
    /\ CASE pc \in {"read", "memory"} -> error' = "cancelled" /\ Over("cancelled") /\ UNCHANGED pending
         [] pc \in {"invoke", "hydrate"} -> /\ error' = "cancelled" /\ pc' = "audit"
                                            /\ UNCHANGED <<pending, answer>>
         [] pc = "auditing" -> pending' = TRUE /\ UNCHANGED <<error, pc, answer>>
         [] OTHER -> FALSE
    /\ UNCHANGED <<operation, invoke, agent, kept>>

-----------------------------------------------------------------------------
Thread  == Send \/ SendRefused \/ Closed \/ NoResponse \/ Respond \/ ReadEvent \/ StreamEnd \/ StreamBreak
Concierge(a) == RuntimeFails(a) \/ PlaceCall(a) \/ AnswerDirectly(a) \/ ExpireBeforeCall(a)
                \/ CallAnswered(a) \/ CallGivesUp(a) \/ RuntimeErrors(a) \/ RuntimeAnswers(a)
Lambda(a) == GatewayDecides(a) \/ LambdaRefuses(a) \/ LambdaWrites(a)
Request == Authorize \/ Return \/ CallFails \/ Trace \/ Hydrate \/ BeginAudit \/ AuditWaited
           \/ Remember \/ Log

Next == Request \/ Thread \/ AuditTask \/ Cancel
        \/ \E a \in Attempts : Concierge(a) \/ Lambda(a)

Spec == Init /\ [][Next]_vars

-----------------------------------------------------------------------------
(* Properties *)

Written == \E a \in Attempts : operation = "write" /\ gateway[a] = "written"

\* What the traveler is told was placed was placed, and whatever the request lost after it:
\* PlacedWriteUnfinished and a receipt only stand for a write the Lambda committed.
PlacedIsWritten == answer \in {"placed", "unfinished"} => Written

\* A write whose request is answered as refused or not run, and that was committed or yet may be,
\* is one the Runtime's own Gateway call gave up on: no other failure hides a write.
GaveUp == \E a \in Attempts : /\ gateway[a] \in {"sent", "running", "refused", "written"}
                              /\ runtime[a] \in {"raise", "narrate", "ended"}
                              /\ decision.call = "error" /\ decision.refused
UnwrittenUnlessGivenUp ==
    answer \in {"failed", "unplaced"} /\ operation = "write" =>
        \/ GaveUp
        \/ \A a \in Attempts : gateway[a] \in {"none", "rejected", "denied", "refused"}
                               /\ runtime[a] \in {"none", "raise", "narrate", "ended"}

\* chat.py:2274: any error but PlacedWriteUnfinished and WriteOutcomeUnknown means the write was
\* refused or the request never reached the Runtime.
FailedIsUnwritten == answer = "failed" => ~Written

\* Every turn that called the Runtime has its audit row committed or its loss known before the
\* request is over, however often the request is cancelled and wherever it failed.
RowBeforeTheEnd == pc = "over" /\ thread # "idle" => row.state \in {"committed", "lost"}

\* The row does not say more than happened: allow only for a turn in which nothing was denied or
\* failed before the row, an allowed write only when written, a denied one only when not.
RowIsTruthful ==
    /\ row.state = "committed" /\ row.verdict = "allow" =>
           /\ ~decision.policyDenied /\ error \in {"none", "trace", "memory", "cancelled"}
           /\ error = "trace" => remembered
    /\ row.call = "allowed" /\ operation = "write" => Written
    /\ row.call \in {"denied", "refused"} => ~Written

\* Conversation memory never holds a turn whose row was not committed first.
RememberedIsAudited == remembered => row.state = "committed"

\* One click places one call: no retry and no failure sends a confirmed write twice.
CalledOnce == operation = "write" => gateway[1] = "none" \/ gateway[2] = "none"

RequestOver == pc = "over"

-----------------------------------------------------------------------------
(* The inductive invariant behind them.  A confirmed write is sent once, so *)
(* everything about it is in the first place of each table.                 *)

Confirmed == operation = "write"
AnsweredPhases == {"raise", "narrate", "ended"}
CallErrors == {"transport", "unsent", "event", "credential"}
Refusals == {"unplaced", "unplaced_by_policy"}
Settling == Refusals \cup {"placed"}
Causes == {"error", "denied", "refused"}

OneAttempt == Confirmed => attempt = 1 /\ runtime[2] = "none" /\ gateway[2] = "none"
NotSent == Confirmed =>
    /\ thread \in {"idle", "send", "unsent"} \/ error = "unsent" => runtime[1] = "none"
    /\ runtime[1] \in {"none", "start"} => gateway[1] = "none"

\* What an event claims is so at the Gateway, the Lambda and the Runtime, and stays so.
Backed(e) == /\ e \in {"placed", "allowed"} => gateway[1] = "written"
             /\ e \in {"denied", "unplaced_by_policy"} => gateway[1] = "denied"
             /\ e = "refused" => gateway[1] = "refused"
             /\ e \in {"unplaced", "unplaced_by_policy", "failed", "result"} =>
                    runtime[1] \in AnsweredPhases
             /\ e = "expired" => gateway[1] = "none" /\ runtime[1] = "ended"
EventsAreBacked == Confirmed => \A i \in 1..Len(wire[1]) : Backed(wire[1][i])
DecisionIsBacked ==
    Confirmed => /\ Backed(decision.call)
                 /\ decision.placed => Backed("placed")
                 /\ decision.refused => Backed("unplaced") /\ decision.call \in Causes
                 /\ thread = "credential" \/ error = "credential" => Backed("expired")
RowSays == Confirmed /\ row.call # "unknown" => Backed(row.call)

\* A refusal comes right after its cause, and only the end of the stream comes after it.
RefusalIsLast ==
    Confirmed => /\ \A i, j \in 1..Len(wire[1]) :
                       i < j /\ wire[1][i] \in Refusals => wire[1][j] \in {"failed", "result"}
                 /\ decision.refused => \A j \in 1..Len(wire[1]) : wire[1][j] \in {"failed", "result"}
RefusalHasCause ==
    Confirmed => \A i \in 1..Len(wire[1]) : wire[1][i] \in Refusals =>
                     (IF i = 1 THEN decision.call ELSE wire[1][i - 1]) \in Causes

\* The Runtime's message comes after the settling of the call.
Settled(n) == decision.placed \/ decision.refused \/ \E j \in 1..n : wire[1][j] \in Settling
ResultIsSettled ==
    Confirmed => /\ runtime[1] = "narrate" => Settled(Len(wire[1]))
                 /\ \A i \in 1..Len(wire[1]) : wire[1][i] = "result" => Settled(i - 1)
                 /\ decision.message => decision.placed \/ decision.refused

\* Which steps of the request, of its thread and of its audit go together.
Phases ==
    /\ thread = "idle" => pc \in {"read", "over"}
    /\ pc = "read" => thread = "idle"
    /\ thread = "over" => pc \notin {"read", "invoke"}
    /\ pc \in {"trace", "hydrate", "memory", "log"} => Returned
    /\ pc \in {"read", "invoke", "trace", "hydrate"} => error = "none"
    /\ pc \in {"read", "invoke", "trace", "hydrate", "audit"} => row = NoRow /\ ~remembered
    /\ error \in CallErrors => thread = "over"
    /\ thread = "returned" \/ (Returned /\ error # "cancelled") => decision.message
    /\ thread \in {"read", "returned", "transport", "event", "credential"}
         \/ error \in {"transport", "event"} => progress
    /\ pc = "auditing" => row.state # "none" /\ ~remembered
    /\ pc \in {"memory", "log"} => row.state = "committed"
    /\ (pc = "over") = (answer # "none")
    /\ pc = "audit" /\ thread # "over" => error = "cancelled"
    /\ pc = "auditing" /\ thread # "over" => error = "cancelled"
    /\ pc \in {"audit", "auditing"} => error \notin {"audit", "memory"}
    /\ pc = "memory" => error \in {"none", "trace"}
    /\ pc = "log" => error = "none" /\ remembered
    /\ pc = "over" /\ thread # "over" /\ thread # "idle" => error = "cancelled" /\ answer = "cancelled"

\* An allow row is of a turn that returned and was denied nothing.
AllowStands == row.verdict = "allow" =>
    /\ thread = "over" /\ ~decision.policyDenied
    /\ \/ error \in {"none", "memory", "cancelled"}
       \/ error = "audit" /\ row.state = "lost"
       \/ error = "trace" /\ remembered

\* Why a write is answered as not run, or refused.
Reasons == Confirmed /\ answer \in {"failed", "unplaced"} =>
    \/ thread = "idle"
    \/ thread = "over" /\ (error \in {"unsent", "credential"} \/ decision.refused)

IInv == /\ TypeOK /\ OneAttempt /\ NotSent /\ EventsAreBacked /\ DecisionIsBacked /\ RefusalIsLast
        /\ RefusalHasCause /\ ResultIsSettled /\ Phases /\ RowSays /\ AllowStands /\ Reasons
        /\ PlacedIsWritten /\ RememberedIsAudited /\ RowBeforeTheEnd
=============================================================================
