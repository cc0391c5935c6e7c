----------------------------- MODULE TurnHistory -----------------------------
(***************************************************************************)
(* The saved history of one conversation of the Concierge Runtime, and the *)
(* turns that follow each other on it.  A turn the watchdog ended leaves   *)
(* its history open: a user message without a reply, or a tool call        *)
(* without a result.  A repair on a worker thread closes it.  Saves and    *)
(* repairs run on threads that nothing can stop, so they land late, and    *)
(* the next turn waits a bounded time for the repair before it reads.      *)
(***************************************************************************)
EXTENDS Naturals, Sequences

CONSTANTS MaxTurns,     \* bound: the turns of the conversation
          MaxMessages   \* bound: the messages an agent appends in one turn

BoundsAssumption == MaxTurns \in Nat /\ MaxMessages \in Nat

VARIABLES
    phase,      \* each turn of main.run
    task,       \* each turn's agent task
    messages,   \* agent.messages of each turn: the kinds it appended
    repair,     \* each turn's settle_history job on its worker
    closing,    \* the closing messages the repair has yet to append
    stop,       \* the turns whose repair was told to stop
    registry,   \* HistoryRepairs._open: the newest repair of the conversation, 0 for none
    saving,     \* messages whose save runs on a thread
    saved,      \* AgentCore Memory's events of the session, by created_at
    clock,      \* created_at, taken when a save starts
    leftOpen    \* the turns of which the log, or an error, says that their history is open

vars == <<phase, task, messages, repair, closing, stop, registry, saving, saved, clock, leftOpen>>

Turns  == 1..MaxTurns
Kinds  == {"user", "call", "result", "reply"}
Stamps == 0..((MaxMessages + 2) * MaxTurns)
Message == [stamp: Stamps, turn: Turns, kind: Kinds, closes: BOOLEAN]
Repairing == {"queued", "check", "append", "saving"}

TypeOK ==
    /\ phase \in [Turns -> {"idle", "wait", "read", "run", "ending", "settle", "over"}]
    /\ task \in [Turns -> {"none", "running", "done"}]
    /\ messages \in [Turns -> Seq(Kinds)]
    /\ repair \in [Turns -> Repairing \cup {"none", "done"}]
    /\ closing \in [Turns -> Seq(Kinds)]
    /\ stop \subseteq Turns /\ leftOpen \subseteq Turns /\ registry \in Turns \cup {0}
    /\ saving \subseteq Message /\ saved \in Seq(Message) /\ clock \in Stamps

Init ==
    /\ phase = [t \in Turns |-> "idle"] /\ task = [t \in Turns |-> "none"]
    /\ messages = [t \in Turns |-> <<>>]
    /\ repair = [t \in Turns |-> "none"] /\ closing = [t \in Turns |-> <<>>]
    /\ stop = {} /\ registry = 0 /\ saving = {} /\ saved = <<>> /\ clock = 0 /\ leftOpen = {}

-----------------------------------------------------------------------------
Goto(t, to) == phase' = [phase EXCEPT ![t] = to]
RepairIs(t, to) == repair' = [repair EXCEPT ![t] = to]

\* Mutant: the session keeps its events as they land.
LandLast(m) == saved' = Append(saved, m)

\* list_events gives the session by created_at.
Land(m) == saved' = SelectSeq(saved, LAMBDA n : n.stamp < m.stamp) \o <<m>>
                    \o SelectSeq(saved, LAMBDA n : n.stamp > m.stamp)

\* append_message: the event's created_at is the message's, taken when the save starts.
StartSave(t, kind, closes) ==
    /\ clock' = clock + 1
    /\ saving' = saving \cup {[stamp |-> clock, turn |-> t, kind |-> kind, closes |-> closes]}

SaveOf(t, closes) == \E m \in saving : m.turn = t /\ m.closes = closes

SaveLands(m) ==
    /\ m \in saving /\ saving' = saving \ {m} /\ Land(m)
    /\ UNCHANGED <<phase, task, messages, repair, closing, stop, registry, clock, leftOpen>>

\* A turn begins once the one before it is over, and calls REPAIRS.finish.
Begin(t) ==
    /\ phase[t] = "idle" /\ \A earlier \in 1..(t - 1) : phase[earlier] = "over"
    /\ Goto(t, IF registry = 0 THEN "read" ELSE "wait")
    /\ UNCHANGED <<task, messages, repair, closing, stop, registry, saving, saved, clock, leftOpen>>

Awaited(t) == \A awaited \in {registry} \ {0} : repair[awaited] = "done"

FinishWaited(t) ==
    /\ phase[t] = "wait" /\ Awaited(t) /\ Goto(t, "read")
    /\ UNCHANGED <<task, messages, repair, closing, stop, registry, saving, saved, clock, leftOpen>>

\* SETTLE_SECONDS passed: the repair is told to stop, and the log says so.
FinishTimedOut(t) ==
    /\ phase[t] = "wait" /\ ~Awaited(t)
    /\ stop' = stop \cup {registry} /\ leftOpen' = leftOpen \cup {registry}
    /\ Goto(t, "read")
    /\ UNCHANGED <<task, messages, repair, closing, registry, saving, saved, clock>>

\* build_turn_agent restores the saved history; run_agent starts the agent.
Restore(t) ==
    /\ phase[t] = "read" /\ Goto(t, "run") /\ task' = [task EXCEPT ![t] = "running"]
    /\ UNCHANGED <<messages, repair, closing, stop, registry, saving, saved, clock, leftOpen>>

LastOf(t) == IF messages[t] = <<>> THEN "none" ELSE messages[t][Len(messages[t])]

Follows(kind) == CASE kind = "none" -> {"user"} [] kind = "call" -> {"result"}
                   [] kind \in {"user", "result"} -> {"call", "reply"} [] OTHER -> {}

\* The agent appends a message and awaits its save.
AppendMessage(t) ==
    /\ phase[t] = "run" /\ ~SaveOf(t, FALSE) /\ Len(messages[t]) < MaxMessages
    /\ \E kind \in Follows(LastOf(t)) :
           /\ messages' = [messages EXCEPT ![t] = Append(@, kind)]
           /\ StartSave(t, kind, FALSE)
    /\ UNCHANGED <<phase, task, repair, closing, stop, registry, saved, leftOpen>>

Complete(t) ==
    /\ phase[t] = "run" /\ LastOf(t) = "reply" /\ ~SaveOf(t, FALSE)
    /\ task' = [task EXCEPT ![t] = "done"] /\ Goto(t, "over")
    /\ UNCHANGED <<messages, repair, closing, stop, registry, saving, saved, clock, leftOpen>>

\* drive: an exception of the agent ends the turn with its error; nothing is repaired.
AgentFails(t) ==
    /\ phase[t] = "run" /\ task' = [task EXCEPT ![t] = "done"] /\ Goto(t, "over")
    /\ leftOpen' = leftOpen \cup {t}
    /\ UNCHANGED <<messages, repair, closing, stop, registry, saving, saved, clock>>

\* The watchdog, a Gateway rejection, or a caller who closes the stream: end_task.
CutShort(t) ==
    /\ phase[t] = "run" /\ Goto(t, "ending")
    /\ UNCHANGED <<task, messages, repair, closing, stop, registry, saving, saved, clock, leftOpen>>

\* Mutant: a toolUse is left without its toolResult.
ClosingReplyOnly(t) == IF LastOf(t) \in {"none", "reply"} THEN <<>> ELSE <<"reply">>

\* settle_history
Closing(t) == CASE LastOf(t) \in {"none", "reply"} -> <<>>
                [] LastOf(t) = "call"              -> <<"result", "reply">>
                [] OTHER                           -> <<"reply">>

\* close_history when the cancelled task has finished: HistoryRepairs.start.
StartRepair(t) ==
    /\ phase[t] = "ending" /\ task' = [task EXCEPT ![t] = "done"]
    /\ RepairIs(t, "queued") /\ closing' = [closing EXCEPT ![t] = Closing(t)]
    /\ registry' = t /\ stop' = stop \cup ({registry} \ {0})
    /\ Goto(t, "settle")
    /\ UNCHANGED <<messages, saving, saved, clock, leftOpen>>

\* The task did not unwind within CANCEL_GRACE_SECONDS.
TaskStuck(t) ==
    /\ phase[t] = "ending" /\ Goto(t, "over") /\ leftOpen' = leftOpen \cup {t}
    /\ UNCHANGED <<task, messages, repair, closing, stop, registry, saving, saved, clock>>

\* wait_for_job: the repair ended, or SETTLE_SECONDS passed and it goes on.
Settled(t) ==
    /\ phase[t] = "settle" /\ Goto(t, "over")
    /\ UNCHANGED <<task, messages, repair, closing, stop, registry, saving, saved, clock, leftOpen>>

\* HistoryRepairs._forget, the future's done callback.
Forget(t) == registry' = IF registry = t THEN 0 ELSE registry

RepairStep(t, from, to) == repair[t] = from /\ RepairIs(t, to)

RepairStarts(t) ==
    /\ RepairStep(t, "queued", "check")
    /\ UNCHANGED <<phase, task, messages, closing, stop, registry, saving, saved, clock, leftOpen>>

\* keep_going: checked before each append.  A stopped repair logs that it stopped.
RepairChecks(t) ==
    /\ repair[t] = "check"
    /\ IF closing[t] = <<>> \/ t \in stop
       THEN /\ RepairIs(t, "done") /\ Forget(t)
            /\ leftOpen' = IF closing[t] = <<>> THEN leftOpen ELSE leftOpen \cup {t}
       ELSE RepairIs(t, "append") /\ UNCHANGED <<registry, leftOpen>>
    /\ UNCHANGED <<phase, task, messages, closing, stop, saving, saved, clock>>

Consume(t) == closing' = [closing EXCEPT ![t] = Tail(@)]

RepairAppends(t) ==
    /\ RepairStep(t, "append", "saving")
    /\ StartSave(t, Head(closing[t]), TRUE) /\ Consume(t)
    /\ UNCHANGED <<phase, task, messages, stop, registry, saved, leftOpen>>

RepairSaved(t) ==
    /\ RepairStep(t, "saving", "check") /\ ~SaveOf(t, TRUE)
    /\ UNCHANGED <<phase, task, messages, closing, stop, registry, saving, saved, clock, leftOpen>>

\* The repair raised; close_history logs it, or nobody waits for it any more.
RepairFails(t) ==
    /\ repair[t] = "saving" /\ RepairIs(t, "done") /\ Forget(t)
    /\ leftOpen' = leftOpen \cup {t}
    /\ UNCHANGED <<phase, task, messages, closing, stop, saving, saved, clock>>

-----------------------------------------------------------------------------
Waits(t) == FinishWaited(t) \/ FinishTimedOut(t) \/ Settled(t)
Turn(t) == Begin(t) \/ Waits(t) \/ Restore(t) \/ AppendMessage(t) \/ Complete(t) \/ AgentFails(t)
           \/ CutShort(t) \/ StartRepair(t) \/ TaskStuck(t)
Repair(t) == RepairStarts(t) \/ RepairChecks(t) \/ RepairAppends(t) \/ RepairSaved(t) \/ RepairFails(t)
Next == (\E t \in Turns : Turn(t) \/ Repair(t)) \/ \E m \in saving : SaveLands(m)

Spec == Init /\ [][Next]_vars

-----------------------------------------------------------------------------
(* Properties *)

WellFormed(h) ==
    /\ h # <<>> => h[1].kind = "user" /\ h[Len(h)].kind = "reply"
    /\ \A i \in 1..(Len(h) - 1) :
           h[i + 1].kind \in IF h[i].kind = "reply" THEN {"user"} ELSE Follows(h[i].kind)

\* settle_history's promise: once the saves and repairs have landed, the conversation alternates
\* roles and pairs every tool call, unless the log or an error said that a turn left it open.
Quiet == saving = {} /\ \A t \in Turns : phase[t] \in {"idle", "over"} /\ repair[t] \notin Repairing
ClosedOrReported == Quiet /\ leftOpen = {} => WellFormed(saved)

\* A turn that works on the history while an earlier turn's repair is still at it has told that
\* repair to stop: a repair is forgotten only when it has ended.
ReadAfterRepair ==
    \A t \in Turns, earlier \in Turns :
        earlier < t /\ phase[t] \in {"read", "run", "ending"} /\ repair[earlier] \in Repairing =>
            earlier \in stop

\* turn_watchdog.py: a repair that outlived its turn never appends after the next turn has begun.
NoLateRepair ==
    LET events == saving \cup {saved[i] : i \in 1..Len(saved)} IN
    \A m, n \in events :
        m.closes /\ m.turn < n.turn => m.stamp < n.stamp

Begun(t) == phase[t] # "idle"
Over(t) == phase[t] = "over"
=============================================================================
