------------------------------ MODULE Recovery ------------------------------
(***************************************************************************)
(* A recovery of Phase 5: the graph a run walks, the traveler's consent,   *)
(* the hold it asks the holds Lambda for, and what a failed run gives back.*)
(*                                                                         *)
(* One thread, and one worker for each call of WorkflowRunner.run.  The    *)
(* lease is taken as ExecutionLease establishes it: one running execution, *)
(* taken over only once lapsed and unlocked, and a snapshot saved in one   *)
(* step by the execution that runs.  Here are the decisions on top of it:  *)
(* what is read before and after the claim, which saved state is consent,  *)
(* which hold request a resumed run repeats, and which failures give a     *)
(* hold back.  A Gateway call runs in a thread of its own: it goes on when *)
(* its worker is cancelled or dies, and may reach the Lambda late.         *)
(***************************************************************************)
EXTENDS Naturals, Sequences, FiniteSets

CONSTANTS
    Workers,        \* the calls of WorkflowRunner.run, in any order and overlapping
    Packages, Top,  \* the shortlist, and its top-ranked package
    Queries,        \* the kinds of request: members of DOMAIN Route
    None

ASSUME PackagesAssumption == Top \in Packages /\ None \notin Packages \cup Workers

VARIABLES
    execution,      \* journey_executions.status of each worker's execution
    lapsed,         \* the executions past their lease_expires_at
    snap,           \* workflow_snapshots: the thread's newest snapshot
    bookings,       \* hold_requests with its booking, by the worker that prepared the request
    journeyLock,    \* the transaction that has the journey's advisory lock
    pc, cmd,        \* each worker: its position and its WorkflowCommand
    graph,          \* each worker: the folded state of its graph
    confirmed,      \* RunContext.traveler_confirmed
    call, asks,     \* each worker's Gateway call, up to its answer, and the request it names
    timely,         \* the calls whose transaction began before the lease lapsed
    consented,      \* history: a run resumed on an unanswered consent interrupt
    placer          \* history: the worker whose call placed the hold

worker == <<pc, cmd, graph, confirmed>>
aurora == <<execution, lapsed, snap, bookings, journeyLock>>
calls  == <<call, asks, timely>>
history == <<consented, placer>>
vars   == <<aurora, worker, calls, history>>

-----------------------------------------------------------------------------
(* The graph and its saved state. *)

Route == [recovery     |-> <<"classify", "search", "availability", "prepare_hold", "hold", "synthesize">>,
          plan         |-> <<"classify", "search", "availability", "synthesize">>,
          search       |-> <<"classify", "search", "synthesize">>,
          availability |-> <<"classify", "availability", "synthesize">>,
          memory       |-> <<"classify", "memory_recall", "synthesize">>]

\* done: the completed nodes.  pause: the recorded consent interrupt.  answered: it has a
\* response, though the interrupt state is still activated.  intent: the hold request.
States == [query: Queries, done: 0..6, pause: {"no", "review", "confirm"}, answered: BOOLEAN,
           chosen: Packages \cup {None}, intent: Workers \cup {None},
           package: Packages \cup {None}, held: BOOLEAN]

ASSUME QueriesAssumption == Queries \subseteq DOMAIN Route

Fresh(q) == [query |-> q, done |-> 0, pause |-> "no", answered |-> FALSE, chosen |-> None,
             intent |-> None, package |-> None, held |-> FALSE]

Commands == [resume: BOOLEAN, chosen: Packages \cup {None}, review: BOOLEAN]

LastNode(s)  == IF s.done = 0 THEN "none" ELSE Route[s.query][s.done]
NextNode(s)  == Route[s.query][s.done + 1]
Finished(s)  == s.done = Len(Route[s.query])
Pending(s)   == s.pause # "no" /\ ~s.answered
Completed(s) == {Route[s.query][i] : i \in 1..s.done}

\* What a pause leaves once its answer was consumed, and what ResumableStorage reads.
Deactivated(s) == [s EXCEPT !.pause = "no", !.answered = FALSE]
Resumable(s)   == IF s.answered THEN Deactivated(s) ELSE s

\* Mutant: every resume is an answer.
ConfirmedByResume(c) == c.resume

TravelerConfirmed(c) ==
    /\ c.resume
    /\ snap.pause # "no" \/ "prepare_hold" \in Completed(snap)

\* _check_against: a fresh run where progress is saved, or a resume of nothing.
Contradicted(c) == IF c.resume THEN snap.done = 0 \/ Finished(snap) ELSE snap.done # 0

\* Mutant: a choice is taken whenever a run resumes.
ChoiceNeverRefused(c) == FALSE

\* _choice_to_record: only a run that waits for the traveler takes a new choice.
ChoiceRefused(c) == c.chosen \notin {None, snap.chosen} /\ ~Pending(snap)

-----------------------------------------------------------------------------
(* Aurora's rows and locks. *)

Live      == Workers \X {"hold", "read"}
Holding   == {"owning", "booking", "returning"}
Sent      == {"hold", "holding", "owning", "booking", "release", "releasing", "returning"}
RowLocked(w) == call[w] \in Holding
Owns(w)   == execution[w] = "running" /\ w \notin lapsed

Goto(w, label) == pc' = [pc EXCEPT ![w] = label]
Graph(w, s) == graph' = [graph EXCEPT ![w] = s]
NoCommand == [resume |-> FALSE, chosen |-> None, review |-> FALSE]

\* The process's memory goes with the run.
Stop(w, label) == /\ Goto(w, label)
                  /\ cmd' = [cmd EXCEPT ![w] = NoCommand]
                  /\ Graph(w, Fresh(snap.query))
                  /\ confirmed' = [confirmed EXCEPT ![w] = FALSE]

Asks(w) == asks' = [asks EXCEPT ![w] = graph[w].intent]
CallIs(w, label) == call' = [call EXCEPT ![w] = label]

TypeOK ==
    /\ execution \in [Workers -> {"none", "running", "ended"}] /\ lapsed \subseteq Workers
    /\ snap \in States /\ graph \in [Workers -> States]
    /\ bookings \in [Workers -> {"none", "held", "released"}]
    /\ journeyLock \in Live \cup {None}
    /\ cmd \in [Workers -> Commands]
    /\ pc \in [Workers -> {"idle", "read", "claim", "reread", "choice", "graph", "save",
                           "lease", "readback", "locked", "send", "wait", "final",
                           "compensate", "undo", "release", "end", "dead"}]
    /\ confirmed \in [Workers -> BOOLEAN] /\ consented \in BOOLEAN
    /\ placer \in Workers \cup {None}
    /\ call \in [Workers -> Sent \cup {"none", "placed", "refused", "lost", "returned"}]
    /\ asks \in [Workers -> Workers \cup {None}] /\ timely \subseteq Workers

Init ==
    /\ execution = [w \in Workers |-> "none"] /\ lapsed = {}
    /\ \E q \in Queries : snap = Fresh(q)
    /\ bookings = [w \in Workers |-> "none"] /\ journeyLock = None
    /\ pc = [w \in Workers |-> "idle"]
    /\ cmd = [w \in Workers |-> NoCommand] /\ graph = [w \in Workers |-> snap]
    /\ confirmed = [w \in Workers |-> FALSE]
    /\ call = [w \in Workers |-> "none"] /\ asks = [w \in Workers |-> None]
    /\ timely = {}
    /\ consented = FALSE /\ placer = None

-----------------------------------------------------------------------------
(* A run, up to its graph. *)

\* A command as _validate lets it in: a choice only with a resume.
Call(w) ==
    /\ pc[w] = "idle"
    /\ \E c \in Commands : /\ c.chosen # None => c.resume
                           /\ cmd' = [cmd EXCEPT ![w] = c]
    /\ Goto(w, "read")
    /\ UNCHANGED <<aurora, graph, confirmed, calls, history>>

ReadFirst(w) ==
    /\ pc[w] = "read"
    /\ IF Contradicted(cmd[w]) \/ ChoiceRefused(cmd[w])
         THEN Stop(w, "end") ELSE Goto(w, "claim") /\ UNCHANGED <<cmd, graph, confirmed>>
    /\ UNCHANGED <<aurora, calls, history>>

\* Mutant: the claim takes a locked row as well.
CanTakeLocked(v) == execution[v] = "running" => v \in lapsed

\* The claim abandons a lapsed execution unless a transaction has its row locked.
CanTake(v) == execution[v] = "running" => v \in lapsed /\ ~RowLocked(v)

Claim(w) ==
    /\ pc[w] = "claim"
    /\ IF \A v \in Workers : CanTake(v)
         THEN /\ execution' = [v \in Workers |-> IF v = w THEN "running"
                                  ELSE IF execution[v] = "running" THEN "ended" ELSE execution[v]]
              /\ lapsed' = {}
              /\ Goto(w, "reread") /\ UNCHANGED <<cmd, graph, confirmed>>
         ELSE Stop(w, "end") /\ UNCHANGED <<execution, lapsed>>
    /\ UNCHANGED <<snap, bookings, journeyLock, calls, history>>

\* _execute decides on the snapshot as it stands under the lease; resuming answers a pause.
ReadAgain(w) ==
    LET c == cmd[w]
        start == IF ~c.resume THEN Fresh(snap.query)
                 ELSE IF Pending(snap) THEN [snap EXCEPT !.answered = TRUE] ELSE Resumable(snap)
    IN  /\ pc[w] = "reread"
        /\ IF Contradicted(c) \/ ChoiceRefused(c)
             THEN Goto(w, "release") /\ UNCHANGED <<graph, confirmed, consented>>
             ELSE /\ Goto(w, IF c.chosen \in {None, snap.chosen} THEN "graph" ELSE "choice")
                  /\ Graph(w, start)
                  /\ confirmed' = [confirmed EXCEPT ![w] = TravelerConfirmed(c)]
                  /\ consented' = (consented \/ (c.resume /\ Pending(snap)))
        /\ UNCHANGED <<aurora, cmd, calls, placer>>

\* AuroraSnapshotStorage.write: fenced by the execution's row.  It may fail, and it may have
\* committed when its answer is lost.
Save(w, s, kept, lost) ==
    /\ ~RowLocked(w)
    /\ \/ Owns(w) /\ snap' = s /\ (kept \/ lost)
       \/ UNCHANGED snap /\ lost

\* _record_choice saves the choice in the saved task before any node runs.
SaveChoice(w) ==
    LET s == [graph[w] EXCEPT !.chosen = cmd[w].chosen]
    IN  /\ pc[w] = "choice"
        /\ Save(w, [s EXCEPT !.answered = FALSE], Graph(w, s) /\ Goto(w, "graph"),
                                                  Goto(w, "release") /\ UNCHANGED graph)
        /\ UNCHANGED <<execution, lapsed, bookings, journeyLock, cmd, confirmed, calls, history>>

\* A storage error fails the run; a refused fence says that the lease is lost.
FailedSave(w) == Goto(w, "compensate") \/ (~Owns(w) /\ Goto(w, "release"))

-----------------------------------------------------------------------------
(* The nodes.  A node that completes is saved before the next one starts. *)

\* ReviewGate._before_node: the interrupt this node starts with, if any.  The query or the
\* command asks for the review.
Gate(w) == IF confirmed[w] THEN "no"
           ELSE IF cmd[w].review /\ LastNode(graph[w]) = "search" THEN "review"
           ELSE IF NextNode(graph[w]) = "prepare_hold" THEN "confirm" ELSE "no"

AtNode(w) == pc[w] = "graph" /\ ~Finished(graph[w])
Open(w)   == AtNode(w) /\ Gate(w) = "no"

Interrupt(w) ==
    /\ AtNode(w) /\ ~Open(w)
    /\ Graph(w, [graph[w] EXCEPT !.pause = Gate(w), !.answered = FALSE])
    /\ Goto(w, "final")
    /\ UNCHANGED <<aurora, cmd, confirmed, calls, history>>

\* Mutant: nodes run on without a snapshot of each.
CompleteUnsaved(w, s) == Graph(w, [s EXCEPT !.done = @ + 1]) /\ Goto(w, "graph")

Complete(w, s) == Graph(w, [s EXCEPT !.done = @ + 1]) /\ Goto(w, "save")

\* classify, search, availability, memory_recall and synthesize only read.
ReadNode(w) ==
    /\ Open(w) /\ NextNode(graph[w]) \notin {"prepare_hold", "hold"}
    /\ Complete(w, graph[w])
    /\ UNCHANGED <<aurora, cmd, confirmed, calls, history>>

\* prepare_hold_intent keeps a saved intent; no places left makes none.
PrepareHold(w) ==
    LET s == graph[w]
        chosen == IF s.chosen = None THEN Top ELSE s.chosen
    IN  /\ Open(w) /\ NextNode(s) = "prepare_hold"
        /\ \/ Complete(w, IF s.intent # None THEN s ELSE [s EXCEPT !.intent = w, !.package = chosen])
           \/ s.intent = None /\ Complete(w, s)
        /\ UNCHANGED <<aurora, cmd, confirmed, calls, history>>

\* The snapshot a node's completion saves still has an answered interrupt activated.
SaveNode(w) ==
    /\ pc[w] = "save"
    /\ Save(w, graph[w],
            /\ Graph(w, Deactivated(graph[w]))
            /\ Goto(w, IF Finished(graph[w]) THEN "final" ELSE "graph"),
            FailedSave(w) /\ UNCHANGED graph)
    /\ UNCHANGED <<execution, lapsed, bookings, journeyLock, cmd, confirmed, calls, history>>

\* A node raises; the graph's position is saved all the same, an answered interrupt with it.
FailNode(w) ==
    /\ Open(w) \/ pc[w] \in {"lease", "readback"}
    /\ \/ UNCHANGED snap
       \/ graph[w].done > 0 /\ Owns(w) /\ ~RowLocked(w) /\ snap' = graph[w]
    /\ Goto(w, "compensate")
    /\ UNCHANGED <<execution, lapsed, bookings, journeyLock, cmd, graph, confirmed, calls, history>>

\* The invocation saves once more when it ends, paused or finished.
SaveFinal(w) ==
    /\ pc[w] = "final"
    /\ Save(w, graph[w], Goto(w, "release"), FailedSave(w))
    /\ UNCHANGED <<execution, lapsed, bookings, journeyLock, cmd, graph, confirmed, calls, history>>

-----------------------------------------------------------------------------
(* The hold node. *)

StartHold(w) ==
    /\ Open(w) /\ NextNode(graph[w]) = "hold"
    /\ IF graph[w].intent = None THEN Complete(w, graph[w])
                                 ELSE Goto(w, "lease") /\ UNCHANGED graph
    /\ UNCHANGED <<aurora, cmd, confirmed, calls, history>>

\* _prepare_governed_hold verifies the lease.
CheckLease(w) ==
    /\ pc[w] = "lease" /\ ~RowLocked(w)
    /\ Goto(w, IF Owns(w) THEN "readback" ELSE "release")
    /\ UNCHANGED <<aurora, cmd, graph, confirmed, calls, history>>

\* _committed_hold waits for the journey's lock, so for a hold in flight.
LockForRead(w) ==
    /\ pc[w] = "readback" /\ journeyLock = None
    /\ journeyLock' = <<w, "read">>
    /\ Goto(w, "locked")
    /\ UNCHANGED <<execution, lapsed, snap, bookings, cmd, graph, confirmed, calls, history>>

ReadBack(w) ==
    /\ pc[w] = "locked"
    /\ journeyLock' = None
    /\ IF bookings[graph[w].intent] # "none" THEN Complete(w, [graph[w] EXCEPT !.held = TRUE])
                                             ELSE Goto(w, "send") /\ UNCHANGED graph
    /\ UNCHANGED <<execution, lapsed, snap, bookings, cmd, confirmed, calls, history>>

SendHold(w) ==
    /\ pc[w] = "send"
    /\ CallIs(w, "hold") /\ Asks(w) /\ Goto(w, "wait")
    /\ UNCHANGED <<aurora, cmd, graph, confirmed, timely, history>>

\* A clear refusal completes the node without a hold.
Answered(w) ==
    /\ pc[w] = "wait" /\ call[w] \in {"placed", "refused"}
    /\ Complete(w, [graph[w] EXCEPT !.held = (call[w] = "placed")])
    /\ CallIs(w, "none")
    /\ UNCHANGED <<aurora, cmd, confirmed, asks, timely, history>>

\* No answer, an unreadable one, or a lost lease: HoldOutcomeUnknown, ExecutionLeaseLostError.
\* Nothing is given back, and the call goes on.
Unknown(w) ==
    /\ pc[w] = "wait"
    /\ Goto(w, "release")
    /\ UNCHANGED <<aurora, cmd, graph, confirmed, calls, history>>

\* An expired token, or a rejection before any tool ran, fails the node.
Rejected(w) ==
    /\ pc[w] = "wait" /\ call[w] = "hold"
    /\ CallIs(w, "none") /\ Goto(w, "compensate")
    /\ UNCHANGED <<aurora, cmd, graph, confirmed, asks, timely, history>>

-----------------------------------------------------------------------------
(* The end of a run. *)

\* _compensate asks for the release of the hold in the graph's state.
Compensate(w) ==
    /\ pc[w] = "compensate"
    /\ IF graph[w].held THEN CallIs(w, "release") /\ Asks(w) /\ Goto(w, "undo")
                        ELSE Goto(w, "release") /\ UNCHANGED <<call, asks>>
    /\ UNCHANGED <<aurora, cmd, graph, confirmed, timely, history>>

\* Released, refused or unconfirmed: the failure stands.
Undone(w) ==
    /\ pc[w] = "undo"
    /\ Goto(w, "release")
    /\ UNCHANGED <<aurora, cmd, graph, confirmed, calls, history>>

\* _release; if it fails the lease runs out by itself.
Release(w) ==
    /\ pc[w] = "release" /\ ~RowLocked(w)
    /\ \/ /\ execution[w] = "running"
          /\ execution' = [execution EXCEPT ![w] = "ended"] /\ lapsed' = {}
       \/ UNCHANGED <<execution, lapsed>>
    /\ Stop(w, "end")
    /\ UNCHANGED <<snap, bookings, journeyLock, calls, history>>

\* The caller disconnects, or the heartbeat lost the lease: the work is cancelled.
Cancel(w) ==
    /\ pc[w] \in {"reread", "choice", "graph", "save", "lease", "readback", "locked", "send",
                  "wait", "final", "compensate", "undo"}
    /\ journeyLock' = IF journeyLock = <<w, "read">> THEN None ELSE journeyLock
    /\ Goto(w, "release")
    /\ UNCHANGED <<execution, lapsed, snap, bookings, cmd, graph, confirmed, calls, history>>

\* The worker's process dies.  Aurora ends its transaction later.
Die(w) ==
    /\ pc[w] \notin {"idle", "end", "dead"}
    /\ Stop(w, "dead")
    /\ UNCHANGED <<aurora, calls, history>>

FreeJourney(w) ==
    /\ pc[w] = "dead" /\ journeyLock = <<w, "read">>
    /\ journeyLock' = None
    /\ UNCHANGED <<execution, lapsed, snap, bookings, worker, calls, history>>

Lapse(w) ==
    /\ Owns(w)
    /\ lapsed' = lapsed \cup {w}
    /\ UNCHANGED <<execution, snap, bookings, journeyLock, worker, calls, history>>

Renew(w) ==
    /\ pc[w] \notin {"idle", "end", "dead"} /\ execution[w] = "running" /\ ~RowLocked(w)
    /\ lapsed' = lapsed \ {w}
    /\ UNCHANGED <<execution, snap, bookings, journeyLock, worker, calls, history>>

-----------------------------------------------------------------------------
(* The Lambda's two transactions, each answering the call of one worker. *)

\* The transaction begins; its time decides whether the lease is valid.
Begin(w) ==
    /\ call[w] \in {"hold", "release"}
    /\ CallIs(w, IF call[w] = "hold" THEN "holding" ELSE "releasing")
    /\ timely' = IF w \in lapsed THEN timely \ {w} ELSE timely \cup {w}
    /\ UNCHANGED <<aurora, worker, asks, history>>

\* _claim_execution: the row is locked and runs a valid lease, or the call is refused.
ClaimExecution(w) ==
    /\ call[w] \in {"holding", "releasing"}
    /\ CallIs(w, IF execution[w] # "running" \/ (w \in lapsed /\ w \notin timely) THEN "lost"
                 ELSE IF call[w] = "holding" THEN "owning" ELSE "returning")
    /\ UNCHANGED <<aurora, worker, asks, timely, history>>

LockJourney(w) ==
    /\ call[w] = "owning" /\ journeyLock = None
    /\ journeyLock' = <<w, "hold">>
    /\ CallIs(w, "booking")
    /\ UNCHANGED <<execution, lapsed, snap, bookings, worker, asks, timely, history>>

\* The insert, or the replay of the request's booking.  If the commit's answer is lost the
\* Lambda answers hold_failed.
CommitHold(w) ==
    /\ call[w] = "booking"
    /\ bookings' = [bookings EXCEPT ![asks[w]] = IF @ = "none" THEN "held" ELSE @]
    /\ placer' = IF bookings[asks[w]] = "none" THEN w ELSE placer
    /\ journeyLock' = None
    /\ \E answer \in {"placed", "refused"} : CallIs(w, answer)
    /\ UNCHANGED <<execution, lapsed, snap, worker, asks, timely, consented>>

\* The grant, Cedar, the budget, the inventory or Aurora refuse: nothing is written.
Refuse(w) ==
    /\ call[w] \in Sent
    /\ CallIs(w, "refused")
    /\ journeyLock' = IF call[w] = "booking" THEN None ELSE journeyLock
    /\ UNCHANGED <<execution, lapsed, snap, bookings, worker, asks, timely, history>>

CommitRelease(w) ==
    /\ call[w] = "returning"
    /\ bookings' = [bookings EXCEPT ![asks[w]] = IF @ = "held" THEN "released" ELSE @]
    /\ CallIs(w, "returned")
    /\ UNCHANGED <<execution, lapsed, snap, journeyLock, worker, asks, timely, history>>

-----------------------------------------------------------------------------
Run(w) == \/ ReadFirst(w) \/ Claim(w) \/ ReadAgain(w) \/ SaveChoice(w)
          \/ Interrupt(w) \/ ReadNode(w) \/ PrepareHold(w) \/ SaveNode(w) \/ SaveFinal(w)
          \/ StartHold(w) \/ CheckLease(w) \/ LockForRead(w) \/ ReadBack(w)
          \/ SendHold(w) \/ Answered(w) \/ Unknown(w)
          \/ Compensate(w) \/ Undone(w) \/ Release(w)
Lambda(w) == Begin(w) \/ ClaimExecution(w) \/ LockJourney(w) \/ CommitHold(w) \/ CommitRelease(w)
Fault(w) == FailNode(w) \/ Rejected(w) \/ Cancel(w) \/ Die(w) \/ Refuse(w)

Next == \E w \in Workers : \/ Call(w) \/ Run(w) \/ Lambda(w) \/ Fault(w)
                           \/ FreeJourney(w) \/ Lapse(w) \/ Renew(w)

Spec == Init /\ [][Next]_vars

-----------------------------------------------------------------------------
(* Properties. *)

\* What RecoveryPromise promises: consent before a request is saved, one saved request for ever,
\* one booking, of that request (runner._traveler_confirmed, prepare_hold_intent, _committed_hold).
Promise == INSTANCE RecoveryPromise WITH
    Requests <- Workers, asked <- consented, request <- snap.intent,
    booked <- {<<r, bookings[r]>> : r \in {v \in Workers : bookings[v] # "none"}}
PromiseSpec == Promise!Spec

\* Every booking is of the request the newest snapshot names, whoever asked for it and however
\* late its call reached the Lambda.
BookedFromSavedIntent == \A r \in Workers : bookings[r] # "none" => snap.intent = r

\* The request is for the package the traveler chose, or the top-ranked one: no choice is taken
\* once a request is saved (_choice_to_record).
HeldAsChosen == snap.intent # None => snap.package = (IF snap.chosen = None THEN Top ELSE snap.chosen)

\* A run that waited for the journey's lock and read no booking sends the only call that can
\* still place one, while it owns the thread (_committed_hold, _claim_execution).
ReadBackStands == \A w \in Workers :
    pc[w] = "send" /\ execution[w] = "running" => bookings[graph[w].intent] = "none"

\* A saved hold exists, in whatever status.
SavedHoldExists == snap.held => snap.intent # None /\ bookings[snap.intent] # "none"

\* What a resume relies on in the newest snapshot: the choice its request is for, the hold it says
\* it has, and that a run which read no booking under the journey's lock may send the call.
SavedPlanStands == TypeOK /\ HeldAsChosen /\ SavedHoldExists /\ ReadBackStands

\* Only the execution that runs books or gives back, and only what the saved plan asked for.
OwnerDecides == [][\A r \in Workers : bookings'[r] # bookings[r] =>
    \E w \in Workers : call[w] # call'[w] /\ asks[w] = r /\ execution[w] = "running" /\ snap.intent = r]_vars

\* "Give back a hold this run committed": a release is of a hold its own run placed.
ReleasesOwnHold == [][\A r, w \in Workers :
    bookings[r] = "held" /\ bookings'[r] = "released" /\ call[w] = "returning" /\ call'[w] = "returned"
    => placer = w]_vars

\* "No package inventory was held": a plan saved without a hold has none.
UnheldIsUnbooked == "hold" \in Completed(snap) /\ ~snap.held =>
    \A r \in Workers : bookings[r] # "held"

Begun(w) == pc[w] # "idle"
Over(w) == pc[w] \in {"end", "dead"}
Arrived(w) == call[w] \in Sent
=============================================================================
