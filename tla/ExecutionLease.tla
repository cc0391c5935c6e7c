--------------------------- MODULE ExecutionLease ---------------------------
(***************************************************************************)
(* The execution lease of one workflow thread, its append-only snapshots,  *)
(* and the endpoint that stops its Runtime session.                        *)
(*                                                                         *)
(* A run is one invocation of WorkflowRunner.run.  It claims at most one   *)
(* execution, so a run's name is also its execution id.  Every call to     *)
(* Aurora is a transaction of several statements over a network: a claim   *)
(* is one action per statement, and CURRENT_TIMESTAMP is the time its      *)
(* transaction began, which may be long before the statement runs.  A row  *)
(* that an open transaction has locked is waited for, or skipped where the *)
(* SQL says SKIP LOCKED.  A worker may die anywhere; the transaction it    *)
(* leaves behind commits, when its commit was already on the wire, or is   *)
(* rolled back.                                                            *)
(***************************************************************************)
EXTENDS Naturals, Sequences

CONSTANTS
    Runs,           \* invocations of the runner on this thread, fresh or resumed
    Stops,          \* requests to the stop-session endpoint
    None,           \* no execution
    LeaseTicks,     \* LEASE_SECONDS, in clock ticks
    MaxTime,        \* bound: the clock stops here
    Steps,          \* the nodes of the graph, executed in order
    MaxSnapshots    \* bound: rows of workflow_snapshots

ASSUME RunsAssumption == None \notin Runs
ASSUME BoundsAssumption == /\ LeaseTicks \in Nat \ {0}
                           /\ MaxTime \in Nat
                           /\ Steps \in Nat \ {0}
                           /\ MaxSnapshots \in Nat

VARIABLES
    now,            \* the database clock
    \* journey_executions, one column each; a row exists when its status is not "none"
    status, attempt, lease, started,
    journey,        \* journeys.status
    snapshots,      \* workflow_snapshots, in snapshot_seq order
    stops,          \* workflow_session_stops, in the order they were recorded
    \* each run: its position, the request's resume flag, the row its open claim is
    \* abandoning, its process's memory, its heartbeat
    pc, resume, target, mem, pulse,
    orphans,        \* runs whose process died leaving a transaction open
    \* each stop request: its position and memory
    spc, seen, picked

rowVars  == <<status, attempt, lease, started>>
runVars  == <<pc, resume, target, mem, pulse, orphans>>
stopVars == <<spc, seen, picked>>
vars == <<now, rowVars, journey, snapshots, stops, runVars, stopVars>>

Terminals == {"failed", "paused", "succeeded"}
InClaim   == {"abandon", "owner", "insert", "commit"}
Working   == {"claimed", "work", "writing"}

InTransaction == InClaim \cup {"writing", "closing"}

\* A process's memory: the start time of its open claim, the attempt it
\* will insert, the snapshots its state was built from, the step reached, and the
\* status it will release with.
NoMemory == [ts |-> 0, attempt |-> 0, base |-> 0, step |-> 0, terminal |-> "failed"]

-----------------------------------------------------------------------------
(* What a statement sees in the committed tables, and which rows it finds locked. *)

Rows == {e \in Runs : status[e] # "none"}

\* A claim's ABANDON_EXPIRED_SQL has updated e and not committed.
BeingAbandoned(e) == \E r \in Runs : target[r] = e

\* LOCK_LATEST_EXECUTION_SQL has e, and the stop has not committed.
BeingStopped(e) == \E s \in Stops : spc[s] = "settle" /\ picked[s] = e

LockedForUpdate(e) == BeingAbandoned(e) \/ BeingStopped(e)

\* Mutant: the fence is a plain EXISTS, which locks nothing.
LockedNoShare(e) == LockedForUpdate(e)

\* Any row lock an open transaction holds on e; a snapshot insert's is FOR SHARE.
Locked(e) == LockedForUpdate(e) \/ pc[e] = "writing"

\* ORDER BY attempt DESC LIMIT 1; executions that tie are equally first.
Latest(e) == e \in Rows /\ \A f \in Rows : attempt[f] <= attempt[e]

\* NEWER_STOP_SQL and LATEST_EXECUTION_SQL: a stop was recorded after the
\* transaction that inserted e began.
AlreadyStopped(e) == Len(stops) > started[e]

LastStep == IF snapshots = <<>> THEN 0 ELSE snapshots[Len(snapshots)].step

Completed == LastStep = Steps

\* _check_against: a fresh run over saved progress, or a resume with no step left.
Contradicts(r) == \/ ~resume[r] /\ snapshots # <<>>
                  \/ resume[r] /\ (snapshots = <<>> \/ Completed)

Goto(r, label) == pc' = [pc EXCEPT ![r] = label]
Remember(r, m) == mem' = [mem EXCEPT ![r] = m]

-----------------------------------------------------------------------------
(* The end of a transaction, and of a process. *)

\* Aurora answered: a process that is alive goes on at `label` with memory m.
Answered(r, label, m) ==
    /\ pc' = [pc EXCEPT ![r] = IF r \in orphans THEN "done" ELSE label]
    /\ Remember(r, IF r \in orphans \/ label = "done" THEN NoMemory ELSE m)
    /\ orphans' = orphans \ {r}

\* Aurora may finish what these processes have sent; everything else of them is gone.
Killed(D) ==
    /\ orphans' = orphans \cup {r \in D : pc[r] \in InTransaction}
    /\ pc' = [r \in Runs |-> IF r \in D /\ pc[r] \notin InTransaction THEN "done" ELSE pc[r]]
    /\ mem' = [r \in Runs |-> IF r \in D /\ pc[r] \notin InTransaction THEN NoMemory ELSE mem[r]]

Alive == {r \in Runs \ orphans : pc[r] \notin {"start", "done"}}

-----------------------------------------------------------------------------
(* The start of a run: the read before the claim, then claim_execution's four *)
(* statements and its commit. *)

ReadBeforeClaim(r) ==
    /\ pc[r] = "start"
    /\ Goto(r, IF Contradicts(r) THEN "done" ELSE "begin")
    /\ UNCHANGED <<now, rowVars, journey, snapshots, stops, stopVars,
                   resume, target, mem, pulse, orphans>>

\* started_at defaults to the start of the claim's transaction.  Only its order
\* against the stops is ever compared, so it is the number of stops recorded then.
BeginClaim(r) ==
    /\ pc[r] = "begin"
    /\ Goto(r, "abandon")
    /\ Remember(r, [mem[r] EXCEPT !.ts = now])
    /\ started' = [started EXCEPT ![r] = Len(stops)]
    /\ UNCHANGED <<now, status, attempt, lease, journey, snapshots, stops, stopVars,
                   resume, target, pulse, orphans>>

Expired(e, r) == status[e] = "running" /\ lease[e] <= mem[r].ts

AbandonExpired(r) ==
    /\ pc[r] = "abandon" /\ r \notin orphans
    /\ \/ \E e \in Runs : /\ Expired(e, r) /\ ~Locked(e)
                          /\ target' = [target EXCEPT ![r] = e]
       \/ /\ \A e \in Runs : Expired(e, r) => Locked(e)      \* SKIP LOCKED
          /\ UNCHANGED target
    /\ Goto(r, "owner")
    /\ UNCHANGED <<now, rowVars, journey, snapshots, stops, stopVars,
                   resume, mem, pulse, orphans>>

\* A running execution this claim is not itself abandoning.
LiveOwner(r) == \E e \in Runs : status[e] = "running" /\ e # target[r]

\* Mutant: the claim never runs ABANDON_EXPIRED_SQL on the row it takes over.
AbandoningNothing(r) == status

\* The columns after this claim's uncommitted ABANDON commits.
Abandoning(r) == [e \in Runs |-> IF e = target[r] THEN "abandoned" ELSE status[e]]

\* claim_execution answers claimed=False; the scoped session still commits.
LoseClaim(r) ==
    /\ LiveOwner(r)
    /\ status' = Abandoning(r)
    /\ target' = [target EXCEPT ![r] = None]
    /\ Answered(r, "done", NoMemory)

ReadOwner(r) ==
    /\ pc[r] = "owner" /\ r \notin orphans
    /\ \/ LoseClaim(r)
       \/ /\ ~LiveOwner(r)
          /\ \E n \in {0} \cup {attempt[e] : e \in Rows} :
                /\ \A e \in Rows : attempt[e] <= n
                /\ Remember(r, [mem[r] EXCEPT !.attempt = n + 1])
          /\ Goto(r, "insert")
          /\ UNCHANGED <<status, target, orphans>>
    /\ UNCHANGED <<now, attempt, lease, started, journey, snapshots, stops, stopVars,
                   resume, pulse>>

\* ON CONFLICT DO NOTHING on the partial unique index: an index entry another open
\* transaction is adding or removing is waited for; a live one declines the row.
InsertWaits(r) == \E q \in Runs \ {r} : pc[q] = "commit" \/ target[q] # None

\* Mutant: no partial unique index.
InsertUnchecked(r) ==
    /\ pc[r] = "insert" /\ r \notin orphans
    /\ Goto(r, "commit")
    /\ UNCHANGED <<now, rowVars, journey, snapshots, stops, stopVars,
                   resume, target, mem, pulse, orphans>>

InsertClaim(r) ==
    /\ pc[r] = "insert" /\ r \notin orphans
    /\ ~InsertWaits(r)
    /\ \/ LoseClaim(r)
       \/ ~LiveOwner(r) /\ Goto(r, "commit") /\ UNCHANGED <<status, target, mem, orphans>>
    /\ UNCHANGED <<now, attempt, lease, started, journey, snapshots, stops, stopVars,
                   resume, pulse>>

\* The abandoned row, the new row and JOURNEY_RUNNING_SQL become visible together.
\* A commit that Aurora made and the worker saw fail leaves a row nobody works on.
CommitClaim(r) ==
    /\ pc[r] = "commit"
    /\ status' = [Abandoning(r) EXCEPT ![r] = "running"]
    /\ attempt' = [attempt EXCEPT ![r] = mem[r].attempt]
    /\ lease' = [lease EXCEPT ![r] = mem[r].ts + LeaseTicks]
    /\ target' = [target EXCEPT ![r] = None]
    /\ journey' = "running"
    /\ \/ /\ Answered(r, "claimed", NoMemory)
          /\ pulse' = [pulse EXCEPT ![r] = IF r \in orphans THEN "off" ELSE "beat"]
       \/ Answered(r, "done", NoMemory) /\ UNCHANGED pulse      \* the answer is lost
    /\ UNCHANGED <<now, started, snapshots, stops, stopVars, resume>>

\* Mutant: a failed claim is not rolled back.
RollBackNothing(r) ==
    /\ pc[r] \in InClaim
    /\ Answered(r, "done", NoMemory)
    /\ UNCHANGED <<now, rowVars, journey, snapshots, stops, stopVars, resume, target, pulse>>

\* The Data API failed the claim, or Aurora rolls back what a dead worker left open.
RollBackClaim(r) ==
    /\ pc[r] \in InClaim
    /\ target' = [target EXCEPT ![r] = None]
    /\ Answered(r, "done", NoMemory)
    /\ UNCHANGED <<now, rowVars, journey, snapshots, stops, stopVars, resume, pulse>>

-----------------------------------------------------------------------------
(* A claimed run: the read after the claim, then fenced snapshot inserts. *)

\* _execute decides on the snapshot as it stands now.
ReadAfterClaim(r) ==
    /\ pc[r] = "claimed" /\ pulse[r] # "lost"
    /\ Remember(r, [mem[r] EXCEPT !.base = Len(snapshots), !.step = LastStep])
    /\ Goto(r, IF Contradicts(r) THEN "closing" ELSE "work")
    /\ UNCHANGED <<now, rowVars, journey, snapshots, stops, stopVars,
                   resume, target, pulse, orphans>>

\* Mutant: no fence.
HoldsNothing(r) == TRUE

\* The fence compares the lease with clock_timestamp(), the time of the statement.
HoldsLease(r) == status[r] = "running" /\ lease[r] > now

\* INSERT_SQL in its open transaction.  A node's snapshot advances the step; the
\* traveler's choice and the save that ends an invocation keep it.
InsertSnapshot(r) ==
    /\ pc[r] = "work" /\ pulse[r] # "lost"
    /\ Len(snapshots) < MaxSnapshots
    /\ ~LockedForUpdate(r)
    /\ \/ /\ HoldsLease(r)
          /\ \E n \in {mem[r].step, mem[r].step + 1} :
                n <= Steps /\ Remember(r, [mem[r] EXCEPT !.step = n])
          /\ Goto(r, "writing")
       \/ ~HoldsLease(r) /\ Goto(r, "closing") /\ UNCHANGED mem
    /\ UNCHANGED <<now, rowVars, journey, snapshots, stops, stopVars,
                   resume, target, pulse, orphans>>

\* The commit is shielded from cancellation, and a dead worker's may still land.  One
\* whose answer is lost is an error to the node, which ends the run.
CommitSnapshot(r) ==
    /\ pc[r] = "writing"
    /\ snapshots' = Append(snapshots, [by |-> r, base |-> mem[r].base, step |-> mem[r].step])
    /\ \/ Answered(r, "work", [mem[r] EXCEPT !.base = Len(snapshots) + 1])
       \/ Answered(r, "closing", mem[r])
    /\ UNCHANGED <<now, rowVars, journey, stops, stopVars, resume, target, pulse>>

FailSnapshot(r) ==
    /\ pc[r] = "writing"
    /\ Answered(r, "closing", mem[r])
    /\ UNCHANGED <<now, rowVars, journey, snapshots, stops, stopVars, resume, target, pulse>>

\* _run_claimed gets a result, or an error from a node.
FinishRun(r) ==
    /\ pc[r] = "work" /\ pulse[r] # "lost"
    /\ \E t \in Terminals : /\ t = "succeeded" => mem[r].step = Steps
                            /\ t = "paused" => mem[r].step < Steps /\ mem[r].base > 0
                            /\ Remember(r, [mem[r] EXCEPT !.terminal = t])
    /\ Goto(r, "closing")
    /\ UNCHANGED <<now, rowVars, journey, snapshots, stops, stopVars,
                   resume, target, pulse, orphans>>

\* The heartbeat ended first: the work is cancelled and the run is "failed".
CancelRun(r) ==
    /\ pc[r] \in {"claimed", "work"} /\ pulse[r] = "lost"
    /\ Goto(r, "closing")
    /\ UNCHANGED <<now, rowVars, journey, snapshots, stops, stopVars,
                   resume, target, mem, pulse, orphans>>

\* release: RELEASE_SQL and, if it changed the row, JOURNEY_SETTLED_SQL.
ReleaseExecution(r) ==
    /\ pc[r] = "closing"
    /\ ~LockedForUpdate(r)
    /\ IF status[r] = "running"
          THEN /\ status' = [status EXCEPT ![r] = mem[r].terminal]
               /\ lease' = [lease EXCEPT ![r] = 0]
               /\ journey' = IF \E e \in Runs \ {r} : status[e] = "running"
                               THEN journey ELSE mem[r].terminal
          ELSE UNCHANGED <<status, lease, journey>>
    /\ pulse' = [pulse EXCEPT ![r] = "off"]
    /\ Answered(r, "done", NoMemory)
    /\ UNCHANGED <<now, attempt, started, snapshots, stops, stopVars, resume, target>>

\* _release logs the failure; the lease expires on its own.
ReleaseFails(r) ==
    /\ pc[r] = "closing"
    /\ pulse' = [pulse EXCEPT ![r] = "off"]
    /\ Answered(r, "done", NoMemory)
    /\ UNCHANGED <<now, rowVars, journey, snapshots, stops, stopVars, resume, target>>

-----------------------------------------------------------------------------
(* The heartbeat, concurrent with the work.  RENEW_SQL compares and extends the  *)
(* lease from the time its transaction began, which is any time from the one the *)
(* lease was last extended from.  A renewal in flight may land after the process *)
(* is gone.                                                                      *)

Beats(r, state) == pulse' = [pulse EXCEPT ![r] = IF pc[r] \in Working THEN state ELSE "off"]

RenewLease(r) ==
    /\ pulse[r] = "beat" /\ ~Locked(r)
    /\ \E t \in 0..now :
          /\ lease[r] <= t + LeaseTicks
          /\ IF status[r] = "running" /\ lease[r] > t
               THEN /\ lease' = [lease EXCEPT ![r] = t + LeaseTicks]
                    /\ Beats(r, "beat") \/ Beats(r, "lost")
               ELSE Beats(r, "lost") /\ UNCHANGED lease
    /\ UNCHANGED <<now, status, attempt, started, journey, snapshots, stops, stopVars,
                   pc, resume, target, mem, orphans>>

\* The renewal raised, or outlived its timeout.
RenewFails(r) ==
    /\ pulse[r] = "beat"
    /\ Beats(r, "lost")
    /\ UNCHANGED <<now, rowVars, journey, snapshots, stops, stopVars,
                   pc, resume, target, mem, orphans>>

-----------------------------------------------------------------------------
(* A process dies, and time passes. *)

Die(r) ==
    /\ r \in Alive
    /\ Killed({r})
    /\ UNCHANGED <<now, rowVars, journey, snapshots, stops, stopVars, resume, target, pulse>>

Tick ==
    /\ now < MaxTime
    /\ now' = now + 1
    /\ UNCHANGED <<rowVars, journey, snapshots, stops, runVars, stopVars>>

-----------------------------------------------------------------------------
(* stop_session: _stop_target, StopRuntimeSession, then _record_stop's transaction. *)

StopStepTo(s, label) == spc' = [spc EXCEPT ![s] = label]

\* 404 with no thread, 409 unless the newest execution is running or paused.
StopTarget(s) ==
    /\ spc[s] = "idle"
    /\ \/ Rows = {} /\ StopStepTo(s, "done") /\ UNCHANGED picked
       \/ \E e \in Runs :
            /\ Latest(e)
            /\ \/ /\ status[e] \notin {"running", "paused"}
                  /\ StopStepTo(s, "done") /\ UNCHANGED picked
               \/ /\ status[e] \in {"running", "paused"} /\ AlreadyStopped(e)
                  /\ StopStepTo(s, "refused") /\ picked' = [picked EXCEPT ![s] = e]
               \/ /\ status[e] \in {"running", "paused"} /\ ~AlreadyStopped(e)
                  /\ StopStepTo(s, "kill") /\ UNCHANGED picked
    /\ UNCHANGED <<now, rowVars, journey, snapshots, stops, runVars, seen>>

\* The thread's Runtime session runs every invocation on it; a 503 ends the request.
StopRuntimeSession(s) ==
    /\ spc[s] = "kill"
    /\ \/ Killed(Alive) /\ StopStepTo(s, "read")
       \/ StopStepTo(s, "done") /\ UNCHANGED <<pc, mem, orphans>>
    /\ UNCHANGED <<now, rowVars, journey, snapshots, stops, seen, picked,
                   resume, target, pulse>>

ReadSnapshotForStop(s) ==
    /\ spc[s] = "read"
    /\ seen' = [seen EXCEPT ![s] = Completed]
    /\ StopStepTo(s, "pick")
    /\ UNCHANGED <<now, rowVars, journey, snapshots, stops, runVars, picked>>

\* LOCK_LATEST_EXECUTION_SQL chooses its row when it starts, and then waits for it.
PickLatest(s) ==
    /\ spc[s] = "pick"
    /\ \E e \in Runs : Latest(e) /\ picked' = [picked EXCEPT ![s] = e]
    /\ StopStepTo(s, "lock")
    /\ UNCHANGED <<now, rowVars, journey, snapshots, stops, runVars, seen>>

\* Mutant: the stop does not look for a newer one under the lock.
LockWithoutNewerStop(s) ==
    /\ spc[s] = "lock" /\ ~Locked(picked[s])
    /\ StopStepTo(s, "settle")
    /\ UNCHANGED <<now, rowVars, journey, snapshots, stops, runVars, seen, picked>>

\* The lock is granted, and NEWER_STOP_SQL is read under it.
LockExecution(s) ==
    /\ spc[s] = "lock" /\ ~Locked(picked[s])
    /\ StopStepTo(s, IF AlreadyStopped(picked[s]) THEN "refused" ELSE "settle")
    /\ UNCHANGED <<now, rowVars, journey, snapshots, stops, runVars, seen, picked>>

\* What the stop says it caught the run doing.
During(s) ==
    LET was == status[picked[s]]
    IN  IF was = "running" THEN IF seen[s] THEN "finished" ELSE "running"
        ELSE IF was # "paused" /\ seen[s] THEN "finished"
        ELSE IF was \in {"failed", "abandoned"} THEN "running"
        ELSE "waiting"

\* _settle_execution, RECORD_STOP_SQL and the commit.
SettleExecution(s) ==
    /\ spc[s] = "settle"
    /\ \/ /\ status[picked[s]] = "running"
          /\ status' = [status EXCEPT ![picked[s]] = IF seen[s] THEN "succeeded" ELSE "abandoned"]
          /\ lease' = [lease EXCEPT ![picked[s]] = 0]
       \/ status[picked[s]] # "running" /\ UNCHANGED <<status, lease>>
    /\ stops' = Append(stops, [exec |-> picked[s], during |-> During(s)])
    /\ StopStepTo(s, "done")
    /\ UNCHANGED <<now, attempt, started, journey, snapshots, runVars, seen, picked>>

-----------------------------------------------------------------------------
Init ==
    /\ now = 0
    /\ status = [e \in Runs |-> "none"]
    /\ attempt = [e \in Runs |-> 0]
    /\ lease = [e \in Runs |-> 0]
    /\ started = [e \in Runs |-> 0]
    /\ journey = "active"
    /\ snapshots = <<>>
    /\ stops = <<>>
    /\ pc = [r \in Runs |-> "start"]
    /\ resume \in [Runs -> BOOLEAN]
    /\ target = [r \in Runs |-> None]
    /\ mem = [r \in Runs |-> NoMemory]
    /\ pulse = [r \in Runs |-> "off"]
    /\ orphans = {}
    /\ spc = [s \in Stops |-> "idle"]
    /\ seen = [s \in Stops |-> FALSE]
    /\ picked = [s \in Stops |-> None]

Claim(r) == \/ ReadBeforeClaim(r) \/ BeginClaim(r) \/ AbandonExpired(r) \/ ReadOwner(r)
            \/ InsertClaim(r) \/ CommitClaim(r)

Work(r) == \/ ReadAfterClaim(r) \/ InsertSnapshot(r) \/ CommitSnapshot(r)
           \/ FinishRun(r) \/ CancelRun(r) \/ ReleaseExecution(r)

Failure(r) == RollBackClaim(r) \/ FailSnapshot(r) \/ ReleaseFails(r)

Heartbeat(r) == RenewLease(r) \/ RenewFails(r)

StopStep(s) == \/ StopTarget(s) \/ StopRuntimeSession(s) \/ ReadSnapshotForStop(s)
               \/ PickLatest(s) \/ LockExecution(s) \/ SettleExecution(s)

Next == \/ \E r \in Runs : Claim(r) \/ Work(r) \/ Failure(r) \/ Heartbeat(r) \/ Die(r)
        \/ \E s \in Stops : StopStep(s)
        \/ Tick

Spec == Init /\ [][Next]_vars

-----------------------------------------------------------------------------
(* Properties. *)

Statuses == Terminals \cup {"none", "running", "abandoned"}
Labels   == InClaim \cup Working \cup {"start", "begin", "closing", "done"}

SnapshotRows == [by : Runs, base : Nat, step : 0..Steps]
StopRows == [exec : Runs, during : {"running", "finished", "waiting"}]
Memories == [ts : Nat, attempt : Nat, base : Nat, step : 0..Steps, terminal : Terminals]

\* Every variable holds a value of its type, for the columns, runs and stop requests.
TypeOK ==
    /\ now \in Nat
    /\ status \in [Runs -> Statuses]
    /\ attempt \in [Runs -> Nat]
    /\ lease \in [Runs -> Nat]
    /\ started \in [Runs -> Nat]
    /\ journey \in Terminals \cup {"active", "running"}
    /\ snapshots \in Seq(SnapshotRows)
    /\ stops \in Seq(StopRows)
    /\ pc \in [Runs -> Labels]
    /\ resume \in [Runs -> BOOLEAN]
    /\ target \in [Runs -> Runs \cup {None}]
    /\ mem \in [Runs -> Memories]
    /\ pulse \in [Runs -> {"off", "beat", "lost"}]
    /\ orphans \subseteq {r \in Runs : pc[r] \in InTransaction}
    /\ spc \in [Stops -> {"idle", "kill", "read", "pick", "lock", "settle", "done", "refused"}]
    /\ seen \in [Stops -> BOOLEAN]
    /\ picked \in [Stops -> Runs \cup {None}]
    /\ \A s \in Stops : spc[s] \in {"lock", "settle"} => picked[s] \in Runs

Owners == {e \in Runs : status[e] = "running"}

\* At most one execution of a thread is running, whatever claims, takeovers and
\* stops interleave.
OneRunning == \A e, f \in Owners : e = f

\* Every snapshot was computed from the one saved just before it: no worker
\* overwrites progress it has not seen.
LinearHistory == \A i \in 1..Len(snapshots) : snapshots[i].base = i - 1

\* A snapshot becomes visible only while its execution is still the running one: the
\* FOR SHARE fence holds off every takeover, release and stop until the commit.
SnapshotsByOwner ==
    [][\A i \in 1..Len(snapshots') :
          i > Len(snapshots) => status[snapshots'[i].by] = "running"]_vars

\* While an execution runs its journey says so: the late release of a worker that lost
\* the thread does not overwrite what the new owner set.
RunningJourney == Owners # {} => journey = "running"

\* Across crashes and takeovers the saved progress neither goes back nor skips a step.
ProgressKept == \A i \in 1..Len(snapshots) :
                   i > 1 => snapshots[i].step \in {snapshots[i-1].step, snapshots[i-1].step + 1}

\* Concurrent stops of one execution are serialised by its row lock: it is stopped once.
StopOnce == \A i, j \in 1..Len(stops) : stops[i].exec = stops[j].exec => i = j

\* _record_stop: "The stopped worker can no longer save a snapshot", not even one whose
\* insert was already in flight when the stop was recorded.
StoppedWritesNothing ==
    [][\A i \in 1..Len(snapshots') : i > Len(snapshots) =>
          \A j \in 1..Len(stops) : stops[j].exec # snapshots'[i].by]_vars

\* The whole implements a log with one writer at a time: the running execution owns it,
\* one that has left "running" is retired, and the entries are the snapshots.
Retired == {e \in Rows : status[e] # "running"}
Log == INSTANCE SingleWriterLog WITH
          Writers <- Runs, owners <- Owners, retired <- Retired,
          log <- [i \in 1..Len(snapshots) |->
                    [by |-> snapshots[i].by, base |-> snapshots[i].base]]
LogSpec == Log!Spec

-----------------------------------------------------------------------------
(* Why the safety properties hold: an inductive invariant. *)

\* A takeover's row is running, is held by that claim alone, and has no write in flight.
TakeoversExclusive ==
    /\ \A r \in Runs : target[r] # None =>
          pc[r] \in {"owner", "insert", "commit"} /\ target[r] \in Owners
          /\ pc[target[r]] # "writing"
    /\ \A q, r \in Runs : target[q] = target[r] /\ target[q] # None => q = r

\* An uncommitted new row is alone, and nothing runs but what its claim abandons.
InsertAlone ==
    \A q \in Runs : pc[q] = "commit" =>
        /\ Owners \subseteq {target[q]}
        /\ \A r \in Runs \ {q} : pc[r] # "commit" /\ target[r] = None

\* The row a run inserts is its own and new; a write in flight keeps its row running.
RowsFollowRuns ==
    \A r \in Runs : /\ pc[r] \in InClaim \cup {"start", "begin"} => status[r] = "none"
                    /\ pc[r] = "writing" => status[r] = "running"

\* The running execution's process works on the newest snapshot.
MemoryFresh ==
    \A r \in Owners :
        /\ pc[r] \in {"work", "writing"} => mem[r].base = Len(snapshots)
        /\ pc[r] = "work" => mem[r].step = LastStep
        /\ pc[r] = "writing" => mem[r].step \in {LastStep, LastStep + 1}

\* A stop that holds a row holds it alone; the row is not written, taken over or stopped.
StopsExclusive ==
    /\ \A s \in Stops : spc[s] = "lock" => picked[s] \in Rows
    /\ \A s \in Stops : spc[s] = "settle" =>
          /\ picked[s] \in Rows /\ pc[picked[s]] # "writing"
          /\ \A r \in Runs : target[r] # picked[s]
          /\ \A i \in 1..Len(stops) : stops[i].exec # picked[s]
    /\ \A s, t \in Stops :
          spc[s] = "settle" /\ spc[t] = "settle" /\ picked[s] = picked[t] => s = t

\* A stopped execution began before its stop and has retired.
StopsRetire ==
    /\ \A e \in Runs : started[e] <= Len(stops)
    /\ \A i \in 1..Len(stops) : stops[i].exec \in Retired /\ started[stops[i].exec] < i

\* The inductive invariant of the lease, the fence and the stops.
IInv ==
    /\ TypeOK
    /\ OneRunning /\ TakeoversExclusive /\ InsertAlone /\ RowsFollowRuns
    /\ MemoryFresh /\ LinearHistory /\ ProgressKept /\ RunningJourney
    /\ StopsExclusive /\ StopsRetire /\ StopOnce

-----------------------------------------------------------------------------
(* What a reader of the repository's documents expects, and the code does not keep. *)

\* "The next resume ... claims the next attempt": no two executions share one.
AttemptsDistinct == \A e, f \in Rows : attempt[e] = attempt[f] => e = f

\* A stop that finds the graph completed is "finished".
StopMatchesSnapshot == \A s \in Stops :
    spc[s] = "settle" /\ status[picked[s]] = "running" => seen[s] = Completed

\* The journey keeps the status set by whoever took the thread over, so with nothing
\* running and no claim to come it does not say "running".
JourneySettled ==
    (stops # <<>> /\ stops[Len(stops)].during = "finished" /\ Owners = {}) => journey # "running"

\* 409 "already stopped" is the answer only for a session that a stop has ended.
StopRefusedOnlyIfStopped == \A s \in Stops :
    spc[s] = "refused" => \E i \in 1..Len(stops) : stops[i].exec = picked[s]

(* What MCEnds takes to be owed.                                           *)
RunGoesOn(r) == pc[r] # "start" /\ (Claim(r) \/ Work(r))
TransactionEnds(r) == r \in orphans /\ Failure(r)   \* Aurora ends what a dead process left open
StopGoesOn(s) == spc[s] # "idle" /\ StopStep(s)
Begun(r) == pc[r] = "begin"
Over(r) == pc[r] = "done"
StopBegun(s) == spc[s] = "kill"
StopOver(s) == spc[s] \in {"done", "refused"}
=============================================================================
